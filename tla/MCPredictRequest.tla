-------------------------- MODULE MCPredictRequest --------------------------
(***************************************************************************)
(* PredictRequest for TLC: servables and what clients send to them.        *)
(***************************************************************************)
EXTENDS PredictRequest

Input(precision, shape, layout, prefix) ==
  [precision |-> precision, shape |-> shape, layout |-> layout, prefix |-> prefix]

Output(precision) == [precision |-> precision, shape |-> <<0, 2>>]

Model(inputs, batching, auto, out) ==
  [pipeline |-> FALSE, inputs |-> inputs, first |-> "a", batching |-> batching, auto |-> auto,
   output |-> Output(out)]

Pipeline(inputs) ==
  [pipeline |-> TRUE, inputs |-> inputs, first |-> "a", batching |-> "FIXED", auto |-> {},
   output |-> Output("FP32")]

One(input) == [n \in {"a"} |-> input]
Two(input) == [n \in {"a", "b"} |-> input]

\* Bodies.
Rest(o, node) ==
  [via |-> "rest", method |-> "POST", resource |-> "predict",
   body |-> [order |-> o, node |-> node]]

Other(method, resource) ==
  [Rest("row", Str) EXCEPT !.method = method, !.resource = resource]

\* Rows of numbers: 1, 2 or more; and some that not every precision holds.
Row(i) == Arr(<<Num(2 * i), Num(2 * i + 2)>>)
Odd == Arr(<<Arr(<<Num(0), Num(3)>>), Arr(<<Num(-2), Num(514)>>)>>)
Table1 == Arr(<<Row(1)>>)
Table2 == Arr(<<Row(1), Row(3)>>)
Ragged == Arr(<<Row(1), Arr(<<Num(6)>>)>>)
Deeper == Arr(<<Row(1), Arr(<<Arr(<<Num(3)>>), Arr(<<Num(4)>>)>>)>>)

Uneven == Arr(<<Row(1), Arr(<<Num(3)>>), Arr(<<Num(4), Num(5), Num(6)>>)>>)

Arrays == {Odd, Table1, Table2, Ragged, Deeper, Uneven, Arr(<<>>), Arr(<<Num(1), Num(2)>>), Str,
           Arr(<<Num(1), Row(1)>>), Arr(<<Row(1), Num(1)>>), Arr(<<Row(1), Arr(<<Num(1), Str>>)>>)}

\* An instance in row format for each of the inputs, and the inputs in column format.
Instance(ns, doc) == Obj([i \in DOMAIN ns |-> <<ns[i], doc>>])
Unnamed == {Rest(o, doc) : o \in {"row", "column", "both"}, doc \in Arrays}
Named(ns) ==
  {Rest("row", Arr(<<Instance(ns, Row(1)), Instance(ms, Row(3))>>)) : ms \in {ns, <<"a">>, <<"c">>, <<>>}}
    \cup {Rest("row", Arr(<<Instance(ns, Row(1)), Num(1)>>)), Rest("column", Obj(<<>>)),
          Rest("row", Arr(<<Instance(ns, Arr(<<Num(1)>>)), Instance(ns, Row(1))>>)),
          Rest("column", Obj(<<<<"a", Table1>>, <<"c", Arr(<<Str>>)>>>>))}
    \cup {Rest("column", Instance(ns, doc)) : doc \in {Table1, Table2, Ragged}}

Urls == {Other(m, u) : m \in {"GET", "POST", "PUT"},
                       u \in {"model", "metadata", "config", "reload", "escaped", "overflow", "classify"}}

\* Requests by gRPC.
Proto(dtype, dims, values) ==
  [dtype |-> dtype, dims |-> dims, strings |-> <<>>,
   content |-> IF dtype \in {"FP16", "U16"} THEN <<>> ELSE values,
   vals |-> IF dtype \in {"FP16", "U16"} THEN values ELSE <<>>]

Values(n) == [i \in 1 .. n |-> i]
Grpc(inputs) == [via |-> "grpc", inputs |-> inputs]

Dims == {<<1, 2>>, <<2, 2>>, <<3, 2>>, <<2, 1>>, <<0, 2>>, <<-1, 2>>, <<4>>, <<>>, <<8, 8>>}
Numbers(precisions) ==
  {Grpc(One(Proto(p, d, Values(k)))) : p \in precisions, d \in Dims, k \in {0, 2, 4, 6}}

\* Two inputs, of batch sizes that agree or not.
Pairs ==
  {Grpc([n \in {"a", "b"} |-> IF n = "a" THEN Proto("FP32", <<i, 2>>, Values(2 * i))
                                         ELSE Proto("FP32", <<j, 2>>, Values(2 * j))]) :
     i \in 1 .. 2, j \in 1 .. 2}

\* The same by REST, in column format.
RestPairs ==
  {Rest("column", Obj(<<<<"a", t>>, <<"b", u>>>>)) : t, u \in {Table1, Table2}}

\* Images.
Image(id, rows, cols, channels) == [id |-> id, rows |-> rows, cols |-> cols, channels |-> channels]
Small == Image("s", 1, 1, 1)
Large == Image("l", 2, 2, 1)
Colour == Image("c", 1, 1, 3)
Images == {Small, Large, Colour, Image("x", 0, 0, 0), Image("", 0, 0, 0)}

Binary(dims, images) ==
  Grpc(One([dtype |-> "STRING", dims |-> dims, content |-> <<>>, vals |-> <<>>, strings |-> images]))

BinaryTraffic ==
  {Binary(<<Len(s)>>, s) : s \in {<<>>} \cup {<<i>> : i \in Images} \cup {<<i, j>> : i, j \in Images}}
    \cup {Binary(<<1, 1>>, <<Small>>), Binary(<<2>>, <<Small>>),
          Rest("row", Arr(<<B64(Small), B64(Large)>>)), Rest("column", Arr(<<B64(Large)>>)),
          Rest("row", Arr(<<Instance(<<"a">>, B64(Large)), Instance(<<"a">>, B64(Small))>>)),
          Rest("row", Arr(<<B64(Small), Num(1)>>)), Rest("row", Arr(<<Num(1), B64(Small)>>)),
          Rest("row", Arr(<<B64(NotBase64)>>)), Rest("column", Obj(<<<<"c", Arr(<<B64(Small)>>)>>>>))}

\* With a demultiplexing entry the batch of a node is at most 1 (checkForRestrictedBatchSize).
ImageShapes == {<<1, 1, 2, 2>>, <<2, 1, 1, 1>>}

\* All that is sent alone is served by a model or pipeline nobody else uses.
Alone ==
  {[servable |-> Model(One(Input(p, <<2, 2>>, "ANY", <<>>)), "FIXED", {}, out),
    traffic |-> Unnamed \cup Named(<<"a">>) \cup Urls \cup Numbers(Precisions)] :
     p \in Precisions, out \in {"FP32", "FP16", "I64", "BOOL", "U8"}}
    \cup {[servable |-> Model(Two(Input("FP32", <<2, 2>>, "ANY", <<>>)), "FIXED", {}, "FP32"),
           traffic |-> Named(<<"a", "b">>) \cup Unnamed \cup Pairs]}
    \cup {[servable |-> Pipeline(One(Input(p, s, "ANY", <<>>))),
           traffic |-> Unnamed \cup Numbers(Precisions)] :
            p \in Precisions, s \in {<<0, 0>>, <<2, 0>>, <<1, 2>>}}
    \cup {[servable |-> Model(One(Input(p, s, l, <<>>)), b, {}, "FP32"), traffic |-> BinaryTraffic] :
            p \in {"FP32", "I64"}, s \in ImageShapes, l \in {"NHWC", "NCHW"}, b \in {"FIXED", "AUTO"}}
    \cup {[servable |-> Pipeline(One(Input("U8", s, l, <<>>))), traffic |-> BinaryTraffic] :
            s \in ImageShapes, l \in {"NHWC", "NCHW"}}
    \cup {[servable |-> Pipeline(One(Input("U8", <<1, 1, 2, 2>>, l, x))), traffic |-> BinaryTraffic] :
            l \in {"NHWC", "NCHW"}, x \in {<<0>>, <<2>>}}
    \cup {[servable |-> Pipeline(One(Input("U8", s, "ANY", <<>>))), traffic |-> BinaryTraffic] :
            s \in {<<0, 0, 0, 0>>, <<1, 2, 2, 1>>, <<2, 2, 2, 0>>, <<2, 2>>}}

\* What is sent together: to models whose batch size or shape follows the requests.
Automatic ==
  {Rest("row", Table1), Rest("row", Table2), Grpc(One(Proto("FP32", <<3, 2>>, Values(6)))),
   Grpc(One(Proto("FP32", <<1, 1>>, Values(1)))), Grpc(One(Proto("FP32", <<0, 2>>, <<>>))), Other("GET", "model")}

Together ==
  {[servable |-> Model(One(Input("FP32", <<1, 2>>, "ANY", <<>>)), b, x, "FP32"), traffic |-> Automatic] :
     b \in {"FIXED", "AUTO"}, x \in {{}, {"a"}}}
    \cup {[servable |-> Model(Two(Input("FP32", <<1, 2>>, "ANY", <<>>)), "AUTO", {}, "FP32"),
           traffic |-> Pairs \cup RestPairs]}

\* Tensors of four dimensions, to models whose shape follows the requests in either layout.
Blocks == {Grpc(One(Proto("FP32", d, Values(Product(d))))) : d \in {<<1, 1, 2, 2>>, <<1, 2, 2, 1>>, <<2, 1, 1, 3>>}}
Reshaped ==
  {[servable |-> Model(One(Input("FP32", <<1, 1, 2, 2>>, l, <<>>)), "FIXED", {"a"}, "FP32"), traffic |-> Blocks] :
     l \in {"NHWC", "NCHW"}}

\* One request, or two at once.
First == CHOOSE r \in Requests : TRUE
Single(t) == [r \in Requests |-> IF r = First THEN t ELSE Unsent]

MCScenarios ==
  {[s EXCEPT !.traffic = {Single(t) : t \in @}] : s \in Alone}
    \cup {[s EXCEPT !.traffic = [Requests -> @]] :
            s \in Reshaped \cup {x \in Together : x.servable.batching = "FIXED" \/ x.servable.auto = {}}}
=============================================================================
