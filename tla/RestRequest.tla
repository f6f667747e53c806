----------------------------- MODULE RestRequest -----------------------------
(***************************************************************************)
(* The REST front of a predict request: the URL                            *)
(* (src/src/http_rest_api_handler.cpp) and the parser of the JSON body     *)
(* (src/src/rest_parser.cpp) that fills the tensors of a request.          *)
(*                                                                         *)
(* A JSON value is a record [k, v]: a number, counted in halves, a string, *)
(* an array with the sequence of its elements, an object with the sequence of *)
(* its members <<name, value>>, or the object {"b64": ...} with the image  *)
(* it encodes.  A body is [order, node], where order says which of         *)
(* "instances" and "inputs" it has.  The inputs of stateful models         *)
(* (parseSpecialInput) are not among the names.                            *)
(***************************************************************************)
EXTENDS RequestTensors

Num(h) == [k |-> "num", v |-> h]
Str == [k |-> "str", v |-> 0]
Arr(elements) == [k |-> "arr", v |-> elements]
Obj(members) == [k |-> "obj", v |-> members]
B64(image) == [k |-> "b64", v |-> image]

\* What decodeBase64 cannot decode.
NotBase64 == [id |-> "not base64", rows |-> 0, cols |-> 0, channels |-> 0]

(***************************************************************************)
(* parseRequestComponents and dispatchToProcessor: what a method and a     *)
(* resource ask for.  An "overflow" has a version no int64 holds, an       *)
(* "escaped" path has "..".                                                *)
(***************************************************************************)
RequestType(method, resource) ==
  CASE method \notin {"GET", "POST"} \/ resource \in {"escaped", "overflow"} -> "ERROR"
    [] method = "POST" /\ resource = "predict" -> "Predict"
    [] method = "POST" /\ resource = "reload" -> "ConfigReload"
    [] method = "GET" /\ resource = "model" -> "GetModelStatus"
    [] method = "GET" /\ resource = "metadata" -> "GetModelMetadata"
    [] method = "GET" /\ resource = "config" -> "ConfigStatus"
    [] OTHER -> "ERROR"

(***************************************************************************)
(* The parser; an error is a tensor or a set of tensors that is not ok.    *)
(***************************************************************************)
Bad(p) == [p EXCEPT !.ok = FALSE]

\* The constructor: an empty tensor of the declared precision.
Preallocated(precision) ==
  [ok |-> TRUE, dtype |-> precision, dims |-> <<>>, content |-> <<>>, vals |-> <<>>,
   strings |-> <<>>]

\* A tensor that the servable does not have; setDTypeIfNotSet types it by its first
\* value.
Unknown == Preallocated("INVALID")


\* increaseBatchSize.
IncreaseBatchSize(p) ==
  [p EXCEPT !.dims = IF @ = <<>> THEN <<1>> ELSE [@ EXCEPT ![1] = @ + 1]]

\* Mutant: only the first array of a depth counts.
SetDimOnce(p, dim, size) ==
  IF Len(p.dims) >= dim THEN p
  ELSE [p EXCEPT !.dims = @ \o [i \in 1 .. dim - Len(@) |-> IF i = dim - Len(@) THEN size ELSE 0]]

\* setDimOrValidate; dimensions are numbered from 1.
SetDimOrValidate(p, dim, size) ==
  IF Len(p.dims) >= dim
  THEN IF p.dims[dim] = size THEN p ELSE Bad(p)
  ELSE [p EXCEPT !.dims = @ \o [i \in 1 .. dim - Len(@) |-> IF i = dim - Len(@) THEN size ELSE 0]]

\* setDTypeIfNotSet.
SetDTypeIfNotSet(p, value) ==
  IF p.dtype # "INVALID" THEN p
  ELSE IF value.k # "num" THEN Bad(p)
  ELSE [p EXCEPT !.dtype = IF value.v % 2 = 0 THEN "I32" ELSE "FP32"]

\* A number as an integer: its fraction is dropped.
Truncated(h) == IF h >= 0 THEN h \div 2 ELSE -((-h) \div 2)

\* addToTensorContent: static_cast to the type of the tensor.
StaticCast(dtype, h) == IF dtype = "FP32" THEN h ELSE Wrap(Truncated(h), SizeOf(dtype))

\* addValue: an image makes the tensor one of strings; numbers for half and 16 bit
\* unsigned inputs go to half_val and int_val (addToHalfVal, addToIntVal) as integers,
\* the others to tensor_content; no number fits a tensor of strings.
AddValue(p, value) ==
  IF ~p.ok THEN p
  ELSE IF value.k = "b64" /\ value.v = NotBase64 THEN Bad(p)
  ELSE IF value.k = "b64" THEN [p EXCEPT !.strings = Append(@, value.v), !.dtype = "STRING"]
  ELSE IF value.k # "num" \/ p.dtype \in {"STRING", "BOOL", "INVALID"} THEN Bad(p)
  ELSE IF p.dtype \in {"FP16", "U16"} THEN [p EXCEPT !.vals = Append(@, Truncated(value.v))]
  ELSE [p EXCEPT !.content = Append(@, StaticCast(p.dtype, value.v))]

\* FoldLeft; x is bound so that TLC evaluates each step once.
RECURSIVE Through(_, _, _)
Through(op(_, _), start, seq) ==
  IF seq = <<>> THEN start
  ELSE CHOOSE end \in {Through(op, x, Tail(seq)) : x \in {op(start, Head(seq))}} : TRUE

\* parseArray.
RECURSIVE ParseArray(_, _, _)
ParseArray(p, doc, dim) ==
  IF ~p.ok THEN p
  ELSE IF doc.k = "b64" THEN AddValue(p, doc)
  ELSE IF doc.k # "arr" THEN Bad(p)
  ELSE IF doc.v = <<>> THEN Bad(p)
  ELSE LET sized == SetDimOrValidate(p, dim, Len(doc.v))
       IN  IF ~sized.ok THEN sized
           ELSE IF Head(doc.v).k = "arr"
           THEN Through(LAMBDA q, e : ParseArray(q, e, dim + 1), sized, doc.v)
           ELSE Through(AddValue, SetDTypeIfNotSet(sized, Head(doc.v)), doc.v)

\* The tensor of a name, as operator[] of the map of inputs finds or makes it.
TensorNamed(tensors, n) == IF n \in DOMAIN tensors THEN tensors[n] ELSE Unknown

With(tensors, n, p) ==
  [x \in DOMAIN tensors \cup {n} |-> IF x = n THEN p ELSE tensors[x]]

\* The members of an object, one after the other; batched: it is one instance
\* (parseInstance), whose tensors grow by one.
ParseMembers(tensors, members, batched) ==
  Through(LAMBDA ts, m :
             LET p == TensorNamed(ts, m[1])
             IN  With(ts, m[1], IF batched THEN ParseArray(IncreaseBatchSize(p), m[2], 2)
                                ELSE ParseArray(p, m[2], 1)),
           tensors, members)

AllOk(tensors) == \A n \in DOMAIN tensors : tensors[n].ok

\* removeUnusedInputs.
UsedInputs(tensors) ==
  [n \in {x \in DOMAIN tensors : tensors[x].dims # <<>>} |-> tensors[n]]

\* isBatchSizeEqualForAllInputs.
BatchSizeEqualForAllInputs(tensors) ==
  \A n, o \in DOMAIN tensors : tensors[n].dims[1] = tensors[o].dims[1]

Parsed(ok, order, tensors) == [ok |-> ok, order |-> order, tensors |-> tensors]

\* A body without names, for a servable with one input.
ParseUnnamed(tensors, node, order) ==
  LET n == CHOOSE x \in DOMAIN tensors : TRUE
      p == ParseArray(tensors[n], node, 1)
  IN  IF Cardinality(DOMAIN tensors) # 1 THEN Parsed(FALSE, order, tensors)
      ELSE Parsed(p.ok, order, With(tensors, n, p))

\* parseRowFormat.
ParseRowFormat(tensors, node) ==
  IF node.k # "arr" THEN Parsed(FALSE, "row", tensors)
  ELSE IF node.v = <<>> THEN Parsed(FALSE, "row", tensors)
  ELSE IF Head(node.v).k = "obj"
  THEN LET objects == \A i \in DOMAIN node.v : node.v[i].k = "obj" /\ node.v[i].v # <<>>
           filled == Through(LAMBDA ts, e : ParseMembers(ts, e.v, TRUE), tensors, node.v)
           used == UsedInputs(filled)
       IN  IF objects
           THEN Parsed(AllOk(filled) /\ BatchSizeEqualForAllInputs(used), "row", used)
           ELSE Parsed(FALSE, "row", tensors)
  ELSE IF Head(node.v).k \in {"arr", "num", "b64"} THEN ParseUnnamed(tensors, node, "row")
  ELSE Parsed(FALSE, "row", tensors)

\* parseColumnFormat.
ParseColumnFormat(tensors, node) ==
  IF node.k = "arr" THEN ParseUnnamed(tensors, node, "column")
  ELSE IF node.k # "obj" THEN Parsed(FALSE, "column", tensors)
  ELSE LET filled == ParseMembers(tensors, node.v, FALSE)
       IN  Parsed(node.v # <<>> /\ AllOk(filled), "column", UsedInputs(filled))

\* RestParser::parse, for a servable with inputs of these precisions.
Parse(precisions, body) ==
  LET tensors == [n \in DOMAIN precisions |-> Preallocated(precisions[n])]
  IN  CASE body.order = "row" -> ParseRowFormat(tensors, body.node)
        [] body.order = "column" -> ParseColumnFormat(tensors, body.node)
        [] OTHER -> Parsed(FALSE, "unknown", tensors)

(***************************************************************************)
(* What a body says, to compare the parser with: the values for a name in  *)
(* the order of the text, and whether all arrays of a depth have the size  *)
(* of that dimension.                                                      *)
(***************************************************************************)
RECURSIVE Leaves(_, _)
Leaves(doc, kind) ==
  IF doc.k = "arr" THEN FlattenSeq([i \in DOMAIN doc.v |-> Leaves(doc.v[i], kind)])
  ELSE IF doc.k = kind THEN <<doc.v>> ELSE <<>>

RECURSIVE Sized(_, _)
Sized(doc, dims) ==
  doc.k = "arr" => /\ dims # <<>> /\ Len(doc.v) = Head(dims)
                   /\ \A i \in DOMAIN doc.v : Sized(doc.v[i], Tail(dims))

MemberOf(members, n) == SelectSeq(members, LAMBDA m : m[1] = n)

\* The array of what the body gives for a name, one element for each instance.
Given(body, n) ==
  LET of(members) == [i \in DOMAIN MemberOf(members, n) |-> MemberOf(members, n)[i][2]]
  IN  IF body.node.k = "obj" THEN Head(of(body.node.v))
      ELSE IF Head(body.node.v).k = "obj"
      THEN Arr(FlattenSeq([i \in DOMAIN body.node.v |-> of(body.node.v[i].v)]))
      ELSE body.node

\* The numbers that an input of this precision can hold, and the value that stands for
\* such a number.  Of the half precision ones only zero: addToHalfVal takes a number for
\* the bits of one.
Holds(precision, h) ==
  CASE precision = "FP32" -> TRUE
    [] precision = "FP16" -> h = 0
    [] OTHER -> h >= 0 /\ h % 2 = 0 /\ h \div 2 = Wrap(h \div 2, SizeOf(precision))
ValueOf(precision, h) == IF precision = "FP32" THEN h ELSE h \div 2

\* The dimensions of an array of numbers, and whether it is one.
RECURSIVE DimsOf(_)
DimsOf(doc) == IF doc.k = "arr" /\ doc.v # <<>> THEN <<Len(doc.v)>> \o DimsOf(Head(doc.v)) ELSE <<>>

RECURSIVE IsTable(_, _)
IsTable(doc, dims) ==
  IF dims = <<>> THEN doc.k = "num"
  ELSE /\ doc.k = "arr" /\ Len(doc.v) = Head(dims)
       /\ \A i \in DOMAIN doc.v : IsTable(doc.v[i], Tail(dims))

\* The body gives each of the names once: by name, in every instance, or without names.
GivesOnce(body, names) ==
  LET once(members) == /\ {members[i][1] : i \in DOMAIN members} = names
                       /\ Len(members) = Cardinality(names)
  IN  \/ body.order = "column" /\ body.node.k = "obj" /\ once(body.node.v)
      \/ /\ body.order = "row" /\ body.node.k = "arr" /\ body.node.v # <<>>
         /\ \A i \in DOMAIN body.node.v : body.node.v[i].k = "obj" /\ once(body.node.v[i].v)
      \/ /\ body.order \in {"row", "column"} /\ Cardinality(names) = 1
         /\ IsTable(body.node, DimsOf(body.node))
=============================================================================
