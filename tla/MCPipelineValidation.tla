------------------------ MODULE MCPipelineValidation ------------------------
(***************************************************************************)
(* PipelineValidation for TLC: the configurations of the run.              *)
(***************************************************************************)
EXTENDS PipelineValidation

Middle == {"a", "b"}
Sources == Middle \cup {"request"}
NonEmpty(s) == SUBSET s \ {{}}

\* A node with one input for each node it depends on, named after that node.
Node(kind, demux, gather, deps, in, out) ==
  [kind |-> kind, demux |-> demux, gather |-> gather, deps |-> [p \in deps |-> p],
   inputs |-> [p \in deps |-> in], out |-> out, ready |-> TRUE]

Config(demux, a, b, outputs, one) ==
  [demux |-> demux, nodes |-> [n \in Middle |-> IF n = "a" THEN a ELSE b],
   outputs |-> [p \in outputs |-> p], shared |-> one]

\* Every graph of two nodes of which one may demultiplex, as the entry may, with shapes
\* that fit: a node that demultiplexes or gathers has one more dimension.
Fitting(demux, gather, deps) ==
  Node("CUSTOM", demux, gather, deps,
       IF gather = {} THEN <<1, 4>> ELSE <<0, 1, 4>>,
       IF demux = NoDemux THEN <<1, 4>> ELSE <<demux, 1, 4>>)

GraphNodes(counts) ==
  {Fitting(demux, gather, deps) : demux \in counts,
     gather \in {{}} \cup {{d} : d \in Sources}, deps \in NonEmpty(Sources)}

Graphs ==
  {Config(demux, a, b, outputs, FALSE) :
     demux \in {NoDemux, 2}, a \in GraphNodes({NoDemux, 3}), b \in GraphNodes({NoDemux}),
     outputs \in NonEmpty(Sources)}

\* A chain of two nodes with any shapes of two or three dimensions.
Dims == {0, 1, 2}
Shapes == {<<1, 4>>} \cup {<<d, 1, 4>> : d \in Dims} \cup {<<d, 2, 1, 4>> : d \in Dims}
Chains ==
  {Config(NoDemux, Node(k, demux, {}, {"request"}, <<1, 4>>, out),
          Node("DL", NoDemux, gather, {"a"} \cup also, in, <<1, 4>>), {"b"}, one) :
     k \in {"DL", "CUSTOM"}, demux \in {NoDemux, 0, 2}, out \in Shapes,
     gather \in {{}, {"a"}, {"request", "a"}}, also \in {{}, {"request"}}, in \in Shapes,
     one \in BOOLEAN}

Sane == Node("DL", NoDemux, {}, {"request"}, <<1, 4>>, <<1, 4>>)

\* Two nodes and perhaps the response that read one input.
SharedInputs ==
  {Config(demux, Node(k, NoDemux, {}, {"request"}, in, <<1, 4>>), Sane, {"a", "b"} \cup also, TRUE) :
     demux \in {NoDemux, 2}, k \in {"DL", "CUSTOM"}, in \in {<<1, 4>>, <<1, 2>>},
     also \in {{}, {"request"}}}

\* Configurations that refer to what does not exist or leave an input open.
Broken ==
  {Config(NoDemux, a, Sane, {"a", "b"}, FALSE) :
     a \in {Node("DL", NoDemux, {}, {"response"}, <<1, 4>>, <<1, 4>>),
            Node("DL", NoDemux, {}, {"missing"}, <<1, 4>>, <<1, 4>>),
            Node("DL", NoDemux, {"missing"}, {"request"}, <<1, 4>>, <<1, 4>>),
            [Sane EXCEPT !.ready = FALSE], [Sane EXCEPT !.kind = "EXIT"],
            [Sane EXCEPT !.deps = [p \in {"request", "b"} |-> "request"]],
            [Sane EXCEPT !.inputs = [p \in {"request", "open"} |-> <<1, 4>>]]}}

MCConfigs == Graphs \cup Chains \cup SharedInputs \cup Broken
=============================================================================
