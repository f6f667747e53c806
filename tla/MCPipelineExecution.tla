------------------------ MODULE MCPipelineExecution ------------------------
(***************************************************************************)
(* PipelineExecution for TLC: four small validated pipelines.              *)
(***************************************************************************)
EXTENDS PipelineExecution

Graph(next, kind, demultiply, gather) ==
  [nodes |-> DOMAIN next, entry |-> "request", exit |-> "response", next |-> next, kind |-> kind,
   demultiply |-> demultiply @@ [n \in DOMAIN next |-> NoDemultiplexer],
   gather |-> gather @@ [n \in DOMAIN next |-> {}]]

\* Two branches, one of them with two DL nodes in a row.
Branches ==
  Graph([request |-> {"a", "b"}, a |-> {"c"}, b |-> {"response"},
         c |-> {"response"}, response |-> {}],
        [request |-> "entry", a |-> "dl", b |-> "dl", c |-> "dl",
         response |-> "exit"],
        <<>>, <<>>)

\* A custom node demultiplexes to two DL nodes.
Fan ==
  Graph([request |-> {"split"}, split |-> {"a", "b"}, a |-> {"response"},
         b |-> {"response"}, response |-> {}],
        [request |-> "entry", split |-> "custom", a |-> "dl", b |-> "dl",
         response |-> "exit"],
        [split |-> 2], [response |-> {"split"}])

\* The request is demultiplexed, into as many shards as it has.
Dynamic ==
  Graph([request |-> {"a"}, a |-> {"response"}, response |-> {}],
        [request |-> "entry", a |-> "dl", response |-> "exit"],
        [request |-> 0], [response |-> {"request"}])

\* Nested demultiplexers of different sizes, gathered together.
Nested ==
  Graph([request |-> {"split"}, split |-> {"each"}, each |-> {"response"},
         response |-> {}],
        [request |-> "entry", split |-> "custom", each |-> "custom",
         response |-> "exit"],
        [request |-> 2, split |-> 3], [response |-> {"request", "split"}])

AllGraphs == {Branches, Fan, Dynamic, Nested}
=============================================================================
