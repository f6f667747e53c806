----------------------- MODULE MCPipelineDefinition -------------------------
(***************************************************************************)
(* PipelineDefinition for TLC: the definitions of the run.                 *)
(***************************************************************************)
EXTENDS PipelineDefinition

CONSTANTS m1, m2

Graph(i, o, s) == [inputs |-> i, outputs |-> o, sound |-> s]

\* One model, a chain of two models, and a definition with an unsound graph.
MCGraphs == {Graph({m1}, {m1}, TRUE), Graph({m1}, {m2}, TRUE), Graph({m2}, {m2}, FALSE)}

\* Both models can be used; one is not there yet; one has dynamic parameters.
MCInitialKinds ==
  {[m \in {m1, m2} |-> "fit"], [m \in {m1, m2} |-> IF m = m1 THEN "fit" ELSE "absent"],
   [m \in {m1, m2} |-> IF m = m1 THEN "dynamic" ELSE "fit"]}
=============================================================================
