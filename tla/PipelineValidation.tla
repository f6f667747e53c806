------------------------- MODULE PipelineValidation -------------------------
(***************************************************************************)
(* The validation of a pipeline definition (validateNodes with             *)
(* NodeValidator, validateForCycles,                                       *)
(* validateDemultiplexerGatherNodesOrder, updateInputsInfo and             *)
(* updateOutputsInfo in src/src/pipelinedefinition.cpp) from what          *)
(* processPipelineConfig reads (src/src/modelmanager.cpp), against what    *)
(* the execution of the pipeline does with sessions and shards             *)
(* (module NodeSessionMetadata).                                           *)
(*                                                                         *)
(* A tensor is its shape, a sequence of dimensions in which 0 is any size; *)
(* precisions are compared as the dimensions are and are left out.  A node *)
(* has one output and one input for each node it depends on.  The two      *)
(* graph searches go step by step, in any order of the unordered maps they *)
(* iterate over.                                                           *)
(***************************************************************************)
EXTENDS Integers, Sequences, FiniteSets, SequencesExt, NodeSessionMetadata

CONSTANTS Configs,     \* pipeline configurations: [demux, nodes, outputs, shared]
          Entry, Exit  \* the names of the entry and of the exit node

VARIABLES nodes,       \* nodeInfos and connections: from names to nodes
          shared,      \* all nodes read the same pipeline input
          phase,
          keys,        \* the nodes that have an element in connections
          name, visited, parents,          \* validateForCycles
          toCheck, at, left, stacks,       \* validateDemultiplexerGatherNodesOrder
          inputsInfo, outputsInfo

search == <<name, visited, parents>>
order == <<toCheck, at, left, stacks>>
vars == <<nodes, shared, phase, keys, search, order, inputsInfo, outputsInfo>>

NoDemux == -1
Unspecified == <<>>
IsDemux(n) == nodes[n].demux # NoDemux
Deps(n) == DOMAIN nodes[n].deps

\* No node is visited yet.
Nowhere == [node |-> Exit, stack |-> <<>>]

(***************************************************************************)
(* processPipelineConfig: the exit node gathers from the demultiplexers    *)
(* that no node gathers from.                                              *)
(***************************************************************************)
Pipeline(c) ==
  LET middle == DOMAIN c.nodes
      demultiplexers == {n \in middle : c.nodes[n].demux # NoDemux}
                          \cup (IF c.demux # NoDemux THEN {Entry} ELSE {})
      gathered == UNION {c.nodes[n].gather : n \in middle}
      entry == [kind |-> "ENTRY", demux |-> c.demux, gather |-> {}, deps |-> <<>>,
                inputs |-> <<>>, out |-> Unspecified, ready |-> TRUE]
      exit == [kind |-> "EXIT", demux |-> NoDemux, gather |-> demultiplexers \ gathered,
               deps |-> c.outputs, inputs |-> <<>>, out |-> Unspecified, ready |-> TRUE]
  IN  [n \in middle \cup {Entry, Exit} |->
         IF n = Entry THEN entry ELSE IF n = Exit THEN exit ELSE c.nodes[n]]

Init ==
  /\ \E c \in Configs : nodes = Pipeline(c) /\ shared = c.shared
  /\ phase = "nodes"
  /\ keys = {n \in DOMAIN nodes : Deps(n) # {}}
  /\ name = Exit /\ visited = {Exit} /\ parents = <<>>
  /\ toCheck = <<>> /\ at = Nowhere /\ left = {} /\ stacks = <<>>
  /\ inputsInfo = <<>> /\ outputsInfo = <<>>

(***************************************************************************)
(* NodeValidator.                                                          *)
(***************************************************************************)

\* Mutant: the dimension a gathering node adds is not checked.
ShapeFitsAnyDemultiplexer(shape, d) == IsDemux(d) => Len(shape) >= 3

\* validateShapeWithDemultiplexer.
ShapeFitsDemultiplexer(shape, d) ==
  IsDemux(d) => /\ Len(shape) >= 3
                /\ nodes[d].demux # 0 /\ shape[1] # 0 => shape[1] = nodes[d].demux

\* influenceShapeWithDemultiplexer, on the side of the node that gathers.
GatheredShapeFits(shape, d) == ShapeFitsDemultiplexer(shape, d) /\ Len(shape) >= 1

\* areShapesMatching.
AreShapesMatching(s, t) ==
  Len(s) = Len(t) /\ \A i \in DOMAIN s : s[i] = t[i] \/ s[i] = 0 \/ t[i] = 0

\* checkConnectionMetadataCorrectness.
ConnectionFits(p, n, input) ==
  LET given == IF IsDemux(p) THEN Tail(nodes[p].out) ELSE nodes[p].out
      wanted == nodes[n].inputs[input]
      gather == nodes[n].gather
  IN  /\ ShapeFitsDemultiplexer(nodes[p].out, p)
      /\ Cardinality(gather) <= 1
      /\ \A d \in gather : GatheredShapeFits(wanted, d)
      /\ AreShapesMatching(IF gather = {} THEN wanted ELSE Tail(wanted), given)

\* validateGatherNode.
GatherFits(n) == \A d \in nodes[n].gather : d \in DOMAIN nodes /\ IsDemux(d)

\* checkForRestrictedBatchSize: batches only where nothing is demultiplexed.
BatchFits(n) ==
  (\E d \in DOMAIN nodes : IsDemux(d)) /\ nodes[n].gather = {} =>
    \A i \in DOMAIN nodes[n].inputs : nodes[n].inputs[i] # <<>> => nodes[n].inputs[i][1] < 2

\* getDependencyNodeInfo: the dependency exists and is not the exit node.
DependencyFits(p) == p \in DOMAIN nodes /\ nodes[p].kind # "EXIT"

\* markInputAsConnected and ensureAllModelInputsOfValidatedNodeHaveDataSource:
\* every input has exactly one source.
InputsConnected(n) ==
  /\ Range(nodes[n].deps) = DOMAIN nodes[n].inputs
  /\ \A p, q \in Deps(n) : nodes[n].deps[p] = nodes[n].deps[q] => p = q

Computes(n) == nodes[n].kind \in {"DL", "CUSTOM"}

\* NodeValidator::validate; ready: the model is loaded and not dynamic, the library
\* is valid and its metadata can be read, the outputs it names exist.
NodeFits(n) ==
  /\ nodes[n].ready
  /\ Computes(n) => BatchFits(n) /\ ShapeFitsDemultiplexer(nodes[n].out, n)
  /\ GatherFits(n)
  /\ \A p \in Deps(n) : DependencyFits(p)
  /\ Computes(n) => InputsConnected(n)
  /\ \A p \in Deps(n) : Computes(n) /\ Computes(p) => ConnectionFits(p, n, nodes[n].deps[p])

\* validateNodes: one entry, one exit, no second demultiplexer beside a dynamic one.
Demultiplexers == {n \in DOMAIN nodes : IsDemux(n)}
NodesFit ==
  /\ \A k \in {"ENTRY", "EXIT"} : Cardinality({n \in DOMAIN nodes : nodes[n].kind = k}) = 1
  /\ (\E n \in Demultiplexers : nodes[n].demux = 0) => Cardinality(Demultiplexers) = 1
  /\ \A n \in DOMAIN nodes : NodeFits(n)

ValidateNodes ==
  /\ phase = "nodes"
  /\ phase' = IF NodesFit THEN "cycles" ELSE "rejected"
  /\ UNCHANGED <<nodes, shared, keys, search, order, inputsInfo, outputsInfo>>

(***************************************************************************)
(* validateForCycles: a depth-first search against the connections.        *)
(***************************************************************************)
OnPath == {name} \cup ToSet(parents)

Descend(p) ==
  /\ phase = "cycles" /\ p \in Deps(name) \ visited
  /\ parents' = Append(parents, name) /\ visited' = visited \cup {p} /\ name' = p
  /\ keys' = keys \cup {name}
  /\ UNCHANGED <<nodes, shared, phase, order, inputsInfo, outputsInfo>>

FindCycle ==
  /\ phase = "cycles" /\ Deps(name) \cap OnPath # {}
  /\ phase' = "rejected"
  /\ UNCHANGED <<nodes, shared, keys, search, order, inputsInfo, outputsInfo>>

Exhausted == phase = "cycles" /\ Deps(name) \subseteq visited \ OnPath

Backtrack ==
  /\ Exhausted /\ parents # <<>>
  /\ name' = Last(parents) /\ parents' = Front(parents)
  /\ keys' = keys \cup {name}
  /\ UNCHANGED <<nodes, shared, phase, visited, order, inputsInfo, outputsInfo>>

\* The search is over: nodes it has not seen are not connected to the exit node.
\* The order of the demultiplexers is checked next, from the exit node.
EndSearch ==
  /\ Exhausted /\ parents = <<>>
  /\ keys' = keys \cup {name}
  /\ IF visited = DOMAIN nodes
       THEN /\ phase' = "order"
            /\ toCheck' = <<[node |-> Exit, stack |-> IF nodes[Exit].gather = {} THEN <<>>
                                                      ELSE <<nodes[Exit].gather>>]>>
       ELSE phase' = "rejected" /\ UNCHANGED toCheck
  /\ UNCHANGED <<nodes, shared, search, at, left, stacks, inputsInfo, outputsInfo>>

(***************************************************************************)
(* validateDemultiplexerGatherNodesOrder: back from the exit node with a   *)
(* stack of the sets of demultiplexers that are still to be met.           *)
(***************************************************************************)
MeetsDemultiplexer(stack, p) == IsDemux(p) => stack # <<>> /\ p \in Last(stack)

Popped(stack, p) ==
  IF ~ IsDemux(p) THEN stack
  ELSE LET rest == Last(stack) \ {p}
       IN  IF rest = {} THEN Front(stack) ELSE Append(Front(stack), rest)

NewStack(stack, p) ==
  LET popped == Popped(stack, p)
  IN  IF nodes[p].gather = {} THEN popped ELSE Append(popped, nodes[p].gather)

TakeNode ==
  /\ phase = "order" /\ left = {} /\ toCheck # <<>>
  /\ at' = Last(toCheck) /\ toCheck' = Front(toCheck)
  /\ left' = Deps(Last(toCheck).node)
  /\ UNCHANGED <<nodes, shared, phase, keys, search, stacks, inputsInfo, outputsInfo>>

\* Mutant: paths that come to a node with different stacks are not compared.
CheckFirstPath(p) ==
  /\ phase = "order" /\ p \in left
  /\ left' = left \ {p}
  /\ LET stack == NewStack(at.stack, p)
     IN  IF ~ MeetsDemultiplexer(at.stack, p) \/ (p = Entry /\ stack # <<>>)
           THEN phase' = "rejected" /\ UNCHANGED <<toCheck, stacks>>
         ELSE IF p \in DOMAIN stacks THEN UNCHANGED <<phase, toCheck, stacks>>
         ELSE /\ toCheck' = Append(toCheck, [node |-> p, stack |-> stack])
              /\ stacks' = [q \in DOMAIN stacks \cup {p} |-> IF q = p THEN stack ELSE stacks[q]]
              /\ UNCHANGED phase
  /\ UNCHANGED <<nodes, shared, keys, search, at, inputsInfo, outputsInfo>>

CheckConnection(p) ==
  /\ phase = "order" /\ p \in left
  /\ left' = left \ {p}
  /\ LET stack == NewStack(at.stack, p)
     IN  IF \/ ~ MeetsDemultiplexer(at.stack, p)
            \/ p = Entry /\ stack # <<>>
            \/ p \in DOMAIN stacks /\ stacks[p] # stack
           THEN phase' = "rejected" /\ UNCHANGED <<toCheck, stacks>>
         ELSE IF p \in DOMAIN stacks THEN UNCHANGED <<phase, toCheck, stacks>>
         ELSE /\ toCheck' = Append(toCheck, [node |-> p, stack |-> stack])
              /\ stacks' = [q \in DOMAIN stacks \cup {p} |-> IF q = p THEN stack ELSE stacks[q]]
              /\ UNCHANGED phase
  /\ UNCHANGED <<nodes, shared, keys, search, at, inputsInfo, outputsInfo>>

EndOrder ==
  /\ phase = "order" /\ left = {} /\ toCheck = <<>>
  /\ phase' = "inputs"
  /\ UNCHANGED <<nodes, shared, keys, search, order, inputsInfo, outputsInfo>>

(***************************************************************************)
(* updateInputsInfo and updateOutputsInfo.                                 *)
(***************************************************************************)
Readers == {n \in DOMAIN nodes : Entry \in Deps(n)}
Consumers == {n \in Readers : Computes(n)}
Consumed(n) == IF Computes(n) THEN nodes[n].inputs[nodes[n].deps[Entry]] ELSE Unspecified

\* The pipeline input a node reads.
Alias(n) == IF shared THEN Entry ELSE n

\* applyDemultiplexerShapeForTensor.
EntryShape(shape) == IF IsDemux(Entry) THEN <<nodes[Entry].demux>> \o shape ELSE shape

\* A reader that says something else of an input than the reader before it.
Ambiguous(info, n) ==
  /\ Alias(n) \in DOMAIN info
  /\ Consumed(n) # Unspecified /\ info[Alias(n)] \notin {Unspecified, Consumed(n)}

\* A model replaces what is there, a custom node and the exit node do not.
Described(info, n) ==
  IF Alias(n) \in DOMAIN info /\ (nodes[n].kind # "DL" \/ Consumed(n) = Unspecified) THEN info
  ELSE [a \in DOMAIN info \cup {Alias(n)} |-> IF a = Alias(n) THEN Consumed(n) ELSE info[a]]

\* The readers of the entry node in the order of the map: what the first k of them say.
DescribedBy(readers, k) == FoldLeft(Described, <<>>, SubSeq(readers, 1, k))

UpdateInputsInfo(readers) ==
  /\ phase = "inputs"
  /\ IF \E k \in DOMAIN readers : Ambiguous(DescribedBy(readers, k - 1), readers[k])
       THEN phase' = "rejected" /\ UNCHANGED inputsInfo
       ELSE LET info == DescribedBy(readers, Len(readers))
            IN  phase' = "outputs" /\ inputsInfo' = [a \in DOMAIN info |-> EntryShape(info[a])]
  /\ UNCHANGED <<nodes, shared, keys, search, order, outputsInfo>>

\* The ways from the entry node to n: getNodeGatherShape goes one of them back, the
\* first node of each map.
Paths(n) ==
  {s \in UNION {[1 .. k -> DOMAIN nodes] : k \in 1 .. Cardinality(DOMAIN nodes)} :
     /\ s[1] = Entry /\ s[Len(s)] = n
     /\ \A i \in 1 .. Len(s) - 1 : s[i] \in Deps(s[i + 1])}

\* The number of shards a demultiplexer makes, 0 if it is not known.
ShardCount(d) ==
  IF nodes[d].demux > 0 THEN nodes[d].demux
  ELSE IF nodes[d].kind = "CUSTOM" THEN nodes[d].out[1] ELSE 0

\* Mutant: the dimensions are not put into the order of the graph again.
GatherShapeReversed(path) ==
  LET met == SelectSeq(path, LAMBDA n : n \in nodes[Exit].gather /\ n \in keys)
  IN  [i \in DOMAIN met |-> ShardCount(met[Len(met) + 1 - i])]

GatherShape(path) ==
  LET met == SelectSeq(path, LAMBDA n : n \in nodes[Exit].gather /\ n \in keys)
  IN  [i \in DOMAIN met |-> ShardCount(met[i])]

\* createOutputTensorInfoForPipeline.
OutputShape(gatherShape, p) ==
  IF gatherShape = <<>> THEN nodes[p].out
  ELSE gatherShape \o (IF IsDemux(p) THEN Tail(nodes[p].out) ELSE nodes[p].out)

\* A gather shape of the wrong length throws std::invalid_argument.
UpdateOutputsInfo(path) ==
  /\ phase = "outputs"
  /\ IF Len(GatherShape(path)) # Cardinality(nodes[Exit].gather)
       THEN phase' = "thrown" /\ UNCHANGED outputsInfo
       ELSE /\ phase' = "accepted"
            /\ outputsInfo' = [p \in {q \in Deps(Exit) : Computes(q)} |->
                                 OutputShape(GatherShape(path), p)]
  /\ UNCHANGED <<nodes, shared, keys, search, order, inputsInfo>>

Next ==
  \/ ValidateNodes
  \/ \E p \in DOMAIN nodes : Descend(p) \/ CheckConnection(p)
  \/ FindCycle \/ Backtrack \/ EndSearch \/ TakeNode \/ EndOrder
  \/ phase = "inputs" /\ \E readers \in SetToSeqs(Readers) : UpdateInputsInfo(readers)
  \/ phase = "outputs" /\ \E path \in Paths(Exit) : UpdateOutputsInfo(path)

Spec == Init /\ [][Next]_vars

-----------------------------------------------------------------------------
(***************************************************************************)
(* Reference: what the execution does with sessions.                       *)
(***************************************************************************)
Stuck == <<Level("stuck", 0, 0)>>

\* The levels of the sessions in which the last node of a path runs, before it
\* demultiplexes: each node collapses what it gathers from; Stuck where the session
\* metadata would throw.
Arriving(meta, n) ==
  IF meta = Stuck \/ ~ CanCollapse(meta, nodes[n].gather) THEN Stuck
  ELSE SessionKey(meta, nodes[n].gather)

Leaving(meta, n) ==
  IF meta = Stuck \/ ~ IsDemux(n) THEN meta
  ELSE IF ~ CanGenerate(meta, n) THEN Stuck
  ELSE Append(meta, Level(n, 0, ShardCount(n)))

Sessions(path) ==
  FoldLeft(LAMBDA meta, n : Leaving(Arriving(meta, n), n), <<>>, path)

\* The execution of a definition works: no cycle, every node is on a way from the
\* request to the response, the sessions a node gets on all its ways are the same and
\* can be collapsed, and the response is one session.
Executable ==
  /\ \A n \in DOMAIN nodes : Paths(n) # {} /\ \E s \in Paths(Exit) : n \in ToSet(s)
  /\ \A n \in DOMAIN nodes : \A s \in Paths(n) : \A i, j \in DOMAIN s : s[i] = s[j] => i = j
  /\ \A n \in DOMAIN nodes :
       /\ \A s \in Paths(n) : Sessions(s) # Stuck
       /\ \A s, t \in Paths(n) : Sessions(s) = Sessions(t)
  /\ \A s \in Paths(Exit) : Sessions(s) = <<>>

\* The two graph searches accept exactly the definitions whose execution works.
\* A cycle, a node that waits for ever or a session that cannot be collapsed would
\* show only when a request is executed.
AcceptsExecutable ==
  /\ phase \in {"inputs", "outputs", "accepted", "thrown"} => Executable
  /\ phase = "rejected" /\ NodesFit /\ Executable =>
       shared /\ \E m, n \in Consumers : Consumed(m) # Consumed(n)

\* The shape published for an output is the one the execution produces: a dimension
\* for each demultiplexer the exit node gathers from, outermost first, before the
\* shape of a shard; and finding it out never throws.
OutputsAsExecuted ==
  /\ phase # "thrown"
  /\ phase = "accepted" =>
       \A p \in DOMAIN outputsInfo : \A s \in Paths(p) :
         LET levels == Sessions(s)
             shard == IF IsDemux(p) THEN Tail(nodes[p].out) ELSE nodes[p].out
         IN  outputsInfo[p] = [i \in DOMAIN levels |-> levels[i].size] \o shard

\* What a node is given by the last node of a way: a dimension for each level of
\* sessions it collapses, 0 for a dynamic demultiplexer, and then a shard.  A request is
\* of the shape the pipeline publishes for its input.
Given(way, n) ==
  LET p == Last(way)
      sent == IF p = Entry THEN inputsInfo[Alias(n)] ELSE nodes[p].out
      outer == Collapsed(Sessions(way), nodes[n].gather)
  IN  [i \in DOMAIN outer |-> nodes[outer[i].name].demux]
        \o (IF IsDemux(p) THEN Tail(sent) ELSE sent)

\* The connections from the entry node whose shape nothing checks: the node gathers the
\* shards of the request itself, or the response contains the input too, whose
\* unspecified tensor in inputsInfo hides what another node says of it.
Unchecked(p, n) ==
  p = Entry /\ (Entry \in nodes[n].gather \/ (shared /\ Exit \in Readers))

\* What the nodes before an accepted node, and a client that sends the published shapes,
\* give it has the shape it declares, once the execution has demultiplexed and gathered
\* it; a dynamic demultiplexer may make any number of shards.  The connections of
\* Unchecked are excepted: there the code accepts definitions that break this.
InputsAsDeclared ==
  phase = "accepted" =>
    \A n \in DOMAIN nodes : \A p \in Deps(n) : Computes(n) /\ ~ Unchecked(p, n) =>
      \A way \in Paths(p) :
        AreShapesMatching(Given(way, n), nodes[n].inputs[nodes[n].deps[p]])

=============================================================================
