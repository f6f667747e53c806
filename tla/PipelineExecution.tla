------------------------- MODULE PipelineExecution -------------------------
(***************************************************************************)
(* One execution of a pipeline (src/src/pipeline.cpp, node.cpp and the     *)
(* nodes' sessions): the event loop of Pipeline::execute, the completion   *)
(* callbacks of inferences, which run on other threads, and the streams of *)
(* the model that the DL nodes share with other requests.                  *)
(*                                                                         *)
(* A session is <<node, key>>.  The queue of inference requests is seen as *)
(* InferRequestsQueue shows it: a stream that comes back goes to the       *)
(* oldest waiter; one that asks may have to wait although a stream is      *)
(* idle, but only one waiter can be stranded that way.                     *)
(*                                                                         *)
(* Tensors are left out: whether a step that looks at them succeeds is a   *)
(* choice, and an input is known by the node it comes from and its shard.  *)
(***************************************************************************)
EXTENDS NodeSessionMetadata

CONSTANTS
  Graphs,            \* the pipelines: validated definitions
  nireq,             \* streams of the model the DL nodes use
  Others,            \* other users of these streams
  DemultiplyLimit,   \* DEMULTIPLY_LIMIT of node.cpp
  MaxDimension       \* bound: largest first dimension of an output

ASSUME UsersAssumption == IsFiniteSet(Others) /\ nireq \in Nat
ASSUME DimensionAssumption == DemultiplyLimit \in Nat /\ MaxDimension \in Nat

NoDemultiplexer == -1

(***************************************************************************)
(* What a definition that passed validation is known to be (module         *)
(* PipelineValidation): one way in, one way out, no cycle, every node      *)
(* depends on something, a dynamic demultiplexer is the only one, and a    *)
(* node is below the same demultiplexers on every way from the entry.      *)
(***************************************************************************)

\* The demultiplexers that the results of node n are below, outermost first, when
\* its sessions are below those that levels says.
Leaving(g, levels, n) ==
  IF g.demultiply[n] = NoDemultiplexer THEN levels[n] ELSE Append(levels[n], n)

LevelsFit(g, levels) ==
  /\ levels[g.entry] = <<>> /\ levels[g.exit] = <<>>
  /\ \A p \in g.nodes : \A n \in g.next[p] :
       LET out == Leaving(g, levels, p)
           kept == Len(out) - Cardinality(g.gather[n])
       IN  /\ kept >= 0 /\ levels[n] = SubSeq(out, 1, kept)
           /\ {out[i] : i \in kept + 1 .. Len(out)} = g.gather[n]
           /\ \A q \in g.nodes : n \in g.next[q] => Leaving(g, levels, q) = out

Demultiplexers(g) == {n \in g.nodes : g.demultiply[n] # NoDemultiplexer}
LevelFunctions(g) == [g.nodes -> SeqOf(Demultiplexers(g), Cardinality(Demultiplexers(g)))]
LevelsIn(g) == CHOOSE levels \in LevelFunctions(g) : LevelsFit(g, levels)
Ranks(g) == [g.nodes -> 1 .. Cardinality(g.nodes)]

Validated(g) ==
  /\ IsFiniteSet(g.nodes) /\ {g.entry, g.exit} \subseteq g.nodes
  /\ g.next \in [g.nodes -> SUBSET g.nodes] /\ g.gather \in [g.nodes -> SUBSET g.nodes]
  /\ g.kind \in [g.nodes -> {"entry", "dl", "custom", "exit"}]
  /\ g.demultiply \in [g.nodes -> Nat \cup {NoDemultiplexer}]
  /\ \A n \in g.nodes : g.kind[n] = "exit" <=> n = g.exit
  /\ g.next[g.exit] = {} /\ g.demultiply[g.exit] = NoDemultiplexer
  /\ g.gather[g.entry] = {}
  /\ \A n \in g.nodes : n = g.entry <=> \A p \in g.nodes : n \notin g.next[p]
  /\ \A m, n \in Demultiplexers(g) : g.demultiply[m] = 0 => n = m
  /\ \E rank \in Ranks(g) : \A p \in g.nodes : \A n \in g.next[p] : rank[p] < rank[n]
  /\ \E levels \in LevelFunctions(g) : LevelsFit(g, levels)

ASSUME GraphsAssumption == \A g \in Graphs : Validated(g)

VARIABLES
  graph,      \* the pipeline that is executed
  sessions,   \* nodeSessions of all nodes
  events,     \* finishedNodeQueue
  started,    \* startedSessions
  finished,   \* finishedSessions
  deferred,   \* deferredNodeSessions
  error,      \* firstErrorStatus is not OK
  pc,         \* where the event loop is
  current,    \* the finished session whose results are handed on
  results,    \* sessionResults: the metadata of its results
  todo,       \* next nodes whose ready sessions are not started yet
  batch,      \* ready sessions of the next node at hand
  position,   \* in deferred
  response,   \* how often the response was written
  idle,       \* number of idle streams
  waiting,    \* those who wait for a stream, oldest first: a session, or <<another user>>
  other       \* what the other users do

loopVars == <<started, finished, deferred, error, pc, current, results, todo,
              batch, position, response>>
poolVars == <<idle, waiting, other>>
vars == <<graph, sessions, events, loopVars, poolVars>>

NoSession == <<>>

Nodes == graph.nodes

Kind(s) == graph.kind[s[1]]

Previous(n) == {m \in Nodes : n \in graph.next[m]}

EntrySession == <<graph.entry, <<>>>>

\* createNodeSession: the input handler of a gathering node waits for every
\* shard of every dependency.
NewSession(n, meta) ==
  [remaining |-> Cardinality(Previous(n)) * CollapsedSize(meta, graph.gather[n]),
   inputs    |-> {},
   used      |-> FALSE,
   stream    |-> "none",
   infer     |-> "none"]

-----------------------------------------------------------------------------
Init ==
  /\ graph \in Graphs
  /\ sessions = <<>>
  /\ events = <<>>
  /\ started = {}
  /\ finished = {}
  /\ deferred = <<>>
  /\ error = FALSE
  /\ pc = "entry"
  /\ current = NoSession
  /\ results = {}
  /\ todo = {}
  /\ batch = {}
  /\ position = 0
  /\ response = 0
  /\ idle = nireq
  /\ waiting = <<>>
  /\ other = [o \in Others |-> "out"]

(***************************************************************************)
(* The streams of the model.                                               *)
(***************************************************************************)

\* returnStream, in a step that leaves the sessions as ss otherwise.
ReturnStream(ss) ==
  \/ /\ waiting = <<>>
     /\ sessions' = ss
     /\ idle' = idle + 1
     /\ UNCHANGED waiting
  \/ /\ waiting # <<>>
     /\ Head(waiting) \in DOMAIN ss
     /\ sessions' = [ss EXCEPT ![Head(waiting)].stream = "granted"]
     /\ waiting' = Tail(waiting)
     /\ UNCHANGED idle
  \/ /\ waiting # <<>>
     /\ Head(waiting) \in {<<o>> : o \in Others}
     /\ sessions' = ss
     /\ waiting' = Tail(waiting)
     /\ UNCHANGED idle

\* getIdleStream may queue a promise.
MayWait == idle = 0 \/ waiting = <<>>

\* Another request takes a stream of the model or queues for one.
OtherAsks(o) ==
  /\ other[o] = "out"
  /\ other' = [other EXCEPT ![o] = "asked"]
  /\ \/ idle > 0 /\ idle' = idle - 1 /\ UNCHANGED waiting
     \/ MayWait /\ waiting' = Append(waiting, <<o>>) /\ UNCHANGED idle
  /\ UNCHANGED <<graph, sessions, events, loopVars>>

\* Another request that was served gives its stream back.
OtherReturns(o) ==
  /\ other[o] = "asked"
  /\ <<o>> \notin Range(waiting)
  /\ other' = [other EXCEPT ![o] = "out"]
  /\ ReturnStream(sessions)
  /\ UNCHANGED <<graph, events, loopVars>>

\* Mutant: the session keeps its stream.
ReleaseKeepsStream(s, ss) ==
  /\ sessions' = ss
  /\ UNCHANGED <<idle, waiting>>

\* DLNodeSession::release, called on behalf of session s: the destructor of
\* its NodeStreamIdGuard returns the stream, and blocks while it has none.
Release(s, ss) ==
  \/ /\ sessions[s].stream \in {"none", "disarmed"}
     /\ sessions' = ss
     /\ UNCHANGED <<idle, waiting>>
  \/ /\ sessions[s].stream \in {"granted", "taken"}
     /\ ReturnStream(ss)

(***************************************************************************)
(* execute() of the nodes.  A DL session that meets an error, and every    *)
(* session of another kind, reports to the event queue at once.            *)
(***************************************************************************)

Report(s) == events' = Append(events, s)

Use(s, stream, infer) ==
  sessions' = [sessions EXCEPT ![s].used = TRUE,
                               ![s].stream = stream,
                               ![s].infer = infer]

\* requestExecuteRequiredResources: getIdleStream gives a stream right away.
GetIdleStream(s) ==
  /\ sessions[s].stream = "none"
  /\ idle > 0
  /\ idle' = idle - 1
  /\ UNCHANGED waiting

\* tryGetId finds the future of a deferred session ready.
TryGetId(s) ==
  /\ sessions[s].stream \in {"granted", "taken"}
  /\ UNCHANGED <<idle, waiting>>

\* The exit node has nothing to do.
ExecuteExit(s) ==
  /\ Kind(s) = "exit"
  /\ Report(s)
  /\ UNCHANGED <<sessions, idle, waiting>>

\* A custom node runs its library, which may fail.
ExecuteCustom(s) ==
  /\ Kind(s) = "custom"
  /\ Report(s)
  /\ Use(s, "none", "none")
  /\ UNCHANGED <<idle, waiting>>

\* A DL node that has its stream starts an asynchronous inference.
ExecuteInference(s) ==
  /\ Kind(s) = "dl"
  /\ Use(s, "taken", "running")
  /\ UNCHANGED events

\* The model is gone or refuses the inputs, before or after they were looked
\* at; no stream was asked for.
PrepareFails(s) ==
  /\ Kind(s) = "dl"
  /\ sessions[s].stream = "none"
  /\ Report(s)
  /\ \E used \in BOOLEAN : sessions' = [sessions EXCEPT ![s].used = used]
  /\ UNCHANGED <<idle, waiting>>

\* Mutant: a session whose inference cannot be started does not report.
InferenceRefusedSilently(s) ==
  /\ Kind(s) = "dl"
  /\ Use(s, "taken", "none")
  /\ UNCHANGED events

\* The inputs cannot be set or the inference cannot be started.
InferenceRefused(s) ==
  /\ Kind(s) = "dl"
  /\ Use(s, "taken", "none")
  /\ Report(s)

\* PIPELINE_STREAM_ID_NOT_READY_YET: a promise is queued.
ExecuteDefers(s) ==
  /\ Kind(s) = "dl"
  /\ sessions[s].stream = "none"
  /\ MayWait
  /\ Use(s, "asked", "none")
  /\ waiting' = Append(waiting, s)
  /\ UNCHANGED <<events, idle>>

\* PIPELINE_STREAM_ID_NOT_READY_YET once more.
DefersAgain(s) ==
  /\ sessions[s].stream = "asked"
  /\ UNCHANGED <<sessions, events, idle, waiting>>

(***************************************************************************)
(* Completion of an inference, on a thread of the inference engine.        *)
(***************************************************************************)

\* The callback pushes the session to the queue of finished nodes.
CallbackPushes(s) ==
  /\ sessions[s].infer = "running"
  /\ sessions' = [sessions EXCEPT ![s].infer = "callback"]
  /\ Report(s)
  /\ UNCHANGED <<graph, loopVars, poolVars>>

\* The callback signals the queue's condition variable, outside its mutex,
\* resets the callback of the inference request and returns.
CallbackReturns(s) ==
  /\ sessions[s].infer = "callback"
  /\ sessions' = [sessions EXCEPT ![s].infer = "done"]
  /\ UNCHANGED <<graph, events, loopVars, poolVars>>

(***************************************************************************)
(* Pipeline::execute.                                                      *)
(***************************************************************************)

\* EntryNode::execute creates the entry's session and reports it.
ExecuteEntry ==
  /\ pc = "entry"
  /\ sessions' = [s \in {EntrySession} |-> NewSession(graph.entry, <<>>)]
  /\ started' = {EntrySession}
  /\ Report(EntrySession)
  /\ pc' = "loop"
  /\ UNCHANGED <<graph, finished, deferred, error, current, results, todo,
                 batch, position, response, poolVars>>

\* Where the loop goes when as many sessions are finished as were started.
BreakIfAllFinished(fin) ==
  pc' = IF Cardinality(fin) = Cardinality(started) THEN "returned" ELSE "loop"

\* tryPull returns a session.
PullFinished ==
  /\ pc = "loop"
  /\ events # <<>>
  /\ ~error
  /\ events' = Tail(events)
  /\ finished' = finished \cup {Head(events)}
  /\ current' = Head(events)
  /\ pc' = "fetch"
  /\ UNCHANGED <<graph, sessions, started, deferred, error, results, todo,
                 batch, position, response, poolVars>>

\* tryPull returns a session after an error: it is released, its results are
\* not looked at, and nobody waits for its callback to return.
PullAfterError ==
  /\ pc = "loop"
  /\ events # <<>>
  /\ error
  /\ events' = Tail(events)
  /\ finished' = finished \cup {Head(events)}
  /\ Release(Head(events), [sessions EXCEPT ![Head(events)].stream = "none"])
  /\ BreakIfAllFinished(finished')
  /\ UNCHANGED <<graph, started, deferred, error, current, results, todo,
                 batch, position, response, other>>

\* Wait(RESULT_READY) returns when the inference and its callback are over.
InferenceOver(s) == sessions[s].infer \in {"none", "done"}

\* Node::demultiplyOutputs accepts outputs with this first dimension.
CanDemultiply(n, meta, dimension) ==
  /\ dimension <= DemultiplyLimit
  /\ graph.demultiply[n] \in {0, dimension}
  /\ dimension # 0
  /\ CanGenerate(meta, n)

\* Metadata of the results of a session, for outputs with this dimension.
Results(n, meta, dimension) ==
  IF graph.demultiply[n] = NoDemultiplexer
  THEN {meta}
  ELSE GenerateSubsessions(meta, n, dimension)

\* Node::fetchResults: the session is released and erased.
EraseCurrent == Release(current, Restrict(sessions, DOMAIN sessions \ {current}))

\* The exit node writes the response; another node hands its results on.
FetchResults ==
  /\ pc = "fetch"
  /\ InferenceOver(current)
  /\ EraseCurrent
  /\ \E dimension \in 0 .. MaxDimension :
       /\ \/ graph.demultiply[current[1]] = NoDemultiplexer
          \/ CanDemultiply(current[1], current[2], dimension)
       /\ results' = IF Kind(current) = "exit"
                     THEN {}
                     ELSE Results(current[1], current[2], dimension)
  /\ response' = IF Kind(current) = "exit" THEN response + 1 ELSE response
  /\ pc' = "propagate"
  /\ UNCHANGED <<graph, events, started, finished, deferred, error, current,
                 todo, batch, position, other>>

\* The request is invalid, the inference failed, an output is missing, cannot
\* be demultiplied or cannot be written to the response.
FetchResultsFails ==
  /\ pc = "fetch"
  /\ InferenceOver(current)
  /\ EraseCurrent
  /\ error' = TRUE
  /\ current' = NoSession
  /\ BreakIfAllFinished(finished)
  /\ UNCHANGED <<graph, events, started, finished, deferred, results, todo,
                 batch, position, response, other>>

(***************************************************************************)
(* Node::setInputs.                                                        *)
(***************************************************************************)

Key(n, meta) == <<n, SessionKey(meta, graph.gather[n])>>

\* The sessions of nodes ns that results metas go to, in existence.
Touched(ss, ns, metas) ==
  [x \in DOMAIN ss \cup {Key(p[1], p[2]) : p \in ns \X metas} |->
     IF x \in DOMAIN ss THEN ss[x]
     ELSE NewSession(x[1], CHOOSE m \in metas : Key(x[1], m) = x)]

\* Sessions after results metas of node from were set as inputs of nodes ns.
\* Each result is a finished dependency of the session it goes to.
SetInputs(ss, ns, from, metas) ==
  [x \in DOMAIN Touched(ss, ns, metas) |->
     LET mine == {m \in metas : x[1] \in ns /\ Key(x[1], m) = x}
     IN [Touched(ss, ns, metas)[x] EXCEPT
           !.remaining = @ - Cardinality(mine),
           !.inputs = @ \cup {[from  |-> from,
                               shard |-> ShardId(m, graph.gather[x[1]]),
                               meta  |-> m] : m \in mine}]]

\* Every next node takes every result.  An input handler refuses an input, or
\* a shard of it, that it has.
Propagate ==
  LET ns == graph.next[current[1]]
  IN /\ pc = "propagate"
     /\ \A n \in ns, m \in results : CanCollapse(m, graph.gather[n])
     /\ \A n \in ns, m \in results :
          Key(n, m) \in DOMAIN sessions =>
            \A i \in sessions[Key(n, m)].inputs :
              i.from = current[1] => i.shard # ShardId(m, graph.gather[n])
     /\ sessions' = SetInputs(sessions, ns, current[1], results)
     /\ todo' = ns
     /\ pc' = "start"
     /\ current' = NoSession
     /\ results' = {}
     /\ UNCHANGED <<graph, events, started, finished, deferred, error, batch,
                    position, response, poolVars>>

\* One result is refused by one next node: before the dependency is counted
\* (an output is missing), or after it, when the shards of a gathering node
\* cannot be put together.  The rest of the results and of the nodes is
\* skipped, and the loop goes on to start what is ready.
PropagateFails ==
  LET ns == graph.next[current[1]]
  IN /\ pc = "propagate"
     /\ \E n \in ns, bad \in results :
        \E before \in SUBSET (ns \ {n}), good \in SUBSET (results \ {bad}) :
          LET ss == SetInputs(SetInputs(sessions, before, current[1], results),
                              {n}, current[1], good)
              all == SetInputs(ss, {n}, current[1], {bad})
          IN \/ sessions' = Touched(ss, {n}, {bad})
             \/ /\ graph.gather[n] # {}
                /\ all[Key(n, bad)].remaining = 0
                /\ sessions' = all
     /\ error' = TRUE
     /\ todo' = ns
     /\ pc' = "start"
     /\ current' = NoSession
     /\ results' = {}
     /\ UNCHANGED <<graph, events, started, finished, deferred, batch,
                    position, response, poolVars>>

(***************************************************************************)
(* Starting the ready sessions of the next nodes.                          *)
(***************************************************************************)

\* getReadySessions.
ReadySessions(n) ==
  {s \in DOMAIN sessions :
     s[1] = n /\ ~sessions[s].used /\ sessions[s].remaining = 0}

StartNode(n) ==
  /\ pc = "start"
  /\ batch = {}
  /\ n \in todo
  /\ todo' = todo \ {n}
  /\ batch' = ReadySessions(n)
  /\ UNCHANGED <<graph, sessions, events, started, finished, deferred, error,
                 pc, current, results, position, response, poolVars>>

\* Mutant: a deferred session does not count as started.
StartDeferredUncounted(s) ==
  /\ pc = "start"
  /\ s \in batch
  /\ \/ /\ \/ ExecuteExit(s)
           \/ ExecuteCustom(s)
           \/ GetIdleStream(s) /\ ExecuteInference(s)
        /\ started' = started \cup {s}
        /\ UNCHANGED <<deferred, error>>
     \/ /\ \/ ExecuteCustom(s)
           \/ PrepareFails(s)
           \/ GetIdleStream(s) /\ InferenceRefused(s)
        /\ started' = started \cup {s}
        /\ error' = TRUE
        /\ UNCHANGED deferred
     \/ /\ ExecuteDefers(s)
        /\ deferred' = Append(deferred, s)
        /\ UNCHANGED <<started, error>>
  /\ batch' = IF error' THEN {} ELSE batch \ {s}
  /\ UNCHANGED <<graph, finished, pc, current, results, todo, position,
                 response, other>>

\* After an error the first session of each node is started all the same.
StartSession(s) ==
  /\ pc = "start"
  /\ s \in batch
  /\ started' = started \cup {s}
  /\ \/ /\ \/ ExecuteExit(s)
           \/ ExecuteCustom(s)
           \/ GetIdleStream(s) /\ ExecuteInference(s)
        /\ UNCHANGED <<deferred, error>>
     \/ /\ \/ ExecuteCustom(s)
           \/ PrepareFails(s)
           \/ GetIdleStream(s) /\ InferenceRefused(s)
        /\ error' = TRUE
        /\ UNCHANGED deferred
     \/ /\ ExecuteDefers(s)
        /\ deferred' = Append(deferred, s)
        /\ UNCHANGED error
  /\ batch' = IF error' THEN {} ELSE batch \ {s}
  /\ UNCHANGED <<graph, finished, pc, current, results, todo, position,
                 response, other>>

StartsDone ==
  /\ pc = "start"
  /\ batch = {}
  /\ todo = {}
  /\ BreakIfAllFinished(finished)
  /\ UNCHANGED <<graph, sessions, events, started, finished, deferred, error,
                 current, results, todo, batch, position, response, poolVars>>

(***************************************************************************)
(* tryPull times out.                                                      *)
(***************************************************************************)

Timeout ==
  /\ pc = "loop"
  /\ events = <<>>
  /\ position' = 1
  /\ pc' = IF error THEN "disarm" ELSE "retry"
  /\ UNCHANGED <<graph, sessions, events, started, finished, deferred, error,
                 current, results, todo, batch, response, poolVars>>

AtDeferred(l) == pc = l /\ position <= Len(deferred)

\* Another try to execute a deferred session.  One that fails stays in the
\* list, and the others are tried nevertheless.
Retry ==
  /\ AtDeferred("retry")
  /\ \/ /\ TryGetId(deferred[position])
        /\ ExecuteInference(deferred[position])
        /\ deferred' = RemoveAt(deferred, position)
        /\ UNCHANGED <<position, error>>
     \/ /\ DefersAgain(deferred[position])
        /\ position' = position + 1
        /\ UNCHANGED <<deferred, error>>
     \/ /\ TryGetId(deferred[position])
        /\ InferenceRefused(deferred[position])
        /\ error' = TRUE
        /\ position' = position + 1
        /\ UNCHANGED deferred
  /\ UNCHANGED <<graph, started, finished, pc, current, results, todo, batch,
                 response, other>>

RetriesDone ==
  /\ pc = "retry"
  /\ position > Len(deferred)
  /\ pc' = "loop"
  /\ position' = 0
  /\ UNCHANGED <<graph, sessions, events, started, finished, deferred, error,
                 current, results, todo, batch, response, poolVars>>

\* tryDisarm succeeds: the session has no guard any more, or its future is
\* ready and the stream goes back.
Disarm ==
  /\ AtDeferred("disarm")
  /\ LET s == deferred[position]
     IN /\ finished' = finished \cup {s}
        /\ \/ /\ sessions[s].stream = "none"
              /\ UNCHANGED <<sessions, idle, waiting>>
           \/ /\ sessions[s].stream = "granted"
              /\ ReturnStream([sessions EXCEPT ![s].stream = "disarmed"])
  /\ deferred' = RemoveAt(deferred, position)
  /\ UNCHANGED <<graph, events, started, error, pc, current, results, todo,
                 batch, position, response, other>>

\* tryDisarm times out.
DisarmTimeout ==
  /\ AtDeferred("disarm")
  /\ sessions[deferred[position]].stream = "asked"
  /\ position' = position + 1
  /\ UNCHANGED <<graph, sessions, events, started, finished, deferred, error,
                 pc, current, results, todo, batch, response, poolVars>>

\* Mutant: the loop ends when every deferred session is disarmed.
DisarmsEndLoop ==
  /\ pc = "disarm"
  /\ position > Len(deferred)
  /\ position' = 0
  /\ pc' = IF deferred # <<>> THEN "loop" ELSE "returned"
  /\ UNCHANGED <<graph, sessions, events, started, finished, deferred, error,
                 current, results, todo, batch, response, poolVars>>

DisarmsDone ==
  /\ pc = "disarm"
  /\ position > Len(deferred)
  /\ position' = 0
  /\ IF deferred # <<>> THEN pc' = "loop" ELSE BreakIfAllFinished(finished)
  /\ UNCHANGED <<graph, sessions, events, started, finished, deferred, error,
                 current, results, todo, batch, response, poolVars>>

-----------------------------------------------------------------------------
Loop ==
  \/ ExecuteEntry
  \/ PullFinished
  \/ PullAfterError
  \/ FetchResults
  \/ FetchResultsFails
  \/ Propagate
  \/ PropagateFails
  \/ \E n \in todo : StartNode(n)
  \/ \E s \in batch : StartSession(s)
  \/ StartsDone
  \/ Timeout
  \/ Retry
  \/ RetriesDone
  \/ Disarm
  \/ DisarmTimeout
  \/ DisarmsDone

Callbacks == \E s \in DOMAIN sessions : CallbackPushes(s) \/ CallbackReturns(s)

OtherUsers == \E o \in Others : OtherAsks(o) \/ OtherReturns(o)

Next == Loop \/ Callbacks \/ OtherUsers

Spec == Init /\ [][Next]_vars

\* The thread of the request keeps running, and inferences end.
Fairness == WF_vars(Loop) /\ WF_vars(Callbacks)

FairSpec == Spec /\ Fairness

-----------------------------------------------------------------------------
\* When execute returns, its queue of finished nodes and its sessions are
\* destroyed.  No inference that would report to them is running then, and no
\* session has or awaits a stream (the destructor of its guard would block);
\* if it returns OK no callback is on its way out either.
QuiescentReturn ==
  pc = "returned" =>
    \A s \in DOMAIN sessions :
      /\ sessions[s].infer # "running"
      /\ sessions[s].stream \in {"none", "disarmed"}
      /\ ~error => sessions[s].infer # "callback"

\* No session is started twice, although one that waits for a stream or for its
\* event to be pulled has all its inputs.
StartedOnce == batch \cap started = {}

\* The event loop stops because as many sessions are finished as were started,
\* each of them once; if it returns OK, the exit node wrote the response, once.
RespondedOnce ==
  /\ StartedOnce
  /\ response <= 1
  /\ pc = "returned" /\ ~error => response = 1

\* A session that looks ready has one input from each dependency, or, when it
\* gathers, every shard of it, at the place it has in a tensor with the sizes
\* of the collapsed levels as leading dimensions.
GatheredInOrder ==
  ~error =>
    \A s \in DOMAIN sessions :
      sessions[s].remaining = 0 =>
        \A n \in Previous(s[1]) :
          LET mine == {i \in sessions[s].inputs : i.from = n}
              shards == {i.shard : i \in mine}
          IN /\ mine # {}
             /\ shards = 0 .. Cardinality(mine) - 1
             /\ \A i \in mine :
                  /\ i.shard = RowMajorPosition(i.meta, graph.gather[s[1]])
                  /\ Cardinality(mine) = CollapsedSize(i.meta, graph.gather[s[1]])

Held == {s \in DOMAIN sessions : sessions[s].stream \in {"granted", "taken"}}

OthersServed ==
  {o \in Others : other[o] = "asked" /\ <<o>> \notin Range(waiting)}

\* A pipeline gives back every stream it was granted, whichever way its
\* sessions end: streams are idle, with a session, or with another user.
StreamsReturned == idle + Cardinality(Held) + Cardinality(OthersServed) = nireq

\* execute returns, with a result or an error, as long as other users of the
\* model keep returning streams.
ExecuteReturns ==
  []<><<\E o \in Others : OtherReturns(o)>>_vars => <>(pc = "returned")

(***************************************************************************)
(* Why the streams come back and the return is quiescent, as long as no    *)
(* session is started twice: the inductive invariant.                      *)
(***************************************************************************)
TypeOK ==
  /\ \A s \in DOMAIN sessions :
       /\ s = <<s[1], s[2]>>
       /\ DOMAIN sessions[s] = {"remaining", "inputs", "used", "stream", "infer"}
       /\ sessions[s].stream \in {"none", "asked", "granted", "taken", "disarmed"}
       /\ sessions[s].infer \in {"none", "running", "callback", "done"}
  /\ IsFiniteSet(started) /\ finished \subseteq started
  /\ events \in Seq(started) /\ deferred \in Seq(started)
  /\ waiting \in Seq(started \cup {<<o>> : o \in Others})
  /\ pc \in {"entry", "loop", "fetch", "propagate", "start", "retry", "disarm", "returned"}
  /\ error \in BOOLEAN /\ idle \in Nat /\ other \in [Others -> {"out", "asked"}]
  /\ position \in Nat /\ (pc \in {"retry", "disarm"} => position > 0)
  /\ batch \subseteq DOMAIN sessions /\ (batch # {} => pc = "start")
  /\ pc = "entry" => DOMAIN sessions = {} /\ started = {}

\* A session is started, then waits for a stream, runs, is reported and is finished.
UnstartedIsIdle ==
  \A s \in DOMAIN sessions \ started : sessions[s].stream = "none" /\ sessions[s].infer = "none"
ReportedOnce ==
  /\ IsInjective(events) /\ Range(events) \subseteq DOMAIN sessions /\ Range(events) \cap finished = {}
  /\ \A s \in DOMAIN sessions :
       sessions[s].infer = "running" => s \notin Range(events) \cup finished \cup Range(deferred)

\* A deferred session does not run.  One that failed when it was tried again is
\* reported and stays in the list.
DeferredWaits ==
  /\ IsInjective(deferred)
  /\ \A i \in DOMAIN deferred :
       /\ deferred[i] \in DOMAIN sessions /\ sessions[deferred[i]].infer = "none"
       /\ deferred[i] \in Range(events) \cup finished => error /\ (pc = "retry" => i < position)
       /\ pc = "disarm" => deferred[i] \notin Range(events)

\* Who waits for a stream has asked for one.
WaitersAsked ==
  /\ IsInjective(waiting)
  /\ \A i \in DOMAIN waiting :
       \/ waiting[i] \in DOMAIN sessions /\ sessions[waiting[i]].stream = "asked"
       \/ \E o \in Others : waiting[i] = <<o>> /\ other[o] = "asked"

\* A finished session is released, but for the one whose results are fetched.
FinishedIsQuiet ==
  /\ \A s \in finished \cap DOMAIN sessions :
       \/ pc = "fetch" /\ s = current
       \/ /\ sessions[s].infer # "running" /\ sessions[s].stream \in {"none", "disarmed"}
          /\ ~ error => sessions[s].infer # "callback"
  /\ pc = "fetch" => ~ error /\ current \in finished /\ current \in DOMAIN sessions
  /\ pc = "returned" => finished = started

(***************************************************************************)
(* Why no session is started twice and the response is written once: the   *)
(* inputs of a session are counted.  size is the number of shards that a   *)
(* dynamic demultiplexer makes in this execution.                          *)
(***************************************************************************)
Levels == LevelsIn(graph)
Shards(d, size) == IF graph.demultiply[d] = 0 THEN size ELSE graph.demultiply[d]
LevelsOf(d, size) == {Level(d, id, Shards(d, size)) : id \in 0 .. Shards(d, size) - 1}

\* The metadata below the demultiplexers names.
Metas(names, size) ==
  {m \in [DOMAIN names -> UNION {LevelsOf(d, size) : d \in Range(names)}] :
     \A i \in DOMAIN names : m[i] \in LevelsOf(names[i], size)}

\* The results that go to session s, by the node they come from.
Expected(s, size) ==
  {r \in UNION {{p} \X Metas(Leaving(graph, Levels, p), size) : p \in Previous(s[1])} :
     Key(s[1], r[2]) = s}

\* The session a result comes from, and the sessions whose results were handed on.
Origin(r) == <<r[1], IF graph.demultiply[r[1]] = NoDemultiplexer THEN r[2] ELSE Front(r[2])>>
Delivered == IF pc \in {"fetch", "propagate"} THEN finished \ {current} ELSE finished

\* A result as an input of a session of node n.
InputOf(n, r) == [from |-> r[1], shard |-> ShardId(r[2], graph.gather[n]), meta |-> r[2]]

Missing(s, size) == {r \in Expected(s, size) : Origin(r) \notin Delivered}

InputsCounted(size) ==
  /\ \A s \in DOMAIN sessions \cup started :
       s[1] \in Nodes /\ s = <<s[1], s[2]>> /\ s[2] \in Metas(Levels[s[1]], size)
  /\ \A s \in DOMAIN sessions :
       /\ sessions[s].remaining = Cardinality(Missing(s, size))
       /\ sessions[s].inputs = {InputOf(s[1], r) : r \in Expected(s, size) \ Missing(s, size)}
  /\ \A s \in DOMAIN sessions \ started : Missing(s, size) # Expected(s, size) /\ ~ sessions[s].used
  /\ \A s \in started : Missing(s, size) = {}

\* What is handed on arrives, and what is complete is started.
ResultsArrive(size) ==
  /\ \A n \in Nodes : \A k \in Metas(Levels[n], size) :
       Missing(<<n, k>>, size) # Expected(<<n, k>>, size) => <<n, k>> \in DOMAIN sessions \cup started
  /\ \A s \in DOMAIN sessions :
       sessions[s].remaining = 0 => s \in started \/ (pc = "start" /\ (s[1] \in todo \/ s \in batch))
  /\ pc # "entry" => EntrySession \in started

\* The results of the session at hand.
ResultsAtHand(size) ==
  pc = "propagate" =>
    /\ current \in finished
    /\ Kind(current) # "exit" =>
         results = {m \in Metas(Leaving(graph, Levels, current[1]), size) : Origin(<<current[1], m>>) = current}
    /\ Kind(current) = "exit" => results = {}

\* Before the results of a dynamic demultiplexer are handed on there is no other level.
DynamicSize ==
  \A d \in Nodes : graph.demultiply[d] = 0 /\ <<d, <<>>>> \notin Delivered =>
    \A s \in DOMAIN sessions \cup started : s[2] = <<>>

\* A session that was started is not ready: it is used, or its node is not looked at.
StartedNotReady ==
  /\ ~ error => \A s \in started \cap DOMAIN sessions :
                  sessions[s].used \/ s[1] \in {graph.entry, graph.exit}
  /\ \A s \in started \cap DOMAIN sessions : pc = "start" => sessions[s].used \/ s[1] \notin todo
  /\ \A s \in batch : s \notin started /\ s[1] \notin todo /\ sessions[s].remaining = 0
  /\ todo \subseteq Nodes

ResponseCounted ==
  /\ response \in {0, 1}
  /\ ~ error =>
       (response = 1 <=> <<graph.exit, <<>>>> \in finished \ (IF pc = "fetch" THEN {current} ELSE {}))

CountingInv ==
  /\ graph \in Graphs /\ (pc \in {"fetch", "propagate"} => ~ error) /\ (pc = "disarm" => error)
  /\ StartedNotReady /\ ResponseCounted
  /\ ~ error => /\ DynamicSize
                /\ \E size \in 1 .. MaxDimension + 1 :
                     InputsCounted(size) /\ ResultsArrive(size) /\ ResultsAtHand(size)

IInv ==
  /\ TypeOK /\ UnstartedIsIdle /\ ReportedOnce /\ DeferredWaits /\ WaitersAsked /\ FinishedIsQuiet
  /\ StreamsReturned
=============================================================================
