-------------------------- MODULE StatefulSequences --------------------------
(***************************************************************************)
(* The sequences of one loaded stateful model: SequenceManager             *)
(* (src/src/sequence_manager.cpp), the Sequence objects it owns, the       *)
(* requests that StatefulModelInstance::infer serves and the scan of the   *)
(* idle sequence cleaner.                                                  *)
(*                                                                         *)
(* A request looks its sequence up under the manager's mutex and, still    *)
(* holding it, waits for the sequence's own mutex.  It then waits for an   *)
(* inference stream, runs, and saves the memory state in the sequence.  A  *)
(* request with SEQUENCE_END finally takes the manager's mutex once more,  *)
(* with the stream in its hands, to remove the sequence.                   *)
(*                                                                         *)
(* The streams are those of InferRequestsQueue, with its steps joined: a   *)
(* request that found no stream may still queue its promise after one came *)
(* back, and then waits beside an idle stream.                             *)
(*                                                                         *)
(* A memory state is a count of the inferences it went through, modulo     *)
(* StateCount.  Sequence ids are unsigned integers of a small width.       *)
(***************************************************************************)
EXTENDS Integers, FiniteSets, Sequences

CONSTANTS Requests,           \* threads that serve requests
          Cleaner,            \* the sequence cleaner's thread
          NoThread,           \* "no thread": an unlocked mutex
          IdCount,            \* number of values of a sequence id, 2^width
          maxSequenceNumber,  \* max_sequence_number
          nireq,              \* number of inference streams
          StateCount          \* number of distinct memory states

ASSUME ThreadsAssumption ==
  /\ IsFiniteSet(Requests)
  /\ Cleaner \notin Requests
  /\ NoThread \notin Requests \cup {Cleaner}
ASSUME IdsAssumption ==
  /\ IdCount \in Nat \ {0, 1} /\ maxSequenceNumber \in Nat
  /\ maxSequenceNumber <= IdCount - 1
ASSUME StatesAssumption == nireq \in Nat \ {0} /\ StateCount \in Nat \ {0}

VARIABLES
  mutex,              \* holder of the manager's mutex
  sequences,          \* ids of the sequences in the manager's map
  idle,               \* those whose idle flag is set
  terminated,         \* those whose terminated flag is set
  memoryState,        \* memory state a sequence saved, Empty before the first
  sequenceMutex,      \* holder of each sequence's mutex
  sequenceIdCounter,  \* where the search for an unused id starts
  freeStreams,        \* idle inference streams
  promises,           \* requests that wait for a stream, oldest first
  pc,                 \* where each thread is
  control,            \* sequence_control_input of each request
  id,                 \* its sequence_id; 0 asks for one
  state,              \* memory state of the infer request it runs on
  scan                \* sequences the cleaner's scan has still to visit

sequenceVars == <<sequences, idle, terminated, memoryState, sequenceIdCounter>>
requestVars == <<control, id, state>>
streamVars == <<freeStreams, promises>>
vars == <<mutex, sequenceVars, sequenceMutex, streamVars, pc, requestVars, scan>>

Ids == 1 .. IdCount - 1
Controls == {"SEQUENCE_START", "NO_CONTROL_INPUT", "SEQUENCE_END"}
MemoryStates == 0 .. StateCount - 1
Empty == -1

PCs == {"out", "lock", "sequence", "stream", "push", "wait", "infer", "post", "remove"}

TypeOK ==
  /\ mutex \in Requests \cup {Cleaner, NoThread}
  /\ sequences \subseteq Ids
  /\ idle \subseteq sequences
  /\ terminated \subseteq sequences
  /\ memoryState \in [Ids -> MemoryStates \cup {Empty}]
  /\ sequenceMutex \in [Ids -> Requests \cup {NoThread}]
  /\ sequenceIdCounter \in Ids \cup {0}
  /\ freeStreams \in 0 .. nireq
  /\ promises \in Seq(Requests)
  /\ pc \in [Requests -> PCs]
  /\ control \in [Requests -> Controls]
  /\ id \in [Requests -> Ids \cup {0}]
  /\ state \in [Requests -> MemoryStates]
  /\ scan \subseteq Ids

-----------------------------------------------------------------------------
Init ==
  /\ mutex = NoThread
  /\ sequences = {} /\ idle = {} /\ terminated = {}
  /\ memoryState = [i \in Ids |-> Empty]
  /\ sequenceMutex = [i \in Ids |-> NoThread]
  /\ sequenceIdCounter = 1
  /\ freeStreams = nireq
  /\ promises = <<>>
  /\ pc = [t \in Requests |-> "out"]
  /\ control = [t \in Requests |-> "NO_CONTROL_INPUT"]
  /\ id = [t \in Requests |-> 0]
  /\ state = [t \in Requests |-> 0]
  /\ scan = {}

Goto(t, l) == pc' = [pc EXCEPT ![t] = l]

\* infer returns: its locals are gone.
Return(t) ==
  /\ Goto(t, "out")
  /\ control' = [control EXCEPT ![t] = "NO_CONTROL_INPUT"]
  /\ id' = [id EXCEPT ![t] = 0]
  /\ state' = [state EXCEPT ![t] = 0]

\* sequences.erase: the Sequence object and all it keeps are gone.
Erase(i) ==
  /\ sequences' = sequences \ {i}
  /\ idle' = idle \ {i}
  /\ terminated' = terminated \ {i}
  /\ memoryState' = [memoryState EXCEPT ![i] = Empty]
  /\ UNCHANGED sequenceIdCounter

(***************************************************************************)
(* A request up to the sequence's mutex.                                   *)
(***************************************************************************)

\* validate lets a request pass: only a request that starts a sequence may
\* come without an id.
Submit(t) ==
  /\ pc[t] = "out"
  /\ \E c \in Controls, i \in Ids \cup {0} :
       /\ i = 0 => c = "SEQUENCE_START"
       /\ control' = [control EXCEPT ![t] = c]
       /\ id' = [id EXCEPT ![t] = i]
  /\ Goto(t, "lock")
  /\ UNCHANGED <<mutex, sequenceVars, sequenceMutex, streamVars, state, scan>>

\* How many increments the id counter, which wraps around, is away from i.
Distance(i) == (i - sequenceIdCounter) % IdCount

\* getUniqueSequenceId: the first unused id other than 0 from the counter on.
UniqueSequenceId(i) == \A j \in Ids \ sequences : Distance(i) <= Distance(j)

CanCreate(t) ==
  Cardinality(sequences) < maxSequenceNumber /\ id[t] \notin sequences

\* createSequence; a request without id leaves the counter at the id it got.
CreateSequence(t) ==
  /\ control[t] = "SEQUENCE_START"
  /\ CanCreate(t)
  /\ \E i \in Ids \ sequences :
       /\ IF id[t] = 0 THEN UniqueSequenceId(i) ELSE i = id[t]
       /\ sequences' = sequences \cup {i}
       /\ id' = [id EXCEPT ![t] = i]
       /\ sequenceIdCounter' = IF id[t] = 0 THEN i ELSE sequenceIdCounter
  /\ UNCHANGED <<idle, terminated, memoryState>>

HasSequence(i) == i \in sequences \ terminated

ContinueSequence(t) ==
  /\ control[t] = "NO_CONTROL_INPUT"
  /\ HasSequence(id[t])
  /\ UNCHANGED <<sequenceVars, id>>

TerminateSequence(t) ==
  /\ control[t] = "SEQUENCE_END"
  /\ HasSequence(id[t])
  /\ terminated' = terminated \cup {id[t]}
  /\ UNCHANGED <<sequences, idle, memoryState, sequenceIdCounter, id>>

\* Lock the manager and process the request's specification; the lock is kept
\* for the wait on the sequence's mutex.
ProcessRequestedSpec(t) ==
  /\ pc[t] = "lock"
  /\ mutex = NoThread
  /\ CreateSequence(t) \/ ContinueSequence(t) \/ TerminateSequence(t)
  /\ mutex' = t
  /\ Goto(t, "sequence")
  /\ UNCHANGED <<sequenceMutex, streamVars, control, state, scan>>

\* It fails: MAX_SEQUENCE_NUMBER_REACHED, SEQUENCE_ALREADY_EXISTS,
\* SEQUENCE_TERMINATED or SEQUENCE_MISSING.
RefuseRequestedSpec(t) ==
  /\ pc[t] = "lock"
  /\ mutex = NoThread
  /\ IF control[t] = "SEQUENCE_START" THEN ~CanCreate(t) ELSE ~HasSequence(id[t])
  /\ Return(t)
  /\ UNCHANGED <<mutex, sequenceVars, sequenceMutex, streamVars, scan>>

\* Mutant: the sequence's mutex is not waited for.
LockSequenceNoWait(t) ==
  /\ pc[t] = "sequence"
  /\ sequenceMutex' = [sequenceMutex EXCEPT ![id[t]] = t]
  /\ mutex' = NoThread
  /\ Goto(t, "stream")
  /\ UNCHANGED <<sequenceVars, streamVars, requestVars, scan>>

\* The sequence is free: lock it and let the manager go.
LockSequence(t) ==
  /\ pc[t] = "sequence"
  /\ sequenceMutex[id[t]] = NoThread
  /\ sequenceMutex' = [sequenceMutex EXCEPT ![id[t]] = t]
  /\ mutex' = NoThread
  /\ Goto(t, "stream")
  /\ UNCHANGED <<sequenceVars, streamVars, requestVars, scan>>

(***************************************************************************)
(* Inference.                                                              *)
(***************************************************************************)

\* The memory state after one more inference.
Advance(m) == (m + 1) % StateCount

Queued(t) == \E i \in DOMAIN promises : promises[i] = t

\* ExecutingStreamIdGuard, see InferRequestsQueue.  getIdleStream holds front_mut
\* from its look at the ring until it has queued a promise.
FrontLocked == \E u \in Requests : pc[u] = "push"

\* It finds a stream and takes it.
GetStream(t) ==
  /\ pc[t] = "stream"
  /\ ~FrontLocked
  /\ freeStreams > 0
  /\ freeStreams' = freeStreams - 1
  /\ Goto(t, "infer")
  /\ UNCHANGED <<mutex, sequenceVars, sequenceMutex, promises, requestVars, scan>>

\* It finds none ...
NoStream(t) ==
  /\ pc[t] = "stream"
  /\ ~FrontLocked
  /\ freeStreams = 0
  /\ Goto(t, "push")
  /\ UNCHANGED <<mutex, sequenceVars, sequenceMutex, streamVars, requestVars, scan>>

\* ... and queues a promise, which a stream that came back meanwhile has missed.
QueuePromise(t) ==
  /\ pc[t] = "push"
  /\ promises' = Append(promises, t)
  /\ Goto(t, "wait")
  /\ UNCHANGED <<mutex, sequenceVars, sequenceMutex, freeStreams, requestVars, scan>>

\* The future is ready.
StreamReady(t) ==
  /\ pc[t] = "wait"
  /\ ~Queued(t)
  /\ Goto(t, "infer")
  /\ UNCHANGED <<mutex, sequenceVars, sequenceMutex, streamVars, requestVars, scan>>

\* returnStream: to the oldest promise, or else to the idle streams.
ReturnStream ==
  \/ /\ promises = <<>>
     /\ freeStreams' = freeStreams + 1
     /\ UNCHANGED promises
  \/ /\ promises # <<>>
     /\ promises' = Tail(promises)
     /\ UNCHANGED freeStreams

\* preInferenceProcessing resets the infer request's memory state on
\* SEQUENCE_START and otherwise loads the one the sequence saved;
\* performInference then advances it.
Infer(t) ==
  /\ pc[t] = "infer"
  /\ control[t] # "SEQUENCE_START" => memoryState[id[t]] # Empty
  /\ state' = [state EXCEPT ![t] =
                 Advance(IF control[t] = "SEQUENCE_START" THEN 0 ELSE memoryState[id[t]])]
  /\ Goto(t, "post")
  /\ UNCHANGED <<mutex, sequenceVars, sequenceMutex, streamVars, control, id, scan>>

\* The locks and the stream guard go out of scope.
Release(t) ==
  /\ ReturnStream
  /\ sequenceMutex' = [sequenceMutex EXCEPT ![id[t]] = NoThread]
  /\ Return(t)

\* Mutant: the early return leaves the sequence locked.
FailKeepsMutex(t) ==
  /\ pc[t] = "infer"
  /\ ReturnStream
  /\ Return(t)
  /\ UNCHANGED <<mutex, sequenceMutex, sequenceVars, scan>>

\* A sequence without a saved state (INTERNAL_ERROR), or an error of the
\* deserialization, the inference or the serialization: return at once.
InferenceFails(t) ==
  /\ pc[t] = "infer"
  /\ Release(t)
  /\ UNCHANGED <<mutex, sequenceVars, scan>>

\* postInferenceProcessing of a request that does not end the sequence:
\* updateMemoryState, which also clears the idle flag.
UpdateMemoryState(t) ==
  /\ pc[t] = "post"
  /\ control[t] # "SEQUENCE_END"
  /\ memoryState' = [memoryState EXCEPT ![id[t]] = state[t]]
  /\ idle' = idle \ {id[t]}
  /\ Release(t)
  /\ UNCHANGED <<mutex, sequences, terminated, sequenceIdCounter, scan>>

\* updateMemoryState cannot clone a state and returns before it clears the idle
\* flag; postInferenceProcessing ignores that and the client gets its response.
UpdateMemoryStateFails(t) ==
  /\ pc[t] = "post"
  /\ control[t] # "SEQUENCE_END"
  /\ Release(t)
  /\ UNCHANGED <<mutex, sequenceVars, scan>>

\* postInferenceProcessing of the last request saves nothing; the sequence is
\* unlocked, the stream is not returned yet.
UnlockSequence(t) ==
  /\ pc[t] = "post"
  /\ control[t] = "SEQUENCE_END"
  /\ sequenceMutex' = [sequenceMutex EXCEPT ![id[t]] = NoThread]
  /\ Goto(t, "remove")
  /\ UNCHANGED <<mutex, sequenceVars, streamVars, requestVars, scan>>

\* Lock the manager again, removeSequence; then everything is released.
RemoveSequence(t) ==
  /\ pc[t] = "remove"
  /\ mutex = NoThread
  /\ Erase(id[t])
  /\ ReturnStream
  /\ Return(t)
  /\ UNCHANGED <<mutex, sequenceMutex, scan>>

(***************************************************************************)
(* The idle sequence cleaner: removeIdleSequences.                         *)
(***************************************************************************)

StartScan ==
  /\ mutex = NoThread
  /\ mutex' = Cleaner
  /\ scan' = sequences
  /\ UNCHANGED <<sequenceVars, sequenceMutex, streamVars, pc, requestVars>>

\* A sequence that is terminated, or locked at this moment, is passed over.
SkipSequence(i) ==
  /\ i \in terminated \/ sequenceMutex[i] # NoThread
  /\ UNCHANGED sequenceVars

\* Mutant: the terminated flag is not looked at.
EraseTerminated(i) ==
  /\ sequenceMutex[i] = NoThread
  /\ i \in idle
  /\ Erase(i)

EraseIdle(i) ==
  /\ i \notin terminated /\ sequenceMutex[i] = NoThread
  /\ i \in idle
  /\ Erase(i)

\* Mutant: the sequence is not marked.
SetIdleForgotten(i) ==
  /\ i \notin terminated /\ sequenceMutex[i] = NoThread
  /\ i \notin idle
  /\ idle' = idle
  /\ UNCHANGED <<sequences, terminated, memoryState, sequenceIdCounter>>

SetIdle(i) ==
  /\ i \notin terminated /\ sequenceMutex[i] = NoThread
  /\ i \notin idle
  /\ idle' = idle \cup {i}
  /\ UNCHANGED <<sequences, terminated, memoryState, sequenceIdCounter>>

VisitSequence(i) ==
  /\ i \in scan
  /\ SkipSequence(i) \/ EraseIdle(i) \/ SetIdle(i)
  /\ scan' = scan \ {i}
  /\ UNCHANGED <<mutex, sequenceMutex, streamVars, pc, requestVars>>

EndScan ==
  /\ mutex = Cleaner
  /\ scan = {}
  /\ mutex' = NoThread
  /\ UNCHANGED <<sequenceVars, sequenceMutex, streamVars, pc, requestVars, scan>>

-----------------------------------------------------------------------------
RequestStep(t) ==
  \/ ProcessRequestedSpec(t) \/ RefuseRequestedSpec(t) \/ LockSequence(t)
  \/ GetStream(t) \/ NoStream(t) \/ QueuePromise(t) \/ StreamReady(t) \/ Infer(t)
  \/ InferenceFails(t) \/ UpdateMemoryState(t) \/ UpdateMemoryStateFails(t)
  \/ UnlockSequence(t) \/ RemoveSequence(t)

ScanStep == EndScan \/ \E i \in Ids : VisitSequence(i)

Next ==
  \/ \E t \in Requests : Submit(t) \/ RequestStep(t)
  \/ StartScan
  \/ ScanStep

Spec == Init /\ [][Next]_vars

\* Threads inside the code keep running and inferences end.  Nothing makes a
\* client send a request or the cleaner start another scan.
Fairness ==
  /\ \A t \in Requests : WF_vars(RequestStep(t))
  /\ WF_vars(ScanStep)

FairSpec == Spec /\ Fairness

-----------------------------------------------------------------------------
(***************************************************************************)
(* Safety.                                                                 *)
(***************************************************************************)

\* The requests that hold a sequence's mutex, and those that keep a reference
\* to a Sequence object of the map.
Locking == {t \in Requests : pc[t] \in {"stream", "push", "wait", "infer", "post"}}
Referring == Locking \cup {t \in Requests : pc[t] \in {"sequence", "remove"}}

\* No request is left with a dangling reference: neither the cleaner nor a
\* SEQUENCE_END erases a Sequence that another request waits for or runs on,
\* and removeSequence finds what it removes.
ReferenceValid == \A t \in Referring : id[t] \in sequences

\* Requests of one sequence run one after the other, and what one of them loads
\* is still the sequence's state when it runs: no update is lost.
NoLostUpdate ==
  /\ \A t, u \in Locking : id[t] = id[u] => t = u
  /\ \A t \in Requests :
       pc[t] = "post" =>
         IF control[t] = "SEQUENCE_START" THEN memoryState[id[t]] = Empty
         ELSE memoryState[id[t]] # Empty /\ state[t] = Advance(memoryState[id[t]])

\* max_sequence_number bounds the map, through every mix of creations, ends and
\* scans.
MaxSequenceNumber == Cardinality(sequences) <= maxSequenceNumber

\* The requests that have a stream.
StreamHolders ==
  {t \in Requests : pc[t] \in {"infer", "post", "remove"} \/ (pc[t] = "wait" /\ ~Queued(t))}

\* The streams are conserved: every early return of infer gives its stream back,
\* to the pool or to a request that waits.
StreamsCounted == freeStreams + Cardinality(StreamHolders) = nireq

(***************************************************************************)
(* Why it is safe: the inductive invariant, in named parts.                *)
(***************************************************************************)

\* The manager's mutex is held from the lookup to the lock of the sequence, and
\* by the cleaner for a whole scan.
ManagerHeld ==
  /\ \A t \in Requests : pc[t] = "sequence" <=> mutex = t
  /\ scan # {} => mutex = Cleaner
  /\ scan \subseteq sequences

\* A sequence's mutex is held by the request that runs on it.
SequencesHeld ==
  \A i \in Ids, t \in Requests :
    sequenceMutex[i] = t <=> t \in Locking /\ id[t] = i

\* Each promise is that of a request that waits for it.
PromisesAwaited ==
  /\ \A i \in DOMAIN promises : pc[promises[i]] = "wait"
  /\ \A i, j \in DOMAIN promises : promises[i] = promises[j] => i = j

\* Only a request that ends its sequence comes to remove it.
RemoversEnd == \A t \in Requests : pc[t] = "remove" => control[t] = "SEQUENCE_END"

\* Whoever ends a sequence is the only one to refer to it once it has the
\* sequence's mutex.
EndsAlone ==
  \A t, u \in Requests :
    /\ t \in Locking \/ pc[t] = "remove"
    /\ control[t] = "SEQUENCE_END"
    /\ u \in Referring
    /\ id[u] = id[t]
    => u = t

\* The sequence of an ending request is terminated; nobody ends it twice.
EndTerminates ==
  \A t \in Referring :
    control[t] = "SEQUENCE_END" =>
      /\ id[t] \in terminated
      /\ \A u \in Referring : control[u] = "SEQUENCE_END" /\ id[u] = id[t] => u = t

\* While a request that starts a sequence waits for its mutex nobody else
\* refers to it ...
StartsAlone ==
  \A t, u \in Referring :
    pc[t] = "sequence" /\ control[t] = "SEQUENCE_START" /\ id[u] = id[t] => u = t

\* ... so it runs before any other request of it can save a state.
StartsFirst ==
  \A t \in Referring :
    control[t] = "SEQUENCE_START" => memoryState[id[t]] = Empty

\* An id that is not in the map leaves nothing behind for its next user.
AbsentIsEmpty == \A i \in Ids \ sequences : memoryState[i] = Empty

IInv ==
  /\ TypeOK
  /\ ManagerHeld
  /\ SequencesHeld
  /\ ReferenceValid
  /\ NoLostUpdate
  /\ RemoversEnd
  /\ EndsAlone
  /\ EndTerminates
  /\ StartsAlone
  /\ StartsFirst
  /\ AbsentIsEmpty
  /\ MaxSequenceNumber
  /\ PromisesAwaited
  /\ StreamsCounted

(***************************************************************************)
(* Liveness.                                                               *)
(***************************************************************************)

CallsStop ==
  <>[][~ (\E t \in Requests : Submit(t)) /\ ~ StartScan]_vars

\* A request waits beside an idle stream: returnStream missed its promise.
Stranded == freeStreams > 0 /\ promises # <<>>

\* Every request returns and every scan ends once clients stop sending: the two
\* levels of mutexes and the streams do not block one another for good.  The
\* premise is that no promise is left beside an idle stream for ever, which
\* InferRequestsQueue shows can happen when no further stream is returned.
AllReturn ==
  CallsStop /\ []<>~Stranded
    => <>[]((\A t \in Requests : pc[t] = "out") /\ mutex = NoThread)

\* While the cleaner keeps scanning, a sequence that no request uses any more is
\* removed, unless it was set for termination.
AbandonedIsRemoved ==
  \A i \in Ids :
    []<><<StartScan>>_vars
      => \/ []<>(i \notin sequences)
         \/ []<>(\E t \in Requests : pc[t] # "out" /\ id[t] = i)
         \/ <>[](i \in terminated)
=============================================================================
