------------------------- MODULE InferRequestsQueue -------------------------
(***************************************************************************)
(* The pool of inference streams of one loaded model, OVInferRequestsQueue *)
(* (src/src/ovinferrequestsqueue.cpp), and the guards through which        *)
(* threads use it: ExecutingStreamIdGuard blocks until it has a stream,    *)
(* NodeStreamIdGuard keeps the future and may be disarmed before it is     *)
(* used.                                                                   *)
(*                                                                         *)
(* Idle stream ids sit in a ring.  getIdleStream takes the front slot      *)
(* under front_mut; when that slot is empty it queues a promise under      *)
(* queue_mutex.  returnStream fulfils the oldest promise or else, under    *)
(* queue_mutex, advances back_idx and then stores the id.  The two sides   *)
(* hold different mutexes, so the test of the front slot and the push of   *)
(* the promise, and the advance of back_idx and the store, are steps that  *)
(* interleave with the other side.                                         *)
(***************************************************************************)
EXTENDS Integers, Sequences

CONSTANTS nireq,       \* number of parallel infer requests: ring size
          Guards,      \* guard objects, each reused for one request after another
          NodeGuards,  \* those that are NodeStreamIdGuards
          NoGuard      \* "no guard": an unlocked mutex

ASSUME NireqAssumption == nireq \in Nat \ {0}
ASSUME GuardsAssumption == NodeGuards \subseteq Guards /\ NoGuard \notin Guards

VARIABLES
  streams,      \* the ring: slot -> stream id, or -1 for a consumed slot
  front_idx,    \* slot the next getIdleStream looks at
  back_idx,     \* slot the next returnStream writes
  promises,     \* FIFO of the guards whose promise waits for a stream
  front_mut,    \* holder of front_mut
  queue_mutex,  \* holder of queue_mutex
  pc,           \* where each guard is
  streamId,     \* the stream each guard's future holds (or it is returning), -1 if none
  old_back,     \* returnStream: slot reserved by the advance of back_idx
  promise       \* returnStream: guard whose promise was popped

poolState == <<streams, front_idx, back_idx, promises, front_mut, queue_mutex>>
vars == <<poolState, pc, streamId, old_back, promise>>

Slots == 0 .. nireq - 1
Streams == 0 .. nireq - 1
NoStream == -1

PCs == {"out", "take", "push", "wait", "infer", "release", "handoff", "store"}

TypeOK ==
  /\ streams \in [Slots -> Streams \cup {NoStream}]
  /\ front_idx \in Slots
  /\ back_idx \in Slots
  /\ promises \in Seq(Guards)
  /\ front_mut \in Guards \cup {NoGuard}
  /\ queue_mutex \in Guards \cup {NoGuard}
  /\ pc \in [Guards -> PCs]
  /\ streamId \in [Guards -> Streams \cup {NoStream}]
  /\ old_back \in [Guards -> Slots]
  /\ promise \in [Guards -> Guards \cup {NoGuard}]

-----------------------------------------------------------------------------
Init ==
  /\ streams = [i \in Slots |-> i]
  /\ front_idx = 0
  /\ back_idx = 0
  /\ promises = <<>>
  /\ front_mut = NoGuard
  /\ queue_mutex = NoGuard
  /\ pc = [g \in Guards |-> "out"]
  /\ streamId = [g \in Guards |-> NoStream]
  /\ old_back = [g \in Guards |-> 0]
  /\ promise = [g \in Guards |-> NoGuard]

Goto(g, l) == pc' = [pc EXCEPT ![g] = l]

\* The next slot of the ring.
NextSlot(i) == (i + 1) % nireq

(***************************************************************************)
(* getIdleStream, called by the constructor of either guard.               *)
(***************************************************************************)

\* Lock front_mut and test the front slot.  The slot may be written at this
\* moment by returnStream, which does not hold front_mut.
GetIdleStreamCheck(g) ==
  /\ pc[g] = "out"
  /\ front_mut = NoGuard
  /\ front_mut' = g
  /\ Goto(g, IF streams[front_idx] < 0 THEN "push" ELSE "take")
  /\ UNCHANGED <<streams, front_idx, back_idx, promises, queue_mutex,
                 streamId, old_back, promise>>

\* Mutant: the slot is not marked as consumed.
TakeKeepsSlot(g) ==
  /\ pc[g] = "take"
  /\ streamId' = [streamId EXCEPT ![g] = streams[front_idx]]
  /\ streams' = streams
  /\ front_idx' = NextSlot(front_idx)
  /\ front_mut' = NoGuard
  /\ Goto(g, "wait")
  /\ UNCHANGED <<back_idx, promises, queue_mutex, old_back, promise>>

\* Consume the front slot, unlock, and fulfil the guard's own promise.
GetIdleStreamTake(g) ==
  /\ pc[g] = "take"
  /\ streamId' = [streamId EXCEPT ![g] = streams[front_idx]]
  /\ streams' = [streams EXCEPT ![front_idx] = NoStream]
  /\ front_idx' = NextSlot(front_idx)
  /\ front_mut' = NoGuard
  /\ Goto(g, "wait")
  /\ UNCHANGED <<back_idx, promises, queue_mutex, old_back, promise>>

\* Still holding front_mut, lock queue_mutex and queue the promise.
GetIdleStreamPush(g) ==
  /\ pc[g] = "push"
  /\ queue_mutex = NoGuard
  /\ promises' = Append(promises, g)
  /\ front_mut' = NoGuard
  /\ Goto(g, "wait")
  /\ UNCHANGED <<streams, front_idx, back_idx, queue_mutex,
                 streamId, old_back, promise>>

(***************************************************************************)
(* The guards.                                                             *)
(***************************************************************************)

Ready(g) == pc[g] = "wait" /\ streamId[g] # NoStream

\* The future is ready: ExecutingStreamIdGuard's get() returns, or a
\* NodeStreamIdGuard's tryGetId finds it (a tryGetId that times out changes
\* nothing).  The guard's InferRequest is in use from here.
StartInference(g) ==
  /\ Ready(g)
  /\ Goto(g, "infer")
  /\ UNCHANGED <<poolState, streamId, old_back, promise>>

\* The inference is over, or failed: the destructor returns the stream.
FinishInference(g) ==
  /\ pc[g] = "infer"
  /\ Goto(g, "release")
  /\ UNCHANGED <<poolState, streamId, old_back, promise>>

\* A stream that is not needed any more: NodeStreamIdGuard::tryDisarm with a
\* ready future, or the destructor of a guard that never used its stream.
Disarm(g) ==
  /\ g \in NodeGuards
  /\ Ready(g)
  /\ Goto(g, "release")
  /\ UNCHANGED <<poolState, streamId, old_back, promise>>

(***************************************************************************)
(* returnStream.                                                           *)
(***************************************************************************)

\* Mutant: the promise pushed last is served first.
PopNewest(g) ==
  /\ pc[g] = "release"
  /\ queue_mutex = NoGuard
  /\ promises # <<>>
  /\ promise' = [promise EXCEPT ![g] = promises[Len(promises)]]
  /\ promises' = SubSeq(promises, 1, Len(promises) - 1)
  /\ Goto(g, "handoff")
  /\ UNCHANGED <<streams, front_idx, back_idx, front_mut, queue_mutex,
                 streamId, old_back>>

\* Lock queue_mutex; promises are waiting: pop the oldest one and unlock.
ReturnStreamPop(g) ==
  /\ pc[g] = "release"
  /\ queue_mutex = NoGuard
  /\ promises # <<>>
  /\ promise' = [promise EXCEPT ![g] = Head(promises)]
  /\ promises' = Tail(promises)
  /\ Goto(g, "handoff")
  /\ UNCHANGED <<streams, front_idx, back_idx, front_mut, queue_mutex,
                 streamId, old_back>>

\* Mutant: no return after set_value, the id is stored as well.
SetValueFallsThrough(g) ==
  /\ pc[g] = "handoff"
  /\ streamId' = [streamId EXCEPT ![promise[g]] = streamId[g]]
  /\ promise' = [promise EXCEPT ![g] = NoGuard]
  /\ Goto(g, "release")
  /\ UNCHANGED <<poolState, old_back>>

\* Fulfil the popped promise, with no mutex held.
ReturnStreamSetValue(g) ==
  /\ pc[g] = "handoff"
  /\ streamId' = [streamId EXCEPT ![promise[g]] = streamId[g], ![g] = NoStream]
  /\ promise' = [promise EXCEPT ![g] = NoGuard]
  /\ Goto(g, "out")
  /\ UNCHANGED <<poolState, old_back>>

\* Mutant: waiting promises are not looked at.
ReserveIgnoresPromises(g) ==
  /\ pc[g] = "release"
  /\ queue_mutex = NoGuard
  /\ queue_mutex' = g
  /\ old_back' = [old_back EXCEPT ![g] = back_idx]
  /\ back_idx' = NextSlot(back_idx)
  /\ Goto(g, "store")
  /\ UNCHANGED <<streams, front_idx, promises, front_mut, streamId, promise>>

\* Lock queue_mutex; no promise waits: reserve the back slot.  The
\* compare-exchange loop runs under queue_mutex, so it succeeds at once.
ReturnStreamReserve(g) ==
  /\ pc[g] = "release"
  /\ queue_mutex = NoGuard
  /\ promises = <<>>
  /\ queue_mutex' = g
  /\ old_back' = [old_back EXCEPT ![g] = back_idx]
  /\ back_idx' = NextSlot(back_idx)
  /\ Goto(g, "store")
  /\ UNCHANGED <<streams, front_idx, promises, front_mut, streamId, promise>>

\* Store the id in the reserved slot, not under front_mut; the return from
\* the function unlocks queue_mutex.
ReturnStreamStore(g) ==
  /\ pc[g] = "store"
  /\ streams' = [streams EXCEPT ![old_back[g]] = streamId[g]]
  /\ queue_mutex' = NoGuard
  /\ streamId' = [streamId EXCEPT ![g] = NoStream]
  /\ old_back' = [old_back EXCEPT ![g] = 0]
  /\ Goto(g, "out")
  /\ UNCHANGED <<front_idx, back_idx, promises, front_mut, promise>>

ReturnStream(g) == ReturnStreamPop(g) \/ ReturnStreamReserve(g)

-----------------------------------------------------------------------------
Step(g) ==
  \/ GetIdleStreamCheck(g)
  \/ GetIdleStreamTake(g)
  \/ GetIdleStreamPush(g)
  \/ StartInference(g)
  \/ FinishInference(g)
  \/ Disarm(g)
  \/ ReturnStreamPop(g)
  \/ ReturnStreamSetValue(g)
  \/ ReturnStreamReserve(g)
  \/ ReturnStreamStore(g)

Next == \E g \in Guards : Step(g)

Spec == Init /\ [][Next]_vars

\* A thread inside the queue's code keeps running, inferences end, and a guard
\* with a stream goes on to use it or to give it back.  Nothing makes a
\* client send another request.
Fairness ==
  \A g \in Guards :
    /\ WF_vars(GetIdleStreamTake(g))
    /\ WF_vars(GetIdleStreamPush(g))
    /\ WF_vars(StartInference(g) \/ Disarm(g))
    /\ WF_vars(FinishInference(g))
    /\ WF_vars(ReturnStream(g))
    /\ WF_vars(ReturnStreamSetValue(g))
    /\ WF_vars(ReturnStreamStore(g))

FairSpec == Spec /\ Fairness

-----------------------------------------------------------------------------
(***************************************************************************)
(* Safety.                                                                 *)
(***************************************************************************)

\* A guard that owns the stream in its future.
Owns(g) == pc[g] \in {"wait", "infer", "release"} /\ streamId[g] # NoStream

\* Two guards never run inferences on the same InferRequest, nor own the same
\* stream, although takers and returners hold different mutexes.
StreamExclusive ==
  \A g, h \in Guards :
    Owns(g) /\ Owns(h) /\ streamId[g] = streamId[h] => g = h

\* The places where stream s is: a slot of the ring or a guard.
Places(s) ==
  {<<"ring", i>> : i \in {j \in Slots : streams[j] = s}}
    \cup {<<"guard", g>> : g \in {h \in Guards : streamId[h] = s}}

\* returnStream and getIdleStream neither lose a stream id nor duplicate it:
\* every id is always in exactly one place, between the steps of a return too.
StreamConserved ==
  \A s \in Streams :
    /\ Places(s) # {}
    /\ \A p, q \in Places(s) : p = q

\* The slot that returnStream reserved is consumed when the id is stored: the
\* back of the ring never runs over an idle stream at its front.
NoOverwrite ==
  \A g \in Guards : pc[g] = "store" => streams[old_back[g]] = NoStream

\* A popped promise belongs to a guard that still waits and was never
\* fulfilled (std::promise::set_value would throw the second time).
PromiseSetOnce ==
  \A g \in Guards :
    pc[g] = "handoff" =>
      /\ pc[promise[g]] = "wait"
      /\ streamId[promise[g]] = NoStream
      /\ \A h \in Guards \ {g} : pc[h] = "handoff" => promise[h] # promise[g]

\* A slot that holds an idle stream, or is about to.
Occupied(i) ==
  streams[i] # NoStream \/ \E g \in Guards : pc[g] = "store" /\ old_back[g] = i

\* How bad the window between the test of the front slot and the push of the
\* promise is: while an idle stream is in the ring at most one promise waits.
AtMostOneStranded ==
  (\E i \in Slots : Occupied(i)) => Len(promises) <= 1

(***************************************************************************)
(* Why the pool is safe: the inductive invariant, in named parts.          *)
(***************************************************************************)

\* front_mut is held from the test of the front slot to the take or the push,
\* queue_mutex from the reservation of a slot to the store.
MutexesHeld ==
  \A g \in Guards :
    /\ pc[g] \in {"take", "push"} <=> front_mut = g
    /\ pc[g] = "store" <=> queue_mutex = g

\* Who has a stream id.
HasStream ==
  \A g \in Guards :
    /\ pc[g] \in {"out", "take", "push"} => streamId[g] = NoStream
    /\ pc[g] \in {"infer", "release", "handoff", "store"} => streamId[g] # NoStream

\* No id is in two slots, at two guards, or in a slot and at a guard.
IdsDistinct ==
  /\ \A i, j \in Slots : streams[i] = streams[j] /\ streams[i] # NoStream => i = j
  /\ \A g, h \in Guards :
       streamId[g] = streamId[h] /\ streamId[g] # NoStream => g = h
  /\ \A i \in Slots, g \in Guards : streams[i] # NoStream => streamId[g] # streams[i]

IdsPresent ==
  \A s \in Streams :
    (\E i \in Slots : streams[i] = s) \/ (\E g \in Guards : streamId[g] = s)

\* The occupied slots run from front_idx up to back_idx, around the ring; when
\* the two meet the ring is full or empty.
RingShape ==
  \/ front_idx = back_idx /\ \A i \in Slots : Occupied(i)
  \/ front_idx = back_idx /\ \A i \in Slots : ~Occupied(i)
  \/ /\ front_idx < back_idx
     /\ \A i \in Slots : Occupied(i) <=> front_idx <= i /\ i < back_idx
  \/ /\ back_idx < front_idx
     /\ \A i \in Slots : Occupied(i) <=> front_idx <= i \/ i < back_idx

\* The slot a taker tested is still there when it takes.
TakeReady == \A g \in Guards : pc[g] = "take" => streams[front_idx] # NoStream

Waiting(g) == pc[g] = "wait" /\ streamId[g] = NoStream

\* Queued and popped promises are distinct and their guards still wait.
PromisesWait ==
  /\ \A i \in 1 .. Len(promises) : Waiting(promises[i])
  /\ \A i, j \in 1 .. Len(promises) : promises[i] = promises[j] => i = j
  /\ \A g \in Guards, i \in 1 .. Len(promises) :
       pc[g] = "handoff" => promise[g] # promises[i]
  /\ \A g \in Guards : pc[g] = "handoff" => promise[g] \in Guards

\* A slot is reserved only while no promise waits; a guard that is about to
\* queue behind another promise saw a ring that stays empty.
StrandedInv ==
  /\ \A g \in Guards : pc[g] = "store" => promises = <<>>
  /\ \A g \in Guards : pc[g] = "push" /\ promises # <<>> => \A i \in Slots : ~Occupied(i)

IInv ==
  /\ TypeOK
  /\ MutexesHeld
  /\ HasStream
  /\ IdsDistinct
  /\ IdsPresent
  /\ RingShape
  /\ NoOverwrite
  /\ TakeReady
  /\ PromisesWait
  /\ PromiseSetOnce
  /\ StrandedInv
  /\ AtMostOneStranded

(***************************************************************************)
(* Liveness.                                                               *)
(***************************************************************************)

\* As long as streams keep being returned, every queued promise is fulfilled:
\* promises are served in the order they were pushed.
ServedWhileStreamsReturn ==
  \A g \in Guards :
    []<><<\E h \in Guards : ReturnStream(h)>>_vars
      => (pc[g] = "wait" ~> pc[g] # "wait")

\* What the comment in getIdleStream and the multi-threaded test expect: a
\* guard that waits for a stream gets one once inferences finish.
WaiterServed == \A g \in Guards : pc[g] = "wait" ~> pc[g] # "wait"

(***************************************************************************)
(* The pool implements StreamPool.                                         *)
(***************************************************************************)

Asked == {g \in Guards : pc[g] \in {"take", "push"} \/ Waiting(g)}

Held == [g \in Guards |-> IF Owns(g) THEN streamId[g] ELSE NoStream]

Pool == INSTANCE StreamPool WITH asked <- Asked, held <- Held

\* A stream is granted only while nobody owns it, to a guard that asked, and
\* goes back from its owner only.
ImplementsStreamPool == Pool!PoolSpec
=============================================================================
