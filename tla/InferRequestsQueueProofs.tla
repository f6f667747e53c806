---------------------- MODULE InferRequestsQueueProofs ----------------------
(***************************************************************************)
(* Proofs about the stream pool, for every number of streams and guards.   *)
(***************************************************************************)
EXTENDS InferRequestsQueue, FiniteSetTheorems, TLAPS

\* (i + 1) % nireq walks the slots in order and wraps at the end of the ring.
LEMMA NextSlotWraps ==
  ASSUME NEW i \in Slots
  PROVE  /\ NextSlot(i) \in Slots
         /\ NextSlot(i) = IF i + 1 = nireq THEN 0 ELSE i + 1
BY NireqAssumption DEF Slots, NextSlot

\* Every step keeps every variable in its type.
LEMMA TypeStep ==
  ASSUME TypeOK, [Next]_vars
  PROVE  TypeOK'
<1> USE NireqAssumption, GuardsAssumption
<1> USE DEF TypeOK
<1>1. CASE UNCHANGED vars
  BY <1>1 DEF vars, poolState
<1>2. ASSUME NEW g \in Guards, Step(g)
      PROVE  TypeOK'
  <2> USE DEF Goto, PCs
  <2>1. CASE GetIdleStreamCheck(g)
    BY <2>1 DEF GetIdleStreamCheck
  <2>2. CASE GetIdleStreamTake(g)
    BY <2>2, NextSlotWraps DEF GetIdleStreamTake, Slots, Streams
  <2>3. CASE GetIdleStreamPush(g)
    BY <2>3 DEF GetIdleStreamPush
  <2>4. CASE StartInference(g)
    BY <2>4 DEF StartInference, poolState
  <2>5. CASE FinishInference(g)
    BY <2>5 DEF FinishInference, poolState
  <2>6. CASE Disarm(g)
    BY <2>6 DEF Disarm, poolState
  <2>7. CASE ReturnStreamPop(g)
    BY <2>7 DEF ReturnStreamPop
  <2>8. CASE ReturnStreamSetValue(g)
    BY <2>8 DEF ReturnStreamSetValue, poolState
  <2>9. CASE ReturnStreamReserve(g)
    BY <2>9, NextSlotWraps DEF ReturnStreamReserve
  <2>10. CASE ReturnStreamStore(g)
    BY <2>10 DEF ReturnStreamStore, Slots
  <2> QED
    BY <1>2, <2>1, <2>2, <2>3, <2>4, <2>5, <2>6, <2>7, <2>8, <2>9, <2>10 DEF Step
<1> QED
  BY <1>1, <1>2 DEF Next

\* A step that touches neither the ring nor the promises moves a guard between
\* phases in which it owns its stream.
LEMMA GuardStep ==
  ASSUME IInv, TypeOK', NEW g \in Guards,
         StartInference(g) \/ FinishInference(g) \/ Disarm(g)
  PROVE  IInv'
<1>1. /\ UNCHANGED <<poolState, streamId, old_back, promise>>
      /\ pc[g] \in {"wait", "infer"} /\ streamId[g] # NoStream
      /\ pc' = [pc EXCEPT ![g] = pc'[g]]
      /\ pc'[g] \in {"infer", "release"}
  BY DEF IInv, TypeOK, StartInference, FinishInference, Disarm, Ready, Goto, HasStream
<1> QED
  BY <1>1 DEF IInv, TypeOK, poolState, MutexesHeld, HasStream, IdsDistinct,
     IdsPresent, RingShape, NoOverwrite, TakeReady, PromisesWait, Waiting,
     PromiseSetOnce, StrandedInv, AtMostOneStranded, Occupied

\* The test of the front slot changes nothing but front_mut: an empty front slot
\* means an empty ring, or one whose only stream is still being stored.
LEMMA CheckStep ==
  ASSUME IInv, TypeOK', NEW g \in Guards, GetIdleStreamCheck(g)
  PROVE  IInv'
<1> USE NireqAssumption, GuardsAssumption
<1> USE DEF IInv, TypeOK, GetIdleStreamCheck, Goto
<1>1. MutexesHeld'
  BY DEF MutexesHeld
<1>2. HasStream'
  BY DEF HasStream, TakeReady, PromisesWait, PromiseSetOnce, Waiting
<1>3. IdsDistinct'
  BY DEF IdsDistinct, HasStream, TakeReady, PromiseSetOnce
<1>4. IdsPresent'
  BY DEF IdsPresent, HasStream, PromiseSetOnce, NoOverwrite, PromisesWait
<1>5. RingShape'
  <2>1. \A i \in Slots : Occupied(i)' <=> Occupied(i)
    BY DEF Occupied, MutexesHeld
  <2> QED
    BY <2>1 DEF RingShape
<1>6. NoOverwrite'
  BY DEF NoOverwrite, MutexesHeld, Occupied
<1>7. TakeReady'
  BY DEF TakeReady, MutexesHeld, NoStream, Slots, Streams
<1>8. PromisesWait'
  BY DEF PromisesWait, PromiseSetOnce, Waiting
<1>9. PromiseSetOnce'
  BY DEF PromisesWait, PromiseSetOnce, Waiting, HasStream
<1>10. StrandedInv'
  <2>1. ASSUME NEW h \in Guards, pc'[h] = "store"
        PROVE  promises' = <<>>
    BY <2>1 DEF StrandedInv
  <2>2. ASSUME NEW h \in Guards, pc'[h] = "push", promises' # <<>>
        PROVE  \A i \in Slots : ~Occupied(i)'
    <3>1. h = g
      BY <2>2 DEF MutexesHeld
    <3>2. streams[front_idx] = NoStream
      BY <2>2, <3>1 DEF Streams, NoStream
    <3>3. ~Occupied(front_idx)
      BY <2>2, <3>2 DEF Occupied, StrandedInv
    <3>4. \A i \in Slots : ~Occupied(i)
      BY <3>3 DEF RingShape, Slots
    <3> QED
      BY <3>4 DEF Occupied
  <2> QED
    BY <2>1, <2>2 DEF StrandedInv
<1>11. AtMostOneStranded'
  BY DEF AtMostOneStranded, StrandedInv, Occupied, MutexesHeld
<1> QED
  BY <1>1, <1>2, <1>3, <1>4, <1>5, <1>6, <1>7, <1>8, <1>9, <1>10, <1>11

\* A take empties the front slot, and no returner is storing into it.
LEMMA TakeStep ==
  ASSUME IInv, TypeOK', NEW g \in Guards, GetIdleStreamTake(g)
  PROVE  IInv'
<1> USE NireqAssumption, GuardsAssumption
<1> USE DEF IInv, TypeOK, GetIdleStreamTake, Goto
<1>1. MutexesHeld'
  BY DEF MutexesHeld
<1>2. HasStream'
  BY DEF HasStream, TakeReady, PromisesWait, PromiseSetOnce, Waiting
<1>3. IdsDistinct'
  BY DEF IdsDistinct, HasStream, TakeReady, PromiseSetOnce
<1>4. IdsPresent'
  BY DEF IdsPresent, HasStream, PromiseSetOnce, NoOverwrite, PromisesWait
<1>5. RingShape'
  <2>1. streams[front_idx] # NoStream
    BY DEF TakeReady
  <2>2. \A h \in Guards : pc[h] = "store" => old_back[h] # front_idx
    BY <2>1 DEF NoOverwrite
  <2>3. \A i \in Slots : Occupied(i)' <=> Occupied(i) /\ i # front_idx
    BY <2>2 DEF Occupied
  <2>4. Occupied(front_idx)
    BY <2>1 DEF Occupied
  <2>5. front_idx' = IF front_idx + 1 = nireq THEN 0 ELSE front_idx + 1
    BY NextSlotWraps
  <2>6. /\ nireq \in Nat /\ front_idx \in Slots /\ back_idx \in Slots
        /\ back_idx' = back_idx
    OBVIOUS
  <2>7. CASE front_idx = back_idx
    BY ONLY <2>3, <2>4, <2>5, <2>6, <2>7, RingShape DEF RingShape, Slots
  <2>8. CASE front_idx < back_idx
    BY ONLY <2>3, <2>4, <2>5, <2>6, <2>8, RingShape DEF RingShape, Slots
  <2>9. CASE back_idx < front_idx
    BY ONLY <2>3, <2>4, <2>5, <2>6, <2>9, RingShape DEF RingShape, Slots
  <2> QED
    BY ONLY <2>6, <2>7, <2>8, <2>9 DEF Slots
<1>6. NoOverwrite'
  BY DEF NoOverwrite, MutexesHeld, Occupied
<1>7. TakeReady'
  BY DEF TakeReady, MutexesHeld, HasStream
<1>8. PromisesWait'
  BY DEF PromisesWait, PromiseSetOnce, Waiting
<1>9. PromiseSetOnce'
  BY DEF PromisesWait, PromiseSetOnce, Waiting, HasStream
<1>10. StrandedInv'
  BY DEF StrandedInv, RingShape, Occupied, MutexesHeld
<1>11. AtMostOneStranded'
  BY DEF AtMostOneStranded, StrandedInv, Occupied, MutexesHeld
<1> QED
  BY <1>1, <1>2, <1>3, <1>4, <1>5, <1>6, <1>7, <1>8, <1>9, <1>10, <1>11

\* A push queues one more promise, behind another only if the ring is empty.
LEMMA PushStep ==
  ASSUME IInv, TypeOK', NEW g \in Guards, GetIdleStreamPush(g)
  PROVE  IInv'
<1> USE NireqAssumption, GuardsAssumption
<1> USE DEF IInv, TypeOK, GetIdleStreamPush, Goto
<1>1. MutexesHeld'
  BY DEF MutexesHeld
<1>2. HasStream'
  BY DEF HasStream, TakeReady, PromisesWait, PromiseSetOnce, Waiting
<1>3. IdsDistinct'
  BY DEF IdsDistinct, HasStream, TakeReady, PromiseSetOnce
<1>4. IdsPresent'
  BY DEF IdsPresent, HasStream, PromiseSetOnce, NoOverwrite, PromisesWait
<1>5. RingShape'
  <2>1. \A i \in Slots : Occupied(i)' <=> Occupied(i)
    BY DEF Occupied, MutexesHeld
  <2> QED
    BY <2>1 DEF RingShape
<1>6. NoOverwrite'
  BY DEF NoOverwrite, MutexesHeld, Occupied
<1>7. TakeReady'
  BY DEF TakeReady, MutexesHeld, HasStream
<1>8. PromisesWait'
  <2>1. \A i \in 1 .. Len(promises) : promises[i] \in Guards /\ promises[i] # g
    BY DEF PromisesWait, Waiting
  <2>2. /\ Len(promises') = Len(promises) + 1
        /\ \A i \in 1 .. Len(promises) : promises'[i] = promises[i]
        /\ promises'[Len(promises) + 1] = g
    OBVIOUS
  <2>3. \A i \in 1 .. Len(promises') : Waiting(promises[i])' \/ promises'[i] = g
    BY <2>1, <2>2 DEF PromisesWait, Waiting
  <2>4. Waiting(g)'
    BY DEF Waiting, HasStream
  <2>5. \A i \in 1 .. Len(promises') : Waiting(promises[i])'
    BY <2>3, <2>4 DEF Waiting
  <2>6. \A i, j \in 1 .. Len(promises') : promises'[i] = promises'[j] => i = j
    BY <2>1, <2>2 DEF PromisesWait
  <2>7. \A h \in Guards, i \in 1 .. Len(promises') :
          pc'[h] = "handoff" => promise'[h] # promises'[i]
    BY <2>1, <2>2 DEF PromisesWait, PromiseSetOnce
  <2>8. \A h \in Guards : pc'[h] = "handoff" => promise'[h] \in Guards
    BY DEF PromisesWait
  <2> QED
    BY <2>5, <2>6, <2>7, <2>8 DEF PromisesWait
<1>9. PromiseSetOnce'
  BY DEF PromisesWait, PromiseSetOnce, Waiting, HasStream
<1>10. StrandedInv'
  BY DEF StrandedInv, RingShape, Occupied, MutexesHeld
<1>11. AtMostOneStranded'
  BY DEF AtMostOneStranded, StrandedInv, Occupied, MutexesHeld
<1> QED
  BY <1>1, <1>2, <1>3, <1>4, <1>5, <1>6, <1>7, <1>8, <1>9, <1>10, <1>11

\* Popping the oldest promise.
LEMMA PopStep ==
  ASSUME IInv, TypeOK', NEW g \in Guards, ReturnStreamPop(g)
  PROVE  IInv'
<1> USE NireqAssumption, GuardsAssumption
<1> USE DEF IInv, TypeOK, ReturnStreamPop, Goto
<1>1. MutexesHeld'
  BY DEF MutexesHeld
<1>2. HasStream'
  BY DEF HasStream, TakeReady, PromisesWait, PromiseSetOnce, Waiting
<1>3. IdsDistinct'
  BY DEF IdsDistinct, HasStream, TakeReady, PromiseSetOnce
<1>4. IdsPresent'
  BY DEF IdsPresent, HasStream, PromiseSetOnce, NoOverwrite, PromisesWait
<1>5. RingShape'
  <2>1. \A i \in Slots : Occupied(i)' <=> Occupied(i)
    BY DEF Occupied, MutexesHeld
  <2> QED
    BY <2>1 DEF RingShape
<1>6. NoOverwrite'
  BY DEF NoOverwrite, MutexesHeld, Occupied
<1>7. TakeReady'
  BY DEF TakeReady, MutexesHeld, HasStream
<1>8. PromisesWait'
  BY DEF PromisesWait, PromiseSetOnce, Waiting
<1>9. PromiseSetOnce'
  BY DEF PromisesWait, PromiseSetOnce, Waiting, HasStream
<1>10. StrandedInv'
  BY DEF StrandedInv, RingShape, Occupied, MutexesHeld
<1>11. AtMostOneStranded'
  BY DEF AtMostOneStranded, StrandedInv, Occupied, MutexesHeld
<1> QED
  BY <1>1, <1>2, <1>3, <1>4, <1>5, <1>6, <1>7, <1>8, <1>9, <1>10, <1>11

\* Handing the stream to the guard of the popped promise.
LEMMA SetValueStep ==
  ASSUME IInv, TypeOK', NEW g \in Guards, ReturnStreamSetValue(g)
  PROVE  IInv'
<1> USE NireqAssumption, GuardsAssumption
<1> USE DEF IInv, TypeOK, ReturnStreamSetValue, Goto, poolState
<1>1. MutexesHeld'
  BY DEF MutexesHeld
<1>2. HasStream'
  BY DEF HasStream, TakeReady, PromisesWait, PromiseSetOnce, Waiting
<1>3. IdsDistinct'
  BY DEF IdsDistinct, HasStream, TakeReady, PromiseSetOnce
<1>4. IdsPresent'
  BY DEF IdsPresent, HasStream, PromiseSetOnce, NoOverwrite, PromisesWait
<1>5. RingShape'
  <2>1. \A i \in Slots : Occupied(i)' <=> Occupied(i)
    BY DEF Occupied, MutexesHeld
  <2> QED
    BY <2>1 DEF RingShape
<1>6. NoOverwrite'
  BY DEF NoOverwrite, MutexesHeld, Occupied
<1>7. TakeReady'
  BY DEF TakeReady, MutexesHeld, HasStream
<1>8. PromisesWait'
  BY DEF PromisesWait, PromiseSetOnce, Waiting
<1>9. PromiseSetOnce'
  BY DEF PromisesWait, PromiseSetOnce, Waiting, HasStream
<1>10. StrandedInv'
  BY DEF StrandedInv, RingShape, Occupied, MutexesHeld
<1>11. AtMostOneStranded'
  BY DEF AtMostOneStranded, StrandedInv, Occupied, MutexesHeld
<1> QED
  BY <1>1, <1>2, <1>3, <1>4, <1>5, <1>6, <1>7, <1>8, <1>9, <1>10, <1>11

\* A guard that is about to return a stream leaves the ring with at most
\* nireq - 1 streams, so that the back slot is free: nireq slots cannot hold
\* nireq different ids without that guard's.
LEMMA BackSlotFree ==
  ASSUME IInv, NEW g \in Guards, pc[g] = "release", queue_mutex = NoGuard
  PROVE  streams[back_idx] = NoStream
<1> USE NireqAssumption, GuardsAssumption
<1> USE DEF IInv, TypeOK
<1>1. \A h \in Guards : pc[h] # "store"
  BY DEF MutexesHeld
<1>2. SUFFICES ASSUME streams[back_idx] # NoStream
               PROVE  FALSE
  OBVIOUS
<1>3. \A i \in Slots : streams[i] # NoStream
  BY <1>1, <1>2 DEF RingShape, Occupied, Slots
<1> DEFINE Others == Streams \ {streamId[g]}
<1>4. streamId[g] \in Streams
  BY DEF HasStream
<1>5. streams \in [Slots -> Others]
  BY <1>3, <1>4 DEF IdsDistinct
<1>6. /\ IsFiniteSet(Slots) /\ Cardinality(Slots) = nireq
      /\ IsFiniteSet(Streams) /\ Cardinality(Streams) = nireq
  BY FS_Interval DEF Slots, Streams
<1>7. IsFiniteSet(Others) /\ Cardinality(Others) = nireq - 1
  BY <1>4, <1>6, FS_RemoveElement
<1>8. Cardinality(Others) < Cardinality(Slots)
  BY <1>6, <1>7
<1>9. \E i, j \in Slots : i # j /\ streams[i] = streams[j]
  <2> HIDE DEF Others
  <2> QED
    BY ONLY <1>5, <1>6, <1>7, <1>8, FS_PigeonHole, Zenon
<1> QED
  BY <1>3, <1>9 DEF IdsDistinct

\* Reserving the back slot.
LEMMA ReserveStep ==
  ASSUME IInv, TypeOK', NEW g \in Guards, ReturnStreamReserve(g)
  PROVE  IInv'
<1> USE NireqAssumption, GuardsAssumption
<1> USE DEF IInv, TypeOK, ReturnStreamReserve, Goto
<1>1. MutexesHeld'
  BY DEF MutexesHeld
<1>2. HasStream'
  BY DEF HasStream, TakeReady, PromisesWait, PromiseSetOnce, Waiting
<1>3. IdsDistinct'
  BY DEF IdsDistinct, HasStream, TakeReady, PromiseSetOnce
<1>4. IdsPresent'
  BY DEF IdsPresent, HasStream, PromiseSetOnce, NoOverwrite, PromisesWait
<1>5. RingShape'
  <2>1. \A h \in Guards : pc[h] # "store"
    BY DEF MutexesHeld
  <2>2. ~Occupied(back_idx)
    BY <2>1, BackSlotFree DEF Occupied
  <2>3. \A i \in Slots : Occupied(i)' <=> Occupied(i) \/ i = back_idx
    BY <2>1, <2>2 DEF Occupied
  <2>5. back_idx' = IF back_idx + 1 = nireq THEN 0 ELSE back_idx + 1
    BY NextSlotWraps
  <2>6. /\ nireq \in Nat /\ front_idx \in Slots /\ back_idx \in Slots
        /\ front_idx' = front_idx
    OBVIOUS
  <2>7. CASE front_idx = back_idx
    BY ONLY <2>3, <2>2, <2>5, <2>6, <2>7, RingShape DEF RingShape, Slots
  <2>8. CASE front_idx < back_idx
    BY ONLY <2>3, <2>2, <2>5, <2>6, <2>8, RingShape DEF RingShape, Slots
  <2>9. CASE back_idx < front_idx
    BY ONLY <2>3, <2>2, <2>5, <2>6, <2>9, RingShape DEF RingShape, Slots
  <2> QED
    BY ONLY <2>6, <2>7, <2>8, <2>9 DEF Slots
<1>6. NoOverwrite'
  <2>1. \A h \in Guards : pc[h] # "store"
    BY DEF MutexesHeld
  <2>2. ~Occupied(back_idx)
    BY <2>1, BackSlotFree DEF Occupied
  <2> QED
    BY <2>1, <2>2 DEF Occupied, NoOverwrite
<1>7. TakeReady'
  BY DEF TakeReady, MutexesHeld, HasStream
<1>8. PromisesWait'
  BY DEF PromisesWait, PromiseSetOnce, Waiting
<1>9. PromiseSetOnce'
  BY DEF PromisesWait, PromiseSetOnce, Waiting, HasStream
<1>10. StrandedInv'
  BY DEF StrandedInv, RingShape, Occupied, MutexesHeld
<1>11. AtMostOneStranded'
  BY DEF AtMostOneStranded, StrandedInv, Occupied, MutexesHeld
<1> QED
  BY <1>1, <1>2, <1>3, <1>4, <1>5, <1>6, <1>7, <1>8, <1>9, <1>10, <1>11

\* Storing into the reserved slot.
LEMMA StoreStep ==
  ASSUME IInv, TypeOK', NEW g \in Guards, ReturnStreamStore(g)
  PROVE  IInv'
<1> USE NireqAssumption, GuardsAssumption
<1> USE DEF IInv, TypeOK, ReturnStreamStore, Goto
<1>1. MutexesHeld'
  BY DEF MutexesHeld
<1>2. HasStream'
  BY DEF HasStream, TakeReady, PromisesWait, PromiseSetOnce, Waiting
<1>3. IdsDistinct'
  BY DEF IdsDistinct, HasStream, TakeReady, PromiseSetOnce
<1>4. IdsPresent'
  BY DEF IdsPresent, HasStream, PromiseSetOnce, NoOverwrite, PromisesWait
<1>5. RingShape'
  <2>1. \A h \in Guards : pc[h] = "store" <=> h = g
    BY DEF MutexesHeld
  <2>2. \A i \in Slots : Occupied(i)' <=> Occupied(i)
    BY <2>1 DEF Occupied, HasStream
  <2> QED
    BY <2>2 DEF RingShape
<1>6. NoOverwrite'
  BY DEF NoOverwrite, MutexesHeld, Occupied
<1>7. TakeReady'
  BY DEF TakeReady, MutexesHeld, HasStream
<1>8. PromisesWait'
  BY DEF PromisesWait, PromiseSetOnce, Waiting
<1>9. PromiseSetOnce'
  BY DEF PromisesWait, PromiseSetOnce, Waiting, HasStream
<1>10. StrandedInv'
  BY DEF StrandedInv, RingShape, Occupied, MutexesHeld
<1>11. AtMostOneStranded'
  BY DEF AtMostOneStranded, StrandedInv, Occupied, MutexesHeld
<1> QED
  BY <1>1, <1>2, <1>3, <1>4, <1>5, <1>6, <1>7, <1>8, <1>9, <1>10, <1>11

-----------------------------------------------------------------------------
\* The invariant holds initially: the ring is full, in order, and nobody
\* holds a stream.
LEMMA IInvInit == Init => IInv
<1> USE NireqAssumption, GuardsAssumption
<1> SUFFICES ASSUME Init PROVE IInv
  OBVIOUS
<1> USE DEF Init
<1>1. TypeOK
  BY DEF TypeOK, Slots, Streams, PCs
<1>2. MutexesHeld /\ HasStream /\ TakeReady /\ PromisesWait /\ PromiseSetOnce
  BY DEF MutexesHeld, HasStream, TakeReady, PromisesWait, PromiseSetOnce
<1>3. IdsDistinct /\ IdsPresent
  BY DEF IdsDistinct, IdsPresent, Slots, Streams, NoStream
<1>4. RingShape
  BY DEF RingShape, Occupied, Slots, NoStream
<1>5. NoOverwrite /\ StrandedInv /\ AtMostOneStranded
  BY DEF NoOverwrite, StrandedInv, AtMostOneStranded
<1> QED
  BY <1>1, <1>2, <1>3, <1>4, <1>5 DEF IInv

\* The invariant is inductive.
LEMMA IInvStep == IInv /\ [Next]_vars => IInv'
<1> SUFFICES ASSUME IInv, [Next]_vars PROVE IInv'
  OBVIOUS
<1>1. TypeOK'
  BY TypeStep DEF IInv
<1>2. CASE UNCHANGED vars
  BY <1>2 DEF vars, poolState, IInv, TypeOK, MutexesHeld, HasStream, IdsDistinct,
     IdsPresent, RingShape, NoOverwrite, TakeReady, PromisesWait, Waiting,
     PromiseSetOnce, StrandedInv, AtMostOneStranded, Occupied
<1>3. ASSUME NEW g \in Guards, Step(g)
      PROVE  IInv'
  BY <1>1, <1>3, CheckStep, TakeStep, PushStep, GuardStep, PopStep, SetValueStep,
     ReserveStep, StoreStep DEF Step
<1> QED
  BY <1>2, <1>3 DEF Next

\* Every variable of the pool keeps its type, for any nireq and any guards.
THEOREM TypeCorrect == Spec => []TypeOK
<1>1. Init => TypeOK
  BY IInvInit DEF IInv
<1>2. TypeOK /\ [Next]_vars => TypeOK'
  BY TypeStep
<1> QED
  BY <1>1, <1>2, PTL DEF Spec

\* The inductive invariant holds in every reachable state.
THEOREM InvariantHolds == Spec => []IInv
BY IInvInit, IInvStep, PTL DEF Spec

\* No two guards ever own the same stream: an InferRequest is used by one
\* inference at a time.
THEOREM Exclusive == Spec => []StreamExclusive
<1>1. IInv => StreamExclusive
  BY DEF IInv, StreamExclusive, IdsDistinct, Owns
<1> QED
  BY <1>1, InvariantHolds, PTL

\* returnStream never overwrites an idle stream.
THEOREM NeverOverwritten == Spec => []NoOverwrite
<1>1. IInv => NoOverwrite
  BY DEF IInv
<1> QED
  BY <1>1, InvariantHolds, PTL

\* No stream id is ever lost or duplicated.
THEOREM Conserved == Spec => []StreamConserved
<1>1. ASSUME IInv PROVE StreamConserved
  <2> SUFFICES ASSUME NEW s \in Streams
               PROVE  Places(s) # {} /\ \A p, q \in Places(s) : p = q
    BY DEF StreamConserved
  <2>1. s # NoStream
    BY NireqAssumption DEF Streams, NoStream
  <2>2. Places(s) # {}
    BY <1>1 DEF IInv, IdsPresent, Places
  <2>3. \A p, q \in Places(s) : p = q
    BY <1>1, <2>1 DEF IInv, IdsDistinct, Places
  <2> QED
    BY <2>2, <2>3
<1> QED
  BY <1>1, InvariantHolds, PTL

\* A promise is fulfilled at most once.
THEOREM SetOnce == Spec => []PromiseSetOnce
<1>1. IInv => PromiseSetOnce
  BY DEF IInv
<1> QED
  BY <1>1, InvariantHolds, PTL

\* While a stream is idle at most one promise waits.
THEOREM OneStranded == Spec => []AtMostOneStranded
<1>1. IInv => AtMostOneStranded
  BY DEF IInv
<1> QED
  BY <1>1, InvariantHolds, PTL

-----------------------------------------------------------------------------
\* One step of the queue is one step of the abstract pool or none.
LEMMA PoolStep ==
  ASSUME IInv, IInv', [Next]_vars
  PROVE  [Pool!PoolNext]_(Pool!poolVars)
<1> USE DEF IInv, TypeOK, Pool!poolVars, Asked, Held, Owns, Waiting
<1>1. CASE UNCHANGED vars
  BY <1>1 DEF vars, poolState
<1>2. ASSUME NEW g \in Guards, Step(g)
      PROVE  [Pool!PoolNext]_(Pool!poolVars)
  <2> USE DEF Goto
  <2>1. CASE GetIdleStreamCheck(g)
    <3>1. Asked' = Asked \cup {g} /\ g \notin Asked
      BY <2>1 DEF GetIdleStreamCheck
    <3>2. Held' = Held /\ Held[g] = NoStream
      BY <2>1 DEF GetIdleStreamCheck, HasStream
    <3> QED
      BY <3>1, <3>2 DEF Pool!PoolNext, Pool!Ask, Pool!NoStream, NoStream
  <2>2. CASE GetIdleStreamTake(g)
    <3> DEFINE s == streams[front_idx]
    <3>1. s \in Streams
      BY <2>2 DEF GetIdleStreamTake, TakeReady
    <3>2. \A h \in Guards : Held[h] # s
      BY <3>1, NireqAssumption DEF IdsDistinct, NoStream, Streams
    <3>3. Asked' = Asked \ {g} /\ g \in Asked
      BY <2>2, <3>1, NireqAssumption DEF GetIdleStreamTake, NoStream, Streams
    <3>4. Held' = [Held EXCEPT ![g] = s]
      BY <2>2, <3>1, NireqAssumption DEF GetIdleStreamTake, NoStream, Streams
    <3> QED
      BY <3>1, <3>2, <3>3, <3>4 DEF Pool!PoolNext, Pool!Grant, Pool!Streams, Streams
  <2>3. CASE GetIdleStreamPush(g)
    BY <2>3 DEF GetIdleStreamPush, HasStream
  <2>4. CASE StartInference(g) \/ FinishInference(g) \/ Disarm(g)
    BY <2>4 DEF StartInference, FinishInference, Disarm, poolState, Ready
  <2>5. CASE ReturnStreamPop(g) \/ ReturnStreamReserve(g)
    <3>1. Asked' = Asked
      BY <2>5 DEF ReturnStreamPop, ReturnStreamReserve
    <3>2. Held[g] # NoStream /\ Held' = [Held EXCEPT ![g] = NoStream]
      BY <2>5 DEF ReturnStreamPop, ReturnStreamReserve, HasStream
    <3> QED
      BY <3>1, <3>2 DEF Pool!PoolNext, Pool!GiveBack, Pool!NoStream, NoStream
  <2>6. CASE ReturnStreamSetValue(g)
    <3> DEFINE s == streamId[g]
               h == promise[g]
    <3>1. s \in Streams /\ s # NoStream
      BY <2>6 DEF ReturnStreamSetValue, HasStream
    <3>2. h \in Guards /\ Waiting(h) /\ h # g
      BY <2>6 DEF ReturnStreamSetValue, PromisesWait, PromiseSetOnce
    <3>3. \A k \in Guards : Held[k] # s
      BY <2>6, <3>1 DEF ReturnStreamSetValue, IdsDistinct
    <3>4. Asked' = Asked \ {h} /\ h \in Asked
      BY <2>6, <3>1, <3>2 DEF ReturnStreamSetValue, poolState
    <3>5. Held' = [Held EXCEPT ![h] = s]
      BY <2>6, <3>1, <3>2 DEF ReturnStreamSetValue, poolState
    <3> QED
      BY <3>1, <3>2, <3>3, <3>4, <3>5 DEF Pool!PoolNext, Pool!Grant, Pool!Streams, Streams
  <2>7. CASE ReturnStreamStore(g)
    BY <2>7 DEF ReturnStreamStore
  <2> QED
    BY <1>2, <2>1, <2>2, <2>3, <2>4, <2>5, <2>6, <2>7 DEF Step
<1> QED
  BY <1>1, <1>2 DEF Next

\* The queue with its ring, two mutexes and promises implements the abstract
\* pool: a stream is granted only while nobody owns it.
THEOREM QueueImplementsPool == Spec => ImplementsStreamPool
<1>1. Init => Pool!PoolInit
  BY DEF Init, Pool!PoolInit, Asked, Held, Owns, Waiting, Pool!NoStream, NoStream
<1>2. IInv /\ IInv' /\ [Next]_vars => [Pool!PoolNext]_(Pool!poolVars)
  BY PoolStep
<1> QED
  BY <1>1, <1>2, InvariantHolds, PTL DEF Spec, ImplementsStreamPool, Pool!PoolSpec
=============================================================================
