------------------------ MODULE StatefulSequencesProofs ------------------------
(***************************************************************************)
(* Proofs about the sequences of a stateful model, for any number of       *)
(* requests, sequences and streams.                                        *)
(***************************************************************************)
EXTENDS StatefulSequences, FiniteSetTheorems, SequenceTheorems, TLAPS

\* The set of requests that have a stream gains or loses one.
LEMMA HolderArith ==
  ASSUME NEW S \in SUBSET Requests, NEW t \in Requests
  PROVE  /\ Cardinality(S) \in Nat
         /\ t \notin S => Cardinality(S \cup {t}) = Cardinality(S) + 1
         /\ t \in S => /\ Cardinality(S \ {t}) = Cardinality(S) - 1
                      /\ Cardinality(S \ {t}) \in Nat
<1>1. IsFiniteSet(S) /\ IsFiniteSet(S \ {t})
  BY ThreadsAssumption, FS_Subset
<1> QED
  BY <1>1, FS_CardinalityType, FS_AddElement, FS_RemoveElement

\* An advanced memory state is a memory state.
LEMMA AdvanceInRange ==
  ASSUME NEW m \in MemoryStates
  PROVE  Advance(m) \in MemoryStates /\ Advance(0) \in MemoryStates
<1>1. \A n \in Nat : n % StateCount \in 0 .. StateCount - 1
  BY StatesAssumption
<1> QED
  BY <1>1, StatesAssumption DEF Advance, MemoryStates

\* The map of sequences is finite; what is in it can be counted.
LEMMA SequencesFinite ==
  ASSUME sequences \subseteq Ids, NEW i
  PROVE  /\ IsFiniteSet(sequences) /\ Cardinality(sequences) \in Nat
         /\ i \notin sequences
              => Cardinality(sequences \cup {i}) = Cardinality(sequences) + 1
         /\ Cardinality(sequences \ {i}) <= Cardinality(sequences)
         /\ Cardinality(sequences \ {i}) \in Nat
<1>1. IsFiniteSet(Ids)
  BY IdsAssumption, FS_Interval DEF Ids
<1>2. IsFiniteSet(sequences) /\ IsFiniteSet(sequences \ {i})
  BY <1>1, FS_Subset
<1> QED
  BY <1>2, FS_CardinalityType, FS_AddElement, FS_RemoveElement, FS_Subset

\* A request that returns its stream hands it to the oldest promise or leaves it
\* idle; it is counted once in either case.
LEMMA StreamReturned ==
  ASSUME TypeOK, PromisesAwaited, StreamsCounted, ReturnStream,
         NEW t \in Requests, pc[t] \in {"infer", "post", "remove"},
         pc' = [pc EXCEPT ![t] = "out"]
  PROVE  /\ freeStreams' \in 0 .. nireq /\ promises' \in Seq(Requests)
         /\ PromisesAwaited' /\ StreamsCounted'
<1> USE StatesAssumption DEF TypeOK, PCs
<1>1. t \in StreamHolders /\ StreamHolders \in SUBSET Requests
  BY DEF StreamHolders
<1>2. CASE promises = <<>>
  <2>1. promises' = promises /\ freeStreams' = freeStreams + 1
    BY <1>2 DEF ReturnStream
  <2>2. StreamHolders' = StreamHolders \ {t}
    BY <2>1 DEF StreamHolders, Queued
  <2>3. Cardinality(StreamHolders') = Cardinality(StreamHolders) - 1
        /\ Cardinality(StreamHolders') \in Nat /\ Cardinality(StreamHolders) \in Nat
    BY <1>1, <2>2, HolderArith
  <2>4. PromisesAwaited'
    BY <2>1 DEF PromisesAwaited
  <2> QED
    BY <2>1, <2>3, <2>4 DEF StreamsCounted
<1>3. CASE promises # <<>>
  <2> DEFINE h == Head(promises)
  <2>1. promises' = Tail(promises) /\ freeStreams' = freeStreams
    BY <1>3 DEF ReturnStream
  <2>2. /\ Tail(promises) \in Seq(Requests)
        /\ Len(promises) \in Nat \ {0}
        /\ DOMAIN promises = 1 .. Len(promises)
        /\ DOMAIN Tail(promises) = 1 .. Len(promises) - 1
        /\ \A i \in 1 .. Len(promises) - 1 : Tail(promises)[i] = promises[i + 1]
        /\ h = promises[1] /\ h \in Requests
    BY <1>3
  <2>3. PromisesAwaited'
    <3>1. ASSUME NEW i \in DOMAIN promises'
          PROVE  pc[promises'[i]] = "wait" /\ promises'[i] \in Requests
      BY <2>1, <2>2 DEF PromisesAwaited
    <3>2. ASSUME NEW i \in DOMAIN promises', NEW j \in DOMAIN promises',
                 promises'[i] = promises'[j]
          PROVE  i = j
      BY <2>1, <2>2, <3>2 DEF PromisesAwaited
    <3>3. \A i \in DOMAIN promises' : pc'[promises'[i]] = "wait"
      BY <3>1
    <3> QED
      BY <3>2, <3>3 DEF PromisesAwaited
  <2>4. pc[h] = "wait" /\ Queued(h) /\ h # t
    BY <2>2 DEF PromisesAwaited, Queued
  <2>5. \A u \in Requests : Queued(u)' <=> Queued(u) /\ u # h
    <3> TAKE u \in Requests
    <3>1. ASSUME NEW i \in DOMAIN promises', promises'[i] = u
          PROVE  Queued(u) /\ u # h
      <4>1. i \in 1 .. Len(promises) - 1 /\ promises[i + 1] = u
        BY <2>1, <2>2, <3>1
      <4>2. i + 1 \in DOMAIN promises /\ i + 1 # 1 /\ 1 \in DOMAIN promises
        BY <4>1, <2>2
      <4> QED
        BY <4>1, <4>2, <2>2 DEF PromisesAwaited, Queued
    <3>2. ASSUME NEW i \in DOMAIN promises, promises[i] = u, u # h
          PROVE  Queued(u)'
      <4>1. i - 1 \in DOMAIN promises' /\ promises'[i - 1] = u
        BY <2>1, <2>2, <3>2
      <4> QED
        BY <4>1 DEF Queued
    <3> QED
      BY <3>1, <3>2 DEF Queued
  <2>6. h \notin StreamHolders
    BY <2>4 DEF StreamHolders
  <2>7. StreamHolders' = (StreamHolders \ {t}) \cup {h}
    <3>1. \A u \in Requests : u \in StreamHolders' <=> (u \in StreamHolders /\ u # t) \/ u = h
      BY <2>2, <2>4, <2>5 DEF StreamHolders
    <3> QED
      BY <3>1, <2>2, <1>1 DEF StreamHolders
  <2>8. Cardinality(StreamHolders') = Cardinality(StreamHolders)
    <3>1. /\ Cardinality(StreamHolders \ {t}) = Cardinality(StreamHolders) - 1
          /\ Cardinality(StreamHolders) \in Nat
      BY <1>1, HolderArith
    <3>2. StreamHolders \ {t} \in SUBSET Requests /\ h \notin StreamHolders \ {t}
      BY <1>1, <2>6
    <3>3. Cardinality((StreamHolders \ {t}) \cup {h}) = Cardinality(StreamHolders \ {t}) + 1
      BY <3>2, <2>2, HolderArith
    <3> QED
      BY <3>1, <3>3, <2>7
  <2> QED
    BY <2>1, <2>2, <2>3, <2>8 DEF StreamsCounted
<1> QED
  BY <1>2, <1>3

\* A request comes in; it refers to nothing yet.
LEMMA SubmitStep ==
  ASSUME IInv, NEW t \in Requests, Submit(t)
  PROVE  IInv'
<1> USE ThreadsAssumption, IdsAssumption, StatesAssumption
<1> USE DEF IInv, TypeOK, Submit, Goto, sequenceVars, streamVars, requestVars, Locking, Referring, PCs
<1>0. StreamHolders' = StreamHolders
  BY DEF StreamHolders, Queued
<1>1. TypeOK'
  BY <1>0 DEF StreamsCounted, MemoryStates, Controls, Ids, Empty, RemoversEnd
<1>2. ManagerHeld'
  BY DEF ManagerHeld
<1>3. SequencesHeld'
  BY DEF SequencesHeld
<1>4. ReferenceValid'
  BY DEF ReferenceValid, ManagerHeld, SequencesHeld, EndsAlone, EndTerminates, RemoversEnd
<1>5. NoLostUpdate'
  BY DEF NoLostUpdate, ReferenceValid, SequencesHeld, EndsAlone, StartsFirst
<1>6. RemoversEnd'
  BY DEF RemoversEnd
<1>7. EndsAlone'
  BY DEF EndsAlone, ReferenceValid, ManagerHeld, SequencesHeld, EndTerminates, RemoversEnd
<1>8. EndTerminates'
  BY DEF EndTerminates, ReferenceValid, EndsAlone, RemoversEnd
<1>9. StartsAlone'
  BY DEF StartsAlone, ReferenceValid, ManagerHeld, RemoversEnd
<1>10. StartsFirst'
  BY DEF StartsFirst, StartsAlone, SequencesHeld, ReferenceValid, AbsentIsEmpty, RemoversEnd
<1>11. AbsentIsEmpty'
  BY DEF AbsentIsEmpty, ReferenceValid
<1>12. MaxSequenceNumber'
  BY SequencesFinite DEF MaxSequenceNumber
<1>13. StreamsCounted'
  BY <1>0 DEF StreamsCounted
<1>14. PromisesAwaited'
  BY DEF PromisesAwaited
<1> QED
  BY <1>1, <1>2, <1>3, <1>4, <1>5, <1>6, <1>7, <1>8, <1>9, <1>10, <1>11, <1>12, <1>13, <1>14

\* A refused request leaves no trace.
LEMMA RefuseRequestedSpecStep ==
  ASSUME IInv, NEW t \in Requests, RefuseRequestedSpec(t)
  PROVE  IInv'
<1> USE ThreadsAssumption, IdsAssumption, StatesAssumption
<1> USE DEF IInv, TypeOK, RefuseRequestedSpec, Goto, Return, sequenceVars, streamVars, requestVars, Locking, Referring, PCs
<1>0. StreamHolders' = StreamHolders
  BY DEF StreamHolders, Queued
<1>1. TypeOK'
  BY <1>0 DEF StreamsCounted, MemoryStates, Controls, Ids, Empty, RemoversEnd
<1>2. ManagerHeld'
  BY DEF ManagerHeld
<1>3. SequencesHeld'
  BY DEF SequencesHeld
<1>4. ReferenceValid'
  BY DEF ReferenceValid, ManagerHeld, SequencesHeld, EndsAlone, EndTerminates, RemoversEnd
<1>5. NoLostUpdate'
  BY DEF NoLostUpdate, ReferenceValid, SequencesHeld, EndsAlone, StartsFirst
<1>6. RemoversEnd'
  BY DEF RemoversEnd
<1>7. EndsAlone'
  BY DEF EndsAlone, ReferenceValid, ManagerHeld, SequencesHeld, EndTerminates, RemoversEnd
<1>8. EndTerminates'
  BY DEF EndTerminates, ReferenceValid, EndsAlone, RemoversEnd
<1>9. StartsAlone'
  BY DEF StartsAlone, ReferenceValid, ManagerHeld, RemoversEnd
<1>10. StartsFirst'
  BY DEF StartsFirst, StartsAlone, SequencesHeld, ReferenceValid, AbsentIsEmpty, RemoversEnd
<1>11. AbsentIsEmpty'
  BY DEF AbsentIsEmpty, ReferenceValid
<1>12. MaxSequenceNumber'
  BY SequencesFinite DEF MaxSequenceNumber
<1>13. StreamsCounted'
  BY <1>0 DEF StreamsCounted
<1>14. PromisesAwaited'
  BY DEF PromisesAwaited
<1> QED
  BY <1>1, <1>2, <1>3, <1>4, <1>5, <1>6, <1>7, <1>8, <1>9, <1>10, <1>11, <1>12, <1>13, <1>14

\* A new sequence is created; nobody can refer to its id yet.
LEMMA CreateSequenceStep ==
  ASSUME IInv, NEW t \in Requests, ProcessRequestedSpec(t), CreateSequence(t)
  PROVE  IInv'
<1> USE ThreadsAssumption, IdsAssumption, StatesAssumption
<1> USE DEF IInv, TypeOK, ProcessRequestedSpec, Goto, CreateSequence, CanCreate, sequenceVars, streamVars, requestVars, Locking, Referring, PCs
<1>0. StreamHolders' = StreamHolders
  BY DEF StreamHolders, Queued
<1>1. TypeOK'
  BY <1>0 DEF StreamsCounted, MemoryStates, Controls, Ids, Empty, RemoversEnd
<1>2. ManagerHeld'
  BY DEF ManagerHeld
<1>3. SequencesHeld'
  BY DEF SequencesHeld
<1>4. ReferenceValid'
  BY DEF ReferenceValid, ManagerHeld, SequencesHeld, EndsAlone, EndTerminates, RemoversEnd
<1>5. NoLostUpdate'
  BY DEF NoLostUpdate, ReferenceValid, SequencesHeld, EndsAlone, StartsFirst
<1>6. RemoversEnd'
  BY DEF RemoversEnd
<1>7. EndsAlone'
  BY DEF EndsAlone, ReferenceValid, ManagerHeld, SequencesHeld, EndTerminates, RemoversEnd
<1>8. EndTerminates'
  BY DEF EndTerminates, ReferenceValid, EndsAlone, RemoversEnd
<1>9. StartsAlone'
  BY DEF StartsAlone, ReferenceValid, ManagerHeld, RemoversEnd
<1>10. StartsFirst'
  BY DEF StartsFirst, StartsAlone, SequencesHeld, ReferenceValid, AbsentIsEmpty, RemoversEnd
<1>11. AbsentIsEmpty'
  BY DEF AbsentIsEmpty, ReferenceValid
<1>12. MaxSequenceNumber'
  BY SequencesFinite DEF MaxSequenceNumber
<1>13. StreamsCounted'
  BY <1>0 DEF StreamsCounted
<1>14. PromisesAwaited'
  BY DEF PromisesAwaited
<1> QED
  BY <1>1, <1>2, <1>3, <1>4, <1>5, <1>6, <1>7, <1>8, <1>9, <1>10, <1>11, <1>12, <1>13, <1>14

\* A request joins a sequence that is not terminated.
LEMMA ContinueSequenceStep ==
  ASSUME IInv, NEW t \in Requests, ProcessRequestedSpec(t), ContinueSequence(t)
  PROVE  IInv'
<1> USE ThreadsAssumption, IdsAssumption, StatesAssumption
<1> USE DEF IInv, TypeOK, ProcessRequestedSpec, Goto, ContinueSequence, HasSequence, sequenceVars, streamVars, requestVars, Locking, Referring, PCs
<1>0. StreamHolders' = StreamHolders
  BY DEF StreamHolders, Queued
<1>1. TypeOK'
  BY <1>0 DEF StreamsCounted, MemoryStates, Controls, Ids, Empty, RemoversEnd
<1>2. ManagerHeld'
  BY DEF ManagerHeld
<1>3. SequencesHeld'
  BY DEF SequencesHeld
<1>4. ReferenceValid'
  BY DEF ReferenceValid, ManagerHeld, SequencesHeld, EndsAlone, EndTerminates, RemoversEnd
<1>5. NoLostUpdate'
  BY DEF NoLostUpdate, ReferenceValid, SequencesHeld, EndsAlone, StartsFirst
<1>6. RemoversEnd'
  BY DEF RemoversEnd
<1>7. EndsAlone'
  BY DEF EndsAlone, ReferenceValid, ManagerHeld, SequencesHeld, EndTerminates, RemoversEnd
<1>8. EndTerminates'
  BY DEF EndTerminates, ReferenceValid, EndsAlone, RemoversEnd
<1>9. StartsAlone'
  BY DEF StartsAlone, ReferenceValid, ManagerHeld, RemoversEnd
<1>10. StartsFirst'
  BY DEF StartsFirst, StartsAlone, SequencesHeld, ReferenceValid, AbsentIsEmpty, RemoversEnd
<1>11. AbsentIsEmpty'
  BY DEF AbsentIsEmpty, ReferenceValid
<1>12. MaxSequenceNumber'
  BY SequencesFinite DEF MaxSequenceNumber
<1>13. StreamsCounted'
  BY <1>0 DEF StreamsCounted
<1>14. PromisesAwaited'
  BY DEF PromisesAwaited
<1> QED
  BY <1>1, <1>2, <1>3, <1>4, <1>5, <1>6, <1>7, <1>8, <1>9, <1>10, <1>11, <1>12, <1>13, <1>14

\* A request sets a sequence for termination.
LEMMA TerminateSequenceStep ==
  ASSUME IInv, NEW t \in Requests, ProcessRequestedSpec(t), TerminateSequence(t)
  PROVE  IInv'
<1> USE ThreadsAssumption, IdsAssumption, StatesAssumption
<1> USE DEF IInv, TypeOK, ProcessRequestedSpec, Goto, TerminateSequence, HasSequence, sequenceVars, streamVars, requestVars, Locking, Referring, PCs
<1>0. StreamHolders' = StreamHolders
  BY DEF StreamHolders, Queued
<1>1. TypeOK'
  BY <1>0 DEF StreamsCounted, MemoryStates, Controls, Ids, Empty, RemoversEnd
<1>2. ManagerHeld'
  BY DEF ManagerHeld
<1>3. SequencesHeld'
  BY DEF SequencesHeld
<1>4. ReferenceValid'
  BY DEF ReferenceValid, ManagerHeld, SequencesHeld, EndsAlone, EndTerminates, RemoversEnd
<1>5. NoLostUpdate'
  BY DEF NoLostUpdate, ReferenceValid, SequencesHeld, EndsAlone, StartsFirst
<1>6. RemoversEnd'
  BY DEF RemoversEnd
<1>7. EndsAlone'
  BY DEF EndsAlone, ReferenceValid, ManagerHeld, SequencesHeld, EndTerminates, RemoversEnd
<1>8. EndTerminates'
  BY DEF EndTerminates, ReferenceValid, EndsAlone, RemoversEnd
<1>9. StartsAlone'
  BY DEF StartsAlone, ReferenceValid, ManagerHeld, RemoversEnd
<1>10. StartsFirst'
  BY DEF StartsFirst, StartsAlone, SequencesHeld, ReferenceValid, AbsentIsEmpty, RemoversEnd
<1>11. AbsentIsEmpty'
  BY DEF AbsentIsEmpty, ReferenceValid
<1>12. MaxSequenceNumber'
  BY SequencesFinite DEF MaxSequenceNumber
<1>13. StreamsCounted'
  BY <1>0 DEF StreamsCounted
<1>14. PromisesAwaited'
  BY DEF PromisesAwaited
<1> QED
  BY <1>1, <1>2, <1>3, <1>4, <1>5, <1>6, <1>7, <1>8, <1>9, <1>10, <1>11, <1>12, <1>13, <1>14

\* The sequence's mutex changes hands, the manager's is released.
LEMMA LockSequenceStep ==
  ASSUME IInv, NEW t \in Requests, LockSequence(t)
  PROVE  IInv'
<1> USE ThreadsAssumption, IdsAssumption, StatesAssumption
<1> USE DEF IInv, TypeOK, LockSequence, Goto, sequenceVars, streamVars, requestVars, Locking, Referring, PCs
<1>0. StreamHolders' = StreamHolders
  BY DEF StreamHolders, Queued
<1>1. TypeOK'
  BY <1>0 DEF StreamsCounted, MemoryStates, Controls, Ids, Empty, RemoversEnd
<1>2. ManagerHeld'
  BY DEF ManagerHeld
<1>3. SequencesHeld'
  BY DEF SequencesHeld
<1>4. ReferenceValid'
  BY DEF ReferenceValid, ManagerHeld, SequencesHeld, EndsAlone, EndTerminates, RemoversEnd
<1>5. NoLostUpdate'
  BY DEF NoLostUpdate, ReferenceValid, SequencesHeld, EndsAlone, StartsFirst
<1>6. RemoversEnd'
  BY DEF RemoversEnd
<1>7. EndsAlone'
  BY DEF EndsAlone, ReferenceValid, ManagerHeld, SequencesHeld, EndTerminates, RemoversEnd
<1>8. EndTerminates'
  BY DEF EndTerminates, ReferenceValid, EndsAlone, RemoversEnd
<1>9. StartsAlone'
  BY DEF StartsAlone, ReferenceValid, ManagerHeld, RemoversEnd
<1>10. StartsFirst'
  BY DEF StartsFirst, StartsAlone, SequencesHeld, ReferenceValid, AbsentIsEmpty, RemoversEnd
<1>11. AbsentIsEmpty'
  BY DEF AbsentIsEmpty, ReferenceValid
<1>12. MaxSequenceNumber'
  BY SequencesFinite DEF MaxSequenceNumber
<1>13. StreamsCounted'
  BY <1>0 DEF StreamsCounted
<1>14. PromisesAwaited'
  BY DEF PromisesAwaited
<1> QED
  BY <1>1, <1>2, <1>3, <1>4, <1>5, <1>6, <1>7, <1>8, <1>9, <1>10, <1>11, <1>12, <1>13, <1>14

\* A stream is taken.
LEMMA GetStreamStep ==
  ASSUME IInv, NEW t \in Requests, GetStream(t)
  PROVE  IInv'
<1> USE ThreadsAssumption, IdsAssumption, StatesAssumption
<1> USE DEF IInv, TypeOK, GetStream, Goto, sequenceVars, streamVars, requestVars, Locking, Referring, PCs
<1>0. Cardinality(StreamHolders') = Cardinality(StreamHolders) + 1 /\ Cardinality(StreamHolders) \in Nat
  <2>1. t \notin StreamHolders /\ StreamHolders' = StreamHolders \cup {t}
    BY DEF StreamHolders, Queued
  <2> QED
    BY <2>1, HolderArith DEF StreamHolders
<1>1. TypeOK'
  BY <1>0 DEF StreamsCounted, MemoryStates, Controls, Ids, Empty, RemoversEnd
<1>2. ManagerHeld'
  BY DEF ManagerHeld
<1>3. SequencesHeld'
  BY DEF SequencesHeld
<1>4. ReferenceValid'
  BY DEF ReferenceValid, ManagerHeld, SequencesHeld, EndsAlone, EndTerminates, RemoversEnd
<1>5. NoLostUpdate'
  BY DEF NoLostUpdate, ReferenceValid, SequencesHeld, EndsAlone, StartsFirst
<1>6. RemoversEnd'
  BY DEF RemoversEnd
<1>7. EndsAlone'
  BY DEF EndsAlone, ReferenceValid, ManagerHeld, SequencesHeld, EndTerminates, RemoversEnd
<1>8. EndTerminates'
  BY DEF EndTerminates, ReferenceValid, EndsAlone, RemoversEnd
<1>9. StartsAlone'
  BY DEF StartsAlone, ReferenceValid, ManagerHeld, RemoversEnd
<1>10. StartsFirst'
  BY DEF StartsFirst, StartsAlone, SequencesHeld, ReferenceValid, AbsentIsEmpty, RemoversEnd
<1>11. AbsentIsEmpty'
  BY DEF AbsentIsEmpty, ReferenceValid
<1>12. MaxSequenceNumber'
  BY SequencesFinite DEF MaxSequenceNumber
<1>13. StreamsCounted'
  BY <1>0 DEF StreamsCounted
<1>14. PromisesAwaited'
  BY DEF PromisesAwaited
<1> QED
  BY <1>1, <1>2, <1>3, <1>4, <1>5, <1>6, <1>7, <1>8, <1>9, <1>10, <1>11, <1>12, <1>13, <1>14

\* No stream is idle.
LEMMA NoStreamStep ==
  ASSUME IInv, NEW t \in Requests, NoStream(t)
  PROVE  IInv'
<1> USE ThreadsAssumption, IdsAssumption, StatesAssumption
<1> USE DEF IInv, TypeOK, NoStream, Goto, sequenceVars, streamVars, requestVars, Locking, Referring, PCs
<1>0. StreamHolders' = StreamHolders
  BY DEF StreamHolders, Queued
<1>1. TypeOK'
  BY <1>0 DEF StreamsCounted, MemoryStates, Controls, Ids, Empty, RemoversEnd
<1>2. ManagerHeld'
  BY DEF ManagerHeld
<1>3. SequencesHeld'
  BY DEF SequencesHeld
<1>4. ReferenceValid'
  BY DEF ReferenceValid, ManagerHeld, SequencesHeld, EndsAlone, EndTerminates, RemoversEnd
<1>5. NoLostUpdate'
  BY DEF NoLostUpdate, ReferenceValid, SequencesHeld, EndsAlone, StartsFirst
<1>6. RemoversEnd'
  BY DEF RemoversEnd
<1>7. EndsAlone'
  BY DEF EndsAlone, ReferenceValid, ManagerHeld, SequencesHeld, EndTerminates, RemoversEnd
<1>8. EndTerminates'
  BY DEF EndTerminates, ReferenceValid, EndsAlone, RemoversEnd
<1>9. StartsAlone'
  BY DEF StartsAlone, ReferenceValid, ManagerHeld, RemoversEnd
<1>10. StartsFirst'
  BY DEF StartsFirst, StartsAlone, SequencesHeld, ReferenceValid, AbsentIsEmpty, RemoversEnd
<1>11. AbsentIsEmpty'
  BY DEF AbsentIsEmpty, ReferenceValid
<1>12. MaxSequenceNumber'
  BY SequencesFinite DEF MaxSequenceNumber
<1>13. StreamsCounted'
  BY <1>0 DEF StreamsCounted
<1>14. PromisesAwaited'
  BY DEF PromisesAwaited
<1> QED
  BY <1>1, <1>2, <1>3, <1>4, <1>5, <1>6, <1>7, <1>8, <1>9, <1>10, <1>11, <1>12, <1>13, <1>14

\* A promise was fulfilled: the stream is the request's already.
LEMMA StreamReadyStep ==
  ASSUME IInv, NEW t \in Requests, StreamReady(t)
  PROVE  IInv'
<1> USE ThreadsAssumption, IdsAssumption, StatesAssumption
<1> USE DEF IInv, TypeOK, StreamReady, Goto, sequenceVars, streamVars, requestVars, Locking, Referring, PCs
<1>0. StreamHolders' = StreamHolders
  BY DEF StreamHolders, Queued
<1>1. TypeOK'
  BY <1>0 DEF StreamsCounted, MemoryStates, Controls, Ids, Empty, RemoversEnd
<1>2. ManagerHeld'
  BY DEF ManagerHeld
<1>3. SequencesHeld'
  BY DEF SequencesHeld
<1>4. ReferenceValid'
  BY DEF ReferenceValid, ManagerHeld, SequencesHeld, EndsAlone, EndTerminates, RemoversEnd
<1>5. NoLostUpdate'
  BY DEF NoLostUpdate, ReferenceValid, SequencesHeld, EndsAlone, StartsFirst
<1>6. RemoversEnd'
  BY DEF RemoversEnd
<1>7. EndsAlone'
  BY DEF EndsAlone, ReferenceValid, ManagerHeld, SequencesHeld, EndTerminates, RemoversEnd
<1>8. EndTerminates'
  BY DEF EndTerminates, ReferenceValid, EndsAlone, RemoversEnd
<1>9. StartsAlone'
  BY DEF StartsAlone, ReferenceValid, ManagerHeld, RemoversEnd
<1>10. StartsFirst'
  BY DEF StartsFirst, StartsAlone, SequencesHeld, ReferenceValid, AbsentIsEmpty, RemoversEnd
<1>11. AbsentIsEmpty'
  BY DEF AbsentIsEmpty, ReferenceValid
<1>12. MaxSequenceNumber'
  BY SequencesFinite DEF MaxSequenceNumber
<1>13. StreamsCounted'
  BY <1>0 DEF StreamsCounted
<1>14. PromisesAwaited'
  BY DEF PromisesAwaited, Queued
<1> QED
  BY <1>1, <1>2, <1>3, <1>4, <1>5, <1>6, <1>7, <1>8, <1>9, <1>10, <1>11, <1>12, <1>13, <1>14

\* A promise is queued.
LEMMA QueuePromiseStep ==
  ASSUME IInv, NEW t \in Requests, QueuePromise(t)
  PROVE  IInv'
<1> USE ThreadsAssumption, IdsAssumption, StatesAssumption
<1> USE DEF IInv, TypeOK, QueuePromise, Goto, sequenceVars, streamVars, requestVars, Locking, Referring, PCs
<1>a. /\ promises' = Append(promises, t) /\ promises' \in Seq(Requests)
      /\ DOMAIN promises = 1 .. Len(promises) /\ Len(promises) \in Nat
      /\ DOMAIN promises' = 1 .. Len(promises) + 1
      /\ \A i \in 1 .. Len(promises) : promises'[i] = promises[i]
      /\ promises'[Len(promises) + 1] = t
  OBVIOUS
<1>b. \A i \in DOMAIN promises : promises[i] # t /\ promises[i] \in Requests
  BY <1>a DEF PromisesAwaited
<1>c. \A u \in Requests : Queued(u)' <=> Queued(u) \/ u = t
  <2> TAKE u \in Requests
  <2>1. ASSUME NEW i \in DOMAIN promises', promises'[i] = u
        PROVE  Queued(u) \/ u = t
    <3>1. i = Len(promises) + 1 \/ (i \in DOMAIN promises /\ promises[i] = u)
      BY <1>a, <2>1
    <3> QED
      BY <3>1, <1>a, <2>1 DEF Queued
  <2>2. ASSUME NEW i \in DOMAIN promises, promises[i] = u
        PROVE  Queued(u)'
    <3>1. i \in DOMAIN promises' /\ promises'[i] = u
      BY <1>a, <2>2
    <3> QED
      BY <3>1 DEF Queued
  <2>3. Len(promises) + 1 \in DOMAIN promises'
    BY <1>a
  <2> QED
    BY <1>a, <2>1, <2>2, <2>3 DEF Queued
<1>0. StreamHolders' = StreamHolders
  <2>1. \A u \in Requests : u \in StreamHolders' <=> u \in StreamHolders
    BY <1>c DEF StreamHolders
  <2> QED
    BY <2>1 DEF StreamHolders
<1>1. TypeOK'
  BY <1>0, <1>a DEF StreamsCounted, MemoryStates, Controls, Ids, Empty, RemoversEnd
<1>2. ManagerHeld'
  BY DEF ManagerHeld
<1>3. SequencesHeld'
  BY DEF SequencesHeld
<1>4. ReferenceValid'
  BY DEF ReferenceValid, ManagerHeld, SequencesHeld, EndsAlone, EndTerminates, RemoversEnd
<1>5. NoLostUpdate'
  BY DEF NoLostUpdate, ReferenceValid, SequencesHeld, EndsAlone, StartsFirst
<1>6. RemoversEnd'
  BY DEF RemoversEnd
<1>7. EndsAlone'
  BY DEF EndsAlone, ReferenceValid, ManagerHeld, SequencesHeld, EndTerminates, RemoversEnd
<1>8. EndTerminates'
  BY DEF EndTerminates, ReferenceValid, EndsAlone, RemoversEnd
<1>9. StartsAlone'
  BY DEF StartsAlone, ReferenceValid, ManagerHeld, RemoversEnd
<1>10. StartsFirst'
  BY DEF StartsFirst, StartsAlone, SequencesHeld, ReferenceValid, AbsentIsEmpty, RemoversEnd
<1>11. AbsentIsEmpty'
  BY DEF AbsentIsEmpty, ReferenceValid
<1>12. MaxSequenceNumber'
  BY SequencesFinite DEF MaxSequenceNumber
<1>13. StreamsCounted'
  BY <1>0 DEF StreamsCounted
<1>14. PromisesAwaited'
  <2>1. \A i \in DOMAIN promises' : pc'[promises'[i]] = "wait"
    BY <1>a, <1>b DEF PromisesAwaited
  <2>2. \A i, j \in DOMAIN promises' : promises'[i] = promises'[j] => i = j
    <3> TAKE i, j \in DOMAIN promises'
    <3>1. CASE i \in DOMAIN promises /\ j \in DOMAIN promises
      BY <3>1, <1>a DEF PromisesAwaited
    <3>2. CASE i = Len(promises) + 1 \/ j = Len(promises) + 1
      BY <3>2, <1>a, <1>b
    <3> QED
      BY <1>a, <3>1, <3>2
  <2> QED
    BY <2>1, <2>2 DEF PromisesAwaited
<1> QED
  BY <1>1, <1>2, <1>3, <1>4, <1>5, <1>6, <1>7, <1>8, <1>9, <1>10, <1>11, <1>12, <1>13, <1>14

\* The saved state is loaded and advanced.
LEMMA InferStep ==
  ASSUME IInv, NEW t \in Requests, Infer(t)
  PROVE  IInv'
<1> USE ThreadsAssumption, IdsAssumption, StatesAssumption
<1> USE DEF IInv, TypeOK, Infer, Goto, sequenceVars, streamVars, requestVars, Locking, Referring, PCs
<1>0. StreamHolders' = StreamHolders
  BY DEF StreamHolders, Queued
<1>1. TypeOK'
  <2>1. (IF control[t] = "SEQUENCE_START" THEN 0 ELSE memoryState[id[t]]) \in MemoryStates
    BY DEF MemoryStates, ReferenceValid, Empty
  <2>2. state' \in [Requests -> MemoryStates]
    BY <2>1, AdvanceInRange
  <2> QED
    BY <2>2
<1>2. ManagerHeld'
  BY DEF ManagerHeld
<1>3. SequencesHeld'
  BY DEF SequencesHeld
<1>4. ReferenceValid'
  BY DEF ReferenceValid, ManagerHeld, SequencesHeld, EndsAlone, EndTerminates, RemoversEnd
<1>5. NoLostUpdate'
  BY DEF NoLostUpdate, ReferenceValid, SequencesHeld, EndsAlone, StartsFirst
<1>6. RemoversEnd'
  BY DEF RemoversEnd
<1>7. EndsAlone'
  BY DEF EndsAlone, ReferenceValid, ManagerHeld, SequencesHeld, EndTerminates, RemoversEnd
<1>8. EndTerminates'
  BY DEF EndTerminates, ReferenceValid, EndsAlone, RemoversEnd
<1>9. StartsAlone'
  BY DEF StartsAlone, ReferenceValid, ManagerHeld, RemoversEnd
<1>10. StartsFirst'
  BY DEF StartsFirst, StartsAlone, SequencesHeld, ReferenceValid, AbsentIsEmpty, RemoversEnd
<1>11. AbsentIsEmpty'
  BY DEF AbsentIsEmpty, ReferenceValid
<1>12. MaxSequenceNumber'
  BY SequencesFinite DEF MaxSequenceNumber
<1>13. StreamsCounted'
  BY <1>0 DEF StreamsCounted
<1>14. PromisesAwaited'
  BY DEF PromisesAwaited
<1> QED
  BY <1>1, <1>2, <1>3, <1>4, <1>5, <1>6, <1>7, <1>8, <1>9, <1>10, <1>11, <1>12, <1>13, <1>14

\* An early return releases all that the request had.
LEMMA InferenceFailsStep ==
  ASSUME IInv, NEW t \in Requests, InferenceFails(t)
  PROVE  IInv'
<1> USE ThreadsAssumption, IdsAssumption, StatesAssumption
<1> USE DEF IInv, TypeOK, InferenceFails, Goto, Release, Return, sequenceVars, streamVars, requestVars, Locking, Referring, PCs
<1>0. /\ freeStreams' \in 0 .. nireq /\ promises' \in Seq(Requests)
      /\ PromisesAwaited' /\ StreamsCounted'
  <2>1. pc[t] \in {"infer", "post", "remove"} /\ pc' = [pc EXCEPT ![t] = "out"] /\ ReturnStream
    OBVIOUS
  <2> QED
    BY <2>1, StreamReturned
<1>1. TypeOK'
  <2>1. freeStreams' \in 0 .. nireq
    BY <1>0
  <2>2. control' \in [Requests -> Controls] /\ state' \in [Requests -> MemoryStates]
    BY DEF Controls, MemoryStates
  <2>3. /\ id' \in [Requests -> Ids \cup {0}] /\ pc' \in [Requests -> PCs]
        /\ sequenceMutex' \in [Ids -> Requests \cup {NoThread}]
    OBVIOUS
  <2>4. memoryState' \in [Ids -> MemoryStates \cup {Empty}]
    BY DEF MemoryStates, Empty
  <2> QED
    BY <1>0, <2>1, <2>2, <2>3, <2>4
<1>2. ManagerHeld'
  BY DEF ManagerHeld
<1>3. SequencesHeld'
  BY DEF SequencesHeld
<1>4. ReferenceValid'
  BY DEF ReferenceValid, ManagerHeld, SequencesHeld, EndsAlone, EndTerminates, RemoversEnd
<1>5. NoLostUpdate'
  BY DEF NoLostUpdate, ReferenceValid, SequencesHeld, EndsAlone, StartsFirst
<1>6. RemoversEnd'
  BY DEF RemoversEnd
<1>7. EndsAlone'
  BY DEF EndsAlone, ReferenceValid, ManagerHeld, SequencesHeld, EndTerminates, RemoversEnd
<1>8. EndTerminates'
  BY DEF EndTerminates, ReferenceValid, EndsAlone, RemoversEnd
<1>9. StartsAlone'
  BY DEF StartsAlone, ReferenceValid, ManagerHeld, RemoversEnd
<1>10. StartsFirst'
  BY DEF StartsFirst, StartsAlone, SequencesHeld, ReferenceValid, AbsentIsEmpty, RemoversEnd
<1>11. AbsentIsEmpty'
  BY DEF AbsentIsEmpty, ReferenceValid
<1>12. MaxSequenceNumber'
  BY SequencesFinite DEF MaxSequenceNumber
<1>13. StreamsCounted'
  BY <1>0
<1>14. PromisesAwaited'
  BY <1>0
<1> QED
  BY <1>1, <1>2, <1>3, <1>4, <1>5, <1>6, <1>7, <1>8, <1>9, <1>10, <1>11, <1>12, <1>13, <1>14

\* The new state is saved.
LEMMA UpdateMemoryStateStep ==
  ASSUME IInv, NEW t \in Requests, UpdateMemoryState(t)
  PROVE  IInv'
<1> USE ThreadsAssumption, IdsAssumption, StatesAssumption
<1> USE DEF IInv, TypeOK, UpdateMemoryState, Goto, Release, Return, sequenceVars, streamVars, requestVars, Locking, Referring, PCs
<1>0. /\ freeStreams' \in 0 .. nireq /\ promises' \in Seq(Requests)
      /\ PromisesAwaited' /\ StreamsCounted'
  <2>1. pc[t] \in {"infer", "post", "remove"} /\ pc' = [pc EXCEPT ![t] = "out"] /\ ReturnStream
    OBVIOUS
  <2> QED
    BY <2>1, StreamReturned
<1>1. TypeOK'
  <2>1. freeStreams' \in 0 .. nireq
    BY <1>0
  <2>2. control' \in [Requests -> Controls] /\ state' \in [Requests -> MemoryStates]
    BY DEF Controls, MemoryStates
  <2>3. /\ id' \in [Requests -> Ids \cup {0}] /\ pc' \in [Requests -> PCs]
        /\ sequenceMutex' \in [Ids -> Requests \cup {NoThread}]
    OBVIOUS
  <2>4. memoryState' \in [Ids -> MemoryStates \cup {Empty}]
    BY DEF MemoryStates, Empty
  <2> QED
    BY <1>0, <2>1, <2>2, <2>3, <2>4
<1>2. ManagerHeld'
  BY DEF ManagerHeld
<1>3. SequencesHeld'
  BY DEF SequencesHeld
<1>4. ReferenceValid'
  BY DEF ReferenceValid, ManagerHeld, SequencesHeld, EndsAlone, EndTerminates, RemoversEnd
<1>5. NoLostUpdate'
  BY DEF NoLostUpdate, ReferenceValid, SequencesHeld, EndsAlone, StartsFirst
<1>6. RemoversEnd'
  BY DEF RemoversEnd
<1>7. EndsAlone'
  BY DEF EndsAlone, ReferenceValid, ManagerHeld, SequencesHeld, EndTerminates, RemoversEnd
<1>8. EndTerminates'
  BY DEF EndTerminates, ReferenceValid, EndsAlone, RemoversEnd
<1>9. StartsAlone'
  BY DEF StartsAlone, ReferenceValid, ManagerHeld, RemoversEnd
<1>10. StartsFirst'
  BY DEF StartsFirst, StartsAlone, SequencesHeld, ReferenceValid, AbsentIsEmpty, RemoversEnd
<1>11. AbsentIsEmpty'
  BY DEF AbsentIsEmpty, ReferenceValid
<1>12. MaxSequenceNumber'
  BY SequencesFinite DEF MaxSequenceNumber
<1>13. StreamsCounted'
  BY <1>0
<1>14. PromisesAwaited'
  BY <1>0
<1> QED
  BY <1>1, <1>2, <1>3, <1>4, <1>5, <1>6, <1>7, <1>8, <1>9, <1>10, <1>11, <1>12, <1>13, <1>14

\* A state that cannot be cloned is not saved.
LEMMA UpdateMemoryStateFailsStep ==
  ASSUME IInv, NEW t \in Requests, UpdateMemoryStateFails(t)
  PROVE  IInv'
<1> USE ThreadsAssumption, IdsAssumption, StatesAssumption
<1> USE DEF IInv, TypeOK, UpdateMemoryStateFails, Goto, Release, Return, sequenceVars, streamVars, requestVars, Locking, Referring, PCs
<1>0. /\ freeStreams' \in 0 .. nireq /\ promises' \in Seq(Requests)
      /\ PromisesAwaited' /\ StreamsCounted'
  <2>1. pc[t] \in {"infer", "post", "remove"} /\ pc' = [pc EXCEPT ![t] = "out"] /\ ReturnStream
    OBVIOUS
  <2> QED
    BY <2>1, StreamReturned
<1>1. TypeOK'
  <2>1. freeStreams' \in 0 .. nireq
    BY <1>0
  <2>2. control' \in [Requests -> Controls] /\ state' \in [Requests -> MemoryStates]
    BY DEF Controls, MemoryStates
  <2>3. /\ id' \in [Requests -> Ids \cup {0}] /\ pc' \in [Requests -> PCs]
        /\ sequenceMutex' \in [Ids -> Requests \cup {NoThread}]
    OBVIOUS
  <2>4. memoryState' \in [Ids -> MemoryStates \cup {Empty}]
    BY DEF MemoryStates, Empty
  <2> QED
    BY <1>0, <2>1, <2>2, <2>3, <2>4
<1>2. ManagerHeld'
  BY DEF ManagerHeld
<1>3. SequencesHeld'
  BY DEF SequencesHeld
<1>4. ReferenceValid'
  BY DEF ReferenceValid, ManagerHeld, SequencesHeld, EndsAlone, EndTerminates, RemoversEnd
<1>5. NoLostUpdate'
  BY DEF NoLostUpdate, ReferenceValid, SequencesHeld, EndsAlone, StartsFirst
<1>6. RemoversEnd'
  BY DEF RemoversEnd
<1>7. EndsAlone'
  BY DEF EndsAlone, ReferenceValid, ManagerHeld, SequencesHeld, EndTerminates, RemoversEnd
<1>8. EndTerminates'
  BY DEF EndTerminates, ReferenceValid, EndsAlone, RemoversEnd
<1>9. StartsAlone'
  BY DEF StartsAlone, ReferenceValid, ManagerHeld, RemoversEnd
<1>10. StartsFirst'
  BY DEF StartsFirst, StartsAlone, SequencesHeld, ReferenceValid, AbsentIsEmpty, RemoversEnd
<1>11. AbsentIsEmpty'
  BY DEF AbsentIsEmpty, ReferenceValid
<1>12. MaxSequenceNumber'
  BY SequencesFinite DEF MaxSequenceNumber
<1>13. StreamsCounted'
  BY <1>0
<1>14. PromisesAwaited'
  BY <1>0
<1> QED
  BY <1>1, <1>2, <1>3, <1>4, <1>5, <1>6, <1>7, <1>8, <1>9, <1>10, <1>11, <1>12, <1>13, <1>14

\* The last request unlocks its sequence.
LEMMA UnlockSequenceStep ==
  ASSUME IInv, NEW t \in Requests, UnlockSequence(t)
  PROVE  IInv'
<1> USE ThreadsAssumption, IdsAssumption, StatesAssumption
<1> USE DEF IInv, TypeOK, UnlockSequence, Goto, sequenceVars, streamVars, requestVars, Locking, Referring, PCs
<1>0. StreamHolders' = StreamHolders
  BY DEF StreamHolders, Queued
<1>1. TypeOK'
  BY <1>0 DEF StreamsCounted, MemoryStates, Controls, Ids, Empty, RemoversEnd
<1>2. ManagerHeld'
  BY DEF ManagerHeld
<1>3. SequencesHeld'
  BY DEF SequencesHeld
<1>4. ReferenceValid'
  BY DEF ReferenceValid, ManagerHeld, SequencesHeld, EndsAlone, EndTerminates, RemoversEnd
<1>5. NoLostUpdate'
  BY DEF NoLostUpdate, ReferenceValid, SequencesHeld, EndsAlone, StartsFirst
<1>6. RemoversEnd'
  BY DEF RemoversEnd
<1>7. EndsAlone'
  BY DEF EndsAlone, ReferenceValid, ManagerHeld, SequencesHeld, EndTerminates, RemoversEnd
<1>8. EndTerminates'
  BY DEF EndTerminates, ReferenceValid, EndsAlone, RemoversEnd
<1>9. StartsAlone'
  BY DEF StartsAlone, ReferenceValid, ManagerHeld, RemoversEnd
<1>10. StartsFirst'
  BY DEF StartsFirst, StartsAlone, SequencesHeld, ReferenceValid, AbsentIsEmpty, RemoversEnd
<1>11. AbsentIsEmpty'
  BY DEF AbsentIsEmpty, ReferenceValid
<1>12. MaxSequenceNumber'
  BY SequencesFinite DEF MaxSequenceNumber
<1>13. StreamsCounted'
  BY <1>0 DEF StreamsCounted
<1>14. PromisesAwaited'
  BY DEF PromisesAwaited
<1> QED
  BY <1>1, <1>2, <1>3, <1>4, <1>5, <1>6, <1>7, <1>8, <1>9, <1>10, <1>11, <1>12, <1>13, <1>14

\* The last request removes its sequence, alone by then.
LEMMA RemoveSequenceStep ==
  ASSUME IInv, NEW t \in Requests, RemoveSequence(t)
  PROVE  IInv'
<1> USE ThreadsAssumption, IdsAssumption, StatesAssumption
<1> USE DEF IInv, TypeOK, RemoveSequence, Goto, Erase, Return, sequenceVars, streamVars, requestVars, Locking, Referring, PCs
<1>0. /\ freeStreams' \in 0 .. nireq /\ promises' \in Seq(Requests)
      /\ PromisesAwaited' /\ StreamsCounted'
  <2>1. pc[t] \in {"infer", "post", "remove"} /\ pc' = [pc EXCEPT ![t] = "out"] /\ ReturnStream
    OBVIOUS
  <2> QED
    BY <2>1, StreamReturned
<1>1. TypeOK'
  <2>1. freeStreams' \in 0 .. nireq
    BY <1>0
  <2>2. control' \in [Requests -> Controls] /\ state' \in [Requests -> MemoryStates]
    BY DEF Controls, MemoryStates
  <2>3. /\ id' \in [Requests -> Ids \cup {0}] /\ pc' \in [Requests -> PCs]
        /\ sequenceMutex' \in [Ids -> Requests \cup {NoThread}]
    OBVIOUS
  <2>4. memoryState' \in [Ids -> MemoryStates \cup {Empty}]
    BY DEF MemoryStates, Empty
  <2> QED
    BY <1>0, <2>1, <2>2, <2>3, <2>4
<1>2. ManagerHeld'
  BY DEF ManagerHeld
<1>3. SequencesHeld'
  BY DEF SequencesHeld
<1>4. ReferenceValid'
  BY DEF ReferenceValid, ManagerHeld, SequencesHeld, EndsAlone, EndTerminates, RemoversEnd
<1>5. NoLostUpdate'
  BY DEF NoLostUpdate, ReferenceValid, SequencesHeld, EndsAlone, StartsFirst, RemoversEnd
<1>6. RemoversEnd'
  BY DEF RemoversEnd
<1>7. EndsAlone'
  BY DEF EndsAlone, ReferenceValid, ManagerHeld, SequencesHeld, EndTerminates, RemoversEnd
<1>8. EndTerminates'
  BY DEF EndTerminates, ReferenceValid, EndsAlone, RemoversEnd
<1>9. StartsAlone'
  BY DEF StartsAlone, ReferenceValid, ManagerHeld, RemoversEnd
<1>10. StartsFirst'
  BY DEF StartsFirst, StartsAlone, SequencesHeld, ReferenceValid, AbsentIsEmpty, RemoversEnd
<1>11. AbsentIsEmpty'
  BY DEF AbsentIsEmpty, ReferenceValid
<1>12. MaxSequenceNumber'
  <2>1. Cardinality(sequences \ {id[t]}) <= Cardinality(sequences)
    BY SequencesFinite
  <2>2. Cardinality(sequences \ {id[t]}) \in Nat /\ Cardinality(sequences) \in Nat
    BY SequencesFinite
  <2> QED
    BY <2>1, <2>2 DEF MaxSequenceNumber
<1>13. StreamsCounted'
  BY <1>0
<1>14. PromisesAwaited'
  BY <1>0
<1> QED
  BY <1>1, <1>2, <1>3, <1>4, <1>5, <1>6, <1>7, <1>8, <1>9, <1>10, <1>11, <1>12, <1>13, <1>14

\* The cleaner takes the manager's mutex.
LEMMA StartScanStep ==
  ASSUME IInv, StartScan
  PROVE  IInv'
<1> USE ThreadsAssumption, IdsAssumption, StatesAssumption
<1> USE DEF IInv, TypeOK, StartScan, sequenceVars, streamVars, requestVars, Locking, Referring, PCs
<1>0. StreamHolders' = StreamHolders
  BY DEF StreamHolders, Queued
<1>1. TypeOK'
  BY <1>0 DEF StreamsCounted, MemoryStates, Controls, Ids, Empty, RemoversEnd
<1>2. ManagerHeld'
  BY DEF ManagerHeld
<1>3. SequencesHeld'
  BY DEF SequencesHeld
<1>4. ReferenceValid'
  BY DEF ReferenceValid, ManagerHeld, SequencesHeld, EndsAlone, EndTerminates, RemoversEnd
<1>5. NoLostUpdate'
  BY DEF NoLostUpdate, ReferenceValid, SequencesHeld, EndsAlone, StartsFirst
<1>6. RemoversEnd'
  BY DEF RemoversEnd
<1>7. EndsAlone'
  BY DEF EndsAlone, ReferenceValid, ManagerHeld, SequencesHeld, EndTerminates, RemoversEnd
<1>8. EndTerminates'
  BY DEF EndTerminates, ReferenceValid, EndsAlone, RemoversEnd
<1>9. StartsAlone'
  BY DEF StartsAlone, ReferenceValid, ManagerHeld, RemoversEnd
<1>10. StartsFirst'
  BY DEF StartsFirst, StartsAlone, SequencesHeld, ReferenceValid, AbsentIsEmpty, RemoversEnd
<1>11. AbsentIsEmpty'
  BY DEF AbsentIsEmpty, ReferenceValid
<1>12. MaxSequenceNumber'
  BY SequencesFinite DEF MaxSequenceNumber
<1>13. StreamsCounted'
  BY <1>0 DEF StreamsCounted
<1>14. PromisesAwaited'
  BY DEF PromisesAwaited
<1> QED
  BY <1>1, <1>2, <1>3, <1>4, <1>5, <1>6, <1>7, <1>8, <1>9, <1>10, <1>11, <1>12, <1>13, <1>14

\* The cleaner passes over a sequence.
LEMMA SkipSequenceStep ==
  ASSUME IInv, NEW i \in Ids, VisitSequence(i), SkipSequence(i)
  PROVE  IInv'
<1> USE ThreadsAssumption, IdsAssumption, StatesAssumption
<1> USE DEF IInv, TypeOK, VisitSequence, SkipSequence, sequenceVars, streamVars, requestVars, Locking, Referring, PCs
<1>0. StreamHolders' = StreamHolders
  BY DEF StreamHolders, Queued
<1>1. TypeOK'
  BY <1>0 DEF StreamsCounted, MemoryStates, Controls, Ids, Empty, RemoversEnd
<1>2. ManagerHeld'
  BY DEF ManagerHeld
<1>3. SequencesHeld'
  BY DEF SequencesHeld
<1>4. ReferenceValid'
  BY DEF ReferenceValid, ManagerHeld, SequencesHeld, EndsAlone, EndTerminates, RemoversEnd
<1>5. NoLostUpdate'
  BY DEF NoLostUpdate, ReferenceValid, SequencesHeld, EndsAlone, StartsFirst
<1>6. RemoversEnd'
  BY DEF RemoversEnd
<1>7. EndsAlone'
  BY DEF EndsAlone, ReferenceValid, ManagerHeld, SequencesHeld, EndTerminates, RemoversEnd
<1>8. EndTerminates'
  BY DEF EndTerminates, ReferenceValid, EndsAlone, RemoversEnd
<1>9. StartsAlone'
  BY DEF StartsAlone, ReferenceValid, ManagerHeld, RemoversEnd
<1>10. StartsFirst'
  BY DEF StartsFirst, StartsAlone, SequencesHeld, ReferenceValid, AbsentIsEmpty, RemoversEnd
<1>11. AbsentIsEmpty'
  BY DEF AbsentIsEmpty, ReferenceValid
<1>12. MaxSequenceNumber'
  BY SequencesFinite DEF MaxSequenceNumber
<1>13. StreamsCounted'
  BY <1>0 DEF StreamsCounted
<1>14. PromisesAwaited'
  BY DEF PromisesAwaited
<1> QED
  BY <1>1, <1>2, <1>3, <1>4, <1>5, <1>6, <1>7, <1>8, <1>9, <1>10, <1>11, <1>12, <1>13, <1>14

\* The cleaner erases an idle sequence; nobody refers to it.
LEMMA EraseIdleStep ==
  ASSUME IInv, NEW i \in Ids, VisitSequence(i), EraseIdle(i)
  PROVE  IInv'
<1> USE ThreadsAssumption, IdsAssumption, StatesAssumption
<1> USE DEF IInv, TypeOK, VisitSequence, EraseIdle, Erase, sequenceVars, streamVars, requestVars, Locking, Referring, PCs
<1>0. StreamHolders' = StreamHolders
  BY DEF StreamHolders, Queued
<1>1. TypeOK'
  BY <1>0 DEF StreamsCounted, MemoryStates, Controls, Ids, Empty, RemoversEnd
<1>2. ManagerHeld'
  BY DEF ManagerHeld
<1>3. SequencesHeld'
  BY DEF SequencesHeld
<1>4. ReferenceValid'
  BY DEF ReferenceValid, ManagerHeld, SequencesHeld, EndsAlone, EndTerminates, RemoversEnd
<1>5. NoLostUpdate'
  BY DEF NoLostUpdate, ReferenceValid, SequencesHeld, EndsAlone, StartsFirst
<1>6. RemoversEnd'
  BY DEF RemoversEnd
<1>7. EndsAlone'
  BY DEF EndsAlone, ReferenceValid, ManagerHeld, SequencesHeld, EndTerminates, RemoversEnd
<1>8. EndTerminates'
  BY DEF EndTerminates, ReferenceValid, EndsAlone, RemoversEnd
<1>9. StartsAlone'
  BY DEF StartsAlone, ReferenceValid, ManagerHeld, RemoversEnd
<1>10. StartsFirst'
  BY DEF StartsFirst, StartsAlone, SequencesHeld, ReferenceValid, AbsentIsEmpty, RemoversEnd
<1>11. AbsentIsEmpty'
  BY DEF AbsentIsEmpty, ReferenceValid
<1>12. MaxSequenceNumber'
  BY SequencesFinite DEF MaxSequenceNumber
<1>13. StreamsCounted'
  BY <1>0 DEF StreamsCounted
<1>14. PromisesAwaited'
  BY DEF PromisesAwaited
<1> QED
  BY <1>1, <1>2, <1>3, <1>4, <1>5, <1>6, <1>7, <1>8, <1>9, <1>10, <1>11, <1>12, <1>13, <1>14

\* The cleaner marks a sequence.
LEMMA SetIdleStep ==
  ASSUME IInv, NEW i \in Ids, VisitSequence(i), SetIdle(i)
  PROVE  IInv'
<1> USE ThreadsAssumption, IdsAssumption, StatesAssumption
<1> USE DEF IInv, TypeOK, VisitSequence, SetIdle, sequenceVars, streamVars, requestVars, Locking, Referring, PCs
<1>0. StreamHolders' = StreamHolders
  BY DEF StreamHolders, Queued
<1>1. TypeOK'
  BY <1>0 DEF StreamsCounted, MemoryStates, Controls, Ids, Empty, RemoversEnd, ManagerHeld
<1>2. ManagerHeld'
  BY DEF ManagerHeld
<1>3. SequencesHeld'
  BY DEF SequencesHeld
<1>4. ReferenceValid'
  BY DEF ReferenceValid, ManagerHeld, SequencesHeld, EndsAlone, EndTerminates, RemoversEnd
<1>5. NoLostUpdate'
  BY DEF NoLostUpdate, ReferenceValid, SequencesHeld, EndsAlone, StartsFirst
<1>6. RemoversEnd'
  BY DEF RemoversEnd
<1>7. EndsAlone'
  BY DEF EndsAlone, ReferenceValid, ManagerHeld, SequencesHeld, EndTerminates, RemoversEnd
<1>8. EndTerminates'
  BY DEF EndTerminates, ReferenceValid, EndsAlone, RemoversEnd
<1>9. StartsAlone'
  BY DEF StartsAlone, ReferenceValid, ManagerHeld, RemoversEnd
<1>10. StartsFirst'
  BY DEF StartsFirst, StartsAlone, SequencesHeld, ReferenceValid, AbsentIsEmpty, RemoversEnd
<1>11. AbsentIsEmpty'
  BY DEF AbsentIsEmpty, ReferenceValid
<1>12. MaxSequenceNumber'
  BY SequencesFinite DEF MaxSequenceNumber
<1>13. StreamsCounted'
  BY <1>0 DEF StreamsCounted
<1>14. PromisesAwaited'
  BY DEF PromisesAwaited
<1> QED
  BY <1>1, <1>2, <1>3, <1>4, <1>5, <1>6, <1>7, <1>8, <1>9, <1>10, <1>11, <1>12, <1>13, <1>14

\* The cleaner is done.
LEMMA EndScanStep ==
  ASSUME IInv, EndScan
  PROVE  IInv'
<1> USE ThreadsAssumption, IdsAssumption, StatesAssumption
<1> USE DEF IInv, TypeOK, EndScan, sequenceVars, streamVars, requestVars, Locking, Referring, PCs
<1>0. StreamHolders' = StreamHolders
  BY DEF StreamHolders, Queued
<1>1. TypeOK'
  BY <1>0 DEF StreamsCounted, MemoryStates, Controls, Ids, Empty, RemoversEnd
<1>2. ManagerHeld'
  BY DEF ManagerHeld
<1>3. SequencesHeld'
  BY DEF SequencesHeld
<1>4. ReferenceValid'
  BY DEF ReferenceValid, ManagerHeld, SequencesHeld, EndsAlone, EndTerminates, RemoversEnd
<1>5. NoLostUpdate'
  BY DEF NoLostUpdate, ReferenceValid, SequencesHeld, EndsAlone, StartsFirst
<1>6. RemoversEnd'
  BY DEF RemoversEnd
<1>7. EndsAlone'
  BY DEF EndsAlone, ReferenceValid, ManagerHeld, SequencesHeld, EndTerminates, RemoversEnd
<1>8. EndTerminates'
  BY DEF EndTerminates, ReferenceValid, EndsAlone, RemoversEnd
<1>9. StartsAlone'
  BY DEF StartsAlone, ReferenceValid, ManagerHeld, RemoversEnd
<1>10. StartsFirst'
  BY DEF StartsFirst, StartsAlone, SequencesHeld, ReferenceValid, AbsentIsEmpty, RemoversEnd
<1>11. AbsentIsEmpty'
  BY DEF AbsentIsEmpty, ReferenceValid
<1>12. MaxSequenceNumber'
  BY SequencesFinite DEF MaxSequenceNumber
<1>13. StreamsCounted'
  BY <1>0 DEF StreamsCounted
<1>14. PromisesAwaited'
  BY DEF PromisesAwaited
<1> QED
  BY <1>1, <1>2, <1>3, <1>4, <1>5, <1>6, <1>7, <1>8, <1>9, <1>10, <1>11, <1>12, <1>13, <1>14
\* The invariant holds before the first request.
LEMMA IInvInit == Init => IInv
<1> SUFFICES ASSUME Init PROVE IInv
  OBVIOUS
<1> USE ThreadsAssumption, IdsAssumption, StatesAssumption DEF Init
<1>1. TypeOK
  BY DEF TypeOK, PCs, Controls, Ids, MemoryStates
<1>2. Locking = {} /\ Referring = {} /\ StreamHolders = {}
  BY DEF Locking, Referring, StreamHolders
<1>3. MaxSequenceNumber /\ StreamsCounted /\ PromisesAwaited
  BY <1>2, FS_EmptySet DEF MaxSequenceNumber, StreamsCounted, PromisesAwaited
<1>4. /\ ManagerHeld /\ SequencesHeld /\ ReferenceValid /\ NoLostUpdate /\ RemoversEnd
      /\ EndsAlone /\ EndTerminates /\ StartsAlone /\ StartsFirst /\ AbsentIsEmpty
  BY <1>2 DEF ManagerHeld, SequencesHeld, ReferenceValid, NoLostUpdate, RemoversEnd,
     EndsAlone, EndTerminates, StartsAlone, StartsFirst, AbsentIsEmpty
<1> QED
  BY <1>1, <1>3, <1>4 DEF IInv

\* Every step preserves the invariant.
LEMMA IInvStep == IInv /\ [Next]_vars => IInv'
<1> SUFFICES ASSUME IInv, [Next]_vars PROVE IInv'
  OBVIOUS
<1>1. CASE UNCHANGED vars
  BY <1>1 DEF vars, sequenceVars, streamVars, requestVars, IInv, TypeOK, Locking, Referring,
     StreamHolders, ManagerHeld, SequencesHeld, ReferenceValid, NoLostUpdate,
     RemoversEnd, EndsAlone, EndTerminates, StartsAlone, StartsFirst, AbsentIsEmpty,
     MaxSequenceNumber, StreamsCounted, PromisesAwaited, Queued
<1>2. ASSUME NEW t \in Requests, Submit(t) \/ RequestStep(t)
      PROVE  IInv'
  <2>1. CASE ProcessRequestedSpec(t)
    <3>1. CreateSequence(t) \/ ContinueSequence(t) \/ TerminateSequence(t)
      BY <2>1 DEF ProcessRequestedSpec
    <3> QED
      BY <2>1, <3>1, CreateSequenceStep, ContinueSequenceStep, TerminateSequenceStep
  <2> QED
    BY <1>2, <2>1, SubmitStep, RefuseRequestedSpecStep, LockSequenceStep, GetStreamStep,
       NoStreamStep, QueuePromiseStep, StreamReadyStep, InferStep, InferenceFailsStep, UpdateMemoryStateStep, UpdateMemoryStateFailsStep,
       UnlockSequenceStep, RemoveSequenceStep
       DEF RequestStep
<1>3. CASE StartScan
  BY <1>3, StartScanStep
<1>4. CASE ScanStep
  <2>1. ASSUME NEW i \in Ids, VisitSequence(i)
        PROVE  IInv'
    <3>1. SkipSequence(i) \/ EraseIdle(i) \/ SetIdle(i)
      BY <2>1 DEF VisitSequence
    <3> QED
      BY <2>1, <3>1, SkipSequenceStep, EraseIdleStep, SetIdleStep
  <2> QED
    BY <1>4, <2>1, EndScanStep DEF ScanStep
<1> QED
  BY <1>1, <1>2, <1>3, <1>4 DEF Next

\* The inductive invariant holds in every reachable state.
THEOREM InvariantHolds == Spec => []IInv
<1> QED
  BY IInvInit, IInvStep, PTL DEF Spec

\* Types, for any number of requests, sequences and streams.
THEOREM TypeCorrect == Spec => []TypeOK
<1>1. IInv => TypeOK
  BY DEF IInv
<1> QED
  BY <1>1, InvariantHolds, PTL

\* No request ever uses a Sequence that the cleaner or another request erased.
THEOREM ReferencesSafe == Spec => []ReferenceValid
<1>1. IInv => ReferenceValid
  BY DEF IInv
<1> QED
  BY <1>1, InvariantHolds, PTL

\* The requests of a sequence are serialised: each continues from the state the
\* one before it saved.
THEOREM UpdatesSerialised == Spec => []NoLostUpdate
<1>1. IInv => NoLostUpdate
  BY DEF IInv
<1> QED
  BY <1>1, InvariantHolds, PTL

\* max_sequence_number is never exceeded.
THEOREM SequencesBounded == Spec => []MaxSequenceNumber
<1>1. IInv => MaxSequenceNumber
  BY DEF IInv
<1> QED
  BY <1>1, InvariantHolds, PTL

\* No early return of infer loses a stream or gives it back twice.
THEOREM StreamsConserved == Spec => []StreamsCounted
<1>1. IInv => StreamsCounted
  BY DEF IInv
<1> QED
  BY <1>1, InvariantHolds, PTL
=============================================================================
