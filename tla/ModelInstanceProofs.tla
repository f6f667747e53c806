------------------------ MODULE ModelInstanceProofs ------------------------
(***************************************************************************)
(* Proofs about the life of a model version, for any number of requests    *)
(* and any batch sizes.                                                    *)
(***************************************************************************)
EXTENDS ModelInstance, FiniteSetTheorems, TLAPS

\* The counter follows the set of guards: one more, one fewer, the same.
LEMMA GuardArith ==
  ASSUME NEW S, NEW T, S \subseteq Requests, T \subseteq Requests,
         NEW r \in Requests
  PROVE  /\ IsFiniteSet(S) /\ Cardinality(S) \in Nat
         /\ r \notin S /\ T = S \cup {r} => Cardinality(T) = Cardinality(S) + 1
         /\ r \in S /\ T = S \ {r} => Cardinality(T) = Cardinality(S) - 1
<1>1. IsFiniteSet(S) /\ Cardinality(S) \in Nat
  BY ThreadsAssumption, FS_Subset, FS_CardinalityType
<1>2. ASSUME r \notin S, T = S \cup {r}
      PROVE  Cardinality(T) = Cardinality(S) + 1
  BY <1>1, <1>2, FS_AddElement
<1>3. ASSUME r \in S, T = S \ {r}
      PROVE  Cardinality(T) = Cardinality(S) - 1
  BY <1>1, <1>3, FS_RemoveElement
<1> QED
  BY <1>1, <1>2, <1>3

\* No guard is left when the counter is zero.
LEMMA ZeroHandles ==
  ASSUME HandlesCounted, handles = 0
  PROVE  Using = {}
<1>1. IsFiniteSet(Guarded)
  BY ThreadsAssumption, FS_Subset DEF Guarded
<1>2. Guarded = {}
  BY <1>1, FS_EmptySet DEF HandlesCounted
<1> QED
  BY <1>2 DEF Guarded, Using

\* The batch size a load aims at is a batch size.
LEMMA TargetIsBatch ==
  ASSUME IInv, NEW t \in Threads, pc[t] = "load"
  PROVE  /\ TargetBatch(t) \in Batches
         /\ ConfigOf(t) \in Batches \cup {AutoBatch}
<1> USE BatchesAssumption, ThreadsAssumption DEF IInv, TypeOK, ConfigOf, AutoBatch, None
<1>1. ConfigOf(t) \in Batches \cup {AutoBatch}
  OBVIOUS
<1>2. call[t] \in {"reshape", "full"} => t \in Requests
  BY DEF CallsMatch, Threads, LoaderPCs, ManagerCalls
<1>3. CASE call[t] \in {"reshape", "full"}
  BY <1>2, <1>3 DEF TargetBatch
<1>4. CASE call[t] \notin {"reshape", "full"}
  BY <1>1, <1>4 DEF TargetBatch
<1> QED
  BY <1>1, <1>3, <1>4

\* A request enters with a guard and nothing else.
LEMMA ArriveStep ==
  ASSUME IInv, NEW r \in Requests, Arrive(r)
  PROVE  IInv'
<1> USE ThreadsAssumption, BatchesAssumption, WaitAssumption
<1> USE DEF IInv, TypeOK, Arrive, Goto, SetStatus, requestVars, managerVars, statusVars, components, Threads, RequestPCs, LoaderPCs
<1>1. TypeOK'
  BY DEF States, ManagerCalls, RequestCalls, None, AutoBatch
<1>2. MutexHeld'
  BY DEF MutexHeld
<1>3. CallsMatch'
  BY DEF CallsMatch, ManagerCalls, RequestCalls, MutexHeld
<1>4. HandlesCounted'
  <2>1. r \in Requests /\ r \notin Guarded /\ Guarded' = Guarded \cup {r}
    BY DEF Guarded, CallsMatch, ManagerCalls
  <2>2. Guarded \subseteq Requests /\ Guarded' \subseteq Requests
    BY DEF Guarded
  <2> QED
    BY <2>1, <2>2, GuardArith DEF HandlesCounted
<1>5. Announced'
  BY DEF Announced, MutexHeld
<1>6. Drained'
  BY DEF Drained, Using, Announced, MutexHeld
<1>7. NotYetLoaded'
  BY DEF NotYetLoaded, CallsMatch, MutexHeld, ManagerCalls
<1>8. LoadProgress'
  BY DEF LoadProgress, CallsMatch, MutexHeld, None
<1>9. AvailableIsLoaded'
  BY DEF AvailableIsLoaded, Announced, LoadProgress, None
<1>10. UsesLoadedModel'
  BY DEF UsesLoadedModel, Using, AvailableIsLoaded, Drained, LoadProgress, None
<1> QED
  BY <1>1, <1>2, <1>3, <1>4, <1>5, <1>6, <1>7, <1>8, <1>9, <1>10

\* The status check: AVAILABLE means loaded, and excludes every loader past its
\* announcement.
LEMMA CheckAvailableStep ==
  ASSUME IInv, NEW r \in Requests, CheckAvailable(r)
  PROVE  IInv'
<1> USE ThreadsAssumption, BatchesAssumption, WaitAssumption
<1> USE DEF IInv, TypeOK, CheckAvailable, Goto, SetStatus, requestVars, managerVars, statusVars, components, Threads, RequestPCs, LoaderPCs
<1>1. TypeOK'
  BY DEF States, ManagerCalls, RequestCalls, None, AutoBatch
<1>2. MutexHeld'
  BY DEF MutexHeld
<1>3. CallsMatch'
  BY DEF CallsMatch, ManagerCalls, RequestCalls, MutexHeld
<1>4. HandlesCounted'
  <2>1. Guarded' = Guarded
    BY DEF Guarded, CallsMatch
  <2> QED
    BY <2>1 DEF HandlesCounted
<1>5. Announced'
  BY DEF Announced, MutexHeld
<1>6. Drained'
  BY DEF Drained, Using, Announced, MutexHeld
<1>7. NotYetLoaded'
  BY DEF NotYetLoaded, CallsMatch, MutexHeld, ManagerCalls
<1>8. LoadProgress'
  BY DEF LoadProgress, CallsMatch, MutexHeld, None
<1>9. AvailableIsLoaded'
  BY DEF AvailableIsLoaded, Announced, LoadProgress, None
<1>10. UsesLoadedModel'
  BY DEF UsesLoadedModel, Using, AvailableIsLoaded, Drained, LoadProgress, None
<1> QED
  BY <1>1, <1>2, <1>3, <1>4, <1>5, <1>6, <1>7, <1>8, <1>9, <1>10

\* A guard is dropped.
LEMMA LeaveStep ==
  ASSUME IInv, NEW r \in Requests, Leave(r)
  PROVE  IInv'
<1> USE ThreadsAssumption, BatchesAssumption, WaitAssumption
<1> USE DEF IInv, TypeOK, Leave, Goto, SetStatus, requestVars, managerVars, statusVars, components, Threads, RequestPCs, LoaderPCs
<1>1. TypeOK'
  BY DEF States, ManagerCalls, RequestCalls, None, AutoBatch
<1>2. MutexHeld'
  BY DEF MutexHeld
<1>3. CallsMatch'
  BY DEF CallsMatch, ManagerCalls, RequestCalls, MutexHeld
<1>4. HandlesCounted'
  <2>1. r \in Guarded /\ Guarded' = Guarded \ {r}
    BY DEF Guarded
  <2>2. Guarded \subseteq Requests /\ Guarded' \subseteq Requests
    BY DEF Guarded
  <2> QED
    BY <2>1, <2>2, GuardArith DEF HandlesCounted
<1>5. Announced'
  BY DEF Announced, MutexHeld
<1>6. Drained'
  BY DEF Drained, Using, Announced, MutexHeld
<1>7. NotYetLoaded'
  BY DEF NotYetLoaded, CallsMatch, MutexHeld, ManagerCalls
<1>8. LoadProgress'
  BY DEF LoadProgress, CallsMatch, MutexHeld, None
<1>9. AvailableIsLoaded'
  BY DEF AvailableIsLoaded, Announced, LoadProgress, None
<1>10. UsesLoadedModel'
  BY DEF UsesLoadedModel, Using, AvailableIsLoaded, Drained, LoadProgress, None
<1> QED
  BY <1>1, <1>2, <1>3, <1>4, <1>5, <1>6, <1>7, <1>8, <1>9, <1>10

\* Another look at the status.
LEMMA RecheckStep ==
  ASSUME IInv, NEW r \in Requests, Recheck(r)
  PROVE  IInv'
<1> USE ThreadsAssumption, BatchesAssumption, WaitAssumption
<1> USE DEF IInv, TypeOK, Recheck, Done, Goto, SetStatus, requestVars, managerVars, statusVars, components, Threads, RequestPCs, LoaderPCs
<1>1. TypeOK'
  BY DEF States, ManagerCalls, RequestCalls, None, AutoBatch
<1>2. MutexHeld'
  BY DEF MutexHeld
<1>3. CallsMatch'
  BY DEF CallsMatch, ManagerCalls, RequestCalls, MutexHeld
<1>4. HandlesCounted'
  <2>1. Guarded' = Guarded
    BY DEF Guarded, CallsMatch
  <2> QED
    BY <2>1 DEF HandlesCounted
<1>5. Announced'
  BY DEF Announced, MutexHeld
<1>6. Drained'
  BY DEF Drained, Using, Announced, MutexHeld
<1>7. NotYetLoaded'
  BY DEF NotYetLoaded, CallsMatch, MutexHeld, ManagerCalls
<1>8. LoadProgress'
  <2>1. \A t \in Threads : pc'[t] \in LoaderPCs \ {"lock"} => t # r /\ pc'[t] = pc[t] /\ call'[t] = call[t]
    OBVIOUS
  <2>2. \A t \in Requests : t # r => batch'[t] = batch[t]
    OBVIOUS
  <2>3. \A t \in Threads : pc[t] \in LoaderPCs /\ call[t] \in {"reshape", "full"} => t \in Requests
    BY DEF CallsMatch, ManagerCalls
  <2>4. UNCHANGED components
    OBVIOUS
  <2> QED
    BY <2>1, <2>2, <2>3, <2>4 DEF LoadProgress
<1>9. AvailableIsLoaded'
  BY DEF AvailableIsLoaded, Announced, LoadProgress, None
<1>10. UsesLoadedModel'
  BY DEF UsesLoadedModel, Using, AvailableIsLoaded, Drained, LoadProgress, None
<1> QED
  BY <1>1, <1>2, <1>3, <1>4, <1>5, <1>6, <1>7, <1>8, <1>9, <1>10

\* The next guard of a waiting request.
LEMMA WakeStep ==
  ASSUME IInv, NEW r \in Requests, Wake(r)
  PROVE  IInv'
<1> USE ThreadsAssumption, BatchesAssumption, WaitAssumption
<1> USE DEF IInv, TypeOK, Wake, Goto, SetStatus, requestVars, managerVars, statusVars, components, Threads, RequestPCs, LoaderPCs
<1>1. TypeOK'
  BY DEF States, ManagerCalls, RequestCalls, None, AutoBatch
<1>2. MutexHeld'
  BY DEF MutexHeld
<1>3. CallsMatch'
  BY DEF CallsMatch, ManagerCalls, RequestCalls, MutexHeld
<1>4. HandlesCounted'
  <2>1. r \in Requests /\ r \notin Guarded /\ Guarded' = Guarded \cup {r}
    BY DEF Guarded, CallsMatch, ManagerCalls
  <2>2. Guarded \subseteq Requests /\ Guarded' \subseteq Requests
    BY DEF Guarded
  <2> QED
    BY <2>1, <2>2, GuardArith DEF HandlesCounted
<1>5. Announced'
  BY DEF Announced, MutexHeld
<1>6. Drained'
  BY DEF Drained, Using, Announced, MutexHeld
<1>7. NotYetLoaded'
  BY DEF NotYetLoaded, CallsMatch, MutexHeld, ManagerCalls
<1>8. LoadProgress'
  BY DEF LoadProgress, CallsMatch, MutexHeld, None
<1>9. AvailableIsLoaded'
  BY DEF AvailableIsLoaded, Announced, LoadProgress, None
<1>10. UsesLoadedModel'
  BY DEF UsesLoadedModel, Using, AvailableIsLoaded, Drained, LoadProgress, None
<1> QED
  BY <1>1, <1>2, <1>3, <1>4, <1>5, <1>6, <1>7, <1>8, <1>9, <1>10

\* Giving up.
LEMMA TimeOutStep ==
  ASSUME IInv, NEW r \in Requests, TimeOut(r)
  PROVE  IInv'
<1> USE ThreadsAssumption, BatchesAssumption, WaitAssumption
<1> USE DEF IInv, TypeOK, TimeOut, Done, Goto, SetStatus, requestVars, managerVars, statusVars, components, Threads, RequestPCs, LoaderPCs
<1>1. TypeOK'
  BY DEF States, ManagerCalls, RequestCalls, None, AutoBatch
<1>2. MutexHeld'
  BY DEF MutexHeld
<1>3. CallsMatch'
  BY DEF CallsMatch, ManagerCalls, RequestCalls, MutexHeld
<1>4. HandlesCounted'
  <2>1. Guarded' = Guarded
    BY DEF Guarded, CallsMatch
  <2> QED
    BY <2>1 DEF HandlesCounted
<1>5. Announced'
  BY DEF Announced, MutexHeld
<1>6. Drained'
  BY DEF Drained, Using, Announced, MutexHeld
<1>7. NotYetLoaded'
  BY DEF NotYetLoaded, CallsMatch, MutexHeld, ManagerCalls
<1>8. LoadProgress'
  BY DEF LoadProgress, CallsMatch, MutexHeld, None
<1>9. AvailableIsLoaded'
  BY DEF AvailableIsLoaded, Announced, LoadProgress, None
<1>10. UsesLoadedModel'
  BY DEF UsesLoadedModel, Using, AvailableIsLoaded, Drained, LoadProgress, None
<1> QED
  BY <1>1, <1>2, <1>3, <1>4, <1>5, <1>6, <1>7, <1>8, <1>9, <1>10

\* A request whose batch size fits goes on with its guard, any other drops it.
LEMMA ValidateStep ==
  ASSUME IInv, NEW r \in Requests, Validate(r)
  PROVE  IInv'
<1> USE ThreadsAssumption, BatchesAssumption, WaitAssumption
<1> USE DEF IInv, TypeOK, Validate, Done, Goto, SetStatus, requestVars, managerVars, statusVars, components, Threads, RequestPCs, LoaderPCs
<1>1. TypeOK'
  BY DEF States, ManagerCalls, RequestCalls, None, AutoBatch
<1>2. MutexHeld'
  BY DEF MutexHeld
<1>3. CallsMatch'
  BY DEF CallsMatch, ManagerCalls, RequestCalls, MutexHeld
<1>4. HandlesCounted'
  <2>1. Guarded \subseteq Requests /\ Guarded' \subseteq Requests
    BY DEF Guarded
  <2>2. CASE batch[r] = inputsInfo
    <3>1. Guarded' = Guarded
      BY <2>2 DEF Guarded
    <3> QED
      BY <2>2, <3>1 DEF HandlesCounted
  <2>3. CASE batch[r] # inputsInfo
    <3>1. r \in Guarded /\ Guarded' = Guarded \ {r}
      BY <2>3 DEF Guarded
    <3> QED
      BY <2>1, <2>3, <3>1, GuardArith DEF HandlesCounted
  <2> QED
    BY <2>2, <2>3
<1>5. Announced'
  BY DEF Announced, MutexHeld
<1>6. Drained'
  BY DEF Drained, Using, Announced, MutexHeld
<1>7. NotYetLoaded'
  BY DEF NotYetLoaded, CallsMatch, MutexHeld, ManagerCalls
<1>8. LoadProgress'
  <2>1. \A t \in Threads : pc'[t] \in LoaderPCs \ {"lock"} => t # r /\ pc'[t] = pc[t] /\ call'[t] = call[t]
    OBVIOUS
  <2>2. \A t \in Requests : t # r => batch'[t] = batch[t]
    OBVIOUS
  <2>3. \A t \in Threads : pc[t] \in LoaderPCs /\ call[t] \in {"reshape", "full"} => t \in Requests
    BY DEF CallsMatch, ManagerCalls
  <2>4. UNCHANGED components
    OBVIOUS
  <2> QED
    BY <2>1, <2>2, <2>3, <2>4 DEF LoadProgress
<1>9. AvailableIsLoaded'
  BY DEF AvailableIsLoaded, Announced, LoadProgress, None
<1>10. UsesLoadedModel'
  BY DEF UsesLoadedModel, Using, AvailableIsLoaded, Drained, LoadProgress, None
<1> QED
  BY <1>1, <1>2, <1>3, <1>4, <1>5, <1>6, <1>7, <1>8, <1>9, <1>10

\* A rejected request drops its guard.
LEMMA RejectStep ==
  ASSUME IInv, NEW r \in Requests, Reject(r)
  PROVE  IInv'
<1> USE ThreadsAssumption, BatchesAssumption, WaitAssumption
<1> USE DEF IInv, TypeOK, Reject, Done, Goto, SetStatus, requestVars, managerVars, statusVars, components, Threads, RequestPCs, LoaderPCs
<1>1. TypeOK'
  BY DEF States, ManagerCalls, RequestCalls, None, AutoBatch
<1>2. MutexHeld'
  BY DEF MutexHeld
<1>3. CallsMatch'
  BY DEF CallsMatch, ManagerCalls, RequestCalls, MutexHeld
<1>4. HandlesCounted'
  <2>1. r \in Guarded /\ Guarded' = Guarded \ {r}
    BY DEF Guarded
  <2>2. Guarded \subseteq Requests /\ Guarded' \subseteq Requests
    BY DEF Guarded
  <2> QED
    BY <2>1, <2>2, GuardArith DEF HandlesCounted
<1>5. Announced'
  BY DEF Announced, MutexHeld
<1>6. Drained'
  BY DEF Drained, Using, Announced, MutexHeld
<1>7. NotYetLoaded'
  BY DEF NotYetLoaded, CallsMatch, MutexHeld, ManagerCalls
<1>8. LoadProgress'
  BY DEF LoadProgress, CallsMatch, MutexHeld, None
<1>9. AvailableIsLoaded'
  BY DEF AvailableIsLoaded, Announced, LoadProgress, None
<1>10. UsesLoadedModel'
  BY DEF UsesLoadedModel, Using, AvailableIsLoaded, Drained, LoadProgress, None
<1> QED
  BY <1>1, <1>2, <1>3, <1>4, <1>5, <1>6, <1>7, <1>8, <1>9, <1>10

\* The end of an inference drops the guard.
LEMMA FinishInferStep ==
  ASSUME IInv, NEW r \in Requests, FinishInfer(r)
  PROVE  IInv'
<1> USE ThreadsAssumption, BatchesAssumption, WaitAssumption
<1> USE DEF IInv, TypeOK, FinishInfer, Done, Goto, SetStatus, requestVars, managerVars, statusVars, components, Threads, RequestPCs, LoaderPCs
<1>1. TypeOK'
  BY DEF States, ManagerCalls, RequestCalls, None, AutoBatch
<1>2. MutexHeld'
  BY DEF MutexHeld
<1>3. CallsMatch'
  BY DEF CallsMatch, ManagerCalls, RequestCalls, MutexHeld
<1>4. HandlesCounted'
  <2>1. r \in Guarded /\ Guarded' = Guarded \ {r}
    BY DEF Guarded
  <2>2. Guarded \subseteq Requests /\ Guarded' \subseteq Requests
    BY DEF Guarded
  <2> QED
    BY <2>1, <2>2, GuardArith DEF HandlesCounted
<1>5. Announced'
  BY DEF Announced, MutexHeld
<1>6. Drained'
  BY DEF Drained, Using, Announced, MutexHeld
<1>7. NotYetLoaded'
  BY DEF NotYetLoaded, CallsMatch, MutexHeld, ManagerCalls
<1>8. LoadProgress'
  BY DEF LoadProgress, CallsMatch, MutexHeld, None
<1>9. AvailableIsLoaded'
  BY DEF AvailableIsLoaded, Announced, LoadProgress, None
<1>10. UsesLoadedModel'
  BY DEF UsesLoadedModel, Using, AvailableIsLoaded, Drained, LoadProgress, None
<1> QED
  BY <1>1, <1>2, <1>3, <1>4, <1>5, <1>6, <1>7, <1>8, <1>9, <1>10

\* The announcement of a load or an unload.
LEMMA LockStep ==
  ASSUME IInv, NEW t \in Threads, Lock(t)
  PROVE  IInv'
<1> USE ThreadsAssumption, BatchesAssumption, WaitAssumption
<1> USE DEF IInv, TypeOK, Goto, SetStatus, requestVars, managerVars, statusVars, components, Threads, RequestPCs, LoaderPCs
<1> DEFINE l == CASE call[t] = "load" -> "load"
               [] call[t] \in {"reload", "reshape"} -> "drainLoad"
               [] call[t] \in {"retire", "cleanup"} -> "drainUnload"
<1>a. call[t] \in {"load", "reload", "reshape", "retire", "cleanup"}
  BY DEF Lock, CallsMatch, ManagerCalls
<1>b. /\ pc' = [pc EXCEPT ![t] = l] /\ pc[t] = "lock" /\ loadingMutex = NoThread
      /\ loadingMutex' = t
      /\ state' \in {"UNLOADING", "LOADING"} /\ errorCode' \in {"UNKNOWN", "OK"}
      /\ UNCHANGED <<handles, config, components, call, requestVars, managerVars>>
  BY DEF Lock
<1>c. l \in {"load", "drainLoad", "drainUnload"} /\ (l = "load" <=> call[t] = "load")
  BY <1>a
<1> HIDE DEF l
<1> USE <1>b, <1>c
<1>1. TypeOK'
  BY DEF States, ManagerCalls, RequestCalls, None, AutoBatch
<1>2. MutexHeld'
  BY DEF MutexHeld
<1>3. CallsMatch'
  BY DEF CallsMatch, ManagerCalls, RequestCalls, MutexHeld
<1>4. HandlesCounted'
  <2>1. Guarded' = Guarded
    BY DEF Guarded, CallsMatch
  <2> QED
    BY <2>1 DEF HandlesCounted
<1>5. Announced'
  BY DEF Announced, MutexHeld
<1>6. Drained'
  BY DEF Drained, Using, Announced, MutexHeld, NotYetLoaded, CallsMatch
<1>7. NotYetLoaded'
  BY DEF NotYetLoaded, CallsMatch, MutexHeld, ManagerCalls
<1>8. LoadProgress'
  BY DEF LoadProgress, CallsMatch, MutexHeld, None
<1>9. AvailableIsLoaded'
  BY DEF AvailableIsLoaded, Announced, LoadProgress, None
<1>10. UsesLoadedModel'
  BY DEF UsesLoadedModel, Using, AvailableIsLoaded, Drained, LoadProgress, None
<1> QED
  BY <1>1, <1>2, <1>3, <1>4, <1>5, <1>6, <1>7, <1>8, <1>9, <1>10

\* The end of the drain: nobody uses the components.
LEMMA DrainStep ==
  ASSUME IInv, NEW t \in Threads, Drain(t)
  PROVE  IInv'
<1> USE ThreadsAssumption, BatchesAssumption, WaitAssumption
<1> USE DEF IInv, TypeOK, Drain, AfterDrain, Goto, SetStatus, requestVars, managerVars, statusVars, components, Threads, RequestPCs, LoaderPCs
<1>1. TypeOK'
  BY DEF States, ManagerCalls, RequestCalls, None, AutoBatch
<1>2. MutexHeld'
  BY DEF MutexHeld
<1>3. CallsMatch'
  BY DEF CallsMatch, ManagerCalls, RequestCalls, MutexHeld
<1>4. HandlesCounted'
  <2>1. Guarded' = Guarded
    BY DEF Guarded, CallsMatch
  <2> QED
    BY <2>1 DEF HandlesCounted
<1>5. Announced'
  BY DEF Announced, MutexHeld
<1>6. Drained'
  BY ZeroHandles DEF Drained, Using, MutexHeld
<1>7. NotYetLoaded'
  BY DEF NotYetLoaded, CallsMatch, MutexHeld, ManagerCalls
<1>8. LoadProgress'
  BY DEF LoadProgress, CallsMatch, MutexHeld, None
<1>9. AvailableIsLoaded'
  BY DEF AvailableIsLoaded, Announced, LoadProgress, None
<1>10. UsesLoadedModel'
  BY DEF UsesLoadedModel, Using, AvailableIsLoaded, Drained, LoadProgress, None
<1> QED
  BY <1>1, <1>2, <1>3, <1>4, <1>5, <1>6, <1>7, <1>8, <1>9, <1>10

\* A network and its inputs, for one batch size.
LEMMA LoadNetworkStep ==
  ASSUME IInv, NEW t \in Threads, LoadNetwork(t)
  PROVE  IInv'
<1> USE ThreadsAssumption, BatchesAssumption, WaitAssumption
<1> USE DEF IInv, TypeOK, LoadNetwork, Goto, SetStatus, requestVars, managerVars, statusVars, components, Threads, RequestPCs, LoaderPCs
<1>1. TypeOK'
  BY TargetIsBatch DEF States, ManagerCalls, RequestCalls, None, AutoBatch
<1>2. MutexHeld'
  BY DEF MutexHeld
<1>3. CallsMatch'
  BY DEF CallsMatch, ManagerCalls, RequestCalls, MutexHeld
<1>4. HandlesCounted'
  <2>1. Guarded' = Guarded
    BY DEF Guarded, CallsMatch
  <2> QED
    BY <2>1 DEF HandlesCounted
<1>5. Announced'
  BY DEF Announced, MutexHeld
<1>6. Drained'
  BY DEF Drained, Using, Announced, MutexHeld, MutexHeld
<1>7. NotYetLoaded'
  BY DEF NotYetLoaded, CallsMatch, MutexHeld, ManagerCalls
<1>8. LoadProgress'
  BY TargetIsBatch DEF LoadProgress, MutexHeld, None, TargetBatch, CallsMatch
<1>9. AvailableIsLoaded'
  BY DEF AvailableIsLoaded, Announced, LoadProgress, None
<1>10. UsesLoadedModel'
  BY DEF UsesLoadedModel, Using, AvailableIsLoaded, Drained, LoadProgress, None, MutexHeld
<1> QED
  BY <1>1, <1>2, <1>3, <1>4, <1>5, <1>6, <1>7, <1>8, <1>9, <1>10

\* A failed load leaves a mixture behind, under LOADING.
LEMMA LoadNetworkFailsStep ==
  ASSUME IInv, NEW t \in Threads, LoadNetworkFails(t)
  PROVE  IInv'
<1> USE ThreadsAssumption, BatchesAssumption, WaitAssumption
<1> USE DEF IInv, TypeOK, LoadNetworkFails, Goto, SetStatus, requestVars, managerVars, statusVars, components, Threads, RequestPCs, LoaderPCs
<1>1. TypeOK'
  BY TargetIsBatch DEF States, ManagerCalls, RequestCalls, None, AutoBatch
<1>2. MutexHeld'
  BY DEF MutexHeld
<1>3. CallsMatch'
  BY DEF CallsMatch, ManagerCalls, RequestCalls, MutexHeld
<1>4. HandlesCounted'
  <2>1. Guarded' = Guarded
    BY DEF Guarded, CallsMatch
  <2> QED
    BY <2>1 DEF HandlesCounted
<1>5. Announced'
  BY DEF Announced, MutexHeld
<1>6. Drained'
  BY DEF Drained, Using, Announced, MutexHeld
<1>7. NotYetLoaded'
  BY DEF NotYetLoaded, CallsMatch, MutexHeld, ManagerCalls
<1>8. LoadProgress'
  BY DEF LoadProgress, CallsMatch, MutexHeld, None
<1>9. AvailableIsLoaded'
  BY DEF AvailableIsLoaded, Announced, LoadProgress, None
<1>10. UsesLoadedModel'
  BY DEF UsesLoadedModel, Using, AvailableIsLoaded, Drained, LoadProgress, None
<1> QED
  BY <1>1, <1>2, <1>3, <1>4, <1>5, <1>6, <1>7, <1>8, <1>9, <1>10

\* New infer requests for the network.
LEMMA CompileStep ==
  ASSUME IInv, NEW t \in Threads, Compile(t)
  PROVE  IInv'
<1> USE ThreadsAssumption, BatchesAssumption, WaitAssumption
<1> USE DEF IInv, TypeOK, Compile, Goto, SetStatus, requestVars, managerVars, statusVars, components, Threads, RequestPCs, LoaderPCs
<1>1. TypeOK'
  BY DEF States, ManagerCalls, RequestCalls, None, AutoBatch
<1>2. MutexHeld'
  BY DEF MutexHeld
<1>3. CallsMatch'
  BY DEF CallsMatch, ManagerCalls, RequestCalls, MutexHeld
<1>4. HandlesCounted'
  <2>1. Guarded' = Guarded
    BY DEF Guarded, CallsMatch
  <2> QED
    BY <2>1 DEF HandlesCounted
<1>5. Announced'
  BY DEF Announced, MutexHeld
<1>6. Drained'
  BY DEF Drained, Using, Announced, MutexHeld
<1>7. NotYetLoaded'
  BY DEF NotYetLoaded, CallsMatch, MutexHeld, ManagerCalls
<1>8. LoadProgress'
  BY DEF LoadProgress, CallsMatch, MutexHeld, None
<1>9. AvailableIsLoaded'
  BY DEF AvailableIsLoaded, Announced, LoadProgress, None
<1>10. UsesLoadedModel'
  BY DEF UsesLoadedModel, Using, AvailableIsLoaded, Drained, LoadProgress, None
<1> QED
  BY <1>1, <1>2, <1>3, <1>4, <1>5, <1>6, <1>7, <1>8, <1>9, <1>10

\* The old infer requests stay, under LOADING.
LEMMA CompileFailsStep ==
  ASSUME IInv, NEW t \in Threads, CompileFails(t)
  PROVE  IInv'
<1> USE ThreadsAssumption, BatchesAssumption, WaitAssumption
<1> USE DEF IInv, TypeOK, CompileFails, Goto, SetStatus, requestVars, managerVars, statusVars, components, Threads, RequestPCs, LoaderPCs
<1>1. TypeOK'
  BY DEF States, ManagerCalls, RequestCalls, None, AutoBatch
<1>2. MutexHeld'
  BY DEF MutexHeld
<1>3. CallsMatch'
  BY DEF CallsMatch, ManagerCalls, RequestCalls, MutexHeld
<1>4. HandlesCounted'
  <2>1. Guarded' = Guarded
    BY DEF Guarded, CallsMatch
  <2> QED
    BY <2>1 DEF HandlesCounted
<1>5. Announced'
  BY DEF Announced, MutexHeld
<1>6. Drained'
  BY DEF Drained, Using, Announced, MutexHeld
<1>7. NotYetLoaded'
  BY DEF NotYetLoaded, CallsMatch, MutexHeld, ManagerCalls
<1>8. LoadProgress'
  BY DEF LoadProgress, CallsMatch, MutexHeld, None
<1>9. AvailableIsLoaded'
  BY DEF AvailableIsLoaded, Announced, LoadProgress, None
<1>10. UsesLoadedModel'
  BY DEF UsesLoadedModel, Using, AvailableIsLoaded, Drained, LoadProgress, None
<1> QED
  BY <1>1, <1>2, <1>3, <1>4, <1>5, <1>6, <1>7, <1>8, <1>9, <1>10

\* AVAILABLE is set when all components fit.
LEMMA PublishStep ==
  ASSUME IInv, NEW t \in Threads, Publish(t)
  PROVE  IInv'
<1> USE ThreadsAssumption, BatchesAssumption, WaitAssumption
<1> USE DEF IInv, TypeOK, Publish, Goto, SetStatus, requestVars, managerVars, statusVars, components, Threads, RequestPCs, LoaderPCs
<1>1. TypeOK'
  BY DEF States, ManagerCalls, RequestCalls, None, AutoBatch
<1>2. MutexHeld'
  BY DEF MutexHeld
<1>3. CallsMatch'
  BY DEF CallsMatch, ManagerCalls, RequestCalls, MutexHeld
<1>4. HandlesCounted'
  <2>1. Guarded' = Guarded
    BY DEF Guarded, CallsMatch
  <2> QED
    BY <2>1 DEF HandlesCounted
<1>5. Announced'
  BY DEF Announced, MutexHeld
<1>6. Drained'
  BY DEF Drained, Using, Announced, MutexHeld
<1>7. NotYetLoaded'
  BY DEF NotYetLoaded, CallsMatch, MutexHeld, ManagerCalls
<1>8. LoadProgress'
  BY DEF LoadProgress, CallsMatch, MutexHeld, None
<1>9. AvailableIsLoaded'
  BY DEF AvailableIsLoaded, Announced, LoadProgress, None
<1>10. UsesLoadedModel'
  BY DEF UsesLoadedModel, Using, AvailableIsLoaded, Drained, LoadProgress, None
<1> QED
  BY <1>1, <1>2, <1>3, <1>4, <1>5, <1>6, <1>7, <1>8, <1>9, <1>10

\* The next attempt of a failed reload.
LEMMA AfterFailureStep ==
  ASSUME IInv, NEW t \in Threads, AfterFailure(t)
  PROVE  IInv'
<1> USE ThreadsAssumption, BatchesAssumption, WaitAssumption
<1> USE DEF IInv, TypeOK, AfterFailure, Goto, SetStatus, requestVars, managerVars, statusVars, components, Threads, RequestPCs, LoaderPCs
<1>1. TypeOK'
  BY DEF States, ManagerCalls, RequestCalls, None, AutoBatch
<1>2. MutexHeld'
  BY DEF MutexHeld
<1>3. CallsMatch'
  BY DEF CallsMatch, ManagerCalls, RequestCalls, MutexHeld
<1>4. HandlesCounted'
  <2>1. Guarded' = Guarded
    BY DEF Guarded, CallsMatch
  <2> QED
    BY <2>1 DEF HandlesCounted
<1>5. Announced'
  BY DEF Announced, MutexHeld
<1>6. Drained'
  BY DEF Drained, Using, Announced, MutexHeld
<1>7. NotYetLoaded'
  BY DEF NotYetLoaded, CallsMatch, MutexHeld, ManagerCalls
<1>8. LoadProgress'
  BY DEF LoadProgress, CallsMatch, MutexHeld, None
<1>9. AvailableIsLoaded'
  BY DEF AvailableIsLoaded, Announced, LoadProgress, None
<1>10. UsesLoadedModel'
  BY DEF UsesLoadedModel, Using, AvailableIsLoaded, Drained, LoadProgress, None
<1> QED
  BY <1>1, <1>2, <1>3, <1>4, <1>5, <1>6, <1>7, <1>8, <1>9, <1>10

\* All components go.
LEMMA UnloadStep ==
  ASSUME IInv, NEW t \in Threads, Unload(t)
  PROVE  IInv'
<1> USE ThreadsAssumption, BatchesAssumption, WaitAssumption
<1> USE DEF IInv, TypeOK, Unload, UnloadModelComponents, Goto, SetStatus, requestVars, managerVars, statusVars, components, Threads, RequestPCs, LoaderPCs
<1>1. TypeOK'
  BY DEF States, ManagerCalls, RequestCalls, None, AutoBatch
<1>2. MutexHeld'
  BY DEF MutexHeld
<1>3. CallsMatch'
  BY DEF CallsMatch, ManagerCalls, RequestCalls, MutexHeld
<1>4. HandlesCounted'
  <2>1. Guarded' = Guarded
    BY DEF Guarded, CallsMatch
  <2> QED
    BY <2>1 DEF HandlesCounted
<1>5. Announced'
  BY DEF Announced, MutexHeld
<1>6. Drained'
  BY DEF Drained, Using, Announced, MutexHeld
<1>7. NotYetLoaded'
  BY DEF NotYetLoaded, CallsMatch, MutexHeld, ManagerCalls
<1>8. LoadProgress'
  BY DEF LoadProgress, CallsMatch, MutexHeld, None
<1>9. AvailableIsLoaded'
  BY DEF AvailableIsLoaded, Announced, LoadProgress, None
<1>10. UsesLoadedModel'
  BY DEF UsesLoadedModel, Using, AvailableIsLoaded, Drained, LoadProgress, None
<1> QED
  BY <1>1, <1>2, <1>3, <1>4, <1>5, <1>6, <1>7, <1>8, <1>9, <1>10

\* A model unloaded within a reload is loaded next.
LEMMA SwapStep ==
  ASSUME IInv, NEW t \in Threads, Swap(t)
  PROVE  IInv'
<1> USE ThreadsAssumption, BatchesAssumption, WaitAssumption
<1> USE DEF IInv, TypeOK, Swap, UnloadModelComponents, Goto, SetStatus, requestVars, managerVars, statusVars, components, Threads, RequestPCs, LoaderPCs
<1>1. TypeOK'
  BY DEF States, ManagerCalls, RequestCalls, None, AutoBatch
<1>2. MutexHeld'
  BY DEF MutexHeld
<1>3. CallsMatch'
  BY DEF CallsMatch, ManagerCalls, RequestCalls, MutexHeld
<1>4. HandlesCounted'
  <2>1. Guarded' = Guarded
    BY DEF Guarded, CallsMatch
  <2> QED
    BY <2>1 DEF HandlesCounted
<1>5. Announced'
  BY DEF Announced, MutexHeld
<1>6. Drained'
  BY DEF Drained, Using, Announced, MutexHeld
<1>7. NotYetLoaded'
  BY DEF NotYetLoaded, CallsMatch, MutexHeld, ManagerCalls
<1>8. LoadProgress'
  BY DEF LoadProgress, CallsMatch, MutexHeld, None
<1>9. AvailableIsLoaded'
  BY DEF AvailableIsLoaded, Announced, LoadProgress, None
<1>10. UsesLoadedModel'
  BY DEF UsesLoadedModel, Using, AvailableIsLoaded, Drained, LoadProgress, None
<1> QED
  BY <1>1, <1>2, <1>3, <1>4, <1>5, <1>6, <1>7, <1>8, <1>9, <1>10

\* END.
LEMMA SetEndStep ==
  ASSUME IInv, NEW t \in Threads, SetEnd(t)
  PROVE  IInv'
<1> USE ThreadsAssumption, BatchesAssumption, WaitAssumption
<1> USE DEF IInv, TypeOK, SetEnd, Goto, SetStatus, requestVars, managerVars, statusVars, components, Threads, RequestPCs, LoaderPCs
<1>1. TypeOK'
  BY DEF States, ManagerCalls, RequestCalls, None, AutoBatch
<1>2. MutexHeld'
  BY DEF MutexHeld
<1>3. CallsMatch'
  BY DEF CallsMatch, ManagerCalls, RequestCalls, MutexHeld
<1>4. HandlesCounted'
  <2>1. Guarded' = Guarded
    BY DEF Guarded, CallsMatch
  <2> QED
    BY <2>1 DEF HandlesCounted
<1>5. Announced'
  BY DEF Announced, MutexHeld
<1>6. Drained'
  BY DEF Drained, Using, Announced, MutexHeld
<1>7. NotYetLoaded'
  BY DEF NotYetLoaded, CallsMatch, MutexHeld, ManagerCalls
<1>8. LoadProgress'
  BY DEF LoadProgress, CallsMatch, MutexHeld, None
<1>9. AvailableIsLoaded'
  BY DEF AvailableIsLoaded, Announced, LoadProgress, None
<1>10. UsesLoadedModel'
  BY DEF UsesLoadedModel, Using, AvailableIsLoaded, Drained, LoadProgress, None
<1> QED
  BY <1>1, <1>2, <1>3, <1>4, <1>5, <1>6, <1>7, <1>8, <1>9, <1>10

\* The request that reloaded the model pins it before anybody else can reload it.
LEMMA GuardReloadedStep ==
  ASSUME IInv, NEW t \in Threads, GuardReloaded(t)
  PROVE  IInv'
<1> USE ThreadsAssumption, BatchesAssumption, WaitAssumption
<1> USE DEF IInv, TypeOK, GuardReloaded, Goto, SetStatus, requestVars, managerVars, statusVars, components, Threads, RequestPCs, LoaderPCs
<1>1. TypeOK'
  BY DEF States, ManagerCalls, RequestCalls, None, AutoBatch
<1>2. MutexHeld'
  BY DEF MutexHeld
<1>3. CallsMatch'
  BY DEF CallsMatch, ManagerCalls, RequestCalls, MutexHeld
<1>4. HandlesCounted'
  <2>1. t \in Requests /\ t \notin Guarded /\ Guarded' = Guarded \cup {t}
    BY DEF Guarded, CallsMatch, ManagerCalls
  <2>2. Guarded \subseteq Requests /\ Guarded' \subseteq Requests
    BY DEF Guarded
  <2> QED
    BY <2>1, <2>2, GuardArith DEF HandlesCounted
<1>5. Announced'
  BY DEF Announced, MutexHeld
<1>6. Drained'
  BY DEF Drained, Using, Announced, MutexHeld
<1>7. NotYetLoaded'
  BY DEF NotYetLoaded, CallsMatch, MutexHeld, ManagerCalls
<1>8. LoadProgress'
  BY DEF LoadProgress, CallsMatch, MutexHeld, None
<1>9. AvailableIsLoaded'
  BY DEF AvailableIsLoaded, Announced, LoadProgress, None
<1>10. UsesLoadedModel'
  BY DEF UsesLoadedModel, Using, AvailableIsLoaded, Drained, LoadProgress, None, CallsMatch, ManagerCalls, MutexHeld
<1> QED
  BY <1>1, <1>2, <1>3, <1>4, <1>5, <1>6, <1>7, <1>8, <1>9, <1>10

\* The mutex is released.
LEMMA UnlockStep ==
  ASSUME IInv, NEW t \in Threads, Unlock(t)
  PROVE  IInv'
<1> USE ThreadsAssumption, BatchesAssumption, WaitAssumption
<1> USE DEF IInv, TypeOK, Unlock, Done, Goto, SetStatus, requestVars, managerVars, statusVars, components, Threads, RequestPCs, LoaderPCs
<1>1. TypeOK'
  BY DEF States, ManagerCalls, RequestCalls, None, AutoBatch
<1>2. MutexHeld'
  BY DEF MutexHeld
<1>3. CallsMatch'
  BY DEF CallsMatch, ManagerCalls, RequestCalls, MutexHeld
<1>4. HandlesCounted'
  <2>1. Guarded' = Guarded
    BY DEF Guarded, CallsMatch
  <2> QED
    BY <2>1 DEF HandlesCounted
<1>5. Announced'
  BY DEF Announced, MutexHeld
<1>6. Drained'
  BY DEF Drained, Using, Announced, MutexHeld
<1>7. NotYetLoaded'
  BY DEF NotYetLoaded, CallsMatch, MutexHeld, ManagerCalls
<1>8. LoadProgress'
  BY DEF LoadProgress, CallsMatch, MutexHeld, None
<1>9. AvailableIsLoaded'
  BY DEF AvailableIsLoaded, Announced, LoadProgress, None
<1>10. UsesLoadedModel'
  BY DEF UsesLoadedModel, Using, AvailableIsLoaded, Drained, LoadProgress, None
<1> QED
  BY <1>1, <1>2, <1>3, <1>4, <1>5, <1>6, <1>7, <1>8, <1>9, <1>10

\* A new operation of the manager.
LEMMA ManagerCallStep ==
  ASSUME IInv, NEW op \in ManagerCalls, ManagerCall(op)
  PROVE  IInv'
<1> USE ThreadsAssumption, BatchesAssumption, WaitAssumption
<1> USE DEF IInv, TypeOK, ManagerCall, Goto, SetStatus, requestVars, managerVars, statusVars, components, Threads, RequestPCs, LoaderPCs
<1>1. TypeOK'
  BY DEF States, ManagerCalls, RequestCalls, None, AutoBatch
<1>2. MutexHeld'
  BY DEF MutexHeld
<1>3. CallsMatch'
  BY DEF CallsMatch, ManagerCalls, RequestCalls, MutexHeld
<1>4. HandlesCounted'
  <2>1. Guarded' = Guarded
    BY DEF Guarded, CallsMatch
  <2> QED
    BY <2>1 DEF HandlesCounted
<1>5. Announced'
  BY DEF Announced, MutexHeld
<1>6. Drained'
  BY DEF Drained, Using, Announced, MutexHeld
<1>7. NotYetLoaded'
  BY DEF NotYetLoaded, CallsMatch, MutexHeld, ManagerCalls
<1>8. LoadProgress'
  BY DEF LoadProgress, CallsMatch, MutexHeld, None
<1>9. AvailableIsLoaded'
  BY DEF AvailableIsLoaded, Announced, LoadProgress, None
<1>10. UsesLoadedModel'
  BY DEF UsesLoadedModel, Using, AvailableIsLoaded, Drained, LoadProgress, None
<1> QED
  BY <1>1, <1>2, <1>3, <1>4, <1>5, <1>6, <1>7, <1>8, <1>9, <1>10

-----------------------------------------------------------------------------
\* An instance that was just added satisfies the invariant, provided that its
\* unwritten status does not happen to read as AVAILABLE.
LEMMA IInvInit ==
  ASSUME "AVAILABLE" \notin UnwrittenStates, Init
  PROVE  IInv
<1> USE ThreadsAssumption, BatchesAssumption, WaitAssumption DEF Init
<1>1. TypeOK
  <2>1. loaderChanged \in BOOLEAN
    BY Zenon
  <2> QED
    BY <2>1, UnwrittenAssumption DEF TypeOK, Threads, RequestPCs, None, AutoBatch
<1>2. HandlesCounted
  <2>1. Guarded = {}
    BY DEF Guarded, Threads
  <2> QED
    BY <2>1, FS_EmptySet DEF HandlesCounted
<1>3. /\ MutexHeld /\ CallsMatch /\ Announced /\ Drained /\ NotYetLoaded
      /\ LoadProgress /\ AvailableIsLoaded /\ UsesLoadedModel
  BY UnwrittenAssumption
     DEF MutexHeld, CallsMatch, Announced, Drained, NotYetLoaded, LoadProgress,
         AvailableIsLoaded, UsesLoadedModel, Using, Threads, LoaderPCs
<1> QED
  BY <1>1, <1>2, <1>3 DEF IInv

\* Every step preserves the invariant.
LEMMA IInvStep == IInv /\ [Next]_vars => IInv'
<1> SUFFICES ASSUME IInv, [Next]_vars PROVE IInv'
  OBVIOUS
<1>1. CASE UNCHANGED vars
  BY <1>1 DEF vars, statusVars, components, requestVars, managerVars, IInv, TypeOK,
     MutexHeld, CallsMatch, HandlesCounted, Guarded, Announced, Drained, Using,
     NotYetLoaded, LoadProgress, AvailableIsLoaded, UsesLoadedModel
<1>2. ASSUME NEW r \in Requests, Arrive(r) \/ RequestStep(r)
      PROVE  IInv'
  BY <1>2, ArriveStep, CheckAvailableStep, LeaveStep, RecheckStep, WakeStep,
     TimeOutStep, ValidateStep, RejectStep, FinishInferStep
     DEF RequestStep
<1>3. ASSUME NEW op \in ManagerCalls, ManagerCall(op)
      PROVE  IInv'
  BY <1>3, ManagerCallStep
<1>4. ASSUME NEW t \in Threads, LoaderStep(t)
      PROVE  IInv'
  BY <1>4, LockStep, DrainStep, LoadNetworkStep, LoadNetworkFailsStep,
     CompileStep, CompileFailsStep, PublishStep, AfterFailureStep,
     UnloadStep, SwapStep, SetEndStep, GuardReloadedStep, UnlockStep
     DEF LoaderStep
<1> QED
  BY <1>1, <1>2, <1>3, <1>4 DEF Next

\* The inductive invariant holds in every reachable state.
THEOREM InvariantHolds ==
  ASSUME "AVAILABLE" \notin UnwrittenStates
  PROVE  Spec => []IInv
<1>1. Init => IInv
  BY IInvInit
<1> QED
  BY <1>1, IInvStep, PTL DEF Spec

\* Types, for any number of requests and any batch sizes.
THEOREM TypeCorrect ==
  ASSUME "AVAILABLE" \notin UnwrittenStates
  PROVE  Spec => []TypeOK
<1>1. IInv => TypeOK
  BY DEF IInv
<1> QED
  BY <1>1, InvariantHolds, PTL

\* The handshake between the status and the counter of guards: a request that
\* validates or infers has a completely loaded model of its own batch size,
\* whatever reloads, failures and unloads run beside it.
THEOREM InferenceSafe ==
  ASSUME "AVAILABLE" \notin UnwrittenStates
  PROVE  Spec => []UsesLoadedModel
<1>1. IInv => UsesLoadedModel
  BY DEF IInv
<1> QED
  BY <1>1, InvariantHolds, PTL

\* No request leaks or drops twice an unload guard.
THEOREM GuardsCounted ==
  ASSUME "AVAILABLE" \notin UnwrittenStates
  PROVE  Spec => []HandlesCounted
<1>1. IInv => HandlesCounted
  BY DEF IInv
<1> QED
  BY <1>1, InvariantHolds, PTL

\* AVAILABLE is shown only for a completely loaded model.
THEOREM AvailableSafe ==
  ASSUME "AVAILABLE" \notin UnwrittenStates
  PROVE  Spec => []AvailableIsLoaded
<1>1. IInv => AvailableIsLoaded
  BY DEF IInv
<1> QED
  BY <1>1, InvariantHolds, PTL

\* No step of any thread changes a component that a request uses.
THEOREM InUseStable ==
  ASSUME "AVAILABLE" \notin UnwrittenStates
  PROVE  Spec => InUseUnchanged
<1>1. ASSUME IInv, [Next]_vars
      PROVE  [Using # {} => UNCHANGED components]_vars
  <2> SUFFICES ASSUME Using # {}, Next
               PROVE  UNCHANGED components
    BY <1>1
  <2>1. ASSUME NEW r \in Requests, Arrive(r) \/ RequestStep(r)
        PROVE  UNCHANGED components
    BY <2>1 DEF RequestStep, Arrive, CheckAvailable, Leave, Recheck, Wake, TimeOut,
       Validate, Reject, FinishInfer
  <2>2. ASSUME NEW op \in ManagerCalls, ManagerCall(op)
        PROVE  UNCHANGED components
    BY <2>2 DEF ManagerCall
  <2>3. ASSUME NEW t \in Threads, LoaderStep(t)
        PROVE  UNCHANGED components
    <3>1. pc[t] \notin {"load", "compile", "unload", "swap"}
      BY <1>1 DEF IInv, Drained
    <3> QED
      BY <2>3, <3>1 DEF LoaderStep, Lock, Drain, LoadNetwork, LoadNetworkFails, Compile,
         CompileFails, Publish, AfterFailure, Unload, Swap, SetEnd, GuardReloaded, Unlock
  <2> QED
    BY <2>1, <2>2, <2>3 DEF Next
<1> QED
  BY <1>1, InvariantHolds, PTL DEF Spec, InUseUnchanged
=============================================================================
