---------------------- MODULE PipelineDefinitionProofs ----------------------
(***************************************************************************)
(* Proofs about a pipeline definition, for any finite set of requests, any *)
(* models and definitions and any number of changes.                       *)
(***************************************************************************)
EXTENDS PipelineDefinition, FiniteSetTheorems, TLAPS

Codes == {"BEGIN", "RELOADING", "AVAILABLE", "AVAILABLE_REVALIDATE", "FAILED", "FAILED_REVALIDATE",
          "RETIRED"}

\* The status machine as a table: which state refuses which event, and where the
\* others lead.
LEMMA Transitions ==
  ASSUME code \in DOMAIN StateMachine
  PROVE  /\ DOMAIN StateMachine = Codes
         /\ Accepts("Reload") <=> code \notin {"BEGIN", "RELOADING"}
         /\ Accepts("Retire") <=> code \notin {"BEGIN", "RELOADING", "RETIRED"}
         /\ Accepts("UsedModelChanged") <=> code \notin {"BEGIN", "RELOADING", "RETIRED"}
         /\ Accepts("ValidationPassed") <=> code \notin {"AVAILABLE", "FAILED", "RETIRED"}
         /\ Accepts("ValidationFailed") <=> code \notin {"AVAILABLE", "FAILED", "RETIRED"}
         /\ Accepts("Reload") => StateMachine[code]["Reload"] = "RELOADING"
         /\ Accepts("Retire") => StateMachine[code]["Retire"] = "RETIRED"
         /\ Accepts("ValidationPassed") => StateMachine[code]["ValidationPassed"] = "AVAILABLE"
         /\ Accepts("ValidationFailed") => StateMachine[code]["ValidationFailed"] = "FAILED"
         /\ Accepts("UsedModelChanged") =>
              StateMachine[code]["UsedModelChanged"] =
                IF IsAvailable THEN "AVAILABLE_REVALIDATE" ELSE "FAILED_REVALIDATE"
<1> USE DEF Codes, Accepts, StateMachine, IsAvailable, BeginState, ReloadState, AvailableState,
            AvailableRequiredRevalidation, LoadingPreconditionFailedState,
            LoadingFailedLastValidationRequiredRevalidation, RetiredState
<1>1. DOMAIN StateMachine = Codes
  OBVIOUS
<1>2. CASE code = "BEGIN"
  BY <1>2
<1>3. CASE code = "RELOADING"
  BY <1>3
<1>4. CASE code = "AVAILABLE"
  BY <1>4
<1>5. CASE code = "AVAILABLE_REVALIDATE"
  BY <1>5
<1>6. CASE code = "FAILED"
  BY <1>6
<1>7. CASE code = "FAILED_REVALIDATE"
  BY <1>7
<1>8. CASE code = "RETIRED"
  BY <1>8
<1> QED
  BY <1>1, <1>2, <1>3, <1>4, <1>5, <1>6, <1>7, <1>8

\* The states of the status machine.
LEMMA CodesAreStates == DOMAIN StateMachine = Codes
BY DEF StateMachine, Codes

\* What an event of the manager does when it is not refused.
LEMMA ManagerEvents ==
  ASSUME code \in DOMAIN StateMachine, refused \in BOOLEAN
  PROVE  /\ ManagerHandles("Reload") /\ code \notin {"BEGIN", "RELOADING"} =>
              code' = "RELOADING" /\ refused' = refused
         /\ ManagerHandles("Retire") /\ code \notin {"BEGIN", "RELOADING", "RETIRED"} =>
              code' = "RETIRED" /\ refused' = refused
         /\ ManagerHandles("ValidationPassed") /\ code \notin {"AVAILABLE", "FAILED", "RETIRED"} =>
              code' = "AVAILABLE" /\ refused' = refused
         /\ ManagerHandles("ValidationFailed") /\ code \notin {"AVAILABLE", "FAILED", "RETIRED"} =>
              code' = "FAILED" /\ refused' = refused
         /\ ManagerHandles("UsedModelChanged") /\ code \notin {"BEGIN", "RELOADING", "RETIRED"} =>
              /\ code' = IF IsAvailable THEN "AVAILABLE_REVALIDATE" ELSE "FAILED_REVALIDATE"
              /\ refused' = refused
BY Transitions DEF ManagerHandles, Handle

\* A guard that is taken or dropped changes the number of guards by one.
LEMMA GuardArith ==
  ASSUME NEW S \in SUBSET Requests, NEW r \in Requests
  PROVE  /\ Cardinality(S) \in 0 .. Cardinality(Requests)
         /\ r \notin S => Cardinality(S \cup {r}) = Cardinality(S) + 1
         /\ r \in S => Cardinality(S \ {r}) = Cardinality(S) - 1
<1>1. IsFiniteSet(S)
  BY RequestsAssumption, FS_Subset
<1>2. Cardinality(S) \in Nat /\ Cardinality(Requests) \in Nat /\ Cardinality(S) <= Cardinality(Requests)
  BY <1>1, RequestsAssumption, FS_CardinalityType, FS_Subset
<1>3. r \notin S => Cardinality(S \cup {r}) = Cardinality(S) + 1
  BY <1>1, FS_AddElement
<1>4. r \in S => Cardinality(S \ {r}) = Cardinality(S) - 1
  BY <1>1, FS_RemoveElement
<1> QED
  BY <1>2, <1>3, <1>4

\* The guards after a step of request r from one place to another.
LEMMA GuardsAfter ==
  ASSUME TypeOK, HandlesCounted, NEW r \in Requests, NEW from, NEW to \in RequestPCs,
         Step(r, from, to),
         from \notin Guarded /\ to \in Guarded => handles' = handles + 1,
         from \in Guarded /\ to \notin Guarded => handles' = handles - 1,
         (from \in Guarded <=> to \in Guarded) => handles' = handles
  PROVE  HandlesCounted' /\ handles' \in 0 .. Cardinality(Requests)
<1> DEFINE S == {q \in Requests : pc[q] \in Guarded}
           T == {q \in Requests : pc'[q] \in Guarded}
<1>1. S \in SUBSET Requests /\ T \in SUBSET Requests
  OBVIOUS
<1>2. pc' = [pc EXCEPT ![r] = to] /\ pc[r] = from /\ pc \in [Requests -> RequestPCs]
  BY DEF Step, TypeOK
<1>3. /\ from \notin Guarded /\ to \in Guarded => T = S \cup {r} /\ r \notin S
      /\ from \in Guarded /\ to \notin Guarded => T = S \ {r} /\ r \in S
      /\ (from \in Guarded <=> to \in Guarded) => T = S
  BY <1>2
<1>4. handles = Cardinality(S)
  BY DEF HandlesCounted
<1>5. handles' = Cardinality(T)
  <2>1. CASE from \notin Guarded /\ to \in Guarded
    BY <1>1, <1>3, <1>4, <2>1, GuardArith
  <2>2. CASE from \in Guarded /\ to \notin Guarded
    BY <1>1, <1>3, <1>4, <2>2, GuardArith
  <2>3. CASE from \in Guarded <=> to \in Guarded
    BY <1>1, <1>3, <1>4, <2>3
  <2> QED
    BY <2>1, <2>2, <2>3
<1>6. HandlesCounted'
  BY <1>5 DEF HandlesCounted
<1> QED
  BY <1>1, <1>5, <1>6, GuardArith

(***************************************************************************)
(* A request changes only what is its own and the number of guards.        *)
(***************************************************************************)

\* What is said of the definition, the models and the manager stays.
LEMMA RequestFrame ==
  ASSUME IInv, UNCHANGED RequestLeaves
  PROVE  /\ CodeMatchesCall' /\ SubscriptionsAgree' /\ FindingsStand'
         /\ ManagerNeverRefused' /\ VerdictCurrent'
<1> USE DEF IInv, RequestLeaves, definition, models, manager
<1>1. CodeMatchesCall'
  BY DEF CodeMatchesCall, IsAvailable, IsRevalidationRequired
<1>2. SubscriptionsAgree' /\ ManagerNeverRefused'
  BY DEF SubscriptionsAgree, ManagerNeverRefused
<1>3. (Valid(nodeInfos) <=> Valid(nodeInfos)') /\ \A ms : Metadata(ms)' = Metadata(ms)
  BY DEF Valid, Metadata, ModelsOf
<1>4. FindingsStand'
  BY <1>3 DEF FindingsStand
<1>5. VerdictCurrent'
  BY <1>3 DEF VerdictCurrent, ModelsOf
<1> QED
  BY <1>1, <1>2, <1>4, <1>5

\* A request that takes no look at the definition's contents: it guards only a
\* definition that exists, and starts to read only an available one.
LEMMA RequestMoves ==
  ASSUME IInv, UNCHANGED RequestLeaves, built' = built,
         left' \in [Requests -> 0 .. WaitCheckpoints],
         NEW r \in Requests, NEW from, NEW to \in RequestPCs \ {"connect", "leave"},
         Step(r, from, to),
         to \in Guarded \cup {"wait", "reguard"} => exists,
         to = "nodes" => IsAvailable,
         HandlesCounted', handles' \in 0 .. Cardinality(Requests)
  PROVE  IInv'
<1> USE DEF IInv
<1>1. pc' = [pc EXCEPT ![r] = to] /\ pc \in [Requests -> RequestPCs]
  BY DEF Step, TypeOK
<1>2. TypeOK'
  BY <1>1 DEF TypeOK, RequestLeaves, definition, models, manager, Infos
<1>3. AvailableHasPassed'
  BY <1>1 DEF AvailableHasPassed, RequestLeaves, definition, models, manager, IsAvailable
<1>4. ReadersExcludeReload'
  <2>1. to = "nodes" => mpc \notin {"clear", "replace", "subscribe"} /\ nodeInfos \in passed
    BY DEF AvailableHasPassed, CodeMatchesCall, IsAvailable
  <2> QED
    BY <1>1, <2>1 DEF ReadersExcludeReload, RequestLeaves, definition, models, manager, Reading
<1> QED
  BY <1>2, <1>3, <1>4, RequestFrame

\* Every step of a request keeps the invariant.
LEMMA RequestSteps ==
  ASSUME IInv, NEW r \in Requests, RequestStep(r)
  PROVE  IInv'
<1> USE DEF Guarded, RequestPCs
<1>0. TypeOK /\ HandlesCounted /\ left \in [Requests -> 0 .. WaitCheckpoints]
      /\ pc[r] \in RequestPCs /\ handles \in Nat
  BY RequestsAssumption, FS_CardinalityType DEF IInv, TypeOK
<1>g. pc[r] \in Guarded \cup {"wait", "reguard"} => exists
  BY DEF IInv, AvailableHasPassed
<1>1. CASE Create(r)
  <2>1. HandlesCounted' /\ handles' \in 0 .. Cardinality(Requests)
    BY <1>0, <1>1, GuardsAfter DEF Create
  <2> QED
    BY <1>0, <1>1, <2>1, RequestMoves DEF Create
<1>2. CASE Look(r)
  <2>1. HandlesCounted' /\ handles' \in 0 .. Cardinality(Requests)
    BY <1>0, <1>2, GuardsAfter DEF Look
  <2>2. left' \in [Requests -> 0 .. WaitCheckpoints]
    BY <1>0, <1>2, BoundsAssumption DEF Look
  <2>3. exists
    BY <1>2, <1>g DEF Look, Step
  <2> QED
    BY <1>0, <1>2, <2>1, <2>2, <2>3, RequestMoves DEF Look
<1>3. CASE Unguard(r)
  <2>1. HandlesCounted' /\ handles' \in 0 .. Cardinality(Requests)
    BY <1>0, <1>3, GuardsAfter DEF Unguard
  <2>2. exists
    BY <1>3, <1>g DEF Unguard, Step
  <2> QED
    BY <1>0, <1>3, <2>1, <2>2, RequestMoves DEF Unguard
<1>4. CASE DecideToWait(r)
  <2>1. HandlesCounted' /\ handles' \in 0 .. Cardinality(Requests)
    BY <1>0, <1>4, GuardsAfter DEF DecideToWait
  <2>2. exists
    BY <1>4, <1>g DEF DecideToWait, Step
  <2> QED
    BY <1>0, <1>4, <2>1, <2>2, RequestMoves DEF DecideToWait
<1>5. CASE Reguard(r)
  <2>1. HandlesCounted' /\ handles' \in 0 .. Cardinality(Requests)
    BY <1>0, <1>5, GuardsAfter DEF Reguard
  <2>2. exists
    BY <1>5, <1>g DEF Reguard, Step
  <2> QED
    BY <1>0, <1>5, <2>1, <2>2, RequestMoves DEF Reguard
<1>6. CASE LookLast(r)
  <2>1. HandlesCounted' /\ handles' \in 0 .. Cardinality(Requests)
    BY <1>0, <1>6, GuardsAfter DEF LookLast
  <2>2. exists
    BY <1>6, <1>g DEF LookLast, Step
  <2> QED
    BY <1>0, <1>6, <2>1, <2>2, RequestMoves DEF LookLast
<1>7. CASE BuildNodes(r)
  <2>1. HandlesCounted' /\ handles' \in 0 .. Cardinality(Requests)
    BY <1>0, <1>7, GuardsAfter DEF BuildNodes
  <2>2. pc' = [pc EXCEPT ![r] = "connect"] /\ pc[r] = "nodes"
    BY <1>7 DEF BuildNodes, Step
  <2>3. TypeOK'
    BY <1>0, <1>7, <2>1, <2>2 DEF TypeOK, BuildNodes, RequestLeaves, definition, models, manager, Infos
  <2>4. AvailableHasPassed'
    BY <1>0, <1>7, <1>g, <2>2
    DEF IInv, TypeOK, AvailableHasPassed, BuildNodes, RequestLeaves, definition, models, manager, IsAvailable
  <2>5. ReadersExcludeReload'
    BY <1>0, <1>7, <2>2
    DEF IInv, TypeOK, ReadersExcludeReload, BuildNodes, RequestLeaves, definition, models, manager, Reading
  <2> QED
    BY <1>7, <2>1, <2>3, <2>4, <2>5, RequestFrame DEF IInv, BuildNodes
<1>8. CASE Connect(r)
  <2>1. HandlesCounted' /\ handles' \in 0 .. Cardinality(Requests)
    BY <1>0, <1>8, GuardsAfter DEF Connect
  <2>2. pc' = [pc EXCEPT ![r] = "leave"] /\ pc[r] = "connect"
    BY <1>8 DEF Connect, Step
  <2>3. TypeOK'
    BY <1>0, <1>8, <2>1, <2>2 DEF TypeOK, Connect, RequestLeaves, definition, models, manager, Infos
  <2>4. AvailableHasPassed'
    BY <1>0, <1>8, <1>g, <2>2
    DEF IInv, TypeOK, AvailableHasPassed, Connect, RequestLeaves, definition, models, manager, IsAvailable
  <2>5. ReadersExcludeReload'
    BY <1>0, <1>8, <2>2
    DEF IInv, TypeOK, ReadersExcludeReload, Connect, RequestLeaves, definition, models, manager, Reading
  <2> QED
    BY <1>8, <2>1, <2>3, <2>4, <2>5, RequestFrame DEF IInv, Connect
<1>9. CASE Leave(r)
  <2>1. HandlesCounted' /\ handles' \in 0 .. Cardinality(Requests)
    BY <1>0, <1>9, GuardsAfter DEF Leave
  <2>2. pc' = [pc EXCEPT ![r] = "built"] /\ pc[r] = "leave"
    BY <1>9 DEF Leave, Step
  <2>3. TypeOK'
    BY <1>0, <1>9, <2>1, <2>2, BoundsAssumption
    DEF TypeOK, Leave, RequestLeaves, definition, models, manager, Infos, NoPipeline
  <2>4. AvailableHasPassed'
    BY <1>0, <1>9, <2>2
    DEF IInv, TypeOK, AvailableHasPassed, Leave, RequestLeaves, definition, models, manager, IsAvailable
  <2>5. ReadersExcludeReload'
    BY <1>0, <1>9, <2>2
    DEF IInv, TypeOK, ReadersExcludeReload, Leave, RequestLeaves, definition, models, manager, Reading
  <2> QED
    BY <1>9, <2>1, <2>3, <2>4, <2>5, RequestFrame DEF IInv, Leave
<1> QED
  BY <1>1, <1>2, <1>3, <1>4, <1>5, <1>6, <1>7, <1>8, <1>9 DEF RequestStep

(***************************************************************************)
(* The manager and the models leave the requests alone.                    *)
(***************************************************************************)

\* After the guards were counted down to zero nobody reads the definition.
LEMMA NobodyGuards ==
  ASSUME HandlesCounted, handles = 0, NEW r \in Requests
  PROVE  pc[r] \notin Guarded
<1> DEFINE S == {q \in Requests : pc[q] \in Guarded}
<1>1. IsFiniteSet(S)
  BY RequestsAssumption, FS_Subset
<1>2. S = {}
  BY <1>1, FS_EmptySet DEF HandlesCounted
<1> QED
  BY <1>2

\* The number of guards stays right when no request moves.
LEMMA GuardsFrame ==
  ASSUME HandlesCounted, UNCHANGED requests
  PROVE  HandlesCounted'
BY DEF HandlesCounted, requests

\* createDefinition: no request can find the new object.
LEMMA CreateDefinitionStep ==
  ASSUME IInv, NEW g \in Graphs, CreateDefinition(g)
  PROVE  IInv'
<1> USE DEF IInv, CreateDefinition, Spend, models, requests
<1>1. TypeOK'
  <2>1. budget' \in 0 .. Budget
    BY BoundsAssumption DEF TypeOK
  <2> QED
    BY <2>1, CodesAreStates DEF TypeOK, Codes, Infos, ManagerPCs
<1>2. AvailableHasPassed'
  BY DEF AvailableHasPassed, IsAvailable
<1>3. ReadersExcludeReload'
  BY DEF ReadersExcludeReload, AvailableHasPassed, CodeMatchesCall, Reading, Guarded
<1>4. CodeMatchesCall'
  BY DEF CodeMatchesCall
<1>5. SubscriptionsAgree'
  BY DEF SubscriptionsAgree
<1>6. FindingsStand'
  BY DEF FindingsStand
<1>7. ManagerNeverRefused'
  BY DEF ManagerNeverRefused
<1>8. VerdictCurrent'
  BY DEF VerdictCurrent
<1> QED
  BY <1>1, <1>2, <1>3, <1>4, <1>5, <1>6, <1>7, <1>8, GuardsFrame

\* reload: from here on nobody starts to read.
LEMMA ReloadDefinitionStep ==
  ASSUME IInv, NEW g \in Graphs, ReloadDefinition(g)
  PROVE  IInv'
<1> USE DEF IInv, ReloadDefinition, Spend, models, requests
<1>a. code' = "RELOADING" /\ refused' = refused
  BY ManagerEvents DEF TypeOK, CodeMatchesCall
<1>1. TypeOK'
  BY <1>a, CodesAreStates, BoundsAssumption DEF TypeOK, Codes, ManagerPCs
<1>2. AvailableHasPassed'
  BY <1>a DEF AvailableHasPassed, IsAvailable
<1>3. ReadersExcludeReload'
  BY <1>a DEF ReadersExcludeReload
<1>4. CodeMatchesCall'
  BY <1>a DEF CodeMatchesCall
<1>5. SubscriptionsAgree'
  BY <1>a DEF SubscriptionsAgree
<1>6. FindingsStand'
  BY <1>a DEF FindingsStand
<1>7. ManagerNeverRefused'
  BY <1>a DEF ManagerNeverRefused
<1>8. VerdictCurrent'
  BY <1>a DEF VerdictCurrent
<1> QED
  BY <1>1, <1>2, <1>3, <1>4, <1>5, <1>6, <1>7, <1>8, GuardsFrame

\* The reload of a definition that was just created.
LEMMA ReloadCreatedStep ==
  ASSUME IInv, ReloadCreated
  PROVE  IInv'
<1> USE DEF IInv, ReloadCreated, models, requests
<1>a. code' = "RELOADING" /\ refused' = refused
  BY ManagerEvents DEF TypeOK, CodeMatchesCall, IsAvailable
<1>1. TypeOK'
  BY <1>a, CodesAreStates DEF TypeOK, Codes, ManagerPCs
<1>2. AvailableHasPassed'
  BY <1>a DEF AvailableHasPassed, IsAvailable
<1>3. ReadersExcludeReload'
  BY <1>a DEF ReadersExcludeReload
<1>4. CodeMatchesCall'
  BY <1>a DEF CodeMatchesCall
<1>5. SubscriptionsAgree'
  BY <1>a DEF SubscriptionsAgree
<1>6. FindingsStand'
  BY <1>a DEF FindingsStand
<1>7. ManagerNeverRefused'
  BY <1>a DEF ManagerNeverRefused
<1>8. VerdictCurrent'
  BY <1>a DEF VerdictCurrent
<1> QED
  BY <1>1, <1>2, <1>3, <1>4, <1>5, <1>6, <1>7, <1>8, GuardsFrame

\* A definition that is not retired is about to be.
LEMMA RetireDefinitionStep ==
  ASSUME IInv, RetireDefinition
  PROVE  IInv'
<1> USE DEF IInv, RetireDefinition, Spend, definition, models, requests
<1>1. TypeOK'
  BY GraphsAssumption, BoundsAssumption DEF TypeOK, Infos, ManagerPCs, Metadata, ModelsOf, NoNodes
<1>2. AvailableHasPassed'
  BY DEF AvailableHasPassed, IsAvailable
<1>3. ReadersExcludeReload'
  BY DEF ReadersExcludeReload
<1>4. CodeMatchesCall'
  BY DEF CodeMatchesCall
<1>5. SubscriptionsAgree'
  BY DEF SubscriptionsAgree
<1>6. FindingsStand'
  BY DEF FindingsStand
<1>7. ManagerNeverRefused'
  BY DEF ManagerNeverRefused
<1>8. VerdictCurrent'
  BY DEF VerdictCurrent
<1> QED
  BY <1>1, <1>2, <1>3, <1>4, <1>5, <1>6, <1>7, <1>8, GuardsFrame

\* A marked definition is validated again.
LEMMA RevalidateStep ==
  ASSUME IInv, Revalidate
  PROVE  IInv'
<1> USE DEF IInv, Revalidate, definition, models, requests
<1>1. TypeOK'
  BY GraphsAssumption, BoundsAssumption DEF TypeOK, Infos, ManagerPCs, Metadata, ModelsOf, NoNodes
<1>2. AvailableHasPassed'
  BY DEF AvailableHasPassed, IsAvailable
<1>3. ReadersExcludeReload'
  BY DEF ReadersExcludeReload
<1>4. CodeMatchesCall'
  BY DEF CodeMatchesCall, IsAvailable, IsRevalidationRequired
<1>5. SubscriptionsAgree'
  BY DEF SubscriptionsAgree
<1>6. FindingsStand'
  BY DEF FindingsStand
<1>7. ManagerNeverRefused'
  BY DEF ManagerNeverRefused
<1>8. VerdictCurrent'
  BY DEF VerdictCurrent
<1> QED
  BY <1>1, <1>2, <1>3, <1>4, <1>5, <1>6, <1>7, <1>8, GuardsFrame

\* What is unsubscribed was subscribed.
LEMMA ResetSubscriptionsStep ==
  ASSUME IInv, ResetSubscriptions
  PROVE  IInv'
<1> USE DEF IInv, ResetSubscriptions, Return, GoOn, requests
<1>a. call \in {"create", "reload", "retire"}
  BY DEF CodeMatchesCall
<1>1. TypeOK'
  BY <1>a, GraphsAssumption, BoundsAssumption DEF TypeOK, Infos, ManagerPCs, Metadata, ModelsOf, NoNodes
<1>2. AvailableHasPassed'
  BY <1>a DEF AvailableHasPassed, IsAvailable
<1>3. ReadersExcludeReload'
  BY <1>a DEF ReadersExcludeReload
<1>4. CodeMatchesCall'
  BY <1>a DEF CodeMatchesCall
<1>5. SubscriptionsAgree'
  BY <1>a DEF SubscriptionsAgree
<1>6. FindingsStand'
  BY <1>a DEF FindingsStand
<1>7. ManagerNeverRefused'
  BY <1>a DEF ManagerNeverRefused, SubscriptionsAgree
<1>8. VerdictCurrent'
  BY <1>a DEF VerdictCurrent, CodeMatchesCall
<1> QED
  BY <1>1, <1>2, <1>3, <1>4, <1>5, <1>6, <1>7, <1>8, GuardsFrame

\* A definition that is retired has no subscriptions.
LEMMA HandleRetireStep ==
  ASSUME IInv, HandleRetire
  PROVE  IInv'
<1> USE DEF IInv, HandleRetire, models, requests
<1>a. code' = "RETIRED" /\ refused' = refused
  BY ManagerEvents DEF TypeOK, CodeMatchesCall
<1>1. TypeOK'
  BY <1>a, CodesAreStates DEF TypeOK, Codes, ManagerPCs
<1>2. AvailableHasPassed'
  BY <1>a DEF AvailableHasPassed, IsAvailable
<1>3. ReadersExcludeReload'
  BY <1>a DEF ReadersExcludeReload
<1>4. CodeMatchesCall'
  BY <1>a DEF CodeMatchesCall
<1>5. SubscriptionsAgree'
  BY <1>a DEF SubscriptionsAgree
<1>6. FindingsStand'
  BY <1>a DEF FindingsStand
<1>7. ManagerNeverRefused'
  BY <1>a DEF ManagerNeverRefused
<1>8. VerdictCurrent'
  BY <1>a DEF VerdictCurrent
<1> QED
  BY <1>1, <1>2, <1>3, <1>4, <1>5, <1>6, <1>7, <1>8, GuardsFrame

\* No guard is left, so nobody reads.
LEMMA DrainStep ==
  ASSUME IInv, Drain
  PROVE  IInv'
<1> USE DEF IInv, Drain, definition, models, requests
<1>a. \A r \in Requests : pc[r] \notin Guarded
  BY NobodyGuards
<1>1. TypeOK'
  BY <1>a, GraphsAssumption, BoundsAssumption DEF TypeOK, Infos, ManagerPCs, Metadata, ModelsOf, NoNodes
<1>2. AvailableHasPassed'
  BY <1>a DEF AvailableHasPassed, IsAvailable
<1>3. ReadersExcludeReload'
  BY <1>a DEF ReadersExcludeReload, Reading, Guarded
<1>4. CodeMatchesCall'
  BY <1>a DEF CodeMatchesCall
<1>5. SubscriptionsAgree'
  BY <1>a DEF SubscriptionsAgree
<1>6. FindingsStand'
  BY <1>a DEF FindingsStand
<1>7. ManagerNeverRefused'
  BY <1>a DEF ManagerNeverRefused
<1>8. VerdictCurrent'
  BY <1>a DEF VerdictCurrent
<1> QED
  BY <1>1, <1>2, <1>3, <1>4, <1>5, <1>6, <1>7, <1>8, GuardsFrame

\* A definition is cleared while nobody reads it.
LEMMA ClearStep ==
  ASSUME IInv, Clear
  PROVE  IInv'
<1> USE DEF IInv, Clear, Return, models, requests
<1>1. TypeOK'
  BY GraphsAssumption, BoundsAssumption DEF TypeOK, Infos, ManagerPCs, Metadata, ModelsOf, NoNodes
<1>2. AvailableHasPassed'
  BY DEF AvailableHasPassed, IsAvailable, CodeMatchesCall
<1>3. ReadersExcludeReload'
  BY DEF ReadersExcludeReload
<1>4. CodeMatchesCall'
  BY DEF CodeMatchesCall
<1>5. SubscriptionsAgree'
  BY DEF SubscriptionsAgree
<1>6. FindingsStand'
  BY DEF FindingsStand
<1>7. ManagerNeverRefused'
  BY DEF ManagerNeverRefused
<1>8. VerdictCurrent'
  BY DEF VerdictCurrent, CodeMatchesCall
<1> QED
  BY <1>1, <1>2, <1>3, <1>4, <1>5, <1>6, <1>7, <1>8, GuardsFrame

\* A definition is replaced while nobody reads it.
LEMMA ReplaceStep ==
  ASSUME IInv, Replace
  PROVE  IInv'
<1> USE DEF IInv, Replace, models, requests
<1>1. TypeOK'
  BY GraphsAssumption, BoundsAssumption DEF TypeOK, Infos, ManagerPCs, Metadata, ModelsOf, NoNodes
<1>2. AvailableHasPassed'
  BY DEF AvailableHasPassed, IsAvailable, CodeMatchesCall
<1>3. ReadersExcludeReload'
  BY DEF ReadersExcludeReload
<1>4. CodeMatchesCall'
  BY DEF CodeMatchesCall
<1>5. SubscriptionsAgree'
  BY DEF SubscriptionsAgree
<1>6. FindingsStand'
  BY DEF FindingsStand
<1>7. ManagerNeverRefused'
  BY DEF ManagerNeverRefused
<1>8. VerdictCurrent'
  BY DEF VerdictCurrent
<1> QED
  BY <1>1, <1>2, <1>3, <1>4, <1>5, <1>6, <1>7, <1>8, GuardsFrame

\* A definition subscribes from none.
LEMMA MakeSubscriptionsStep ==
  ASSUME IInv, MakeSubscriptions
  PROVE  IInv'
<1> USE DEF IInv, MakeSubscriptions, requests
<1>1. TypeOK'
  BY GraphsAssumption, BoundsAssumption DEF TypeOK, Infos, ManagerPCs, Metadata, ModelsOf, NoNodes
<1>2. AvailableHasPassed'
  BY DEF AvailableHasPassed, IsAvailable
<1>3. ReadersExcludeReload'
  BY DEF ReadersExcludeReload
<1>4. CodeMatchesCall'
  BY DEF CodeMatchesCall
<1>5. SubscriptionsAgree'
  BY DEF SubscriptionsAgree, CodeMatchesCall
<1>6. FindingsStand'
  BY DEF FindingsStand
<1>7. ManagerNeverRefused'
  BY DEF ManagerNeverRefused, SubscriptionsAgree
<1>8. VerdictCurrent'
  BY DEF VerdictCurrent
<1> QED
  BY <1>1, <1>2, <1>3, <1>4, <1>5, <1>6, <1>7, <1>8, GuardsFrame

\* The verdict is found.
LEMMA ValidateNodesStep ==
  ASSUME IInv, ValidateNodes
  PROVE  IInv'
<1> USE DEF IInv, ValidateNodes, definition, models, requests
<1>1. TypeOK'
  BY GraphsAssumption, BoundsAssumption DEF TypeOK, Infos, ManagerPCs, Metadata, ModelsOf, NoNodes
<1>2. AvailableHasPassed'
  BY DEF AvailableHasPassed, IsAvailable
<1>3. ReadersExcludeReload'
  BY DEF ReadersExcludeReload
<1>4. CodeMatchesCall'
  BY DEF CodeMatchesCall, IsAvailable, IsRevalidationRequired
<1>5. SubscriptionsAgree'
  BY DEF SubscriptionsAgree
<1>6. FindingsStand'
  BY DEF FindingsStand, Valid, Metadata
<1>7. ManagerNeverRefused'
  BY DEF ManagerNeverRefused
<1>8. VerdictCurrent'
  BY DEF VerdictCurrent
<1> QED
  BY <1>1, <1>2, <1>3, <1>4, <1>5, <1>6, <1>7, <1>8, GuardsFrame

\* The metadata are copied from the models.
LEMMA UpdateInputsInfoStep ==
  ASSUME IInv, UpdateInputsInfo
  PROVE  IInv'
<1> USE DEF IInv, UpdateInputsInfo, models, requests
<1>1. TypeOK'
  BY GraphsAssumption, BoundsAssumption DEF TypeOK, Infos, ManagerPCs, Metadata, ModelsOf, NoNodes
<1>2. AvailableHasPassed'
  BY DEF AvailableHasPassed, IsAvailable
<1>3. ReadersExcludeReload'
  BY DEF ReadersExcludeReload
<1>4. CodeMatchesCall'
  BY DEF CodeMatchesCall, IsAvailable, IsRevalidationRequired
<1>5. SubscriptionsAgree'
  BY DEF SubscriptionsAgree
<1>6. FindingsStand'
  BY DEF FindingsStand, Valid, Metadata
<1>7. ManagerNeverRefused'
  BY DEF ManagerNeverRefused
<1>8. VerdictCurrent'
  BY DEF VerdictCurrent
<1> QED
  BY <1>1, <1>2, <1>3, <1>4, <1>5, <1>6, <1>7, <1>8, GuardsFrame

\* The verdict is published.
LEMMA ValidationPassesStep ==
  ASSUME IInv, ValidationPasses
  PROVE  IInv'
<1> USE DEF IInv, ValidationPasses, Return, GoOn, models, requests
<1>a. code' = "AVAILABLE" /\ refused' = refused
  BY ManagerEvents DEF TypeOK, CodeMatchesCall, IsRevalidationRequired
<1>1. TypeOK'
  <2>1. nodeInfos \in Graphs
    BY DEF TypeOK, FindingsStand, Valid, NoNodes
  <2> QED
    BY <1>a, <2>1, CodesAreStates DEF TypeOK, Codes, ManagerPCs
<1>2. AvailableHasPassed'
  BY <1>a DEF AvailableHasPassed
<1>3. ReadersExcludeReload'
  BY <1>a DEF ReadersExcludeReload
<1>4. CodeMatchesCall'
  BY <1>a DEF CodeMatchesCall, IsAvailable
<1>5. SubscriptionsAgree'
  BY <1>a DEF SubscriptionsAgree
<1>6. FindingsStand'
  BY <1>a DEF FindingsStand
<1>7. ManagerNeverRefused'
  BY <1>a DEF ManagerNeverRefused
<1>8. VerdictCurrent'
  BY <1>a DEF VerdictCurrent, FindingsStand, CodeMatchesCall, Valid, Metadata, ModelsOf
<1> QED
  BY <1>1, <1>2, <1>3, <1>4, <1>5, <1>6, <1>7, <1>8, GuardsFrame

\* A definition that failed is published, or dropped if its name is taken.
LEMMA ValidationFailsStep ==
  ASSUME IInv, ValidationFails
  PROVE  IInv'
<1> USE DEF IInv, ValidationFails, Return, GoOn, models, requests
<1>a. code' = "FAILED" /\ refused' = refused
  BY ManagerEvents DEF TypeOK, CodeMatchesCall, IsRevalidationRequired
<1>1. TypeOK'
  BY <1>a, CodesAreStates DEF TypeOK, Codes, NoNodes, ManagerPCs
<1>2. AvailableHasPassed'
  BY <1>a DEF AvailableHasPassed, IsAvailable
<1>3. ReadersExcludeReload'
  BY <1>a DEF ReadersExcludeReload
<1>4. CodeMatchesCall'
  BY <1>a DEF CodeMatchesCall
<1>5. SubscriptionsAgree'
  BY <1>a DEF SubscriptionsAgree
<1>6. FindingsStand'
  BY <1>a DEF FindingsStand, CodeMatchesCall
<1>7. ManagerNeverRefused'
  BY <1>a DEF ManagerNeverRefused
<1>8. VerdictCurrent'
  BY <1>a DEF VerdictCurrent, FindingsStand, CodeMatchesCall, Valid, Metadata, ModelsOf
<1> QED
  BY <1>1, <1>2, <1>3, <1>4, <1>5, <1>6, <1>7, <1>8, GuardsFrame

\* A change of a model marks the definition.
LEMMA ManagerChangesModelStep ==
  ASSUME IInv, NEW m \in Models, NEW k \in Kinds, ManagerChangesModel(m, k)
  PROVE  IInv'
<1> USE DEF IInv, ManagerChangesModel, Spend, requests
<1>a. /\ m \in subscribers => code' = IF IsAvailable THEN "AVAILABLE_REVALIDATE" ELSE "FAILED_REVALIDATE"
      /\ m \notin subscribers => code' = code
      /\ m \in subscribers => exists /\ code \notin {"BEGIN", "RELOADING", "RETIRED"}
      /\ refused' = refused
  BY ManagerEvents DEF TypeOK, CodeMatchesCall, SubscriptionsAgree
<1>1. TypeOK'
  <2>1. budget' \in 0 .. Budget /\ gen' \in [Models -> 0 .. Budget]
    BY BoundsAssumption DEF TypeOK
  <2>2. code' \in DOMAIN StateMachine /\ kind' \in [Models -> Kinds]
    BY <1>a, CodesAreStates DEF TypeOK, Codes, Kinds
  <2> QED
    BY <1>a, <2>1, <2>2 DEF TypeOK
<1>2. AvailableHasPassed'
  BY <1>a DEF AvailableHasPassed, IsAvailable
<1>3. ReadersExcludeReload'
  BY <1>a DEF ReadersExcludeReload
<1>4. CodeMatchesCall'
  BY <1>a DEF CodeMatchesCall
<1>5. SubscriptionsAgree'
  BY <1>a DEF SubscriptionsAgree
<1>6. FindingsStand'
  BY <1>a DEF FindingsStand
<1>7. ManagerNeverRefused'
  BY <1>a DEF ManagerNeverRefused
<1>8. VerdictCurrent'
  BY <1>a DEF VerdictCurrent, FindingsStand, CodeMatchesCall, SubscriptionsAgree, Valid, Metadata, ModelsOf, IsAvailable, IsRevalidationRequired, Codes
<1> QED
  BY <1>1, <1>2, <1>3, <1>4, <1>5, <1>6, <1>7, <1>8, GuardsFrame

\* A model takes the name of a definition that does not exist.
LEMMA NameBecomesOccupiedStep ==
  ASSUME IInv, NameBecomesOccupied
  PROVE  IInv'
<1> USE DEF IInv, NameBecomesOccupied, Spend, definition, manager, requests
<1>1. TypeOK'
  BY GraphsAssumption, BoundsAssumption DEF TypeOK, Infos, ManagerPCs, Metadata, ModelsOf, NoNodes
<1>2. AvailableHasPassed'
  BY DEF AvailableHasPassed, IsAvailable
<1>3. ReadersExcludeReload'
  BY DEF ReadersExcludeReload
<1>4. CodeMatchesCall'
  BY DEF CodeMatchesCall
<1>5. SubscriptionsAgree'
  BY DEF SubscriptionsAgree
<1>6. FindingsStand'
  BY DEF FindingsStand
<1>7. ManagerNeverRefused'
  BY DEF ManagerNeverRefused
<1>8. VerdictCurrent'
  BY DEF VerdictCurrent
<1> QED
  BY <1>1, <1>2, <1>3, <1>4, <1>5, <1>6, <1>7, <1>8, GuardsFrame

\* A request reloads a model with dynamic parameters.
LEMMA RequestChangesModelStep ==
  ASSUME IInv, NEW m \in Models, RequestChangesModel(m)
  PROVE  IInv'
<1> USE DEF IInv, RequestChangesModel, Spend, manager, requests
<1>a. \/ /\ m \in subscribers /\ code \in {"BEGIN", "RELOADING", "RETIRED"}
         /\ code' = code /\ gen' = gen /\ kind' = [kind EXCEPT ![m] = "unfit"]
      \/ /\ m \in subscribers /\ code \notin {"BEGIN", "RELOADING", "RETIRED"} /\ kind' = kind
         /\ code' = IF IsAvailable THEN "AVAILABLE_REVALIDATE" ELSE "FAILED_REVALIDATE"
      \/ m \notin subscribers /\ code' = code /\ kind' = kind
  BY Transitions DEF TypeOK, Handle
<1>b. /\ Valid(nodeInfos)' <=> Valid(nodeInfos)
      /\ Valid(nodeInfos) => /\ Metadata(nodeInfos.inputs)' = Metadata(nodeInfos.inputs)
                             /\ Metadata(nodeInfos.outputs)' = Metadata(nodeInfos.outputs)
  <2>1. ModelsOf(nodeInfos) \subseteq Models
    BY GraphsAssumption DEF TypeOK, ModelsOf, NoNodes
  <2>2. \A n \in Models : n # m => kind'[n] = kind[n] /\ gen'[n] = gen[n]
    BY <1>a DEF TypeOK
  <2>3. kind[m] # "fit" /\ kind'[m] # "fit"
    BY <1>a DEF TypeOK
  <2> QED
    BY <2>1, <2>2, <2>3 DEF Valid, Metadata, ModelsOf
<1>1. TypeOK'
  <2>1. budget' \in 0 .. Budget /\ gen' \in [Models -> 0 .. Budget]
    BY BoundsAssumption DEF TypeOK
  <2>2. code' \in DOMAIN StateMachine /\ kind' \in [Models -> Kinds]
    BY <1>a, CodesAreStates DEF TypeOK, Codes, Kinds
  <2> QED
    BY <1>a, <2>1, <2>2 DEF TypeOK
<1>2. AvailableHasPassed'
  BY <1>a DEF AvailableHasPassed, IsAvailable
<1>3. ReadersExcludeReload'
  BY <1>a DEF ReadersExcludeReload
<1>4. CodeMatchesCall'
  BY <1>a DEF CodeMatchesCall, IsAvailable, IsRevalidationRequired
<1>5. SubscriptionsAgree'
  BY <1>a DEF SubscriptionsAgree
<1>6. FindingsStand'
  BY <1>b DEF FindingsStand
<1>7. ManagerNeverRefused'
  BY <1>a DEF ManagerNeverRefused
<1>8. VerdictCurrent'
  BY <1>a, <1>b DEF VerdictCurrent, SubscriptionsAgree, ModelsOf
<1> QED
  BY <1>1, <1>2, <1>3, <1>4, <1>5, <1>6, <1>7, <1>8, GuardsFrame

(***************************************************************************)
(* The theorems.                                                           *)
(***************************************************************************)

\* The invariant holds at the start: there is no definition and nobody asks for one.
LEMMA InitInvariant == Init => IInv
<1> SUFFICES ASSUME Init PROVE IInv
  OBVIOUS
<1> USE DEF Init
<1>1. {r \in Requests : pc[r] \in Guarded} = {}
  BY DEF Guarded
<1>2. HandlesCounted
  BY <1>1, FS_EmptySet DEF HandlesCounted
<1>3. TypeOK
  <2>1. handles \in 0 .. Cardinality(Requests)
    BY RequestsAssumption, FS_CardinalityType
  <2>2. code \in DOMAIN StateMachine
    BY CodesAreStates DEF Codes
  <2>3. gen \in [Models -> 0 .. Budget] /\ budget \in 0 .. Budget
        /\ left \in [Requests -> 0 .. WaitCheckpoints]
    BY BoundsAssumption
  <2>4. kind \in [Models -> Kinds]
    BY KindsAssumption
  <2>5. pc \in [Requests -> RequestPCs]
    BY DEF RequestPCs
  <2>6. built \in [Requests -> [nodes : Graphs \cup {NoNodes}, connections : Graphs \cup {NoNodes}]]
    BY DEF NoPipeline
  <2> QED
    BY <2>1, <2>2, <2>3, <2>4, <2>5, <2>6 DEF TypeOK, Infos, ManagerPCs
<1>4. AvailableHasPassed /\ ReadersExcludeReload
  BY DEF AvailableHasPassed, ReadersExcludeReload, IsAvailable, Guarded, Reading
<1>5. CodeMatchesCall /\ SubscriptionsAgree /\ FindingsStand /\ ManagerNeverRefused /\ VerdictCurrent
  BY DEF CodeMatchesCall, SubscriptionsAgree, FindingsStand, ManagerNeverRefused, VerdictCurrent
<1> QED
  BY <1>2, <1>3, <1>4, <1>5 DEF IInv

\* A step that changes nothing keeps it.
LEMMA StutterInvariant ==
  ASSUME IInv, UNCHANGED vars
  PROVE  IInv'
<1> USE DEF IInv, vars
<1>1. TypeOK' /\ AvailableHasPassed' /\ ReadersExcludeReload'
  BY DEF TypeOK, AvailableHasPassed, ReadersExcludeReload, IsAvailable, definition, models, manager,
         requests
<1> QED
  BY <1>1, GuardsFrame, RequestFrame DEF RequestLeaves

\* The inductive invariant of a pipeline definition: where the manager is determines
\* the status, the status and the counted guards keep readers and the manager apart,
\* subscriptions are in step with the models, and what a validation found out stands.
THEOREM InvariantHolds == Spec => []IInv
<1>1. IInv /\ [Next]_vars => IInv'
  <2> SUFFICES ASSUME IInv, [Next]_vars PROVE IInv'
    OBVIOUS
  <2>1. CASE ConfigurationChange
    BY <2>1, CreateDefinitionStep, ReloadDefinitionStep, RetireDefinitionStep,
       NameBecomesOccupiedStep, ManagerChangesModelStep
    DEF ConfigurationChange
  <2>2. CASE Revalidate
    BY <2>2, RevalidateStep
  <2>3. CASE ManagerStep
    BY <2>3, ReloadCreatedStep, ResetSubscriptionsStep, HandleRetireStep, DrainStep, ClearStep,
       ReplaceStep, MakeSubscriptionsStep, ValidateNodesStep, UpdateInputsInfoStep,
       ValidationPassesStep, ValidationFailsStep
    DEF ManagerStep
  <2>4. CASE \E m \in Models : RequestChangesModel(m)
    BY <2>4, RequestChangesModelStep
  <2>5. CASE \E r \in Requests : RequestStep(r)
    BY <2>5, RequestSteps
  <2>6. CASE UNCHANGED vars
    BY <2>6, StutterInvariant
  <2> QED
    BY <2>1, <2>2, <2>3, <2>4, <2>5, <2>6 DEF Next
<1> QED
  BY <1>1, InitInvariant, PTL DEF Spec

\* No event that the manager raises is refused by the status machine, and it never
\* subscribes twice or unsubscribes without a subscription (pipelinedefinitionstatus.hpp,
\* ModelChangeSubscription): nothing throws through the watcher.
THEOREM EventsAccepted == Spec => []ManagerNeverRefused
<1>1. IInv => ManagerNeverRefused
  BY DEF IInv
<1> QED
  BY <1>1, InvariantHolds, PTL

\* What create reads of nodeInfos and connections without a lock is one definition that
\* has passed validation, whatever is reloaded or retired meanwhile.
THEOREM BuiltConsistently == Spec => []BuiltFromOneDefinition
<1>1. IInv => BuiltFromOneDefinition
  BY DEF IInv, BuiltFromOneDefinition, ReadersExcludeReload, AvailableHasPassed, Reading
<1> QED
  BY <1>1, InvariantHolds, PTL

\* Between calls of the manager an unmarked definition is available exactly if its models
\* fit, and publishes their metadata as they are.
THEOREM VerdictIsCurrent == Spec => []VerdictCurrent
<1>1. IInv => VerdictCurrent
  BY DEF IInv
<1> QED
  BY <1>1, InvariantHolds, PTL

\* requestsHandlesCounter counts the unload guards, which reload and retire wait for.
THEOREM GuardsCounted == Spec => []HandlesCounted
<1>1. IInv => HandlesCounted
  BY DEF IInv
<1> QED
  BY <1>1, InvariantHolds, PTL
=============================================================================
