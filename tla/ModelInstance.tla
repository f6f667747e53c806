---------------------------- MODULE ModelInstance ----------------------------
(***************************************************************************)
(* The life of one version of a model, ModelInstance                       *)
(* (src/src/modelinstance.cpp): predict requests that wait for it, pin it  *)
(* with an unload guard and infer on it, and the threads that load,        *)
(* reload and unload it under loadingMutex.  Those are the model manager   *)
(* (one thread at a time, it holds configMtx) and the requests themselves: *)
(* a request whose batch size differs from that of a model with batch size *)
(* "auto" reloads the model with its own.                                  *)
(*                                                                         *)
(* Requests and loaders meet in two words of shared memory, the status and *)
(* the counter of unload guards: a request increments the counter and then *)
(* reads the status, a loader writes the status and then waits for the     *)
(* counter to be zero.                                                     *)
(*                                                                         *)
(* A batch size stands for all that a reload changes about the inputs (the *)
(* shapes too).  0 is "no component", and in config "auto".                *)
(***************************************************************************)
EXTENDS Integers, FiniteSets

CONSTANTS Requests,         \* threads that serve predict requests
          Manager,          \* the model manager's thread
          NoThread,         \* "no thread": an unlocked mutex
          Batches,          \* batch sizes
          FileBatch,        \* the batch size of the network in the model file
          CustomLoader,     \* whether the configuration names a custom loader
          WaitCheckpoints,  \* waits of waitForLoaded before it times out
          UnwrittenStates   \* what a status reads as before loadModel assigns it

ASSUME ThreadsAssumption ==
  /\ IsFiniteSet(Requests)
  /\ Manager \notin Requests
  /\ NoThread \notin Requests \cup {Manager}
ASSUME BatchesAssumption == Batches \subseteq Nat \ {0} /\ FileBatch \in Batches
ASSUME WaitAssumption == WaitCheckpoints \in Nat
ASSUME LoaderAssumption == CustomLoader \in BOOLEAN

States == {"START", "LOADING", "AVAILABLE", "UNLOADING", "END"}

ASSUME UnwrittenAssumption == UnwrittenStates \subseteq States

Threads == Requests \cup {Manager}

VARIABLES
  state,         \* status.state
  errorCode,     \* status.errorCode
  handles,       \* predictRequestsHandlesCount
  loadingMutex,  \* the thread that holds it (it is recursive)
  config,        \* batch size in the instance's ModelConfig, 0 for auto
  network,       \* batch size of the CNNNetwork, 0 when there is none
  inputsInfo,    \* batch size requests are validated against, 0 when cleared
  queue,         \* batch size of the executable network and its infer requests
  pc,            \* where each thread is
  call,          \* the operation a thread runs under loadingMutex
  newConfig,     \* the configuration the manager's operation applies
  batch,         \* batch size of each request's input
  checkpoints,   \* waitCheckpointsCounter
  loaderChanged, \* isCustomLoaderConfigChanged
  deployed       \* what the manager last asked for: "absent", "deployed", "retired"

statusVars == <<state, errorCode>>
components == <<network, inputsInfo, queue>>
requestVars == <<batch, checkpoints>>
managerVars == <<newConfig, loaderChanged, deployed>>
vars == <<statusVars, handles, loadingMutex, config, components, pc, call,
          requestVars, managerVars>>

None == 0
AutoBatch == 0

\* ModelVersionState > AVAILABLE.
PastAvailable == state \in {"UNLOADING", "END"}

RequestPCs == {"out", "entered", "leave", "recheck", "loop", "validate", "infer"}
LoaderPCs == {"lock", "drainLoad", "drainUnload", "drainSwap", "load", "compile",
              "publish", "guard", "unload", "swap", "end", "failed", "unlock"}
ManagerCalls == {"load", "reload", "retire", "cleanup"}
RequestCalls == {"reshape", "full", "recover"}

TypeOK ==
  /\ state \in States
  /\ errorCode \in {"OK", "UNKNOWN"}
  /\ handles \in Int
  /\ loadingMutex \in Threads \cup {NoThread}
  /\ config \in Batches \cup {AutoBatch}
  /\ network \in Batches \cup {None}
  /\ inputsInfo \in Batches \cup {None}
  /\ queue \in Batches \cup {None}
  /\ pc \in [Threads -> RequestPCs \cup LoaderPCs]
  /\ call \in [Threads -> ManagerCalls \cup RequestCalls \cup {"none"}]
  /\ newConfig \in Batches \cup {AutoBatch}
  /\ loaderChanged \in BOOLEAN
  /\ batch \in [Requests -> Batches]
  /\ checkpoints \in [Requests -> 0 .. WaitCheckpoints]
  /\ deployed \in {"absent", "deployed", "retired"}

-----------------------------------------------------------------------------
\* The instance as Model::addVersion inserts it among the versions: nothing is
\* loaded, and the status is default-constructed, which leaves its state
\* unwritten until loadModel has the mutex.
Init ==
  /\ state \in UnwrittenStates /\ errorCode = "OK"
  /\ handles = 0
  /\ loadingMutex = NoThread
  /\ config = AutoBatch
  /\ network = None /\ inputsInfo = None /\ queue = None
  /\ pc = [t \in Threads |-> "out"]
  /\ call = [t \in Threads |-> "none"]
  /\ newConfig = AutoBatch
  /\ loaderChanged = FALSE
  /\ batch = [r \in Requests |-> FileBatch]
  /\ checkpoints = [r \in Requests |-> 0]
  /\ deployed = "absent"

Goto(t, l) == pc' = [pc EXCEPT ![t] = l]

\* A request returns and its locals go out of scope.
Done(r) ==
  /\ Goto(r, "out")
  /\ batch' = [batch EXCEPT ![r] = FileBatch]
  /\ checkpoints' = [checkpoints EXCEPT ![r] = 0]

SetStatus(s, e) == state' = s /\ errorCode' = e

(***************************************************************************)
(* A predict request: getModelInstance and waitForLoaded.                  *)
(***************************************************************************)

\* waitForLoaded creates the unload guard before it looks at the status.
Arrive(r) ==
  /\ pc[r] = "out"
  /\ deployed # "absent"
  /\ \E b \in Batches : batch' = [batch EXCEPT ![r] = b]
  /\ checkpoints' = [checkpoints EXCEPT ![r] = WaitCheckpoints]
  /\ handles' = handles + 1
  /\ Goto(r, "entered")
  /\ UNCHANGED <<statusVars, loadingMutex, config, components, call, managerVars>>

CheckAvailable(r) ==
  /\ pc[r] = "entered"
  /\ Goto(r, IF state = "AVAILABLE" THEN "validate" ELSE "leave")
  /\ checkpoints' = [checkpoints EXCEPT ![r] = IF state = "AVAILABLE" THEN 0 ELSE @]
  /\ UNCHANGED <<statusVars, handles, loadingMutex, config, components, call,
                 batch, managerVars>>

\* Mutant: the guard is kept while the request waits.
LeaveKeepsGuard(r) ==
  /\ pc[r] = "leave"
  /\ handles' = handles
  /\ Goto(r, IF checkpoints[r] = WaitCheckpoints THEN "loop" ELSE "recheck")
  /\ UNCHANGED <<statusVars, loadingMutex, config, components, call,
                 requestVars, managerVars>>

\* Drop the guard; the first pass goes straight to the loop, later ones look
\* at the status again.
Leave(r) ==
  /\ pc[r] = "leave"
  /\ handles' = handles - 1
  /\ Goto(r, IF checkpoints[r] = WaitCheckpoints THEN "loop" ELSE "recheck")
  /\ UNCHANGED <<statusVars, loadingMutex, config, components, call,
                 requestVars, managerVars>>

\* MODEL_VERSION_NOT_LOADED_ANYMORE ends the request.
Recheck(r) ==
  /\ pc[r] = "recheck"
  /\ IF PastAvailable THEN Done(r) ELSE Goto(r, "loop") /\ UNCHANGED requestVars
  /\ UNCHANGED <<statusVars, handles, loadingMutex, config, components, call, managerVars>>

\* The wait ends, because the status passed LOADING or after its time step,
\* and the request takes a new guard.
Wake(r) ==
  /\ pc[r] = "loop"
  /\ checkpoints[r] > 0
  /\ checkpoints' = [checkpoints EXCEPT ![r] = @ - 1]
  /\ handles' = handles + 1
  /\ Goto(r, "entered")
  /\ UNCHANGED <<statusVars, loadingMutex, config, components, call, batch, managerVars>>

\* MODEL_VERSION_NOT_LOADED_YET or NOT_LOADED_ANYMORE.
TimeOut(r) ==
  /\ pc[r] = "loop"
  /\ checkpoints[r] = 0
  /\ Done(r)
  /\ UNCHANGED <<statusVars, handles, loadingMutex, config, components, call, managerVars>>

(***************************************************************************)
(* A predict request: infer.                                               *)
(***************************************************************************)

\* validate and reloadModelIfRequired.  A batch size that differs is an error
\* when the configuration fixes it, else the request drops its guard and goes
\* for loadingMutex (BATCHSIZE_CHANGE_REQUIRED).
Validate(r) ==
  /\ pc[r] = "validate"
  /\ IF batch[r] = inputsInfo
       THEN /\ Goto(r, "infer")
            /\ UNCHANGED <<handles, call, requestVars>>
       ELSE /\ handles' = handles - 1
            /\ IF config = AutoBatch
                 THEN /\ Goto(r, "lock")
                      /\ call' = [call EXCEPT ![r] = "reshape"]
                      /\ UNCHANGED requestVars
                 ELSE Done(r) /\ UNCHANGED call
  /\ UNCHANGED <<statusVars, loadingMutex, config, components, managerVars>>

\* Any other validation error ends the request.
Reject(r) ==
  /\ pc[r] = "validate"
  /\ handles' = handles - 1
  /\ Done(r)
  /\ UNCHANGED <<statusVars, loadingMutex, config, components, call, managerVars>>

\* The inference ran on queue, or failed; the guard goes out of scope.
FinishInfer(r) ==
  /\ pc[r] = "infer"
  /\ handles' = handles - 1
  /\ Done(r)
  /\ UNCHANGED <<statusVars, loadingMutex, config, components, call, managerVars>>

(***************************************************************************)
(* The manager's operations on the instance: loadModel when the version is *)
(* added, reloadModel(config), retireModel, cleanupFailedLoad.             *)
(***************************************************************************)

\* cleanupFailedLoad follows a failed load; cleanupAllVersions calls it on every version
\* of a model whose entry does not parse any more, whatever the version's state.
ManagerCall(op) ==
  /\ pc[Manager] = "out"
  /\ op = "load" <=> deployed = "absent"
  /\ \E c \in Batches \cup {AutoBatch} :
       /\ op \in {"retire", "cleanup"} => c = AutoBatch
       /\ newConfig' = c
  /\ \E changed \in BOOLEAN :
       /\ changed => op = "reload" /\ CustomLoader
       /\ loaderChanged' = (loaderChanged \/ changed)
  /\ deployed' = CASE op \in {"load", "reload"} -> "deployed"
                   [] op = "retire" -> "retired"
                   [] op = "cleanup" -> deployed
  /\ call' = [call EXCEPT ![Manager] = op]
  /\ Goto(Manager, "lock")
  /\ UNCHANGED <<statusVars, handles, loadingMutex, config, components, requestVars>>

(***************************************************************************)
(* Under loadingMutex.                                                     *)
(***************************************************************************)

\* Take the mutex and announce in the status what is about to happen.
Lock(t) ==
  /\ pc[t] = "lock"
  /\ loadingMutex = NoThread
  /\ loadingMutex' = t
  /\ SetStatus(IF call[t] = "retire" THEN "UNLOADING" ELSE "LOADING",
               IF call[t] = "cleanup" THEN "UNKNOWN" ELSE "OK")
  /\ Goto(t, CASE call[t] = "load" -> "load"
               [] call[t] \in {"reload", "reshape"} -> "drainLoad"
               [] call[t] \in {"retire", "cleanup"} -> "drainUnload")
  /\ UNCHANGED <<handles, config, components, call, requestVars, managerVars>>

\* Where a drained loader goes.  A reload unloads the model first when the
\* options of its custom loader changed (retireModel(false), which drains too).
AfterDrain(t) ==
  CASE pc[t] = "drainUnload" -> "unload"
    [] pc[t] = "drainSwap" -> "swap"
    [] pc[t] = "drainLoad" -> IF loaderChanged THEN "drainSwap" ELSE "load"

\* Mutant: the loader does not wait for the guards.
DrainSkipped(t) ==
  /\ pc[t] \in {"drainLoad", "drainUnload", "drainSwap"}
  /\ Goto(t, AfterDrain(t))
  /\ loaderChanged' = (loaderChanged /\ pc[t] # "drainLoad")
  /\ UNCHANGED <<statusVars, handles, loadingMutex, config, components, call,
                 requestVars, newConfig, deployed>>

\* canUnloadInstance: poll until no unload guard is left.
Drain(t) ==
  /\ pc[t] \in {"drainLoad", "drainUnload", "drainSwap"}
  /\ handles = 0
  /\ Goto(t, AfterDrain(t))
  /\ loaderChanged' = (loaderChanged /\ pc[t] # "drainLoad")
  /\ UNCHANGED <<statusVars, handles, loadingMutex, config, components, call,
                 requestVars, newConfig, deployed>>

\* The configuration and the batch size parameter of a thread's reload: only
\* the manager brings a new configuration, and a request asks for its batch
\* size except when it recovers.
ConfigOf(t) == IF t = Manager THEN newConfig ELSE config

\* configureBatchSize on the network that is there, or on the one read from
\* the file when there is none.
TargetBatch(t) ==
  IF call[t] \in {"reshape", "full"} THEN batch[t]
  ELSE IF ConfigOf(t) # AutoBatch THEN ConfigOf(t)
  ELSE IF network = None THEN FileBatch
  ELSE network

\* loadModelImpl up to loadOutputTensors.
LoadNetwork(t) ==
  /\ pc[t] = "load"
  /\ config' = ConfigOf(t)
  /\ network' = TargetBatch(t)
  /\ inputsInfo' = TargetBatch(t)
  /\ Goto(t, "compile")
  /\ UNCHANGED <<statusVars, handles, loadingMutex, queue, call, requestVars, managerVars>>

\* It fails: the network may or may not be read and reshaped, the inputs may or
\* may not be cleared by then.
LoadNetworkFails(t) ==
  /\ pc[t] = "load"
  /\ config' = ConfigOf(t)
  /\ network' \in {network, TargetBatch(t), IF network = None THEN FileBatch ELSE network}
  /\ inputsInfo' \in {inputsInfo, None}
  /\ SetStatus("LOADING", "UNKNOWN")
  /\ Goto(t, "failed")
  /\ UNCHANGED <<handles, loadingMutex, queue, call, requestVars, managerVars>>

\* loadOVExecutableNetwork and prepareInferenceRequestsQueue.
Compile(t) ==
  /\ pc[t] = "compile"
  /\ queue' = network
  /\ Goto(t, "publish")
  /\ UNCHANGED <<statusVars, handles, loadingMutex, config, network, inputsInfo,
                 call, requestVars, managerVars>>

\* Either of them fails; the previous infer requests stay.
CompileFails(t) ==
  /\ pc[t] = "compile"
  /\ SetStatus("LOADING", "UNKNOWN")
  /\ Goto(t, "failed")
  /\ UNCHANGED <<handles, loadingMutex, config, components, call, requestVars, managerVars>>

\* setAvailable.  A request that reloaded the model goes on to pin it, unless
\* it only recovered from its failure.
Publish(t) ==
  /\ pc[t] = "publish"
  /\ SetStatus("AVAILABLE", "OK")
  /\ Goto(t, IF call[t] \in {"reshape", "full"} THEN "guard" ELSE "unlock")
  /\ UNCHANGED <<handles, loadingMutex, config, components, call, requestVars, managerVars>>

\* After a failed load: reshapeWithFullReload, then recoverFromReloadingError,
\* each starts with retireModel(false); else the error is returned.
AfterFailure(t) ==
  /\ pc[t] = "failed"
  /\ IF call[t] \in {"reshape", "full"}
       THEN /\ call' = [call EXCEPT ![t] = IF @ = "reshape" THEN "full" ELSE "recover"]
            /\ SetStatus("LOADING", "OK")
            /\ Goto(t, "drainUnload")
       ELSE /\ Goto(t, "unlock")
            /\ UNCHANGED <<statusVars, call>>
  /\ UNCHANGED <<handles, loadingMutex, config, components, requestVars, managerVars>>

UnloadModelComponents == network' = None /\ inputsInfo' = None /\ queue' = None

\* unloadModelComponents; a request's full reload or recovery then calls
\* reloadModel, which sets LOADING and drains again.
Unload(t) ==
  /\ pc[t] = "unload"
  /\ UnloadModelComponents
  /\ IF call[t] \in {"full", "recover"}
       THEN SetStatus("LOADING", "OK") /\ Goto(t, "drainLoad")
       ELSE /\ Goto(t, IF call[t] = "retire" THEN "end" ELSE "unlock")
            /\ UNCHANGED statusVars
  /\ UNCHANGED <<handles, loadingMutex, config, call, requestVars, managerVars>>

\* The model is unloaded in the middle of a reload.
Swap(t) ==
  /\ pc[t] = "swap"
  /\ UnloadModelComponents
  /\ Goto(t, "load")
  /\ UNCHANGED <<statusVars, handles, loadingMutex, config, call, requestVars, managerVars>>

SetEnd(t) ==
  /\ pc[t] = "end"
  /\ SetStatus("END", "OK")
  /\ Goto(t, "unlock")
  /\ UNCHANGED <<handles, loadingMutex, config, components, call, requestVars, managerVars>>

\* Mutant: the request does not pin the model it reloaded.
GuardForgotten(t) ==
  /\ pc[t] = "guard"
  /\ handles' = handles
  /\ loadingMutex' = NoThread
  /\ call' = [call EXCEPT ![t] = "none"]
  /\ Goto(t, "infer")
  /\ UNCHANGED <<statusVars, config, components, requestVars, managerVars>>

\* Still under loadingMutex the request takes a new guard, so that nobody can
\* unload or reload the model before it inferred.
GuardReloaded(t) ==
  /\ pc[t] = "guard"
  /\ handles' = handles + 1
  /\ loadingMutex' = NoThread
  /\ call' = [call EXCEPT ![t] = "none"]
  /\ Goto(t, "infer")
  /\ UNCHANGED <<statusVars, config, components, requestVars, managerVars>>

Unlock(t) ==
  /\ pc[t] = "unlock"
  /\ loadingMutex' = NoThread
  /\ call' = [call EXCEPT ![t] = "none"]
  /\ IF t = Manager
       THEN Goto(t, "out") /\ newConfig' = AutoBatch /\ UNCHANGED requestVars
       ELSE Done(t) /\ UNCHANGED newConfig
  /\ UNCHANGED <<statusVars, handles, config, components, loaderChanged, deployed>>

-----------------------------------------------------------------------------
RequestStep(r) ==
  \/ CheckAvailable(r) \/ Leave(r) \/ Recheck(r) \/ Wake(r) \/ TimeOut(r)
  \/ Validate(r) \/ Reject(r) \/ FinishInfer(r)

LoaderStep(t) ==
  \/ Lock(t) \/ Drain(t)
  \/ LoadNetwork(t) \/ LoadNetworkFails(t) \/ Compile(t) \/ CompileFails(t)
  \/ Publish(t) \/ AfterFailure(t) \/ Unload(t) \/ Swap(t) \/ SetEnd(t)
  \/ GuardReloaded(t) \/ Unlock(t)

Next ==
  \/ \E r \in Requests : Arrive(r) \/ RequestStep(r)
  \/ \E op \in ManagerCalls : ManagerCall(op)
  \/ \E t \in Threads : LoaderStep(t)

Spec == Init /\ [][Next]_vars

\* Every thread that is inside the instance's code keeps running; inferences
\* and loads end.  Nothing makes a client or the manager call again.
Fairness ==
  /\ \A r \in Requests : WF_vars(RequestStep(r))
  /\ \A t \in Threads : WF_vars(LoaderStep(t))

FairSpec == Spec /\ Fairness

-----------------------------------------------------------------------------
(***************************************************************************)
(* Safety.                                                                 *)
(***************************************************************************)

\* The requests that have an unload guard.
Guarded == {r \in Requests : pc[r] \in {"entered", "leave", "validate", "infer"}}

\* The counter that loaders poll is the number of guards: no early return
\* leaks one or drops one twice.
HandlesCounted == handles = Cardinality(Guarded)

\* The requests that passed the status check and use the components.
Using == {r \in Requests : pc[r] \in {"validate", "infer"}}

\* A request that validates or infers has a loaded model whose infer requests
\* fit the inputs it is validated against, and it infers on its own batch size:
\* no reload or unload slips between the status check and the inference.
UsesLoadedModel ==
  \A r \in Using :
    /\ queue # None /\ inputsInfo = queue /\ network = queue
    /\ pc[r] = "infer" => queue = batch[r]

\* AVAILABLE is never shown for a model that is half loaded, although a failed
\* reload leaves the components of two attempts behind.
AvailableIsLoaded ==
  state = "AVAILABLE" => queue # None /\ inputsInfo = queue /\ network = queue

\* No loader touches a component while a request uses it.
InUseUnchanged == [][Using # {} => UNCHANGED components]_vars

(***************************************************************************)
(* Why it is safe: the inductive invariant, in named parts.                *)
(***************************************************************************)

\* loadingMutex is held exactly from Lock to GuardReloaded or Unlock.
MutexHeld == \A t \in Threads : pc[t] \in LoaderPCs \ {"lock"} <=> loadingMutex = t

\* Which thread runs which operation.
CallsMatch ==
  /\ pc[Manager] \in LoaderPCs \cup {"out"}
  /\ pc[Manager] \in LoaderPCs => call[Manager] \in ManagerCalls
  /\ \A r \in Requests : pc[r] \in LoaderPCs => call[r] \in RequestCalls
  /\ \A r \in Requests : pc[r] = "lock" => call[r] = "reshape"
  /\ \A t \in Threads : pc[t] = "guard" => call[t] \in {"reshape", "full"}
  /\ deployed = "absent" => pc[Manager] = "out"

\* From the announcement to setAvailable the status is not AVAILABLE ...
Announced ==
  \A t \in Threads :
    pc[t] \in {"drainLoad", "drainUnload", "drainSwap", "load", "compile", "publish",
              "unload", "swap", "end", "failed"} => state # "AVAILABLE"

\* ... so that after the drain nobody uses the components.
Drained ==
  \A t \in Threads :
    pc[t] \in {"load", "compile", "publish", "unload", "swap"} => Using = {}

\* Before loadModel has the mutex no request gets past waitForLoaded.
NotYetLoaded ==
  deployed = "absent" \/ (pc[Manager] = "lock" /\ call[Manager] = "load") =>
    /\ state # "AVAILABLE"
    /\ \A r \in Requests : pc[r] \in {"out", "entered", "leave", "recheck", "loop"}

\* How far a load got, and for which batch size.
LoadProgress ==
  \A t \in Threads :
    /\ pc[t] \in {"compile", "publish", "guard"} => network # None /\ inputsInfo = network
    /\ pc[t] \in {"publish", "guard"} => queue = network
    /\ pc[t] \in {"compile", "publish", "guard"} /\ call[t] \in {"reshape", "full"}
         => network = batch[t]

IInv ==
  /\ TypeOK
  /\ MutexHeld
  /\ CallsMatch
  /\ HandlesCounted
  /\ Announced
  /\ Drained
  /\ NotYetLoaded
  /\ LoadProgress
  /\ AvailableIsLoaded
  /\ UsesLoadedModel

(***************************************************************************)
(* Liveness: what happens once clients and manager stop calling.           *)
(***************************************************************************)

CallsStop ==
  <>[][~ (\E r \in Requests : Arrive(r)) /\ ~ (\E op \in ManagerCalls : ManagerCall(op))]_vars

\* Every request is answered and every manager operation returns: draining
\* loaders, threads that wait for the mutex and waiting requests never block
\* one another for good.
AllCallsReturn == CallsStop => <>[](\A t \in Threads : pc[t] = "out")
=============================================================================
