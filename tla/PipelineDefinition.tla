------------------------- MODULE PipelineDefinition -------------------------
(***************************************************************************)
(* A pipeline definition: its status machine                               *)
(* (src/src/pipelinedefinitionstatus.hpp), its life in the PipelineFactory *)
(* and its subscriptions to the models it uses                             *)
(* (src/src/pipelinedefinition.cpp, pipeline_factory.cpp,                  *)
(* modelchangesubscription.cpp).                                           *)
(*                                                                         *)
(* The manager, under configMtx, creates, reloads, retires and revalidates *)
(* the definition and changes the models.  Requests build pipelines from   *)
(* it, each protected by an unload guard while it reads the definition.    *)
(* Requests sent to a model with dynamic parameters reload that model in   *)
(* their own thread and notify the definition from there.                  *)
(*                                                                         *)
(* A definition is the set of models behind its inputs, the set behind its *)
(* outputs and whether its graph is sound (module PipelineValidation).     *)
(* What a validation finds out about a model is its kind; what it copies   *)
(* from it (tensor shapes and precisions) is the model's generation.       *)
(***************************************************************************)
EXTENDS Integers, FiniteSets

CONSTANTS Requests,         \* threads that each ask for one pipeline
          Models,           \* the models pipelines may name
          Graphs,           \* definitions: [inputs, outputs, sound]
          InitialKinds,     \* what the models may be like at the start
          WaitCheckpoints,  \* how often waitForLoaded looks at the status
          Budget            \* bound on changes of configuration and of models

\* absent: the model or the version is not registered; dynamic: its batch size or
\* shape is auto; unfit: not loaded, stateful or not fitting into the graph.
Kinds == {"absent", "fit", "unfit", "dynamic"}

ASSUME RequestsAssumption == IsFiniteSet(Requests)
ASSUME GraphsAssumption ==
  Graphs \subseteq [inputs : SUBSET Models, outputs : SUBSET Models, sound : BOOLEAN]
ASSUME KindsAssumption == InitialKinds \subseteq [Models -> Kinds]
ASSUME BoundsAssumption == WaitCheckpoints \in Nat \ {0} /\ Budget \in Nat

VARIABLES
  exists,          \* the definition is in PipelineFactory::definitions
  nameOccupied,    \* a model has the pipeline's name
  code,            \* PipelineDefinitionStatus::currentState
  nodeInfos, connections, inputsInfo, outputsInfo,
  subscriptions,   \* the models the definition has subscribed to
  handles,         \* requestsHandlesCounter
  kind, gen,       \* the models
  subscribers,     \* the models whose subscription manager names the definition
  mpc, call, incoming,  \* the manager: its place, its call, the new definition
  refused,         \* an event raised by the manager was an invalid transition
  passed,          \* history: the definitions that have passed a validation
  pc, left, built, \* the requests: place, checkpoints left, what create has read so far
  budget

definition == <<exists, code, nodeInfos, connections, inputsInfo, outputsInfo, subscriptions>>
models == <<nameOccupied, kind, gen, subscribers>>
manager == <<mpc, call, incoming, refused, passed>>
requests == <<pc, left, built, handles>>
vars == <<definition, models, manager, requests, budget>>

NoNodes == [inputs |-> {}, outputs |-> {}, sound |-> FALSE]
NoPipeline == [nodes |-> NoNodes, connections |-> NoNodes]
ModelsOf(g) == g.inputs \cup g.outputs

(***************************************************************************)
(* The status machine: what each state makes of each event.  An event that *)
(* a state does not list throws std::logic_error and changes nothing.      *)
(***************************************************************************)
BeginState == [ValidationPassed |-> "AVAILABLE", ValidationFailed |-> "FAILED"]

ReloadState == [ValidationPassed |-> "AVAILABLE", ValidationFailed |-> "FAILED"]

\* Mutant: an available definition does not mind that a model has changed.
AvailableStays ==
  [Reload |-> "RELOADING", UsedModelChanged |-> "AVAILABLE", Retire |-> "RETIRED"]

AvailableState ==
  [Reload |-> "RELOADING", UsedModelChanged |-> "AVAILABLE_REVALIDATE", Retire |-> "RETIRED"]

\* Mutant: a validation that passes leaves the definition marked.
RevalidationNotCleared ==
  [Reload |-> "RELOADING", ValidationPassed |-> "AVAILABLE_REVALIDATE",
   ValidationFailed |-> "FAILED", UsedModelChanged |-> "AVAILABLE_REVALIDATE",
   Retire |-> "RETIRED"]

AvailableRequiredRevalidation ==
  [Reload |-> "RELOADING", ValidationPassed |-> "AVAILABLE", ValidationFailed |-> "FAILED",
   UsedModelChanged |-> "AVAILABLE_REVALIDATE", Retire |-> "RETIRED"]

\* Mutant: a definition that has failed is not told of its models.
FailedRefusesChange == [Reload |-> "RELOADING", Retire |-> "RETIRED"]

LoadingPreconditionFailedState ==
  [Reload |-> "RELOADING", UsedModelChanged |-> "FAILED_REVALIDATE", Retire |-> "RETIRED"]

LoadingFailedLastValidationRequiredRevalidation ==
  [Reload |-> "RELOADING", ValidationPassed |-> "AVAILABLE", ValidationFailed |-> "FAILED",
   UsedModelChanged |-> "FAILED_REVALIDATE", Retire |-> "RETIRED"]

RetiredState == [Reload |-> "RELOADING"]

\* FAILED is LOADING_PRECONDITION_FAILED; _REVALIDATE is _REQUIRED_REVALIDATION.
StateMachine ==
  [BEGIN |-> BeginState, RELOADING |-> ReloadState, AVAILABLE |-> AvailableState,
   AVAILABLE_REVALIDATE |-> AvailableRequiredRevalidation,
   FAILED |-> LoadingPreconditionFailedState,
   FAILED_REVALIDATE |-> LoadingFailedLastValidationRequiredRevalidation,
   RETIRED |-> RetiredState]

Accepts(event) == event \in DOMAIN StateMachine[code]
Handle(event) == code' = IF Accepts(event) THEN StateMachine[code][event] ELSE code

\* An event of the manager: a logic_error would end the manager's thread, and in
\* the notifier's destructor the process.
ManagerHandles(event) == Handle(event) /\ refused' = (refused \/ ~ Accepts(event))

IsAvailable == code \in {"AVAILABLE", "AVAILABLE_REVALIDATE"}
CanEndLoaded == IsAvailable \/ code \in {"FAILED_REVALIDATE", "BEGIN", "RELOADING"}
IsRevalidationRequired == code \in {"FAILED_REVALIDATE", "AVAILABLE_REVALIDATE"}

-----------------------------------------------------------------------------
Infos == SUBSET (Models \X (0 .. Budget))
ManagerPCs == {"idle", "subscribe", "nodes", "inputs", "passed", "failed",
               "reload", "reset", "drain", "replace", "retire", "clear"}
RequestPCs == {"start", "look", "unguard", "wait", "reguard", "timeout", "nodes", "connect",
               "leave", "built", "refused"}

TypeOK ==
  /\ exists \in BOOLEAN /\ nameOccupied \in BOOLEAN
  /\ code \in DOMAIN StateMachine
  /\ nodeInfos \in Graphs \cup {NoNodes} /\ connections \in Graphs \cup {NoNodes}
  /\ inputsInfo \in Infos /\ outputsInfo \in Infos
  /\ subscriptions \subseteq Models /\ subscribers \subseteq Models
  /\ handles \in 0 .. Cardinality(Requests)
  /\ kind \in [Models -> Kinds] /\ gen \in [Models -> 0 .. Budget]
  /\ mpc \in ManagerPCs /\ call \in {"none", "create", "reload", "revalidate", "retire"}
  /\ incoming \in Graphs \cup {NoNodes}
  /\ refused \in BOOLEAN /\ passed \subseteq Graphs
  /\ pc \in [Requests -> RequestPCs] /\ left \in [Requests -> 0 .. WaitCheckpoints]
  /\ built \in [Requests -> [nodes : Graphs \cup {NoNodes}, connections : Graphs \cup {NoNodes}]]
  /\ budget \in 0 .. Budget

Init ==
  /\ exists = FALSE /\ nameOccupied = FALSE /\ code = "BEGIN"
  /\ nodeInfos = NoNodes /\ connections = NoNodes
  /\ inputsInfo = {} /\ outputsInfo = {} /\ subscriptions = {} /\ subscribers = {}
  /\ kind \in InitialKinds
  /\ gen = [m \in Models |-> 0]
  /\ mpc = "idle" /\ call = "none" /\ incoming = NoNodes /\ refused = FALSE /\ passed = {}
  /\ pc = [r \in Requests |-> "start"] /\ left = [r \in Requests |-> WaitCheckpoints]
  /\ built = [r \in Requests |-> NoPipeline] /\ handles = 0
  /\ budget = Budget

(***************************************************************************)
(* The manager: createDefinition, reload, validate and retire.             *)
(***************************************************************************)
Return == mpc' = "idle" /\ call' = "none" /\ incoming' = NoNodes
GoOn(l) == mpc' = l /\ UNCHANGED <<call, incoming>>

Spend == budget > 0 /\ budget' = budget - 1

\* createDefinition: the new object; requests cannot find it yet.
CreateDefinition(g) ==
  /\ mpc = "idle" /\ ~ exists /\ Spend
  /\ code' = "BEGIN" /\ nodeInfos' = g /\ connections' = g
  /\ inputsInfo' = {} /\ outputsInfo' = {} /\ subscriptions' = {}
  /\ mpc' = "subscribe" /\ call' = "create" /\ incoming' = g
  /\ UNCHANGED <<exists, models, refused, passed, requests>>

\* reload: no new unload guard leads to a use of the definition from here on.
ReloadDefinition(g) ==
  /\ mpc = "idle" /\ exists /\ Spend
  /\ ManagerHandles("Reload")
  /\ mpc' = "reset" /\ call' = "reload" /\ incoming' = g
  /\ UNCHANGED <<exists, nodeInfos, connections, inputsInfo, outputsInfo, subscriptions, models,
                 passed, requests>>

\* processPipelineConfig reloads a definition it has just created.
ReloadCreated ==
  /\ mpc = "reload"
  /\ ManagerHandles("Reload")
  /\ mpc' = "reset" /\ call' = "reload"
  /\ UNCHANGED <<exists, nodeInfos, connections, inputsInfo, outputsInfo, subscriptions, models,
                 incoming, passed, requests, budget>>

\* retireOtherThan: the definition is not in the configuration file any more.
RetireDefinition ==
  /\ mpc = "idle" /\ exists /\ code # "RETIRED" /\ Spend
  /\ mpc' = "reset" /\ call' = "retire"
  /\ UNCHANGED <<definition, models, incoming, refused, passed, requests>>

\* revalidatePipelines.
Revalidate ==
  /\ mpc = "idle" /\ exists /\ IsRevalidationRequired
  /\ mpc' = "nodes" /\ call' = "revalidate"
  /\ UNCHANGED <<definition, models, incoming, refused, passed, requests, budget>>

\* resetSubscriptions, with unsubscribe of every model.
ResetSubscriptions ==
  /\ mpc = "reset"
  /\ refused' = (refused \/ ~ subscriptions \subseteq subscribers)
  /\ subscribers' = subscribers \ subscriptions /\ subscriptions' = {}
  /\ CASE call = "retire" -> GoOn("retire")
       [] call = "reload" -> GoOn("drain")
       [] call = "create" -> Return
  /\ UNCHANGED <<exists, code, nodeInfos, connections, inputsInfo, outputsInfo, nameOccupied, kind,
                 gen, passed, requests, budget>>

HandleRetire ==
  /\ mpc = "retire"
  /\ ManagerHandles("Retire")
  /\ mpc' = "drain"
  /\ UNCHANGED <<exists, nodeInfos, connections, inputsInfo, outputsInfo, subscriptions, models,
                 call, incoming, passed, requests, budget>>

\* Mutant: the definition is replaced although requests read it.
DrainDoesNotWait ==
  /\ mpc = "drain"
  /\ mpc' = IF call = "retire" THEN "clear" ELSE "replace"
  /\ UNCHANGED <<definition, models, call, incoming, refused, passed, requests, budget>>

\* The loop that waits until no unload guard is left.
Drain ==
  /\ mpc = "drain" /\ handles = 0
  /\ mpc' = IF call = "retire" THEN "clear" ELSE "replace"
  /\ UNCHANGED <<definition, models, call, incoming, refused, passed, requests, budget>>

Clear ==
  /\ mpc = "clear"
  /\ nodeInfos' = NoNodes /\ connections' = NoNodes
  /\ Return
  /\ UNCHANGED <<exists, code, inputsInfo, outputsInfo, subscriptions, models, refused, passed, requests, budget>>

Replace ==
  /\ mpc = "replace"
  /\ nodeInfos' = incoming /\ connections' = incoming
  /\ mpc' = "subscribe"
  /\ UNCHANGED <<exists, code, inputsInfo, outputsInfo, subscriptions, models, call, incoming,
                 refused, passed, requests, budget>>

\* makeSubscriptions: a model that is missing is passed over.
MakeSubscriptions ==
  /\ mpc = "subscribe"
  /\ LET present == {m \in ModelsOf(nodeInfos) \ subscriptions : kind[m] # "absent"}
     IN  /\ refused' = (refused \/ present \cap subscribers # {})
         /\ subscriptions' = subscriptions \cup present
         /\ subscribers' = subscribers \cup present
  /\ mpc' = "nodes"
  /\ UNCHANGED <<exists, code, nodeInfos, connections, inputsInfo, outputsInfo, nameOccupied, kind,
                 gen, call, incoming, passed, requests, budget>>

\* validate: the name, the nodes and the order of the graph.
Valid(g) == g.sound /\ \A m \in ModelsOf(g) : kind[m] = "fit"

ValidateNodes ==
  /\ mpc = "nodes"
  /\ mpc' = IF ~ nameOccupied /\ Valid(nodeInfos) THEN "inputs" ELSE "failed"
  /\ UNCHANGED <<definition, models, call, incoming, refused, passed, requests, budget>>

\* updateInputsInfo and updateOutputsInfo under metadataMtx.
Metadata(ms) == {<<m, gen[m]>> : m \in ms}

UpdateInputsInfo ==
  /\ mpc = "inputs"
  /\ inputsInfo' = Metadata(nodeInfos.inputs)
  /\ outputsInfo' = Metadata(nodeInfos.outputs)
  /\ mpc' = "passed"
  /\ UNCHANGED <<exists, code, nodeInfos, connections, subscriptions, models, call, incoming,
                 refused, passed, requests, budget>>

\* ~ValidationResultNotifier.  Afterwards createDefinition inserts its object and
\* processPipelineConfig goes on to reload it.
ValidationPasses ==
  /\ mpc = "passed"
  /\ ManagerHandles("ValidationPassed")
  /\ passed' = passed \cup {nodeInfos}
  /\ exists' = TRUE
  /\ IF call = "create" THEN GoOn("reload") ELSE Return
  /\ UNCHANGED <<nodeInfos, connections, inputsInfo, outputsInfo, subscriptions, models, requests,
                 budget>>

\* A definition whose name is occupied is dropped with its subscriptions; any other
\* that fails is kept.
ValidationFails ==
  /\ mpc = "failed"
  /\ ManagerHandles("ValidationFailed")
  /\ IF call = "create" /\ nameOccupied THEN GoOn("reset") /\ UNCHANGED exists
                                        ELSE Return /\ exists' = TRUE
  /\ UNCHANGED <<nodeInfos, connections, inputsInfo, outputsInfo, subscriptions, models, passed,
                 requests, budget>>

(***************************************************************************)
(* The models.                                                             *)
(***************************************************************************)

\* reloadModelWithVersions refuses dynamic parameters and stateful models while a
\* pipeline is subscribed.
MayBecome(m, k) == k # "absent" /\ (k = "dynamic" => m \notin subscribers)

\* The manager loads, reloads or retires a model and notifies its subscribers.
ManagerChangesModel(m, k) ==
  /\ mpc = "idle" /\ Spend /\ MayBecome(m, k)
  /\ kind' = [kind EXCEPT ![m] = k] /\ gen' = [gen EXCEPT ![m] = Budget - budget + 1]
  /\ IF m \in subscribers THEN ManagerHandles("UsedModelChanged") ELSE UNCHANGED <<code, refused>>
  /\ UNCHANGED <<exists, nodeInfos, connections, inputsInfo, outputsInfo, subscriptions,
                 nameOccupied, subscribers, mpc, call, incoming, passed, requests>>

\* A model of the pipeline's name is loaded: loadModelsConfig refuses that while
\* the definition exists.
NameBecomesOccupied ==
  /\ mpc = "idle" /\ ~ exists /\ ~ nameOccupied /\ Spend
  /\ nameOccupied' = TRUE
  /\ UNCHANGED <<definition, kind, gen, subscribers, manager, requests>>

\* A request reloads a model with dynamic parameters, whatever the manager does.
\* When the definition refuses the event the reload ends there, with the exception.
RequestChangesModel(m) ==
  /\ kind[m] = "dynamic" /\ Spend
  /\ IF m \in subscribers /\ ~ Accepts("UsedModelChanged")
       THEN kind' = [kind EXCEPT ![m] = "unfit"] /\ UNCHANGED <<gen, code>>
       ELSE /\ gen' = [gen EXCEPT ![m] = Budget - budget + 1] /\ UNCHANGED kind
            /\ IF m \in subscribers THEN Handle("UsedModelChanged") ELSE UNCHANGED code
  /\ UNCHANGED <<exists, nodeInfos, connections, inputsInfo, outputsInfo, subscriptions,
                 nameOccupied, subscribers, manager, requests>>

(***************************************************************************)
(* A request: PipelineFactory::create and waitForLoaded.                   *)
(***************************************************************************)
Step(r, from, to) == pc[r] = from /\ pc' = [pc EXCEPT ![r] = to]
RequestLeaves == <<definition, models, manager, budget>>

Create(r) ==
  /\ Step(r, "start", IF exists THEN "look" ELSE "refused")
  /\ handles' = IF exists THEN handles + 1 ELSE handles
  /\ UNCHANGED <<left, built, RequestLeaves>>

\* One round of the loop, with the guard held.
Look(r) ==
  /\ left[r] > 0
  /\ left' = [left EXCEPT ![r] = @ - 1]
  /\ Step(r, "look", IF IsAvailable THEN "nodes" ELSE "unguard")
  /\ UNCHANGED <<handles, built, RequestLeaves>>

\* unloadGuard.reset() and the check whether waiting makes sense.
Unguard(r) ==
  /\ Step(r, "unguard", "wait")
  /\ handles' = handles - 1
  /\ UNCHANGED <<left, built, RequestLeaves>>

DecideToWait(r) ==
  /\ Step(r, "wait", IF CanEndLoaded THEN "reguard" ELSE "refused")
  /\ UNCHANGED <<handles, left, built, RequestLeaves>>

\* wait_for returns, notified or not, and the guard is taken again.
Reguard(r) ==
  /\ Step(r, "reguard", IF left[r] > 0 THEN "look" ELSE "timeout")
  /\ handles' = handles + 1
  /\ UNCHANGED <<left, built, RequestLeaves>>

\* The last look, after the loop; on an error create returns and drops the guard.
LookLast(r) ==
  /\ Step(r, "timeout", IF IsAvailable THEN "nodes" ELSE "refused")
  /\ handles' = IF IsAvailable THEN handles ELSE handles - 1
  /\ UNCHANGED <<left, built, RequestLeaves>>

\* create builds the nodes, each from its node info ...
BuildNodes(r) ==
  /\ Step(r, "nodes", "connect")
  /\ built' = [built EXCEPT ![r].nodes = nodeInfos]
  /\ UNCHANGED <<handles, left, RequestLeaves>>

\* ... and connects them.
Connect(r) ==
  /\ Step(r, "connect", "leave")
  /\ built' = [built EXCEPT ![r].connections = connections]
  /\ UNCHANGED <<handles, left, RequestLeaves>>

\* Mutant: the guard outlives the call.
LeaveKeepsGuard(r) ==
  /\ Step(r, "leave", "built")
  /\ built' = [built EXCEPT ![r] = NoPipeline] /\ left' = [left EXCEPT ![r] = WaitCheckpoints]
  /\ UNCHANGED <<handles, RequestLeaves>>

\* The pipeline is the caller's, the guard is dropped.
Leave(r) ==
  /\ Step(r, "leave", "built")
  /\ handles' = handles - 1
  /\ built' = [built EXCEPT ![r] = NoPipeline] /\ left' = [left EXCEPT ![r] = WaitCheckpoints]
  /\ UNCHANGED RequestLeaves

-----------------------------------------------------------------------------
ManagerStep ==
  \/ ReloadCreated \/ ResetSubscriptions \/ HandleRetire \/ Drain \/ Clear \/ Replace
  \/ MakeSubscriptions \/ ValidateNodes \/ UpdateInputsInfo \/ ValidationPasses \/ ValidationFails

RequestStep(r) ==
  \/ Create(r) \/ Look(r) \/ Unguard(r) \/ DecideToWait(r) \/ Reguard(r) \/ LookLast(r)
  \/ BuildNodes(r) \/ Connect(r) \/ Leave(r)

ConfigurationChange ==
  \/ \E g \in Graphs : CreateDefinition(g) \/ ReloadDefinition(g)
  \/ RetireDefinition \/ NameBecomesOccupied
  \/ \E m \in Models, k \in Kinds : ManagerChangesModel(m, k)

Next ==
  \/ ConfigurationChange \/ Revalidate \/ ManagerStep
  \/ \E m \in Models : RequestChangesModel(m)
  \/ \E r \in Requests : RequestStep(r)

Spec == Init /\ [][Next]_vars

\* The watcher wakes up for ever, its calls and the requests go on.  Changes of the
\* configuration and of the models need not happen.
FairSpec ==
  /\ Spec
  /\ WF_vars(Revalidate) /\ WF_vars(ManagerStep)
  /\ \A r \in Requests : WF_vars(RequestStep(r))

-----------------------------------------------------------------------------
(***************************************************************************)
(* Safety.                                                                 *)
(***************************************************************************)
Guarded == {"look", "unguard", "timeout", "nodes", "connect", "leave"}
Reading == {"nodes", "connect", "leave"}

\* The unload guards are counted: what reload and retire wait for.
HandlesCounted == handles = Cardinality({r \in Requests : pc[r] \in Guarded})

\* A request that reads the definition keeps it from being replaced or cleared: the
\* manager has drained the guards, and the status lets no new one get that far.
ReadersExcludeReload ==
  \A r \in Requests : pc[r] \in Reading =>
    /\ mpc \notin {"clear", "replace", "subscribe"}
    /\ nodeInfos \in passed
    /\ pc[r] # "nodes" => built[r].nodes = nodeInfos
    /\ pc[r] = "leave" => built[r].connections = connections

\* Only a definition that exists is guarded; only one that has passed is available.
AvailableHasPassed ==
  /\ \A r \in Requests : pc[r] \in Guarded \cup {"wait", "reguard"} => exists
  /\ IsAvailable => exists /\ nodeInfos \in passed
  /\ connections = nodeInfos

\* Where the manager is, and in which call, determines the status but for the events
\* of requests.
CodeMatchesCall ==
  /\ mpc \in {"nodes", "inputs", "passed", "failed", "subscribe"} =>
       \/ call = "create" /\ ~ exists /\ code = "BEGIN"
       \/ call = "reload" /\ exists /\ code = "RELOADING"
       \/ call = "revalidate" /\ exists /\ IsRevalidationRequired /\ mpc # "subscribe"
  /\ mpc = "reset" =>
       \/ call = "create" /\ ~ exists /\ code \in {"FAILED", "FAILED_REVALIDATE"}
       \/ call = "reload" /\ exists /\ code = "RELOADING"
       \/ call = "retire" /\ exists /\ code \notin {"BEGIN", "RELOADING", "RETIRED"}
  /\ mpc = "reload" => call = "create" /\ exists /\ IsAvailable
  /\ mpc = "retire" => call = "retire" /\ exists /\ code \notin {"BEGIN", "RELOADING", "RETIRED"}
  /\ mpc \in {"drain", "replace", "clear"} =>
       /\ exists
       /\ \/ call = "reload" /\ code = "RELOADING" /\ mpc # "clear"
          \/ call = "retire" /\ code = "RETIRED" /\ mpc # "replace"
  /\ mpc = "idle" => code # "RELOADING" /\ (exists => code # "BEGIN")

\* A definition is subscribed where it says, and nowhere once it is retired or when
\* it is replaced.
SubscriptionsAgree ==
  /\ subscriptions = subscribers
  /\ (mpc = "idle" /\ ~ exists) \/ code = "RETIRED" => subscriptions = {}
  /\ mpc \in {"retire", "drain", "replace", "clear", "subscribe"} => subscriptions = {}

\* What validation has found out stays true until its result is published: requests
\* only change models that are not fit.
FindingsStand ==
  /\ nameOccupied => ~ exists
  /\ mpc \in {"inputs", "passed"} => ~ nameOccupied /\ Valid(nodeInfos)
  /\ mpc = "passed" =>
       inputsInfo = Metadata(nodeInfos.inputs) /\ outputsInfo = Metadata(nodeInfos.outputs)
  /\ mpc = "failed" => nameOccupied \/ ~ Valid(nodeInfos)

\* The manager never raises an event its definition refuses, and never subscribes
\* twice or unsubscribes without a subscription: each would throw through the
\* watcher, or through the destructor of ValidationResultNotifier.  (A request that
\* reloads a dynamic model named by a pipeline can be refused.)
ManagerNeverRefused == ~ refused

\* What create builds is one definition, nodes and connections, and one that has
\* passed validation, however reloads and retirements interleave with it.
BuiltFromOneDefinition ==
  \A r \in Requests : pc[r] = "leave" =>
    built[r].nodes = built[r].connections /\ built[r].nodes \in passed

\* Between two calls of the manager the verdict on a definition that needs no
\* revalidation is right: it is available exactly if it is valid for the models as
\* they are now, and then its metadata are those of the models.  A definition that
\* named a missing model has no subscription to it and may have been overtaken.
VerdictCurrent ==
  mpc = "idle" /\ exists /\ code \in {"AVAILABLE", "FAILED"}
    /\ ModelsOf(nodeInfos) \subseteq subscriptions
  => /\ code = "AVAILABLE" <=> Valid(nodeInfos)
     /\ code = "AVAILABLE" =>
          inputsInfo = Metadata(nodeInfos.inputs) /\ outputsInfo = Metadata(nodeInfos.outputs)

IInv ==
  /\ TypeOK /\ HandlesCounted /\ AvailableHasPassed /\ ReadersExcludeReload
  /\ CodeMatchesCall /\ SubscriptionsAgree /\ FindingsStand
  /\ ManagerNeverRefused /\ VerdictCurrent

(***************************************************************************)
(* Liveness.                                                               *)
(***************************************************************************)

\* Requests end and so do the manager's calls: the loops of reload and retire that
\* wait for unload guards never wait for a request that waits for them.
EveryCallReturns ==
  /\ \A r \in Requests : <>(pc[r] \in {"built", "refused"})
  /\ mpc # "idle" ~> mpc = "idle"

\* A definition whose model has changed is validated again.
NotifiedIsRevalidated == exists /\ IsRevalidationRequired ~> ~ IsRevalidationRequired
=============================================================================
