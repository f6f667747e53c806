---------------------------- MODULE ModelVersions ----------------------------
(***************************************************************************)
(* The versions of one model: Model (src/src/model.cpp) and the part of    *)
(* ModelManager that brings them in line with the configuration and with   *)
(* the directories of the model (reloadModelWithVersions and               *)
(* getVersionsToChange in src/src/modelmanager.cpp).                       *)
(*                                                                         *)
(* One manager thread at a time is in this code (it holds configMtx).      *)
(* Around it the directories and the configuration change, and requests    *)
(* that need another batch size reload a version under its loadingMutex    *)
(* (module ModelInstance): each has decided to do so while the version was *)
(* AVAILABLE and takes the mutex some time later.                          *)
(*                                                                         *)
(* A version's load fails when its directory does not hold a valid model.  *)
(* A call that is refused before it lists the directories (a dynamic       *)
(* parameter on a stateful or subscribed model, a changed stateful flag)   *)
(* changes nothing here.                                                   *)
(***************************************************************************)
EXTENDS Integers, FiniteSets, Sequences, FiniteSetsExt, SequencesExt

CONSTANTS Versions,       \* version numbers
          DirOrder,       \* the order in which a listing names their directories
          Configs,        \* configurations: [policy, options, loader]
          Blacklistable,  \* versions a custom loader may blacklist
          NoConfig,       \* the model is not in the configuration
          DynamicOptions  \* the options that let requests reload a version

ASSUME VersionsAssumption == Versions \subseteq Nat \ {0} /\ IsFiniteSet(Versions)
ASSUME OrderAssumption ==
  DirOrder \in Seq(Versions) /\ IsInjective(DirOrder) /\ ToSet(DirOrder) = Versions
ASSUME ConfigsAssumption ==
  /\ NoConfig \notin Configs
  /\ \A c \in Configs : /\ c.loader \in {"none", "found", "missing"}
                        /\ c.policy.kind \in {"all", "specific", "latest"}

VARIABLES
  dirs,            \* what the model's directory holds for each version
  served,          \* the configuration in servedModelConfigs
  blacklist,       \* versions the custom loader has blacklisted
  status,          \* each version's status, "none" when it is not in modelVersions
  conf,            \* the options each version was last loaded with
  defaultVersion,
  pending,         \* versions some request is about to reload
  busy,            \* versions whose loadingMutex a request holds
  pc, todo,        \* where the manager is, and the versions left in its loop
  toReload,        \* versionsToReload
  toCleanup,       \* versionsToCleanup
  available,       \* availableVersions
  failed,          \* versionsFailed
  allFailed,       \* allFailedVersions
  reshaped         \* history: some request has reloaded a version

environment == <<dirs, blacklist>>
requests == <<pending, busy, reshaped>>
lists == <<toReload, toCleanup, available, failed, allFailed>>
vars == <<environment, served, status, conf, defaultVersion, requests, pc, todo, lists>>

Options == {c.options : c \in Configs}
NoOptions == 0
None == 0

Registered == {v \in Versions : status[v] # "none"}
Available == {v \in Versions : status[v] = "AVAILABLE"}
WillEndUnloaded(v) == status[v] \in {"UNLOADING", "END"}

\* The version the manager works on: its loops go through sorted lists.
Current == Min(todo)

\* The steps during which the manager holds the loadingMutex of Current.
Loading == {"adding", "reloading", "ending", "endingAll"}
ManagerHolds(v) == pc \in Loading /\ v = Current
PCs == Loading \cup
       {"idle", "add", "added", "reload", "reloaded", "retire", "retiring", "cleanup",
        "cleaning", "retireAll", "retiredAll", "cleanupAll", "cleanedAll"}

\* FAILED stands for LOADING with error code UNKNOWN (isFailedLoading).
TypeOK ==
  /\ dirs \in [Versions -> {"absent", "valid", "invalid"}]
  /\ served \in Configs \cup {NoConfig}
  /\ blacklist \subseteq Versions
  /\ status \in [Versions -> {"none", "LOADING", "FAILED", "AVAILABLE", "UNLOADING", "END"}]
  /\ conf \in [Versions -> Options \cup {NoOptions}]
  /\ defaultVersion \in Versions \cup {None}
  /\ pending \subseteq Versions /\ busy \subseteq pending
  /\ pc \in PCs
  /\ todo \subseteq Versions /\ toReload \subseteq Versions /\ toCleanup \subseteq Versions
  /\ available \subseteq Versions /\ failed \in Seq(Versions) /\ allFailed \subseteq Versions
  /\ reshaped \in BOOLEAN
  /\ pc \in Loading \cup {"added", "reloaded", "retiring", "cleaning", "retiredAll", "cleanedAll"}
       => todo # {}

Init ==
  /\ dirs \in [Versions -> {"absent", "valid", "invalid"}]
  /\ served = NoConfig
  /\ blacklist = {}
  /\ status = [v \in Versions |-> "none"]
  /\ conf = [v \in Versions |-> NoOptions]
  /\ defaultVersion = None
  /\ pending = {} /\ busy = {} /\ reshaped = FALSE
  /\ pc = "idle" /\ todo = {}
  /\ toReload = {} /\ toCleanup = {} /\ available = {} /\ failed = <<>> /\ allFailed = {}

(***************************************************************************)
(* Which versions to serve.                                                *)
(***************************************************************************)

\* ModelVersionPolicy::filter.
Filter(policy, vs) ==
  CASE policy.kind = "all" -> vs
    [] policy.kind = "specific" -> vs \cap policy.versions
    [] policy.kind = "latest" -> {v \in vs : Cardinality({w \in vs : w > v}) < policy.num}

\* The requested versions as getVersionsToChange sees them: without registered
\* versions that the custom loader has blacklisted.
Requested(c, vs) ==
  Filter(c.policy, vs)
    \ (IF c.loader = "found" THEN blacklist \cap Registered ELSE {})

VersionsToStart(c, vs) == Requested(c, vs) \ Registered

\* Mutant: a retired version that is requested again is forgotten.
ReloadForgetsRetired(c, vs) ==
  {v \in Requested(c, vs) \cap Registered : status[v] = "FAILED" \/ conf[v] # c.options}

\* Mutant: a load that failed is not tried again.
ReloadForgetsFailed(c, vs) ==
  {v \in Requested(c, vs) \cap Registered : WillEndUnloaded(v) \/ conf[v] # c.options}

VersionsToReload(c, vs) ==
  {v \in Requested(c, vs) \cap Registered :
     WillEndUnloaded(v) \/ status[v] = "FAILED" \/ conf[v] # c.options}

VersionsToRetire(c, vs) == {v \in Registered \ Requested(c, vs) : ~ WillEndUnloaded(v)}

\* std::binary_search: found only where a sorted list would have it.
BinarySearch(s, x) ==
  LET n == Len(s)
      LowerBound[first \in 1 .. n + 1, len \in 0 .. n] ==
        IF len = 0 THEN first
        ELSE LET half == len \div 2
             IN  IF s[first + half] < x
                   THEN LowerBound[first + half + 1, len - half - 1]
                   ELSE LowerBound[first, half]
      at == LowerBound[1, n]
  IN  at <= n /\ s[at] = x

\* availableVersions after the removal of the versions that failed.  It is in
\* the order of the listing, and a version that the search misses stays.
RemoveFailed(vs, fs) ==
  {v \in vs : v \in
     FoldLeft(LAMBDA left, f :
                IF BinarySearch(SelectSeq(DirOrder, LAMBDA w : w \in left), f)
                  THEN left \ {f} ELSE left,
              vs, fs)}

(***************************************************************************)
(* Model::updateDefaultVersion: the highest AVAILABLE version.             *)
(***************************************************************************)
Highest(vs) == IF vs = {} THEN None ELSE Max(vs)
UpdateDefaultVersion(ignored) == defaultVersion' = Highest(Available \ {ignored})

(***************************************************************************)
(* The manager: reloadModelWithVersions.                                   *)
(***************************************************************************)

\* The loop over versions goes on at pc l.  Lists that the call does not read any
\* more are emptied.
Goto(l, vs) == pc' = l /\ todo' = vs

\* versionsToStart first, then versionsToReload.
StartOrReload(start, reload) ==
  IF start # {} THEN Goto("add", start) /\ toReload' = reload
  ELSE Goto("reload", reload) /\ toReload' = {}

\* The call up to the first getVersionsToChange.  A custom loader that does not
\* exist ends it with retireAllVersions.
ReloadModelWithVersions(c) ==
  /\ pc = "idle"
  /\ served' = c
  /\ IF c.loader = "missing"
       THEN Goto("retireAll", Registered) /\ UNCHANGED <<available, toReload>>
       ELSE /\ available' = {v \in Versions : dirs[v] # "absent"}
            /\ StartOrReload(VersionsToStart(c, available'), VersionsToReload(c, available'))
  /\ UNCHANGED <<environment, status, conf, defaultVersion, requests, toCleanup, failed, allFailed>>

\* The configuration file names a new configuration, or the watcher looks at the
\* directories again.
ConfigChanges == \E c \in Configs : c # served /\ ReloadModelWithVersions(c)
WatcherCycle == served # NoConfig /\ ReloadModelWithVersions(served)

\* readAvailableVersions fails: the configuration is kept and nothing is done.
ReadAvailableVersionsFails ==
  /\ pc = "idle"
  /\ \E c \in Configs : c # served /\ served' = c
  /\ UNCHANGED <<environment, status, conf, defaultVersion, requests, pc, todo, lists>>

\* addVersion: the instance is visible from here on.
AddVersion ==
  /\ pc = "add" /\ todo # {}
  /\ status' = [status EXCEPT ![Current] = "LOADING"]
  /\ conf' = [conf EXCEPT ![Current] = served.options]
  /\ Goto("adding", todo)
  /\ UNCHANGED <<environment, served, defaultVersion, requests, lists>>

\* reloadModel of a version, once no request holds its mutex.
ReloadVersion ==
  /\ pc = "reload" /\ todo # {} /\ Current \notin busy
  /\ status' = [status EXCEPT ![Current] = "LOADING"]
  /\ conf' = [conf EXCEPT ![Current] = served.options]
  /\ Goto("reloading", todo)
  /\ UNCHANGED <<environment, served, defaultVersion, requests, lists>>

LoadSucceeds ==
  /\ pc \in {"adding", "reloading"} /\ dirs[Current] = "valid"
  /\ status' = [status EXCEPT ![Current] = "AVAILABLE"]
  /\ Goto(IF pc = "adding" THEN "added" ELSE "reloaded", todo)
  /\ UNCHANGED <<environment, served, conf, defaultVersion, requests, lists>>

\* Neither addVersions nor reloadVersions updates the default version then.
LoadFails ==
  /\ pc \in {"adding", "reloading"} /\ dirs[Current] # "valid"
  /\ status' = [status EXCEPT ![Current] = "FAILED"]
  /\ failed' = Append(failed, Current)
  /\ Goto(IF pc = "adding" THEN "add" ELSE "reload", todo \ {Current})
  /\ UNCHANGED <<environment, served, conf, defaultVersion, requests,
                 toReload, toCleanup, available, allFailed>>

DefaultAfterLoad ==
  /\ pc \in {"added", "reloaded"}
  /\ UpdateDefaultVersion(None)
  /\ Goto(IF pc = "added" THEN "add" ELSE "reload", todo \ {Current})
  /\ UNCHANGED <<environment, served, status, conf, requests, lists>>

\* The end of addModelVersions.  After a failure the policy chooses again among
\* the versions that are left, and what it chooses in addition is started;
\* addVersions clears versionsFailed when it starts.
VersionsAdded ==
  /\ pc = "add" /\ todo = {}
  /\ IF failed = <<>>
       THEN StartOrReload({}, toReload) /\ UNCHANGED <<available, failed, allFailed>>
       ELSE /\ available' = RemoveFailed(available, failed)
            /\ allFailed' = allFailed \cup ToSet(failed)
            /\ LET start == VersionsToStart(served, available')
               IN  /\ StartOrReload(start, VersionsToReload(served, available'))
                   /\ failed' = IF start # {} THEN <<>> ELSE failed
  /\ UNCHANGED <<environment, served, status, conf, defaultVersion, requests, toCleanup>>

\* After the reloads: failed versions are left out, what is not requested any
\* more is retired, or cleaned up if it failed.
VersionsReloaded ==
  /\ pc = "reload" /\ todo = {}
  /\ available' = RemoveFailed(available, failed)
  /\ allFailed' = allFailed \cup ToSet(failed)
  /\ LET retire == VersionsToRetire(served, available')
     IN  toCleanup' = retire \cap allFailed' /\ Goto("retire", retire \ allFailed')
  /\ failed' = <<>>
  /\ UNCHANGED <<environment, served, status, conf, defaultVersion, requests, toReload>>

\* Mutant: the version about to be retired may become the default version.
RetireIgnoresNone ==
  /\ pc = "retire" /\ todo # {}
  /\ UpdateDefaultVersion(None)
  /\ Goto("retiring", todo)
  /\ UNCHANGED <<environment, served, status, conf, requests, lists>>

\* retireVersions: the default version moves away first.
DefaultBeforeRetire ==
  /\ pc = "retire" /\ todo # {}
  /\ UpdateDefaultVersion(Current)
  /\ Goto("retiring", todo)
  /\ UNCHANGED <<environment, served, status, conf, requests, lists>>

RetireModel ==
  /\ \/ pc = "retiring" /\ Goto("ending", todo)
     \/ pc = "retireAll" /\ todo # {} /\ Goto("endingAll", todo)
  /\ Current \notin busy
  /\ status' = [status EXCEPT ![Current] = "UNLOADING"]
  /\ UNCHANGED <<environment, served, conf, defaultVersion, requests, lists>>

SetEnd ==
  /\ \/ pc = "ending" /\ Goto("retire", todo \ {Current})
     \/ pc = "endingAll" /\ Goto("retiredAll", todo)
  /\ status' = [status EXCEPT ![Current] = "END"]
  /\ UNCHANGED <<environment, served, conf, defaultVersion, requests, lists>>

VersionsRetired ==
  /\ pc = "retire" /\ todo = {}
  /\ Goto("cleanup", toCleanup)
  /\ toCleanup' = {} /\ available' = {} /\ allFailed' = {}
  /\ UNCHANGED <<environment, served, status, conf, defaultVersion, requests, toReload, failed>>

\* cleanupFailedLoad of the versions that failed.
DefaultBeforeCleanup ==
  /\ pc = "cleanup" /\ todo # {}
  /\ UpdateDefaultVersion(Current)
  /\ Goto("cleaning", todo)
  /\ UNCHANGED <<environment, served, status, conf, requests, lists>>

CleanupFailedLoad ==
  /\ \/ pc = "cleaning" /\ Goto("cleanup", todo \ {Current})
     \/ pc = "cleanupAll" /\ todo # {} /\ Goto("cleanedAll", todo)
  /\ Current \notin busy
  /\ status' = [status EXCEPT ![Current] = "FAILED"]
  /\ UNCHANGED <<environment, served, conf, defaultVersion, requests, lists>>

VersionsCleanedUp ==
  /\ pc = "cleanup" /\ todo = {}
  /\ Goto("idle", {})
  /\ UNCHANGED <<environment, served, status, conf, defaultVersion, requests, lists>>

(***************************************************************************)
(* The manager: retireAllVersions and cleanupAllVersions, for a model that *)
(* is no longer in the configuration or whose configuration is invalid.    *)
(***************************************************************************)
RemovedFromConfig ==
  /\ pc = "idle" /\ served # NoConfig
  /\ served' = NoConfig
  /\ Goto("retireAll", Registered)
  /\ UNCHANGED <<environment, status, conf, defaultVersion, requests, lists>>

InvalidConfig ==
  /\ pc = "idle" /\ served # NoConfig
  /\ served' = NoConfig
  /\ Goto("cleanupAll", Registered)
  /\ UNCHANGED <<environment, status, conf, defaultVersion, requests, lists>>

DefaultAfterAll ==
  /\ \/ pc = "retiredAll" /\ Goto("retireAll", todo \ {Current})
     \/ pc = "cleanedAll" /\ Goto("cleanupAll", todo \ {Current})
  /\ UpdateDefaultVersion(None)
  /\ UNCHANGED <<environment, served, status, conf, requests, lists>>

AllVersionsDone ==
  /\ pc \in {"retireAll", "cleanupAll"} /\ todo = {}
  /\ Goto("idle", {})
  /\ UNCHANGED <<environment, served, status, conf, defaultVersion, requests, lists>>

(***************************************************************************)
(* Requests that reload a version, as module ModelInstance describes them. *)
(***************************************************************************)
DecideToReload(v) ==
  /\ v \notin pending /\ status[v] = "AVAILABLE" /\ conf[v] \in DynamicOptions
  /\ pending' = pending \cup {v}
  /\ UNCHANGED <<environment, served, status, conf, defaultVersion, busy, reshaped, pc, todo, lists>>

RequestReloads(v) ==
  /\ v \in pending \ busy /\ ~ ManagerHolds(v)
  /\ busy' = busy \cup {v} /\ reshaped' = TRUE
  /\ status' = [status EXCEPT ![v] = "LOADING"]
  /\ UNCHANGED <<environment, served, conf, defaultVersion, pending, pc, todo, lists>>

\* The reload, or the recovery from it, succeeds or not.
RequestReloaded(v) ==
  /\ v \in busy
  /\ \E s \in {"AVAILABLE", "FAILED"} : status' = [status EXCEPT ![v] = s]
  /\ pending' = pending \ {v} /\ busy' = busy \ {v}
  /\ UNCHANGED <<environment, served, conf, defaultVersion, reshaped, pc, todo, lists>>

(***************************************************************************)
(* Directories and the custom loader's blacklist.                          *)
(***************************************************************************)
DirectoryChanges ==
  /\ \E v \in Versions, d \in {"absent", "valid", "invalid"} :
       d # dirs[v] /\ dirs' = [dirs EXCEPT ![v] = d]
  /\ UNCHANGED <<blacklist, served, status, conf, defaultVersion, requests, pc, todo, lists>>

BlacklistChanges ==
  /\ served # NoConfig /\ served.loader = "found"
  /\ \E v \in Registered \cap Blacklistable : blacklist' = (blacklist \cup {v}) \ (blacklist \cap {v})
  /\ UNCHANGED <<dirs, served, status, conf, defaultVersion, requests, pc, todo, lists>>

-----------------------------------------------------------------------------
ManagerStep ==
  \/ AddVersion \/ ReloadVersion \/ LoadSucceeds \/ LoadFails \/ DefaultAfterLoad
  \/ VersionsAdded \/ VersionsReloaded
  \/ DefaultBeforeRetire \/ RetireModel \/ SetEnd \/ VersionsRetired
  \/ DefaultBeforeCleanup \/ CleanupFailedLoad \/ VersionsCleanedUp
  \/ DefaultAfterAll \/ AllVersionsDone

\* What nothing forces to happen.
Disturbance ==
  \/ ConfigChanges \/ ReadAvailableVersionsFails \/ RemovedFromConfig \/ InvalidConfig
  \/ DirectoryChanges \/ BlacklistChanges
  \/ \E v \in Versions : DecideToReload(v)

Next ==
  \/ WatcherCycle \/ ManagerStep \/ Disturbance
  \/ \E v \in Versions : RequestReloads(v) \/ RequestReloaded(v)

Spec == Init /\ [][Next]_vars

\* The watcher wakes up for ever, its calls and the requests' reloads end.
Fairness ==
  /\ WF_vars(WatcherCycle) /\ WF_vars(ManagerStep)
  /\ \A v \in Versions : WF_vars(RequestReloads(v)) /\ WF_vars(RequestReloaded(v))

FairSpec == Spec /\ Fairness

-----------------------------------------------------------------------------
(***************************************************************************)
(* Safety.                                                                 *)
(***************************************************************************)

\* Requests that name no version are never sent to one that is being retired:
\* retireVersions moves the default version away first.  (retireAllVersions
\* moves it after each version.)
DefaultNotRetired ==
  defaultVersion # None /\ WillEndUnloaded(defaultVersion)
    => pc \in {"endingAll", "retiredAll"} /\ defaultVersion = Current

\* A rollout keeps serving: when a call in which nothing failed starts to retire
\* versions, all the versions the policy asks for are AVAILABLE.
RolloutKeepsServing ==
  [][pc = "retiring" /\ pc' = "ending" /\ allFailed = {} /\ served.loader = "none" /\ ~ reshaped
       => Requested(served, available) \subseteq Available]_vars

\* What makes these two stay true.  The version that retireVersions works on is not
\* the default version, from before its status changes until it has ended.
DefaultMovedAway == pc \in {"retiring", "ending"} => defaultVersion # Current

\* A call that changes the versions has a configuration, and starts to retire versions
\* with its failures in allFailedVersions.
ServedInCall ==
  /\ pc \in {"add", "adding", "added", "reload", "reloading", "reloaded", "retire", "retiring", "ending"} =>
       served \in Configs
  /\ pc \in {"retire", "retiring", "ending"} => failed = <<>>

\* As long as no request has reloaded a version, the only version that is LOADING is
\* the one the manager works on, and in a call in which nothing has failed every
\* version that the policy asks for is AVAILABLE or still in one of the lists.
RolloutOnTrack ==
  ~ reshaped =>
    /\ busy = {}
    /\ \A v \in Versions : status[v] = "LOADING" => pc \in {"adding", "reloading"} /\ v = Current
    /\ pc \in {"added", "reloaded"} => status[Current] = "AVAILABLE"
    /\ allFailed = {} /\ failed = <<>> /\ served # NoConfig /\ served.loader = "none" =>
         /\ pc \in {"add", "adding", "added"} =>
              Requested(served, available) \subseteq Available \cup todo \cup toReload
         /\ pc \in {"reload", "reloading", "reloaded"} =>
              Requested(served, available) \subseteq Available \cup todo
         /\ pc \in {"retire", "retiring", "ending"} =>
              /\ Requested(served, available) \subseteq Available
              /\ Requested(served, available) \cap todo = {}

IInv == TypeOK /\ DefaultNotRetired /\ DefaultMovedAway /\ ServedInCall /\ RolloutOnTrack

(***************************************************************************)
(* Liveness: what happens once nothing disturbs the model any more.        *)
(***************************************************************************)
Undisturbed == <>[][~ Disturbance]_vars

\* The configuration can be applied, and every version directory is valid.
Sound ==
  /\ served # NoConfig /\ served.loader # "missing" /\ blacklist = {}
  /\ \A v \in Versions : dirs[v] # "invalid"

\* Then the versions that are served become those the policy asks for, with the
\* options of the configuration: nothing that went before (failed loads, retired
\* versions, blacklists, requests that reloaded a version) stands in the way.
Converged ==
  /\ served # NoConfig
  /\ Available = Filter(served.policy, {v \in Versions : dirs[v] = "valid"})
  /\ \A v \in Available : conf[v] = served.options

Converges == Undisturbed /\ <>[]Sound => <>[]Converged

=============================================================================
