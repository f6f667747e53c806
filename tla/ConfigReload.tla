---------------------------- MODULE ConfigReload ----------------------------
(***************************************************************************)
(* The server and the configuration file: start and shutdown (server_main, *)
(* src/src/server.cpp), ModelManager::loadConfig with everything it loads, *)
(* the watcher thread, the /v1/config/reload requests (src/src/modelmanager*)
(* .cpp, http_rest_api_handler.cpp), the custom loaders and the custom     *)
(* node libraries.                                                         *)
(*                                                                         *)
(* The file and the model directories change at any time.  configMtx lets  *)
(* one thread at a time load or poll.  The versions of a model are taken   *)
(* together (module ModelVersions has them one by one): a model is loaded  *)
(* with a configuration, has failed or has ended.  A pipeline is valid if  *)
(* its models and its library can serve it (module PipelineValidation).    *)
(***************************************************************************)
EXTENDS Integers, Sequences, FiniteSets, TLC, SequencesExt, ModelConfiguration

CONSTANTS Requests,    \* calls of /v1/config/reload
          Contents,    \* what the configuration file may hold, by name
          Bases,       \* base paths of models
          Options,     \* command lines, by name
          MaxReads,    \* MAX_CONFIG_JSON_READ_RETRY_COUNT
          MaxChanges   \* bound on edits of the file and changes of base paths

ASSUME RetryAssumption == MaxReads \in Nat \ {0}
ASSUME BoundsAssumption == MaxChanges \in Nat
ASSUME ContentsAssumption ==
  /\ "" \notin DOMAIN Contents
  /\ \A n \in DOMAIN Contents :
       /\ Contents[n].kind \in {"missing", "garbled", "invalid", "json"}
       /\ Contents[n].kind = "json" =>
            /\ Len(Contents[n].models) \in Nat
            /\ DOMAIN Contents[n].models = 1 .. Len(Contents[n].models)
            /\ Len(Contents[n].pipelines) \in Nat
            /\ DOMAIN Contents[n].pipelines = 1 .. Len(Contents[n].pipelines)

VARIABLES
  options, server, exitTrigger,
  file,        \* the configuration file: [content, ctime]
  storage,     \* what is at each base path, one of StorageStates
  changes,     \* the edits and changes left
  lastConfigChangeTime, lastLoadConfigStatus,
  servedModelConfigs,
  models,      \* the models ever created: [stateful, state, config]
  loaders,     \* the custom loaders that are initialised
  libraries,   \* the custom node libraries and the paths they were opened at
  pipelines,   \* the pipeline definitions ever created
  thread,      \* where the watcher and the requests are
  configMtx,   \* the thread that holds the lock
  job,         \* the load or the poll it is doing
  since,       \* history: the file when a request was made
  applied,     \* history: the file that was loaded last with status OK
  lost         \* history: models whose gated configuration was dropped

environment == <<file, storage, changes>>
process == <<options, server, exitTrigger>>
managed == <<servedModelConfigs, models, loaders, libraries, pipelines>>
loadStatus == <<lastConfigChangeTime, lastLoadConfigStatus>>
history == <<since, applied, lost>>
vars == <<environment, process, managed, loadStatus, thread, configMtx, job, history>>

Watcher == "watcher"
Main == "main"
Nobody == "nobody"
Threads == Requests \cup {Watcher}

ASSUME RequestsAssumption == Requests \cap {Watcher, Main, Nobody} = {}

Ok(status) == status \in {"OK", "OK_RELOADED", "OK_NOT_RELOADED"}

\* Mutant: the status of the last step wins.
LastError(first, status) == status

\* IF_ERROR_NOT_OCCURRED_EARLIER_THEN_SET_FIRST_ERROR.
FirstError(first, status) == IF Ok(first) THEN status ELSE first

\* A map with one more entry, or another value for a key it has.
With(f, k, v) == [x \in DOMAIN f \cup {k} |-> IF x = k THEN v ELSE f[x]]

Option == Options[options]
Content == Contents[file.content]

Ended == server \in {"exited", "stopped"}
Running == server # "down" /\ ~ Ended
FromFile == Option.configPath

\* calm: no base path has changed since the file was read.
NoJob == [stage |-> "none", doc |-> "", time |-> 0, reads |-> 0, first |-> "OK", at |-> 1, seen |-> {},
          invalid |-> {}, gated |-> <<>>, fresh |-> <<>>, reloaded |-> FALSE, calm |-> TRUE]
Doc == Contents[job.doc]

LoadStages == {"loaders", "models", "retire", "libraries", "pipelines", "gated"}

\* The model entries of each file, parsed.
JsonContents == {n \in DOMAIN Contents : Contents[n].kind = "json"}
Parsed == [n \in JsonContents |-> [i \in DOMAIN Contents[n].models |-> ParseNode(Contents[n].models[i])]]
Entry(i) == Parsed[job.doc][i]

Init ==
  /\ options \in DOMAIN Options /\ server = "down" /\ exitTrigger = FALSE
  /\ file \in [content : DOMAIN Contents, ctime : {1}]
  /\ storage = [b \in Bases |-> "good"]
  /\ changes = MaxChanges
  /\ lastConfigChangeTime = 0 /\ lastLoadConfigStatus = "OK"
  /\ servedModelConfigs = <<>> /\ models = <<>> /\ loaders = {} /\ libraries = <<>> /\ pipelines = <<>>
  /\ thread = [t \in Threads |-> "idle"]
  /\ configMtx = Nobody /\ job = NoJob
  /\ since = [r \in Requests |-> 0] /\ applied = 0 /\ lost = {}

(***************************************************************************)
(* The environment, as long as there is a server.                          *)
(***************************************************************************)

\* The file is replaced, removed, or written in place (it is garbled meanwhile).
EditFile(content) ==
  /\ ~ Ended /\ changes > 0 /\ changes' = changes - 1 /\ content # file.content
  /\ file' = [content |-> content, ctime |-> file.ctime + 1]
  /\ UNCHANGED <<storage, process, managed, loadStatus, thread, configMtx, job, history>>

\* A base path is missing, is a directory without a requested version, or has versions
\* that can be loaded, that fail to load, or whose load throws an exception.
StorageStates == {"good", "bad", "throws", "empty", "missing"}

ChangeStorage(b, to) ==
  /\ ~ Ended /\ changes > 0 /\ changes' = changes - 1 /\ storage[b] # to
  /\ storage' = [storage EXCEPT ![b] = to]
  /\ job' = [job EXCEPT !.calm = @ /\ job.stage \notin LoadStages \cup {"end"}]
  /\ UNCHANGED <<file, process, managed, loadStatus, thread, configMtx, history>>

(***************************************************************************)
(* reloadModelWithVersions.                                                *)
(***************************************************************************)
Subscribed(n) == \E p \in DOMAIN pipelines : n \in pipelines[p].subscribed

NewModel(stateful) == [stateful |-> stateful, state |-> "none", config |-> Absent]

\* Refused before the model is looked at.
Refusal(c) ==
  CASE c.stateful /\ IsDynamicParameterEnabled(c) -> "DYNAMIC_PARAMETERS_ON_STATEFUL_MODEL"
    [] ~ c.stateful /\ c.lowLatency -> "INVALID_NON_STATEFUL_MODEL_PARAMETER"
    [] c.name \in DOMAIN models /\ models[c.name].stateful # c.stateful -> "MODEL_TYPE_CHANGE"
    [] OTHER -> "OK"

LoaderMissing(c) == IsCustomLoaderRequired(c) /\ LoaderName(c) \notin loaders

Gates(c) == Subscribed(c.name) /\ (IsDynamicParameterEnabled(c) \/ c.stateful)

\* Mutant: the versions are loaded again at every poll.
ReloadedAtEveryPoll(m, c) == TRUE

\* getVersionsToChange: the versions are loaded (again) if they have ended, have failed
\* with an error or have another configuration.  A version whose load threw an exception
\* is LOADING without an error, and isFailedLoading does not see it.
VersionsChange(m, c) == m.state \notin {"AVAILABLE", "LOADING"} \/ IsReloadRequired(c, m.config)

\* No requested version is left: the registered ones that have not ended are retired.
RetiresVersions(m) == m.state \notin {"none", "END"}

\* The model and the status after the call; touched if the subscribers of the model were
\* notified.  A base path with no requested version is not an error, and an exception
\* that addModelVersions or reloadModelVersions catches is none either.
Reload(c) ==
  LET m == IF c.name \in DOMAIN models THEN models[c.name] ELSE NewModel(c.stateful)
      result(status, after, touched) ==
        [status |-> status, touched |-> touched, models |-> With(models, c.name, after)]
  IN  CASE Refusal(c) # "OK" -> [status |-> Refusal(c), touched |-> FALSE, models |-> models]
        [] Refusal(c) = "OK" /\ Gates(c) -> result("GATED", m, FALSE)
        [] Refusal(c) = "OK" /\ ~ Gates(c) ->
             CASE storage[c.basePath] = "missing" -> result("PATH_INVALID", m, FALSE)
               [] storage[c.basePath] # "missing" /\ LoaderMissing(c) ->
                    result("OK", IF m.state = "none" THEN m ELSE [m EXCEPT !.state = "END"], TRUE)
               [] storage[c.basePath] = "empty" /\ ~ LoaderMissing(c) ->
                    IF RetiresVersions(m) THEN result("OK_RELOADED", [m EXCEPT !.state = "END"], TRUE)
                    ELSE result("OK", m, FALSE)
               [] OTHER ->
                    IF ~ VersionsChange(m, c) THEN result("OK", m, FALSE)
                    ELSE CASE storage[c.basePath] = "good" ->
                                result("OK_RELOADED", [m EXCEPT !.state = "AVAILABLE", !.config = c], TRUE)
                           [] storage[c.basePath] = "bad" ->
                                result("LOAD_FAILED", [m EXCEPT !.state = "FAILED", !.config = c], TRUE)
                           [] OTHER ->
                                result("OK_RELOADED", [m EXCEPT !.state = "LOADING", !.config = c], FALSE)

\* notifySubscribers: the pipelines of these models have to be validated again.
Notified(names) ==
  [p \in DOMAIN pipelines |->
     [pipelines[p] EXCEPT !.stale = @ \/ (pipelines[p].subscribed \cap names # {}
                                            /\ pipelines[p].state # "RETIRED")]]

ApplyReload(c, result) ==
  /\ models' = result.models
  /\ pipelines' = IF result.touched THEN Notified({c.name}) ELSE pipelines

(***************************************************************************)
(* loadConfig, stage by stage.                                             *)
(***************************************************************************)
At(stage) == Running /\ configMtx # Nobody /\ job.stage = stage
Goto(stage) == [job EXCEPT !.stage = stage]
LoadKeeps == <<environment, process, thread, configMtx>>

\* stat is not checked: for a missing file the time is not initialised.
StatConfig ==
  /\ At("stat")
  /\ \E t \in (IF Content.kind = "missing" THEN {0, lastConfigChangeTime} ELSE {file.ctime}) :
       lastConfigChangeTime' = t
  /\ job' = Goto("read")
  /\ UNCHANGED <<LoadKeeps, managed, lastLoadConfigStatus, history>>

\* A file that cannot be read or parsed is read again, at most MaxReads times; one
\* that does not fit the schema is not.
ReadConfig ==
  /\ At("read")
  /\ LET c == Content
         failed(status) == [Goto("end") EXCEPT !.first = status]
         again(status) ==
           IF job.reads + 1 < MaxReads THEN [job EXCEPT !.reads = @ + 1] ELSE failed(status)
     IN  job' = CASE c.kind = "missing" -> again("CONFIG_FILE_INVALID")
                  [] c.kind = "garbled" -> again("JSON_INVALID")
                  [] c.kind = "invalid" -> failed("JSON_INVALID")
                  [] c.kind = "json" -> [Goto("loaders") EXCEPT !.doc = file.content, !.time = file.ctime, !.calm = TRUE]
  /\ UNCHANGED <<LoadKeeps, managed, loadStatus, history>>

\* CustomLoaders: listed loaders are moved or added, finalize deinitialises the others.
Finalized(list) == {l.name : l \in {k \in list : k.name \in loaders \/ k.opens}}

\* loadCustomLoadersConfig with createCustomLoader, unless there is no list.
LoadCustomLoaders ==
  /\ At("loaders")
  /\ LET list == Doc.loaders
         status == IF \E l \in list.of : l.name \notin loaders /\ ~ l.opens
                     THEN "CUSTOM_LOADER_LIBRARY_INVALID" ELSE "OK"
     IN  IF Given(list)
           THEN loaders' = Finalized(list.of) /\ job' = [Goto("models") EXCEPT !.first = status]
           ELSE UNCHANGED loaders /\ job' = Goto("models")
  /\ UNCHANGED <<LoadKeeps, servedModelConfigs, models, libraries, pipelines, loadStatus, history>>

Advance(first) == [job EXCEPT !.at = @ + 1, !.first = FirstError(@, first)]

\* loadModelsConfig, one entry.
LoadModelSkipped ==
  /\ At("models") /\ job.at <= Len(Doc.models)
  /\ LET e == Doc.models[job.at]
     IN  \/ ~ ParseNodeAccepts(e)
            /\ job' = [Advance("MODEL_CONFIG_INVALID") EXCEPT !.invalid = @ \cup {e.name}]
         \/ ParseNodeAccepts(e) /\ (e.name \in DOMAIN pipelines \/ e.name \in job.seen)
            /\ job' = Advance("MODEL_NAME_OCCUPIED")
  /\ UNCHANGED <<LoadKeeps, managed, loadStatus, history>>

LoadModel ==
  /\ At("models") /\ job.at <= Len(Doc.models)
  /\ LET e == Doc.models[job.at]
         c == Entry(job.at)
         result == Reload(c)
         status == result.status
         next == [Advance(status) EXCEPT !.seen = @ \cup {e.name}]
     IN  /\ ParseNodeAccepts(e) /\ e.name \notin DOMAIN pipelines \cup job.seen
         /\ ApplyReload(c, result)
         /\ IF status = "GATED"
              THEN IF e.name \in DOMAIN servedModelConfigs
                     THEN /\ job' = [next EXCEPT !.gated = Append(@, job.at),
                                                 !.fresh = With(@, e.name, servedModelConfigs[e.name])]
                          /\ UNCHANGED lost
                     ELSE job' = next /\ lost' = lost \cup {e.name}
              ELSE job' = [next EXCEPT !.fresh = With(@, e.name, c)] /\ lost' = lost \ {e.name}
  /\ UNCHANGED <<LoadKeeps, servedModelConfigs, loaders, libraries, loadStatus, since, applied>>

ModelsListed ==
  /\ At("models") /\ job.at > Len(Doc.models)
  /\ job' = Goto("retire")
  /\ UNCHANGED <<LoadKeeps, managed, loadStatus, history>>

\* retireModelsRemovedFromConfigFile: models that are not listed end; those with an
\* invalid entry are unloaded and count as failed.
RetireModels ==
  /\ At("retire")
  /\ servedModelConfigs' = job.fresh
  /\ LET gone == DOMAIN models \ job.seen
     IN  /\ models' = [n \in DOMAIN models |->
                         IF n \notin gone \/ models[n].state = "none" THEN models[n]
                         ELSE [models[n] EXCEPT !.state = IF n \in job.invalid THEN "FAILED" ELSE "END"]]
         /\ pipelines' = Notified(gone)
         /\ lost' = lost \cap job.seen
  /\ job' = Goto("libraries")
  /\ UNCHANGED <<LoadKeeps, loaders, libraries, loadStatus, since, applied>>

\* CustomNodeLibraryManager: a library that cannot be opened stays as it was, one that
\* is not listed is closed.
LibrariesOf(list) ==
  LET opened == {l \in list : l.opens}
      paths == [n \in {l.name : l \in opened} |-> (CHOOSE l \in opened : l.name = n).path] @@ libraries
  IN  [n \in DOMAIN paths \cap {l.name : l \in list} |-> paths[n]]

\* loadCustomNodeLibrariesConfig.
LoadLibraries ==
  /\ At("libraries")
  /\ libraries' = IF Given(Doc.libraries) THEN LibrariesOf(Doc.libraries.of) ELSE libraries
  /\ job' = [Goto("pipelines") EXCEPT !.at = 1, !.seen = {}]
  /\ UNCHANGED <<LoadKeeps, servedModelConfigs, models, loaders, pipelines, loadStatus, history>>

\* PipelineDefinition::validate.
ModelFits(n) ==
  n \in DOMAIN models /\ models[n].state = "AVAILABLE" /\ ~ IsDynamicParameterEnabled(models[n].config)
Validated(name, p) ==
  LET valid == name \notin DOMAIN models /\ p.libraryFound /\ \A n \in p.uses : ModelFits(n)
  IN  [p EXCEPT !.state = IF valid THEN "AVAILABLE" ELSE "FAILED", !.stale = FALSE]

\* A definition made from its entry: the library is looked up, the models that exist
\* are subscribed to.
Definition(entry) ==
  [state |-> "FAILED", stale |-> FALSE, uses |-> entry.uses,
   libraryFound |-> entry.library = "" \/ entry.library \in DOMAIN libraries,
   subscribed |-> entry.uses \cap DOMAIN models]

PipelineStatus(p) == IF p.state = "AVAILABLE" THEN "OK" ELSE "PIPELINE_INVALID"

\* processPipelineConfig with createDefinition or reloadDefinition.
LoadPipeline ==
  /\ At("pipelines") /\ job.at <= Len(Doc.pipelines)
  /\ LET entry == Doc.pipelines[job.at]
         n == entry.name
         p == Validated(n, Definition(entry))
         next(status) == [Advance(status) EXCEPT !.seen = @ \cup {n}]
     IN  \/ n \in job.seen /\ job' = Advance("OK") /\ UNCHANGED pipelines
         \/ n \notin job.seen /\ ~ entry.nodesParse
            /\ job' = Advance("PIPELINE_NODE_WRONG_KIND_CONFIGURATION") /\ UNCHANGED pipelines
         \/ /\ n \notin job.seen /\ entry.nodesParse /\ n \notin DOMAIN pipelines /\ n \in DOMAIN models
            /\ job' = next("PIPELINE_NAME_OCCUPIED") /\ UNCHANGED pipelines
         \/ /\ n \notin job.seen /\ entry.nodesParse /\ (n \in DOMAIN pipelines \/ n \notin DOMAIN models)
            /\ pipelines' = With(pipelines, n, p) /\ job' = next(PipelineStatus(p))
  /\ UNCHANGED <<LoadKeeps, servedModelConfigs, models, loaders, libraries, loadStatus, history>>

\* retireOtherThan.
RetirePipelines ==
  /\ At("pipelines") /\ job.at > Len(Doc.pipelines)
  /\ pipelines' = [n \in DOMAIN pipelines |->
                     IF n \in job.seen THEN pipelines[n]
                     ELSE [pipelines[n] EXCEPT !.state = "RETIRED", !.stale = FALSE, !.subscribed = {}]]
  /\ job' = Goto("gated")
  /\ UNCHANGED <<LoadKeeps, servedModelConfigs, models, loaders, libraries, loadStatus, history>>

\* tryReloadGatedModelConfigs: a configuration that fails again is dropped.
RetryGated ==
  /\ At("gated") /\ job.gated # <<>>
  /\ LET c == Entry(Head(job.gated))
         result == Reload(c)
         status == result.status
     IN  /\ ApplyReload(c, result)
         /\ servedModelConfigs' = IF Ok(status) THEN With(servedModelConfigs, c.name, c) ELSE servedModelConfigs
         /\ lost' = IF Ok(status) THEN lost \ {c.name} ELSE lost \cup {c.name}
         /\ job' = [job EXCEPT !.gated = Tail(@), !.first = FirstError(@, status)]
  /\ UNCHANGED <<LoadKeeps, loaders, libraries, loadStatus, since, applied>>

\* Mutant: the time of change is taken when the file has been applied.
GatedDoneTakesTime ==
  /\ At("gated") /\ job.gated = <<>>
  /\ job' = Goto("end") /\ lastConfigChangeTime' = file.ctime
  /\ UNCHANGED <<LoadKeeps, managed, lastLoadConfigStatus, history>>

GatedDone ==
  /\ At("gated") /\ job.gated = <<>>
  /\ job' = Goto("end")
  /\ UNCHANGED <<LoadKeeps, managed, loadStatus, history>>

(***************************************************************************)
(* updateConfigurationWithoutConfigFile.                                   *)
(***************************************************************************)
PollJob == [NoJob EXCEPT !.stage = "poll", !.seen = DOMAIN servedModelConfigs]

PollModel(n) ==
  /\ At("poll") /\ n \in job.seen
  /\ LET c == servedModelConfigs[n]
         result == Reload(c)
     IN  /\ ApplyReload(c, result)
         /\ job' = [job EXCEPT !.seen = @ \ {n}, !.reloaded = @ \/ result.status = "OK_RELOADED",
                               !.first = IF Ok(result.status) THEN @ ELSE FirstError(@, result.status)]
  /\ UNCHANGED <<LoadKeeps, servedModelConfigs, loaders, libraries, loadStatus, history>>

\* PipelineFactory::revalidatePipelines.
RevalidatePipelines ==
  /\ At("poll") /\ job.seen = {}
  /\ LET after == [n \in DOMAIN pipelines |->
                     IF pipelines[n].stale THEN Validated(n, pipelines[n]) ELSE pipelines[n]]
         fails == \E n \in DOMAIN pipelines : pipelines[n].stale /\ after[n].state = "FAILED"
         first == IF fails THEN FirstError(job.first, "PIPELINE_INVALID") ELSE job.first
     IN  /\ pipelines' = after
         /\ job' = [Goto("polled") EXCEPT !.first =
                      IF ~ Ok(first) THEN first ELSE IF job.reloaded THEN "OK_RELOADED" ELSE "OK_NOT_RELOADED"]
  /\ UNCHANGED <<LoadKeeps, servedModelConfigs, models, loaders, libraries, loadStatus, history>>

(***************************************************************************)
(* The threads.                                                            *)
(***************************************************************************)
Lock(t, stage) == configMtx = Nobody /\ configMtx' = t /\ job' = [NoJob EXCEPT !.stage = stage]
LockToPoll(t) == configMtx = Nobody /\ configMtx' = t /\ job' = PollJob
Unlock == configMtx' = Nobody /\ job' = NoJob

Modified == file.ctime # lastConfigChangeTime
FileFound == Content.kind # "missing"

\* startFromFile: the server does not start with a file it cannot read.
EndLoad ==
  /\ At("end")
  /\ lastLoadConfigStatus' = job.first
  /\ applied' = IF Ok(job.first) THEN job.time ELSE applied
  /\ CASE configMtx = Main ->
           /\ server' = IF job.first \in {"CONFIG_FILE_INVALID", "JSON_INVALID"} THEN "exited" ELSE "loaded"
           /\ Unlock /\ UNCHANGED thread
       [] configMtx = Watcher -> job' = PollJob /\ UNCHANGED <<server, thread, configMtx>>
       [] configMtx \in Requests ->
           /\ thread' = [thread EXCEPT ![configMtx] = IF Ok(job.first) THEN "update" ELSE "failed"]
           /\ Unlock /\ UNCHANGED server
  /\ UNCHANGED <<environment, options, exitTrigger, managed, lastConfigChangeTime, since, lost>>

EndPoll ==
  /\ At("polled")
  /\ thread' = [thread EXCEPT ![configMtx] =
                  IF configMtx = Watcher THEN "wait" ELSE IF Ok(job.first) THEN "answered" ELSE "failed"]
  /\ Unlock
  /\ UNCHANGED <<environment, process, managed, loadStatus, history>>

\* ModelManager::watcher after its interval, with configFileReloadNeeded.
WatcherWakes ==
  /\ Running /\ thread[Watcher] = "wait" /\ ~ exitTrigger
  /\ IF FileFound /\ FromFile /\ Modified THEN Lock(Watcher, "stat") ELSE LockToPoll(Watcher)
  /\ thread' = [thread EXCEPT ![Watcher] = "busy"]
  /\ UNCHANGED <<environment, process, managed, loadStatus, history>>

WatcherExits ==
  /\ Running /\ thread[Watcher] = "wait" /\ exitTrigger
  /\ thread' = [thread EXCEPT ![Watcher] = "exited"]
  /\ UNCHANGED <<environment, process, managed, loadStatus, configMtx, job, history>>

\* processConfigReloadRequest.
RequestReload(r) ==
  /\ server = "serving" /\ thread[r] = "idle" /\ Value(Option.restPort, 0) # 0
  /\ thread' = [thread EXCEPT ![r] = "check"] /\ since' = [since EXCEPT ![r] = file.ctime]
  /\ UNCHANGED <<environment, process, managed, loadStatus, configMtx, job, applied, lost>>

\* Mutant: only a changed file is loaded, whatever the last load said.
CheckChangeOnly(r) ==
  /\ Running /\ thread[r] = "check" /\ configMtx = Nobody
  /\ thread' = [thread EXCEPT ![r] = IF FromFile /\ ~ FileFound THEN "failed"
                                     ELSE IF FromFile /\ Modified THEN "load" ELSE "update"]
  /\ UNCHANGED <<environment, process, managed, loadStatus, configMtx, job, history>>

\* configFileReloadNeeded: a file that has not changed is loaded again if its last
\* load failed.
RequestChecks(r) ==
  /\ Running /\ thread[r] = "check" /\ configMtx = Nobody
  /\ thread' = [thread EXCEPT ![r] =
                  IF FromFile /\ ~ FileFound THEN "failed"
                  ELSE IF FromFile /\ (Modified \/ ~ Ok(lastLoadConfigStatus)) THEN "load" ELSE "update"]
  /\ UNCHANGED <<environment, process, managed, loadStatus, configMtx, job, history>>

RequestLoads(r) ==
  /\ Running /\ thread[r] = "load" /\ Lock(r, "stat")
  /\ thread' = [thread EXCEPT ![r] = "busy"]
  /\ UNCHANGED <<environment, process, managed, loadStatus, history>>

RequestUpdates(r) ==
  /\ Running /\ thread[r] = "update" /\ LockToPoll(r)
  /\ thread' = [thread EXCEPT ![r] = "busy"]
  /\ UNCHANGED <<environment, process, managed, loadStatus, history>>

(***************************************************************************)
(* server_main.                                                            *)
(***************************************************************************)

\* Config::parse, then ModelManager::start: the file, or startFromConfig.
Start ==
  /\ server = "down"
  /\ LET e == Option.modelEntry
         c == ParseParameters(e)
     IN  \/ /\ ~ ValidOptions(Option) \/ (~ FromFile /\ ~ ParametersParse(e))
            /\ server' = "exited" /\ UNCHANGED <<managed, configMtx, job>>
         \/ /\ ValidOptions(Option) /\ FromFile
            /\ server' = "starting" /\ Lock(Main, "stat") /\ UNCHANGED managed
         \/ /\ ValidOptions(Option) /\ ~ FromFile /\ ParametersParse(e)
            /\ servedModelConfigs' = With(<<>>, c.name, c) /\ ApplyReload(c, Reload(c))
            /\ server' = IF Ok(Reload(c).status) THEN "loaded" ELSE "exited"
            /\ UNCHANGED <<loaders, libraries, configMtx, job>>
  /\ UNCHANGED <<options, exitTrigger, environment, loadStatus, thread, history>>

\* startWatcher, and the gRPC and REST servers; a port may be taken.
StartServers ==
  /\ server = "loaded"
  /\ thread' = [thread EXCEPT ![Watcher] = IF Value(Option.pollWait, 1) > 0 THEN "wait" ELSE "idle"]
  /\ server' \in {"serving", "exited"}
  /\ UNCHANGED <<options, exitTrigger, environment, managed, loadStatus, configMtx, job, history>>

\* A signal ends the main loop; the REST server waits for its requests.
Shutdown ==
  /\ server = "serving"
  /\ server' = "stopping"
  /\ UNCHANGED <<options, exitTrigger, environment, managed, loadStatus, thread, configMtx, job, history>>

ServersDown ==
  /\ server = "stopping" /\ \A r \in Requests : thread[r] \in {"idle", "answered", "failed"}
  /\ server' = "joining"
  /\ UNCHANGED <<options, exitTrigger, environment, managed, loadStatus, thread, configMtx, job, history>>

\* Mutant: the exit signal is forgotten.
JoinWithoutSignal ==
  /\ server = "joining"
  /\ thread[Watcher] \in {"idle", "exited"}
  /\ server' = "stopped"
  /\ UNCHANGED <<options, exitTrigger, environment, managed, loadStatus, thread, configMtx, job, history>>

\* ModelManager::join.
Join ==
  /\ server = "joining"
  /\ \/ thread[Watcher] = "wait" /\ ~ exitTrigger /\ exitTrigger' = TRUE /\ UNCHANGED server
     \/ thread[Watcher] = "busy" /\ ~ exitTrigger /\ exitTrigger' = TRUE /\ UNCHANGED server
     \/ thread[Watcher] \in {"idle", "exited"} /\ server' = "stopped" /\ UNCHANGED exitTrigger
  /\ UNCHANGED <<options, environment, managed, loadStatus, thread, configMtx, job, history>>

-----------------------------------------------------------------------------
LoadStep ==
  \/ StatConfig \/ ReadConfig \/ LoadCustomLoaders \/ LoadModelSkipped \/ LoadModel \/ ModelsListed
  \/ RetireModels \/ LoadLibraries \/ LoadPipeline \/ RetirePipelines \/ RetryGated \/ GatedDone
  \/ EndLoad \/ (\E n \in DOMAIN servedModelConfigs : PollModel(n)) \/ RevalidatePipelines \/ EndPoll

Environment ==
  \/ \E c \in DOMAIN Contents : EditFile(c)
  \/ \E b \in Bases, to \in StorageStates : ChangeStorage(b, to)

RequestStep(r) == RequestChecks(r) \/ RequestLoads(r) \/ RequestUpdates(r)
MainStep == Start \/ StartServers \/ ServersDown \/ Join

Next ==
  \/ LoadStep \/ WatcherWakes \/ WatcherExits \/ MainStep \/ Shutdown \/ Environment
  \/ \E r \in Requests : RequestReload(r) \/ RequestStep(r)

\* The watcher sleeps between two rounds, so that a request that waits for configMtx
\* gets it.
Fairness ==
  /\ WF_vars(LoadStep) /\ WF_vars(WatcherWakes) /\ WF_vars(WatcherExits) /\ WF_vars(MainStep)
  /\ \A r \in Requests : SF_vars(RequestStep(r))

Spec == Init /\ [][Next]_vars /\ Fairness

-----------------------------------------------------------------------------
(***************************************************************************)
(* Properties.                                                             *)
(***************************************************************************)

\* The entries that count: the first one of each name that parses and whose name is
\* not taken by a pipeline.
Candidates ==
  [n \in JsonContents |->
     LET entries == Contents[n].models
         accepted == {i \in DOMAIN entries : ParseNodeAccepts(entries[i])}
     IN  {Parsed[n][i] : i \in {k \in accepted : \A j \in accepted : entries[j].name = entries[k].name => j >= k}}]
Effective(n) == {c \in Candidates[n] : c.name \notin DOMAIN pipelines}

\* What may keep an entry from being served.
Excused(c) ==
  \/ Refusal(c) # "OK" \/ Gates(c)
  \/ storage[c.basePath] # "good"
  \/ LoaderMissing(c)

ServedAs(c) ==
  c.name \in DOMAIN models /\ models[c.name].state = "AVAILABLE" /\ ~ IsReloadRequired(c, models[c.name].config)

\* The models, the pipelines and the loaders are the ones of the file.
Matches(content, excused(_)) ==
  LET doc == Contents[content]
  IN  /\ \A c \in Effective(content) : ServedAs(c) \/ excused(c)
      /\ \A n \in DOMAIN models :
           models[n].state = "AVAILABLE" => \E i \in DOMAIN doc.models : doc.models[i].name = n
      /\ \A n \in DOMAIN pipelines :
           pipelines[n].state = "AVAILABLE" => \E i \in DOMAIN doc.pipelines : doc.pipelines[i].name = n
      /\ Given(doc.loaders) => loaders \subseteq {l.name : l \in doc.loaders.of}

\* A load that threw an exception leaves the version LOADING, and nothing loads it again
\* until its entry changes.
Stuck(c) ==
  c.name \in DOMAIN models /\ models[c.name].state = "LOADING" /\ ~ IsReloadRequired(c, models[c.name].config)

\* What reloadModelWithVersions does not report: a custom loader that is missing, a base
\* path without a requested version, and an exception while a version was loaded, now or
\* earlier.
Unreported(c) == LoaderMissing(c) \/ storage[c.basePath] = "empty" \/ Stuck(c)

\* loadConfig reports OK only if the file has been applied as a whole: every model is
\* served with the configuration of its entry, except for the three causes that
\* reloadModelWithVersions does not report, and what the file does not list is not served.
ReportedIsApplied == At("end") /\ Ok(job.first) /\ job.calm => Matches(job.doc, Unreported)

\* A reload request that is answered with OK has applied a file that is not older than
\* the request, whichever thread has loaded it.
ReloadIsCurrent == \A r \in Requests : FromFile /\ thread[r] = "answered" => applied >= since[r]

\* A model stops being served as it is only because the file that was read does not
\* list it so, its loader is gone, or its base path has no requested version left: not
\* because a file could not be read, nor because the base path is gone or what is there
\* could not be loaded now.
UnloadedForAReason ==
  [][\A n \in DOMAIN models : models[n].state = "AVAILABLE" /\ models'[n] # models[n] =>
       \/ job.doc # "" /\ \A c \in Effective(job.doc) :
            c.name = n =>
              IsReloadRequired(c, models[n].config) \/ LoaderMissing(c) \/ storage[c.basePath] = "empty"
       \/ At("poll") /\ (\/ LoaderMissing(models[n].config)
                         \/ IsReloadRequired(servedModelConfigs[n], models[n].config)
                         \/ storage[servedModelConfigs[n].basePath] = "empty")]_vars

(***************************************************************************)
(* Why they hold: the inductive invariant.                                 *)
(***************************************************************************)
PollStages == {"poll", "polled"}
Model == {"stateful", "state", "config"}
Pipeline == {"state", "stale", "uses", "libraryFound", "subscribed"}

TypeOK ==
  /\ file.content \in DOMAIN Contents /\ file.ctime \in Nat
  /\ lastConfigChangeTime \in Nat /\ applied \in Nat /\ since \in [Requests -> Nat]
  /\ DOMAIN thread = Threads
  /\ configMtx \in Threads \cup {Main, Nobody}
  /\ DOMAIN job = DOMAIN NoJob
  /\ job.stage \in LoadStages \cup PollStages \cup {"none", "stat", "read", "end"}
  /\ job.time \in Nat /\ job.at \in Nat \ {0} /\ job.gated \in Seq(Nat)
  /\ \A n \in DOMAIN models : DOMAIN models[n] = Model
  /\ \A n \in DOMAIN pipelines : DOMAIN pipelines[n] = Pipeline
  /\ server = "down" => DOMAIN models = {} /\ job.stage = "none"

\* Files are read in the order of their times.
TimesInOrder ==
  /\ lastConfigChangeTime <= file.ctime /\ applied <= file.ctime
  /\ \A r \in Requests : since[r] <= file.ctime

\* The file has been read and everything up to here went well.
Read == job.stage \in LoadStages \/ (job.stage = "end" /\ Ok(job.first))

\* What is being loaded is not older than what was loaded before, than the time that
\* was taken, and than the request that loads it.
LoadIsCurrent ==
  Read =>
    /\ job.time <= file.ctime /\ lastConfigChangeTime <= job.time /\ applied <= job.time
    /\ configMtx \in Requests => since[configMtx] <= job.time

\* Between two loads the time that was taken is not newer than the file that was
\* applied, unless the load failed.
TakenIsApplied ==
  job.stage \in {"none", "stat"} \cup PollStages /\ Ok(lastLoadConfigStatus) =>
    lastConfigChangeTime <= applied

\* Who holds configMtx does a job.
HolderWorks ==
  /\ configMtx = Nobody <=> job.stage = "none"
  /\ configMtx \in Requests => thread[configMtx] = "busy"

\* A request goes on to the poll only when the file is applied.
PollsAfterLoad ==
  FromFile =>
    \A r \in Requests :
      thread[r] \in {"update", "answered"} \/ (configMtx = r /\ job.stage \in PollStages) =>
        since[r] <= applied

\* A load starts at the first entry.
StartsAtFirst ==
  job.stage \in {"stat", "read", "loaders"} => job.at = 1 /\ job.seen = {} /\ job.gated = <<>>

\* The accepted entries of the file that is being loaded, and the first one of each name.
EntryName(i) == Doc.models[i].name
AcceptedEntries == {i \in DOMAIN Doc.models : ParseNodeAccepts(Doc.models[i])}
FirstEntries == {i \in AcceptedEntries : \A j \in AcceptedEntries : EntryName(j) = EntryName(i) => j >= i}
ListedModels == {EntryName(i) : i \in DOMAIN Doc.models}
ListedPipelines == {Doc.pipelines[i].name : i \in DOMAIN Doc.pipelines}

\* The entries that loadModelsConfig has looked at.
EntriesDone(i) == job.stage \notin {"loaders", "models"} \/ (job.stage = "models" /\ i < job.at)

\* The load goes through the entries of one file, in order; it has seen the names of the
\* entries that it is done with, and waits to retry first entries only.
EntriesInOrder ==
  Read =>
    /\ job.doc \in JsonContents
    /\ job.stage \in {"loaders", "models", "retire"} => job.seen \subseteq ListedModels
    /\ job.stage \in {"models", "retire"} =>
         \A i \in AcceptedEntries :
           EntriesDone(i) /\ EntryName(i) \notin DOMAIN pipelines => EntryName(i) \in job.seen
    /\ \A k \in DOMAIN job.gated : job.gated[k] \in FirstEntries
    /\ job.stage \in {"pipelines", "gated"} => job.seen \subseteq ListedPipelines

\* As long as nothing has failed, what was done so far is as the file says.
DoneAsListed ==
  Read /\ Ok(job.first) =>
    /\ job.gated = <<>>
    /\ job.calm => \A i \in FirstEntries :
         EntriesDone(i) /\ EntryName(i) \notin DOMAIN pipelines =>
           ServedAs(Entry(i)) \/ Unreported(Entry(i))
    /\ job.stage \in {"libraries", "pipelines", "gated", "end"} =>
         \A n \in DOMAIN models : models[n].state = "AVAILABLE" => n \in ListedModels
    /\ job.stage \in {"gated", "end"} =>
         \A n \in DOMAIN pipelines : pipelines[n].state = "AVAILABLE" => n \in ListedPipelines
    /\ job.stage # "loaders" /\ Given(Doc.loaders) => loaders \subseteq {l.name : l \in Doc.loaders.of}

\* Configurations are kept under the names of their models.
KeptByName ==
  /\ \A n \in DOMAIN servedModelConfigs : servedModelConfigs[n].name = n
  /\ \A n \in DOMAIN job.fresh : job.fresh[n].name = n

IInv ==
  /\ TypeOK /\ TimesInOrder /\ LoadIsCurrent /\ TakenIsApplied /\ HolderWorks /\ PollsAfterLoad
  /\ StartsAtFirst /\ EntriesInOrder /\ DoneAsListed /\ KeptByName

\* As long as the server runs with its watcher, the file that is left in place is
\* applied in the end, except for gated configurations that were dropped and for loads
\* that threw an exception.
Settled(c) == Excused(c) \/ c.name \in lost \/ Stuck(c)
ConvergesToFile ==
  <>[](\/ server # "serving" \/ ~ FromFile \/ Value(Option.pollWait, 1) = 0
       \/ Content.kind # "json" \/ Matches(file.content, Settled))

\* A server that is told to stop does, and so do the requests and the watcher.
StopReturns == server = "stopping" ~> server = "stopped"
=============================================================================
