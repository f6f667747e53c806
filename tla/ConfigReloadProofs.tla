-------------------------- MODULE ConfigReloadProofs -------------------------
(***************************************************************************)
(* Proofs about the configuration file and its reloads, for any files, any *)
(* requests and any number of changes.                                     *)
(***************************************************************************)
EXTENDS ConfigReload, TLAPS

\* A configuration that needs no reload agrees on the custom loader.
LEMMA SameLoader ==
  ASSUME NEW c, NEW d, ~ IsReloadRequired(c, d), LoaderMissing(c)
  PROVE  LoaderMissing(d)
BY DEF IsReloadRequired, IsCustomLoaderConfigChanged, LoaderMissing, IsCustomLoaderRequired, LoaderName

\* A model needs no reload with the configuration it has.
LEMMA NoReloadForSame ==
  ASSUME NEW c
  PROVE  ~ IsReloadRequired(c, c)
BY DEF IsReloadRequired, IsShapeConfigurationEqual, IsCustomLoaderConfigChanged

\* reloadModelWithVersions: only the model it is called for changes; it is OK only if
\* the model is served so, its load threw an exception, its loader is missing or its base
\* path has no version; a model that is served changes only if its configuration has, its
\* loader is missing or its base path has no version.
LEMMA ReloadEffect ==
  ASSUME \A n \in DOMAIN models : DOMAIN models[n] = Model, NEW c, NEW after, after = Reload(c).models
  PROVE  /\ DOMAIN models \subseteq DOMAIN after /\ DOMAIN after \subseteq DOMAIN models \cup {c.name}
         /\ \A n \in DOMAIN after : DOMAIN after[n] = Model
         /\ \A n \in DOMAIN models : n # c.name => after[n] = models[n]
         /\ Ok(Reload(c).status) =>
              \/ LoaderMissing(c) \/ storage[c.basePath] = "empty"
              \/ /\ c.name \in DOMAIN after /\ after[c.name].state \in {"AVAILABLE", "LOADING"}
                 /\ ~ IsReloadRequired(c, after[c.name].config)
         /\ c.name \in DOMAIN models /\ models[c.name].state = "AVAILABLE" =>
              \/ after[c.name] = models[c.name]
              \/ IsReloadRequired(c, models[c.name].config) \/ LoaderMissing(c) \/ storage[c.basePath] = "empty"
<1> DEFINE m == IF c.name \in DOMAIN models THEN models[c.name] ELSE NewModel(c.stateful)
           result(x) == after = With(models, c.name, x)
           st == Reload(c).status
<1>1. DOMAIN m = Model
  BY DEF NewModel, Model
<1>2. \/ after = models /\ ~ Ok(st)
      \/ result(m) /\ ~ Ok(st)
      \/ (LoaderMissing(c) \/ storage[c.basePath] = "empty") /\ (result(m) \/ result([m EXCEPT !.state = "END"]))
      \/ result(m) /\ ~ VersionsChange(m, c)
      \/ VersionsChange(m, c) /\ result([m EXCEPT !.state = "AVAILABLE", !.config = c])
      \/ VersionsChange(m, c) /\ result([m EXCEPT !.state = "FAILED", !.config = c]) /\ ~ Ok(st)
      \/ VersionsChange(m, c) /\ result([m EXCEPT !.state = "LOADING", !.config = c])
  <2>1. CASE Refusal(c) # "OK"
    <3>1. Reload(c) = [status |-> Refusal(c), touched |-> FALSE, models |-> models] /\ ~ Ok(Refusal(c))
      BY <2>1 DEF Reload, Refusal, Ok
    <3> QED
      BY <3>1
  <2>2. CASE Refusal(c) = "OK" /\ Gates(c)
    BY <2>2 DEF Reload, Ok
  <2>3. CASE Refusal(c) = "OK" /\ ~ Gates(c) /\ storage[c.basePath] = "missing"
    BY <2>3 DEF Reload, Ok
  <2>4. CASE Refusal(c) = "OK" /\ ~ Gates(c) /\ storage[c.basePath] # "missing" /\ LoaderMissing(c)
    BY <2>4 DEF Reload
  <2>5. CASE Refusal(c) = "OK" /\ ~ Gates(c) /\ storage[c.basePath] = "empty" /\ ~ LoaderMissing(c)
    BY <2>5 DEF Reload
  <2>6. CASE Refusal(c) = "OK" /\ ~ Gates(c) /\ storage[c.basePath] \notin {"missing", "empty"} /\ ~ LoaderMissing(c)
    <3>1. CASE ~ VersionsChange(m, c)
      BY <2>6, <3>1 DEF Reload
    <3>2. CASE VersionsChange(m, c) /\ storage[c.basePath] = "good"
      BY <2>6, <3>2 DEF Reload
    <3>3. CASE VersionsChange(m, c) /\ storage[c.basePath] = "bad"
      BY <2>6, <3>3 DEF Reload, Ok
    <3>4. CASE VersionsChange(m, c) /\ storage[c.basePath] \notin {"good", "bad"}
      BY <2>6, <3>4 DEF Reload
    <3> QED
      BY <3>1, <3>2, <3>3, <3>4
  <2> QED
    BY <2>1, <2>2, <2>3, <2>4, <2>5, <2>6
<1> HIDE DEF m, st
<1>3. \A x : result(x) =>
        /\ DOMAIN after = DOMAIN models \cup {c.name} /\ after[c.name] = x
        /\ \A n \in DOMAIN models : n # c.name => after[n] = models[n]
  BY DEF With
<1>4. ASSUME NEW x, result(x), DOMAIN x = Model
      PROVE  \A n \in DOMAIN after : DOMAIN after[n] = Model
  BY <1>3, <1>4
<1>5. DOMAIN models \subseteq DOMAIN after /\ DOMAIN after \subseteq DOMAIN models \cup {c.name}
  BY <1>2, <1>3
<1>a. /\ DOMAIN [m EXCEPT !.state = "END"] = Model
      /\ DOMAIN [m EXCEPT !.state = "AVAILABLE", !.config = c] = Model
      /\ DOMAIN [m EXCEPT !.state = "FAILED", !.config = c] = Model
      /\ DOMAIN [m EXCEPT !.state = "LOADING", !.config = c] = Model
  BY <1>1
<1>b. \A s : [m EXCEPT !.state = s, !.config = c].state = s /\ [m EXCEPT !.state = s, !.config = c].config = c
  BY <1>1 DEF Model
<1>6. \A n \in DOMAIN after : DOMAIN after[n] = Model
  <2>1. CASE after = models
    BY <2>1
  <2>2. CASE result(m)
    BY <1>1, <1>4, <2>2
  <2>3. CASE result([m EXCEPT !.state = "END"])
    BY <1>a, <1>4, <2>3
  <2>4. CASE result([m EXCEPT !.state = "AVAILABLE", !.config = c])
    BY <1>a, <1>4, <2>4
  <2>5. CASE result([m EXCEPT !.state = "FAILED", !.config = c])
    BY <1>a, <1>4, <2>5
  <2>6. CASE result([m EXCEPT !.state = "LOADING", !.config = c])
    BY <1>a, <1>4, <2>6
  <2> HIDE DEF result
  <2> QED
    BY <1>2, <2>1, <2>2, <2>3, <2>4, <2>5, <2>6
<1>7. \A n \in DOMAIN models : n # c.name => after[n] = models[n]
  BY <1>2, <1>3
<1>8. ASSUME Ok(st)
      PROVE  \/ LoaderMissing(c) \/ storage[c.basePath] = "empty"
             \/ /\ c.name \in DOMAIN after /\ after[c.name].state \in {"AVAILABLE", "LOADING"}
                /\ ~ IsReloadRequired(c, after[c.name].config)
  <2>1. CASE result(m) /\ ~ VersionsChange(m, c)
    BY <1>3, <2>1 DEF VersionsChange
  <2>2. ASSUME NEW s, s \in {"AVAILABLE", "LOADING"}, result([m EXCEPT !.state = s, !.config = c])
        PROVE  /\ c.name \in DOMAIN after /\ after[c.name].state \in {"AVAILABLE", "LOADING"}
               /\ ~ IsReloadRequired(c, after[c.name].config)
    <3>1. c.name \in DOMAIN after /\ after[c.name] = [m EXCEPT !.state = s, !.config = c]
      BY <1>3, <2>2
    <3> QED
      BY <1>b, <2>2, <3>1, NoReloadForSame
  <2>3. CASE result([m EXCEPT !.state = "AVAILABLE", !.config = c])
    BY <2>2, <2>3
  <2>4. CASE result([m EXCEPT !.state = "LOADING", !.config = c])
    BY <2>2, <2>4
  <2> QED
    BY <1>2, <1>8, <2>1, <2>3, <2>4
<1>9. ASSUME c.name \in DOMAIN models, models[c.name].state = "AVAILABLE"
      PROVE  \/ after[c.name] = models[c.name]
             \/ IsReloadRequired(c, models[c.name].config) \/ LoaderMissing(c) \/ storage[c.basePath] = "empty"
  <2>1. m = models[c.name]
    BY <1>9 DEF m
  <2> QED
    BY <1>2, <1>3, <1>9, <2>1 DEF VersionsChange
<1> QED
  BY <1>5, <1>6, <1>7, <1>8, <1>9 DEF st

(***************************************************************************)
(* The job of the thread that holds configMtx.                             *)
(***************************************************************************)

\* The fields of a job, and of one that goes on to another stage or entry.
LEMMA JobFields ==
  ASSUME TypeOK, NEW x
  PROVE  /\ DOMAIN job = {"stage", "doc", "time", "reads", "first", "at", "seen", "invalid", "gated",
                          "fresh", "reloaded", "calm"}
         /\ DOMAIN Goto(x) = DOMAIN job /\ Goto(x).stage = x
         /\ Goto(x).doc = job.doc /\ Goto(x).time = job.time /\ Goto(x).first = job.first
         /\ Goto(x).at = job.at /\ Goto(x).seen = job.seen /\ Goto(x).gated = job.gated
         /\ Goto(x).fresh = job.fresh /\ Goto(x).calm = job.calm
         /\ DOMAIN Advance(x) = DOMAIN job /\ Advance(x).stage = job.stage
         /\ Advance(x).doc = job.doc /\ Advance(x).time = job.time
         /\ Advance(x).first = FirstError(job.first, x)
         /\ Advance(x).at = job.at + 1 /\ Advance(x).seen = job.seen /\ Advance(x).gated = job.gated
         /\ Advance(x).fresh = job.fresh /\ Advance(x).calm = job.calm
<1>1. DOMAIN job = {"stage", "doc", "time", "reads", "first", "at", "seen", "invalid", "gated",
                    "fresh", "reloaded", "calm"}
  BY DEF TypeOK, NoJob
<1>2. /\ DOMAIN Goto(x) = DOMAIN job /\ Goto(x).stage = x
      /\ Goto(x).doc = job.doc /\ Goto(x).time = job.time /\ Goto(x).first = job.first
      /\ Goto(x).at = job.at /\ Goto(x).seen = job.seen /\ Goto(x).gated = job.gated
      /\ Goto(x).fresh = job.fresh /\ Goto(x).calm = job.calm
  BY <1>1 DEF Goto
<1>3. /\ DOMAIN Advance(x) = DOMAIN job /\ Advance(x).stage = job.stage
      /\ Advance(x).doc = job.doc /\ Advance(x).time = job.time
      /\ Advance(x).first = FirstError(job.first, x)
      /\ Advance(x).at = job.at + 1 /\ Advance(x).seen = job.seen /\ Advance(x).gated = job.gated
      /\ Advance(x).fresh = job.fresh /\ Advance(x).calm = job.calm
  BY <1>1 DEF Advance
<1> QED
  BY <1>1, <1>2, <1>3

\* An error stays.
LEMMA ErrorsStay ==
  ASSUME NEW first, NEW status, Ok(FirstError(first, status))
  PROVE  Ok(first) /\ Ok(status)
BY DEF FirstError

\* The entries of the file that is being loaded stay.
LEMMA SameDoc ==
  ASSUME job'.doc = job.doc
  PROVE  /\ Doc' = Doc /\ \A i : EntryName(i)' = EntryName(i) /\ Entry(i)' = Entry(i)
         /\ AcceptedEntries' = AcceptedEntries /\ FirstEntries' = FirstEntries
         /\ ListedModels' = ListedModels /\ ListedPipelines' = ListedPipelines
BY DEF Doc, EntryName, Entry, AcceptedEntries, FirstEntries, ListedModels, ListedPipelines

\* Entries are numbered from 1.
LEMMA EntryNumbers ==
  ASSUME job.doc \in JsonContents
  PROVE  /\ Len(Doc.models) \in Nat /\ DOMAIN Doc.models = 1 .. Len(Doc.models)
         /\ \A i \in AcceptedEntries : i \in Nat /\ i >= 1 /\ i <= Len(Doc.models)
<1>1. Len(Doc.models) \in Nat /\ DOMAIN Doc.models = 1 .. Len(Doc.models)
  BY ContentsAssumption DEF Doc, JsonContents
<1>2. \A i \in AcceptedEntries : i \in DOMAIN Doc.models
  BY DEF AcceptedEntries
<1> QED
  BY <1>1, <1>2

\* A step of a load.
LEMMA LoadControl ==
  ASSUME IInv, UNCHANGED <<LoadKeeps, loadStatus, since, applied>>,
         job.stage \in LoadStages, job'.stage \in LoadStages \cup {"end"}, job'.time = job.time
  PROVE  TimesInOrder' /\ LoadIsCurrent' /\ TakenIsApplied' /\ HolderWorks' /\ PollsAfterLoad'
<1> USE DEF IInv, LoadKeeps, environment, process, loadStatus, LoadStages, PollStages
<1>1. TimesInOrder' /\ LoadIsCurrent'
  BY DEF TimesInOrder, LoadIsCurrent, Read
<1>2. TakenIsApplied' /\ HolderWorks'
  BY DEF TakenIsApplied, HolderWorks
<1>3. PollsAfterLoad'
  BY DEF PollsAfterLoad, FromFile, Option
<1> QED
  BY <1>1, <1>2, <1>3

\* A step of a poll.
LEMMA PollControl ==
  ASSUME IInv, UNCHANGED <<LoadKeeps, loadStatus, since, applied>>,
         job.stage \in PollStages, job'.stage \in PollStages
  PROVE  /\ TimesInOrder' /\ LoadIsCurrent' /\ TakenIsApplied' /\ HolderWorks' /\ PollsAfterLoad'
         /\ StartsAtFirst' /\ EntriesInOrder' /\ DoneAsListed'
<1> USE DEF IInv, LoadKeeps, environment, process, loadStatus, LoadStages, PollStages
<1>1. TimesInOrder'
  BY DEF TimesInOrder
<1>2. LoadIsCurrent' /\ StartsAtFirst' /\ EntriesInOrder' /\ DoneAsListed'
  BY DEF LoadIsCurrent, StartsAtFirst, EntriesInOrder, DoneAsListed, Read
<1>3. TakenIsApplied' /\ HolderWorks'
  BY DEF TakenIsApplied, HolderWorks
<1>4. PollsAfterLoad'
  BY DEF PollsAfterLoad, FromFile, Option
<1> QED
  BY <1>1, <1>2, <1>3, <1>4

\* A job that keeps its type.
LEMMA LoadTyped ==
  ASSUME TypeOK, UNCHANGED <<LoadKeeps, loadStatus, since, applied>>, Running,
         DOMAIN job' = DOMAIN job, job'.stage \in LoadStages \cup PollStages \cup {"end"},
         job'.time \in Nat, job'.at \in Nat \ {0}, job'.gated \in Seq(Nat),
         \A n \in DOMAIN models' : DOMAIN models'[n] = Model,
         \A n \in DOMAIN pipelines' : DOMAIN pipelines'[n] = Pipeline
  PROVE  TypeOK'
<1>1. server # "down"
  BY DEF Running
<1> QED
  BY <1>1 DEF TypeOK, LoadKeeps, environment, process, loadStatus, NoJob

\* Notified pipelines are pipelines.
LEMMA NotifiedTyped ==
  ASSUME TypeOK, NEW names
  PROVE  DOMAIN Notified(names) = DOMAIN pipelines
         /\ \A p \in DOMAIN pipelines : DOMAIN Notified(names)[p] = Pipeline
<1>1. DOMAIN Notified(names) = DOMAIN pipelines
  BY DEF Notified
<1>2. \A p \in DOMAIN pipelines : DOMAIN Notified(names)[p] = DOMAIN pipelines[p]
  BY DEF Notified
<1> QED
  BY <1>1, <1>2 DEF TypeOK

\* What reloadModelWithVersions leaves are models and pipelines.
LEMMA ApplyTyped ==
  ASSUME TypeOK, NEW c, ApplyReload(c, Reload(c))
  PROVE  /\ \A n \in DOMAIN models' : DOMAIN models'[n] = Model
         /\ DOMAIN pipelines' = DOMAIN pipelines
         /\ \A n \in DOMAIN pipelines' : DOMAIN pipelines'[n] = Pipeline
<1>1. \A n \in DOMAIN models : DOMAIN models[n] = Model
  BY DEF TypeOK
<1> DEFINE after == Reload(c).models
<1>2. \A n \in DOMAIN after : DOMAIN after[n] = Model
  <2> HIDE DEF after
  <2>1. after = Reload(c).models
    BY DEF after
  <2> QED
    BY <1>1, <2>1, ReloadEffect
<1>3. models' = after /\ (pipelines' = Notified({c.name}) \/ pipelines' = pipelines)
  BY DEF ApplyReload
<1>4. DOMAIN pipelines' = DOMAIN pipelines /\ \A n \in DOMAIN pipelines : DOMAIN pipelines'[n] = Pipeline
  BY <1>3, NotifiedTyped DEF TypeOK
<1> QED
  BY <1>2, <1>3, <1>4

(***************************************************************************)
(* loadConfig.                                                             *)
(***************************************************************************)

\* The custom loaders become the listed ones.
LEMMA LoadCustomLoadersStep ==
  ASSUME IInv, LoadCustomLoaders
  PROVE  IInv'
<1> USE DEF IInv, LoadCustomLoaders, At, history
<1>1. /\ DOMAIN job' = DOMAIN job /\ job'.stage = "models" /\ job'.time = job.time /\ job'.at = job.at
      /\ job'.gated = job.gated /\ job'.doc = job.doc /\ job'.seen = job.seen /\ job'.fresh = job.fresh
  BY JobFields
<1>2. TypeOK /\ job.time \in Nat /\ job.at \in Nat \ {0} /\ job.gated \in Seq(Nat)
  BY DEF TypeOK
<1>3. TypeOK'
  BY <1>1, <1>2, LoadTyped DEF TypeOK, LoadStages
<1>4. TimesInOrder' /\ LoadIsCurrent' /\ TakenIsApplied' /\ HolderWorks' /\ PollsAfterLoad'
  BY <1>1, LoadControl DEF LoadStages
<1>a. job.at = 1 /\ job.seen = {} /\ job.gated = <<>>
  BY DEF StartsAtFirst
<1>b. job.doc \in JsonContents /\ \A i \in AcceptedEntries : ~ (i < 1)
  BY EntryNumbers DEF LoadStages, EntriesInOrder, Read
<1>5. EntriesInOrder'
  BY <1>1, <1>a, <1>b, SameDoc DEF EntriesInOrder, Read, LoadStages, EntriesDone
<1>6. DoneAsListed'
  <2>1. Given(Doc.loaders) => loaders' \subseteq {l.name : l \in Doc.loaders.of}
    BY DEF Finalized
  <2> QED
    BY <1>1, <1>a, <1>b, <2>1, SameDoc DEF DoneAsListed, LoadStages, EntriesDone, FirstEntries
<1>7. KeptByName' /\ StartsAtFirst'
  BY <1>1 DEF KeptByName, StartsAtFirst
<1> QED
  BY <1>3, <1>4, <1>5, <1>6, <1>7

\* A map by names stays one.
LEMMA WithNamed ==
  ASSUME NEW f, NEW k, NEW v, \A n \in DOMAIN f : f[n].name = n, v.name = k
  PROVE  \A n \in DOMAIN With(f, k, v) : With(f, k, v)[n].name = n
BY DEF With

\* A parsed entry has the name of the entry.
LEMMA EntryNamed ==
  ASSUME job.doc \in JsonContents, NEW i \in DOMAIN Doc.models
  PROVE  Entry(i).name = EntryName(i) /\ Entry(i) = ParseNode(Doc.models[i])
<1> DEFINE e == Doc.models[i]
<1>1. Entry(i) = ParseNode(e)
  BY DEF Entry, Parsed, Doc
<1>2. \A shapes : Config(e, shapes).name = e.name
  BY DEF Config, Normalise
<1> QED
  BY <1>1, <1>2 DEF ParseNode, EntryName

\* The entries that count are first entries.
LEMMA EffectiveEntries ==
  ASSUME job.doc \in JsonContents, NEW c \in Effective(job.doc)
  PROVE  \E i \in FirstEntries : c = Entry(i) /\ c.name = EntryName(i) /\ c.name \notin DOMAIN pipelines
<1>1. PICK i \in FirstEntries : c = Entry(i)
  BY DEF Effective, Candidates, FirstEntries, AcceptedEntries, EntryName, Entry, Doc
<1>2. i \in DOMAIN Doc.models
  BY <1>1 DEF FirstEntries, AcceptedEntries
<1>3. c.name = EntryName(i) /\ c.name \notin DOMAIN pipelines
  BY <1>1, <1>2, EntryNamed DEF Effective
<1> QED
  BY <1>1, <1>3

\* An entry that is skipped is an error.
LEMMA LoadModelSkippedStep ==
  ASSUME IInv, LoadModelSkipped
  PROVE  IInv'
<1> USE DEF IInv, LoadModelSkipped, At, history, managed
<1> DEFINE e == Doc.models[job.at]
<1>0. TypeOK /\ job.time \in Nat /\ job.at \in Nat \ {0} /\ job.gated \in Seq(Nat)
  BY DEF TypeOK
<1>1. /\ DOMAIN job' = DOMAIN job /\ job'.stage = "models" /\ job'.time = job.time /\ job'.at = job.at + 1
      /\ job'.gated = job.gated /\ job'.doc = job.doc /\ job'.seen = job.seen /\ job'.fresh = job.fresh
      /\ ~ Ok(job'.first)
  <2>1. CASE job' = [Advance("MODEL_CONFIG_INVALID") EXCEPT !.invalid = @ \cup {e.name}]
    <3>1. ~ Ok(FirstError(job.first, "MODEL_CONFIG_INVALID"))
      BY DEF FirstError, Ok
    <3> QED
      BY <2>1, <3>1, JobFields
  <2>2. CASE job' = Advance("MODEL_NAME_OCCUPIED")
    <3>1. ~ Ok(FirstError(job.first, "MODEL_NAME_OCCUPIED"))
      BY DEF FirstError, Ok
    <3> QED
      BY <2>2, <3>1, JobFields
  <2> QED
    BY <2>1, <2>2
<1>2. ~ ParseNodeAccepts(e) \/ e.name \in DOMAIN pipelines \cup job.seen
  OBVIOUS
<1>3. TypeOK'
  BY <1>0, <1>1, LoadTyped DEF TypeOK, LoadStages
<1>4. TimesInOrder' /\ LoadIsCurrent' /\ TakenIsApplied' /\ HolderWorks' /\ PollsAfterLoad'
  BY <1>1, LoadControl DEF LoadStages
<1>5. EntriesInOrder'
  <2>1. job.doc \in JsonContents
    BY DEF EntriesInOrder, Read, LoadStages
  <2>2. \A i \in AcceptedEntries : i < job.at + 1 => i < job.at \/ i = job.at
    BY <1>0, <2>1, EntryNumbers
  <2>3. \A i \in AcceptedEntries :
          i < job.at + 1 /\ EntryName(i) \notin DOMAIN pipelines => EntryName(i) \in job.seen
    BY <1>2, <2>2 DEF EntriesInOrder, Read, LoadStages, EntriesDone, EntryName, AcceptedEntries
  <2> QED
    BY <1>1, <2>3, SameDoc DEF EntriesInOrder, Read, LoadStages, EntriesDone
<1>6. DoneAsListed'
  BY <1>1 DEF DoneAsListed
<1>7. KeptByName' /\ StartsAtFirst'
  BY <1>1 DEF KeptByName, StartsAtFirst
<1> QED
  BY <1>3, <1>4, <1>5, <1>6, <1>7

\* An entry that is loaded is the first of its name.
LEMMA NextEntryIsFirst ==
  ASSUME IInv, LoadModel
  PROVE  job.doc \in JsonContents /\ job.at \in FirstEntries /\ job.at \in DOMAIN Doc.models
<1> USE DEF IInv, LoadModel, At
<1>0. job.at \in Nat \ {0}
  BY DEF TypeOK
<1>1. job.doc \in JsonContents
  BY DEF EntriesInOrder, Read, LoadStages
<1>2. job.at \in DOMAIN Doc.models
  BY <1>0, <1>1, EntryNumbers
<1>3. job.at \in AcceptedEntries
  BY <1>2 DEF AcceptedEntries
<1>4. ASSUME NEW j \in AcceptedEntries, EntryName(j) = EntryName(job.at) PROVE j >= job.at
  <2>1. ~ (j < job.at)
    BY <1>4 DEF EntriesInOrder, Read, LoadStages, EntriesDone, EntryName
  <2> QED
    BY <1>0, <1>1, <2>1, EntryNumbers
<1> QED
  BY <1>1, <1>2, <1>3, <1>4 DEF FirstEntries

\* One entry is loaded; it is the first of its name.
LEMMA LoadModelStep ==
  ASSUME IInv, LoadModel
  PROVE  IInv'
<1> USE DEF IInv, LoadModel, At
<1> DEFINE e == Doc.models[job.at]
           c == Entry(job.at)
           status == Reload(c).status
<1>0. TypeOK /\ job.time \in Nat /\ job.at \in Nat \ {0} /\ job.gated \in Seq(Nat)
  BY DEF TypeOK
<1>a. job.doc \in JsonContents /\ job.at \in FirstEntries /\ job.at \in DOMAIN Doc.models
  BY NextEntryIsFirst
<1>b. c.name = EntryName(job.at) /\ e.name = EntryName(job.at) /\ e.name \in ListedModels
  BY <1>a, EntryNamed DEF EntryName, ListedModels
<1> DEFINE next == [Advance(status) EXCEPT !.seen = @ \cup {e.name}]
<1>c. /\ DOMAIN next = DOMAIN job /\ next.stage = "models" /\ next.time = job.time
      /\ next.at = job.at + 1 /\ next.gated = job.gated /\ next.doc = job.doc
      /\ next.seen = job.seen \cup {e.name} /\ next.fresh = job.fresh
      /\ next.first = FirstError(job.first, status) /\ next.calm = job.calm
  <2> HIDE DEF e, status
  <2> QED
    BY JobFields DEF next
<1>d. /\ models' = Reload(c).models
      /\ DOMAIN pipelines' = DOMAIN pipelines
      /\ e.name \notin DOMAIN pipelines /\ e.name \notin job.seen
  BY DEF ApplyReload, Notified
<1>e. \/ /\ status = "GATED" /\ e.name \in DOMAIN servedModelConfigs
         /\ job' = [next EXCEPT !.gated = Append(@, job.at), !.fresh = With(@, e.name, servedModelConfigs[e.name])]
      \/ status = "GATED" /\ job' = next
      \/ status # "GATED" /\ job' = [next EXCEPT !.fresh = With(@, e.name, c)]
  OBVIOUS
<1>f. UNCHANGED <<LoadKeeps, servedModelConfigs, loaders, loadStatus, since, applied>> /\ job.stage = "models" /\ Running
  OBVIOUS
<1>g. DOMAIN next = {"stage", "doc", "time", "reads", "first", "at", "seen", "invalid", "gated",
                     "fresh", "reloaded", "calm"}
  BY <1>c, JobFields
<1>h. /\ \A n \in DOMAIN models' : DOMAIN models'[n] = Model
      /\ \A n \in DOMAIN pipelines' : DOMAIN pipelines'[n] = Pipeline
  <2>1. ApplyReload(c, Reload(c))
    OBVIOUS
  <2> HIDE DEF LoadModel, c
  <2> QED
    BY <1>0, <2>1, ApplyTyped
<1> HIDE DEF LoadModel, e, status, c, next
<1>1. /\ DOMAIN job' = DOMAIN job /\ job'.stage = "models" /\ job'.time = job.time /\ job'.at = job.at + 1
      /\ job'.doc = job.doc /\ job'.seen = job.seen \cup {e.name}
      /\ job'.first = FirstError(job.first, status) /\ job'.calm = job.calm
  <2>1. CASE job' = next
    BY <1>c, <2>1
  <2>2. CASE job' = [next EXCEPT !.fresh = With(@, e.name, c)]
    BY <1>c, <1>g, <2>2
  <2>3. CASE job' = [next EXCEPT !.gated = Append(@, job.at), !.fresh = With(@, e.name, servedModelConfigs[e.name])]
    BY <1>c, <1>g, <2>3
  <2> QED
    BY <1>e, <2>1, <2>2, <2>3
<1>2. /\ job'.gated = job.gated \/ (job'.gated = Append(job.gated, job.at) /\ status = "GATED")
      /\ \/ job'.fresh = job.fresh
         \/ job'.fresh = With(job.fresh, e.name, c)
         \/ /\ e.name \in DOMAIN servedModelConfigs
            /\ job'.fresh = With(job.fresh, e.name, servedModelConfigs[e.name])
  <2>1. CASE job' = next
    BY <1>c, <2>1
  <2>2. CASE job' = [next EXCEPT !.fresh = With(@, e.name, c)]
    BY <1>c, <1>g, <2>2
  <2>3. CASE /\ status = "GATED" /\ e.name \in DOMAIN servedModelConfigs
             /\ job' = [next EXCEPT !.gated = Append(@, job.at), !.fresh = With(@, e.name, servedModelConfigs[e.name])]
    BY <1>c, <1>g, <2>3
  <2> QED
    BY <1>e, <2>1, <2>2, <2>3
<1>3. TypeOK'
  <2>1. job'.gated \in Seq(Nat)
    <3>1. job.at \in Nat /\ job.gated \in Seq(Nat)
      BY <1>0
    <3>2. Append(job.gated, job.at) \in Seq(Nat)
      BY <3>1
    <3> QED
      BY <1>2, <3>1, <3>2
  <2> QED
    BY <1>0, <1>1, <1>f, <1>h, <2>1, LoadTyped DEF LoadStages
<1>4. TimesInOrder' /\ LoadIsCurrent' /\ TakenIsApplied' /\ HolderWorks' /\ PollsAfterLoad'
  BY <1>1, <1>f, LoadControl DEF LoadStages
<1>5. EntriesInOrder'
  <2>2. \A i \in AcceptedEntries : i < job.at + 1 => i < job.at \/ i = job.at
    BY <1>0, <1>a, EntryNumbers
  <2>3. \A i \in AcceptedEntries :
          i < job.at + 1 /\ EntryName(i) \notin DOMAIN pipelines => EntryName(i) \in job.seen \cup {e.name}
    BY <1>b, <1>f, <2>2 DEF EntriesInOrder, Read, LoadStages, EntriesDone
  <2>4. \A k \in DOMAIN job'.gated : job'.gated[k] \in FirstEntries
    <3>1. \A k \in DOMAIN job.gated : job.gated[k] \in FirstEntries
      BY <1>f DEF EntriesInOrder, Read, LoadStages
    <3>2. CASE job'.gated = job.gated
      BY <3>1, <3>2
    <3>3. CASE job'.gated = Append(job.gated, job.at)
      <4>1. /\ DOMAIN job.gated = 1 .. Len(job.gated) /\ DOMAIN job'.gated = 1 .. Len(job.gated) + 1
            /\ Len(job.gated) \in Nat
            /\ \A k \in 1 .. Len(job.gated) : job'.gated[k] = job.gated[k]
            /\ job'.gated[Len(job.gated) + 1] = job.at
        BY <1>0, <3>3
      <4>2. \A k \in DOMAIN job'.gated : k \in 1 .. Len(job.gated) \/ k = Len(job.gated) + 1
        BY <4>1
      <4> QED
        BY <1>a, <3>1, <4>1, <4>2
    <3> QED
      BY <1>2, <3>2, <3>3
  <2>5. job'.seen \subseteq ListedModels
    BY <1>1, <1>b, <1>f DEF EntriesInOrder, Read, LoadStages
  <2> QED
    BY <1>1, <1>a, <1>d, <2>3, <2>4, <2>5, SameDoc DEF EntriesInOrder, Read, LoadStages, EntriesDone
<1>6. DoneAsListed'
  <2> SUFFICES ASSUME Ok(job'.first) PROVE DoneAsListed'
    BY DEF DoneAsListed
  <2>1. Ok(job.first) /\ Ok(status) /\ status # "GATED"
    BY <1>1, ErrorsStay DEF Ok
  <2>2. job'.gated = <<>>
    BY <1>2, <1>f, <2>1 DEF DoneAsListed, Read, LoadStages
  <2>3. ASSUME job.calm, NEW i \in FirstEntries, i < job.at + 1, EntryName(i) \notin DOMAIN pipelines
        PROVE  ServedAs(Entry(i))' \/ Unreported(Entry(i))'
    <3>0. Entry(i)' = Entry(i) /\ loaders' = loaders /\ storage' = storage
      BY <1>1, <1>f, SameDoc DEF LoadKeeps, environment
    <3>1. i \in AcceptedEntries /\ i \in DOMAIN Doc.models /\ (i < job.at \/ i = job.at)
      BY <1>0, <1>a, <2>3, EntryNumbers DEF FirstEntries, AcceptedEntries
    <3>2. Entry(i).name = EntryName(i)
      BY <1>a, <3>1, EntryNamed
    <3>3. CASE i = job.at
      <4>1. \/ LoaderMissing(c) \/ storage[c.basePath] = "empty"
            \/ /\ c.name \in DOMAIN models' /\ models'[c.name].state \in {"AVAILABLE", "LOADING"}
               /\ ~ IsReloadRequired(c, models'[c.name].config)
        BY <1>d, <2>1, ReloadEffect DEF TypeOK, status
      <4>2. Entry(i)' = c
        BY <3>0, <3>3 DEF c
      <4> QED
        BY <3>0, <4>1, <4>2 DEF ServedAs, Unreported, Stuck, LoaderMissing
    <3>4. CASE i < job.at /\ i # job.at
      <4>1. ServedAs(Entry(i)) \/ Unreported(Entry(i))
        BY <1>f, <2>1, <2>3, <3>4 DEF DoneAsListed, Read, LoadStages, EntriesDone
      <4>2. Entry(i).name # c.name
        BY <1>0, <1>a, <1>b, <3>1, <3>2, <3>4, EntryNumbers DEF FirstEntries
      <4>3. Entry(i).name \in DOMAIN models =>
              Entry(i).name \in DOMAIN models' /\ models'[Entry(i).name] = models[Entry(i).name]
        BY <1>d, <4>2, ReloadEffect DEF TypeOK
      <4> QED
        BY <3>0, <4>1, <4>3 DEF ServedAs, Unreported, Stuck, LoaderMissing
    <3> QED
      BY <3>1, <3>3, <3>4
  <2>4. Given(Doc.loaders) => loaders' \subseteq {l.name : l \in Doc.loaders.of}
    BY <1>f, <2>1 DEF DoneAsListed, Read, LoadStages
  <2> QED
    BY <1>1, <1>d, <2>2, <2>3, <2>4, SameDoc DEF DoneAsListed, LoadStages, EntriesDone
<1>7. KeptByName'
  <2>2. e.name = c.name /\ (e.name \in DOMAIN servedModelConfigs => servedModelConfigs[e.name].name = e.name)
    BY <1>b DEF KeptByName
  <2>3. \A n \in DOMAIN job.fresh : job.fresh[n].name = n
    BY DEF KeptByName
  <2>4. \A n \in DOMAIN job'.fresh : job'.fresh[n].name = n
    <3>1. CASE job'.fresh = job.fresh
      BY <2>3, <3>1
    <3>2. CASE job'.fresh = With(job.fresh, e.name, c)
      BY <2>2, <2>3, <3>2, WithNamed
    <3>3. CASE e.name \in DOMAIN servedModelConfigs
               /\ job'.fresh = With(job.fresh, e.name, servedModelConfigs[e.name])
      BY <2>2, <2>3, <3>3, WithNamed
    <3> QED
      BY <1>2, <3>1, <3>2, <3>3
  <2> QED
    BY <1>f, <2>4 DEF KeptByName
<1>8. StartsAtFirst'
  BY <1>1 DEF StartsAtFirst
<1> QED
  BY <1>3, <1>4, <1>5, <1>6, <1>7, <1>8

\* All entries are done.
LEMMA ModelsListedStep ==
  ASSUME IInv, ModelsListed
  PROVE  IInv'
<1> USE DEF IInv, ModelsListed, At, history, managed
<1>0. TypeOK /\ job.time \in Nat /\ job.at \in Nat \ {0} /\ job.gated \in Seq(Nat)
  BY DEF TypeOK
<1>1. /\ DOMAIN job' = DOMAIN job /\ job'.stage = "retire" /\ job'.time = job.time /\ job'.at = job.at
      /\ job'.gated = job.gated /\ job'.doc = job.doc /\ job'.seen = job.seen /\ job'.fresh = job.fresh
      /\ job'.first = job.first /\ job'.calm = job.calm
  BY JobFields
<1>2. job.doc \in JsonContents
  BY DEF EntriesInOrder, Read, LoadStages
<1>a. \A i \in AcceptedEntries : i < job.at
  BY <1>0, <1>2, EntryNumbers
<1>3. TypeOK'
  BY <1>0, <1>1, LoadTyped DEF TypeOK, LoadStages
<1>4. TimesInOrder' /\ LoadIsCurrent' /\ TakenIsApplied' /\ HolderWorks' /\ PollsAfterLoad'
  BY <1>1, LoadControl DEF LoadStages
<1>5. EntriesInOrder'
  BY <1>1, <1>a, SameDoc DEF EntriesInOrder, Read, LoadStages, EntriesDone
<1>6. DoneAsListed'
  <2>1. \A i \in FirstEntries : EntriesDone(i)
    BY <1>a DEF FirstEntries, EntriesDone
  <2>2. \A i : (ServedAs(Entry(i))' <=> ServedAs(Entry(i))) /\ (Unreported(Entry(i))' <=> Unreported(Entry(i)))
    BY <1>1, SameDoc DEF ServedAs, Unreported, Stuck, LoaderMissing, LoadKeeps, environment
  <2> QED
    BY <1>1, <2>1, <2>2, SameDoc DEF DoneAsListed, Read, LoadStages
<1>7. KeptByName' /\ StartsAtFirst'
  BY <1>1 DEF KeptByName, StartsAtFirst
<1> QED
  BY <1>3, <1>4, <1>5, <1>6, <1>7

\* What is not listed ends.
LEMMA RetireModelsStep ==
  ASSUME IInv, RetireModels
  PROVE  IInv'
<1> USE DEF IInv, At
<1> DEFINE gone == DOMAIN models \ job.seen
<1>0. TypeOK /\ job.time \in Nat /\ job.at \in Nat \ {0} /\ job.gated \in Seq(Nat)
  BY DEF TypeOK
<1>1. /\ DOMAIN job' = DOMAIN job /\ job'.stage = "libraries" /\ job'.time = job.time /\ job'.at = job.at
      /\ job'.gated = job.gated /\ job'.doc = job.doc /\ job'.seen = job.seen /\ job'.fresh = job.fresh
      /\ job'.first = job.first /\ job'.calm = job.calm
  BY JobFields DEF RetireModels
<1>2. /\ UNCHANGED <<LoadKeeps, loaders, loadStatus, since, applied>> /\ job.stage = "retire" /\ Running
      /\ servedModelConfigs' = job.fresh
  BY DEF RetireModels
<1>a. /\ DOMAIN models' = DOMAIN models
      /\ \A n \in DOMAIN models :
           /\ n \in job.seen \/ models[n].state = "none" => models'[n] = models[n]
           /\ n \notin job.seen /\ models[n].state # "none" =>
                models'[n] = [models[n] EXCEPT !.state = IF n \in job.invalid THEN "FAILED" ELSE "END"]
      /\ DOMAIN pipelines' = DOMAIN pipelines
  BY DEF RetireModels, Notified
<1>b. \A n \in DOMAIN models : DOMAIN models[n] = Model
  BY DEF TypeOK
<1>c. ASSUME NEW n \in DOMAIN models, n \notin job.seen
      PROVE  DOMAIN models'[n] = Model /\ models'[n].state # "AVAILABLE"
  <2>1. CASE models[n].state = "none"
    BY <1>a, <1>b, <1>c, <2>1
  <2>2. CASE models[n].state # "none"
    <3>1. models'[n] = [models[n] EXCEPT !.state = IF n \in job.invalid THEN "FAILED" ELSE "END"]
      BY <1>a, <1>c, <2>2
    <3>2. DOMAIN models[n] = Model /\ "state" \in DOMAIN models[n]
      BY <1>b DEF Model
    <3> QED
      BY <3>1, <3>2
  <2> QED
    BY <2>1, <2>2
<1>3. TypeOK'
  <2>1. \A n \in DOMAIN models' : DOMAIN models'[n] = Model
    BY <1>a, <1>b, <1>c
  <2>2. pipelines' = Notified(gone)
    BY DEF RetireModels
  <2>3. \A n \in DOMAIN pipelines' : DOMAIN pipelines'[n] = Pipeline
    <3> HIDE DEF gone
    <3> QED
      BY <1>0, <2>2, NotifiedTyped
  <2> QED
    BY <1>0, <1>1, <1>2, <2>1, <2>3, LoadTyped DEF LoadStages
<1>4. TimesInOrder' /\ LoadIsCurrent' /\ TakenIsApplied' /\ HolderWorks' /\ PollsAfterLoad'
  BY <1>1, <1>2, LoadControl DEF LoadStages
<1>5. EntriesInOrder'
  BY <1>1, <1>2, SameDoc DEF EntriesInOrder, Read, LoadStages
<1>6. DoneAsListed'
  <2> SUFFICES ASSUME Ok(job.first) PROVE DoneAsListed'
    BY <1>1 DEF DoneAsListed
  <2>0. job.doc \in JsonContents /\ job.seen \subseteq ListedModels /\ job.gated = <<>>
    BY <1>2 DEF EntriesInOrder, DoneAsListed, Read, LoadStages
  <2>1. ASSUME job.calm, NEW i \in FirstEntries, EntryName(i) \notin DOMAIN pipelines
        PROVE  ServedAs(Entry(i))' \/ Unreported(Entry(i))'
    <3>1. EntriesDone(i) /\ i \in AcceptedEntries /\ i \in DOMAIN Doc.models
      BY <1>2 DEF EntriesDone, FirstEntries, AcceptedEntries
    <3>2. ServedAs(Entry(i)) \/ Unreported(Entry(i))
      BY <1>2, <2>1, <3>1 DEF DoneAsListed, Read, LoadStages
    <3>3. EntryName(i) \in job.seen /\ Entry(i).name = EntryName(i)
      BY <1>2, <2>0, <2>1, <3>1, EntryNamed DEF EntriesInOrder, Read, LoadStages
    <3>4. Entry(i)' = Entry(i) /\ loaders' = loaders /\ storage' = storage
      BY <1>1, <1>2, SameDoc DEF LoadKeeps, environment
    <3> QED
      BY <1>a, <3>2, <3>3, <3>4 DEF ServedAs, Unreported, Stuck, LoaderMissing
  <2>2. \A n \in DOMAIN models' : models'[n].state = "AVAILABLE" => n \in ListedModels
    BY <1>a, <1>c, <2>0
  <2>3. Given(Doc.loaders) => loaders' \subseteq {l.name : l \in Doc.loaders.of}
    BY <1>2 DEF DoneAsListed, Read, LoadStages
  <2> QED
    BY <1>1, <1>a, <2>0, <2>1, <2>2, <2>3, SameDoc DEF DoneAsListed, LoadStages
<1>7. KeptByName' /\ StartsAtFirst'
  BY <1>1, <1>2 DEF KeptByName, StartsAtFirst
<1> QED
  BY <1>3, <1>4, <1>5, <1>6, <1>7

\* After the models: what was done stays done when the models, the loaders, the base paths
\* and the known names of pipelines stay.
LEMMA LaterStages ==
  ASSUME IInv, job'.doc = job.doc, job'.calm => job.calm, UNCHANGED <<models, loaders, storage>>,
         DOMAIN pipelines \subseteq DOMAIN pipelines',
         job.stage \in {"libraries", "pipelines", "gated"},
         job'.stage \in {"libraries", "pipelines", "gated", "end"},
         Ok(job'.first) => Ok(job.first), job'.gated = job.gated,
         job'.stage \in {"pipelines", "gated"} => job'.seen \subseteq ListedPipelines,
         job'.stage \in {"gated", "end"} /\ Ok(job.first) =>
           \A n \in DOMAIN pipelines' : pipelines'[n].state = "AVAILABLE" => n \in ListedPipelines
  PROVE  EntriesInOrder' /\ DoneAsListed' /\ StartsAtFirst'
<1> USE DEF IInv, LoadStages, Read
<1>1. EntriesInOrder'
  BY SameDoc DEF EntriesInOrder
<1>2. \A i : (ServedAs(Entry(i))' <=> ServedAs(Entry(i))) /\ (Unreported(Entry(i))' <=> Unreported(Entry(i)))
  BY SameDoc DEF ServedAs, Unreported, Stuck, LoaderMissing
<1>3. \A i : EntriesDone(i) /\ EntriesDone(i)'
  BY DEF EntriesDone
<1>4. DoneAsListed'
  <2> SUFFICES ASSUME Ok(job'.first) PROVE DoneAsListed'
    BY DEF DoneAsListed
  <2>1. /\ job.gated = <<>>
        /\ job.calm => \A i \in FirstEntries :
             EntryName(i) \notin DOMAIN pipelines => ServedAs(Entry(i)) \/ Unreported(Entry(i))
        /\ \A n \in DOMAIN models : models[n].state = "AVAILABLE" => n \in ListedModels
        /\ Given(Doc.loaders) => loaders \subseteq {l.name : l \in Doc.loaders.of}
    BY <1>3 DEF DoneAsListed
  <2> QED
    BY <1>2, <2>1, SameDoc DEF DoneAsListed
<1> QED
  BY <1>1, <1>4 DEF StartsAtFirst

\* The libraries are loaded.
LEMMA LoadLibrariesStep ==
  ASSUME IInv, LoadLibraries
  PROVE  IInv'
<1> USE DEF IInv, At
<1>0. TypeOK /\ job.time \in Nat /\ job.at \in Nat \ {0} /\ job.gated \in Seq(Nat)
  BY DEF TypeOK
<1>1. /\ DOMAIN job' = DOMAIN job /\ job'.stage = "pipelines" /\ job'.time = job.time /\ job'.at = 1
      /\ job'.gated = job.gated /\ job'.doc = job.doc /\ job'.seen = {} /\ job'.fresh = job.fresh
      /\ job'.first = job.first /\ job'.calm = job.calm
  <2>1. job' = [Goto("pipelines") EXCEPT !.at = 1, !.seen = {}]
    BY DEF LoadLibraries
  <2> QED
    BY <2>1, JobFields
<1>2. /\ UNCHANGED <<LoadKeeps, servedModelConfigs, models, loaders, pipelines, loadStatus, since, applied>>
      /\ job.stage = "libraries" /\ Running
  BY DEF LoadLibraries, history
<1>3. TypeOK'
  BY <1>0, <1>1, <1>2, LoadTyped DEF TypeOK, LoadStages
<1>4. TimesInOrder' /\ LoadIsCurrent' /\ TakenIsApplied' /\ HolderWorks' /\ PollsAfterLoad'
  BY <1>1, <1>2, LoadControl DEF LoadStages
<1>5. EntriesInOrder' /\ DoneAsListed' /\ StartsAtFirst'
  BY <1>1, <1>2, LaterStages DEF LoadKeeps, environment
<1>6. KeptByName'
  BY <1>1, <1>2 DEF KeptByName
<1> QED
  BY <1>3, <1>4, <1>5, <1>6

\* A pipeline is loaded.
LEMMA LoadPipelineStep ==
  ASSUME IInv, LoadPipeline
  PROVE  IInv'
<1> USE DEF IInv, At
<1> DEFINE n == Doc.pipelines[job.at].name
<1>0. TypeOK /\ job.time \in Nat /\ job.at \in Nat \ {0} /\ job.gated \in Seq(Nat)
  BY DEF TypeOK
<1>a. \E status :
        job' = Advance(status) \/ job' = [Advance(status) EXCEPT !.seen = @ \cup {n}]
  BY DEF LoadPipeline
<1>1. /\ DOMAIN job' = DOMAIN job /\ job'.stage = job.stage /\ job'.time = job.time /\ job'.at = job.at + 1
      /\ job'.gated = job.gated /\ job'.doc = job.doc /\ job'.seen \subseteq job.seen \cup {n} /\ job'.fresh = job.fresh
      /\ job'.calm = job.calm /\ (Ok(job'.first) => Ok(job.first))
  <2>1. PICK status : job' = Advance(status) \/ job' = [Advance(status) EXCEPT !.seen = @ \cup {n}]
    BY <1>a
  <2>2. Ok(FirstError(job.first, status)) => Ok(job.first)
    BY ErrorsStay
  <2> HIDE DEF n
  <2>3. CASE job' = Advance(status)
    BY <2>2, <2>3, JobFields
  <2>4. CASE job' = [Advance(status) EXCEPT !.seen = @ \cup {n}]
    BY <2>2, <2>4, JobFields
  <2> QED
    BY <2>1, <2>3, <2>4
<1>2. /\ UNCHANGED <<LoadKeeps, servedModelConfigs, models, loaders, loadStatus, since, applied>>
      /\ job.stage = "pipelines" /\ Running
  BY DEF LoadPipeline, history
<1>b. DOMAIN pipelines \subseteq DOMAIN pipelines'
  BY DEF LoadPipeline, With
<1>c. job.at \in DOMAIN Doc.pipelines
  <2>1. job.doc \in JsonContents
    BY <1>2 DEF EntriesInOrder, Read, LoadStages
  <2>2. Len(Doc.pipelines) \in Nat /\ DOMAIN Doc.pipelines = 1 .. Len(Doc.pipelines)
    BY <2>1, ContentsAssumption DEF JsonContents, Doc
  <2>3. job.at <= Len(Doc.pipelines)
    BY DEF LoadPipeline
  <2> QED
    BY <1>0, <2>2, <2>3
<1>e. \A k \in DOMAIN pipelines' : DOMAIN pipelines'[k] = Pipeline
  <2> DEFINE p == Validated(n, Definition(Doc.pipelines[job.at]))
  <2>1. pipelines' = pipelines \/ pipelines' = With(pipelines, n, p)
    BY DEF LoadPipeline
  <2>2. DOMAIN p = Pipeline
    BY DEF Validated, Definition, Pipeline
  <2> HIDE DEF p, n
  <2> QED
    BY <2>1, <2>2 DEF With, TypeOK
<1>d. job'.seen \subseteq ListedPipelines
  BY <1>1, <1>2, <1>c DEF ListedPipelines, EntriesInOrder, Read, LoadStages
<1>3. TypeOK'
  BY <1>0, <1>1, <1>2, <1>e, LoadTyped DEF TypeOK, LoadStages
<1>4. TimesInOrder' /\ LoadIsCurrent' /\ TakenIsApplied' /\ HolderWorks' /\ PollsAfterLoad'
  BY <1>1, <1>2, LoadControl DEF LoadStages
<1>5. EntriesInOrder' /\ DoneAsListed' /\ StartsAtFirst'
  BY <1>1, <1>2, <1>b, <1>d, LaterStages DEF LoadKeeps, environment
<1>6. KeptByName'
  BY <1>1, <1>2 DEF KeptByName
<1> QED
  BY <1>3, <1>4, <1>5, <1>6

\* Pipelines that are not listed are retired.
LEMMA RetirePipelinesStep ==
  ASSUME IInv, RetirePipelines
  PROVE  IInv'
<1> USE DEF IInv, At
<1>0. TypeOK /\ job.time \in Nat /\ job.at \in Nat \ {0} /\ job.gated \in Seq(Nat)
  BY DEF TypeOK
<1>1. /\ DOMAIN job' = DOMAIN job /\ job'.stage = "gated" /\ job'.time = job.time /\ job'.at = job.at
      /\ job'.gated = job.gated /\ job'.doc = job.doc /\ job'.seen = job.seen /\ job'.fresh = job.fresh
      /\ job'.first = job.first /\ job'.calm = job.calm
  BY JobFields DEF RetirePipelines
<1>2. /\ UNCHANGED <<LoadKeeps, servedModelConfigs, models, loaders, loadStatus, since, applied>>
      /\ job.stage = "pipelines" /\ Running
  BY DEF RetirePipelines, history
<1>a. job.seen \subseteq ListedPipelines
  BY <1>2 DEF EntriesInOrder, Read, LoadStages
<1>b. /\ DOMAIN pipelines' = DOMAIN pipelines
      /\ \A n \in DOMAIN pipelines :
           DOMAIN pipelines'[n] = Pipeline /\ (n \notin job.seen => pipelines'[n].state # "AVAILABLE")
  <2>1. DOMAIN pipelines' = DOMAIN pipelines
    BY DEF RetirePipelines
  <2>2. ASSUME NEW n \in DOMAIN pipelines
        PROVE  DOMAIN pipelines'[n] = Pipeline /\ (n \notin job.seen => pipelines'[n].state # "AVAILABLE")
    <3>1. DOMAIN pipelines[n] = Pipeline /\ "state" \in DOMAIN pipelines[n]
      BY DEF TypeOK, Pipeline
    <3>2. CASE n \in job.seen
      BY <3>1, <3>2 DEF RetirePipelines
    <3>3. CASE n \notin job.seen
      <4>1. pipelines'[n] = [pipelines[n] EXCEPT !.state = "RETIRED", !.stale = FALSE, !.subscribed = {}]
        BY <3>3 DEF RetirePipelines
      <4> QED
        BY <3>1, <4>1
    <3> QED
      BY <3>2, <3>3
  <2> QED
    BY <2>1, <2>2
<1>3. TypeOK'
  BY <1>0, <1>1, <1>2, <1>b, LoadTyped DEF TypeOK, LoadStages
<1>4. TimesInOrder' /\ LoadIsCurrent' /\ TakenIsApplied' /\ HolderWorks' /\ PollsAfterLoad'
  BY <1>1, <1>2, LoadControl DEF LoadStages
<1>5. EntriesInOrder' /\ DoneAsListed' /\ StartsAtFirst'
  BY <1>1, <1>2, <1>a, <1>b, LaterStages DEF LoadKeeps, environment
<1>6. KeptByName'
  BY <1>1, <1>2 DEF KeptByName
<1> QED
  BY <1>3, <1>4, <1>5, <1>6

\* A gated configuration is tried again: this load has failed already.
LEMMA RetryGatedStep ==
  ASSUME IInv, RetryGated
  PROVE  IInv'
<1> USE DEF IInv, At
<1> DEFINE c == Entry(Head(job.gated))
           status == Reload(c).status
<1>0. TypeOK /\ job.time \in Nat /\ job.at \in Nat \ {0} /\ job.gated \in Seq(Nat) /\ job.gated # <<>>
  BY DEF TypeOK, RetryGated
<1>1. /\ DOMAIN job' = DOMAIN job /\ job'.stage = "gated" /\ job'.time = job.time /\ job'.at = job.at
      /\ job'.gated = Tail(job.gated) /\ job'.doc = job.doc /\ job'.seen = job.seen /\ job'.fresh = job.fresh
      /\ job'.first = FirstError(job.first, status) /\ job.stage = "gated"
  <2>1. job' = [job EXCEPT !.gated = Tail(@), !.first = FirstError(@, status)] /\ job.stage = "gated"
    BY DEF RetryGated
  <2> HIDE DEF c, status
  <2> QED
    BY <2>1, JobFields
<1>2. /\ UNCHANGED <<LoadKeeps, loaders, loadStatus, since, applied>> /\ Running
      /\ models' = Reload(c).models /\ DOMAIN pipelines' = DOMAIN pipelines
      /\ servedModelConfigs' \in {servedModelConfigs, With(servedModelConfigs, c.name, c)}
  BY DEF RetryGated, ApplyReload, Notified
<1> HIDE DEF c, status
<1>3. TypeOK'
  <2>3. Tail(job.gated) \in Seq(Nat)
    BY <1>0
  <2>4. /\ \A n \in DOMAIN models' : DOMAIN models'[n] = Model
        /\ \A n \in DOMAIN pipelines' : DOMAIN pipelines'[n] = Pipeline
    <3>1. ApplyReload(c, Reload(c))
      BY DEF RetryGated, c
    <3> QED
      BY <1>0, <3>1, ApplyTyped
  <2> QED
    BY <1>0, <1>1, <1>2, <2>3, <2>4, LoadTyped DEF LoadStages
<1>4. TimesInOrder' /\ LoadIsCurrent' /\ TakenIsApplied' /\ HolderWorks' /\ PollsAfterLoad'
  BY <1>1, <1>2, LoadControl DEF LoadStages
<1>5. EntriesInOrder'
  <2>1. /\ \A k \in DOMAIN job.gated : job.gated[k] \in FirstEntries
        /\ job.doc \in JsonContents /\ job.seen \subseteq ListedPipelines
    BY <1>1 DEF EntriesInOrder, Read, LoadStages
  <2>2. \A k \in DOMAIN Tail(job.gated) : k + 1 \in DOMAIN job.gated /\ Tail(job.gated)[k] = job.gated[k + 1]
    BY <1>0
  <2>3. \A k \in DOMAIN job'.gated : job'.gated[k] \in FirstEntries
    BY <1>1, <2>1, <2>2
  <2> QED
    BY <1>1, <2>1, <2>3, SameDoc DEF EntriesInOrder, Read, LoadStages
<1>6. DoneAsListed'
  <2>1. ~ Ok(job.first)
    BY <1>0, <1>1 DEF DoneAsListed, Read, LoadStages
  <2>2. ~ Ok(job'.first)
    BY <1>1, <2>1, ErrorsStay
  <2> QED
    BY <2>2 DEF DoneAsListed
<1>7. KeptByName' /\ StartsAtFirst'
  <2>1. \A n \in DOMAIN servedModelConfigs : servedModelConfigs[n].name = n
    BY DEF KeptByName
  <2>2. \A n \in DOMAIN servedModelConfigs' : servedModelConfigs'[n].name = n
    BY <1>2, <2>1, WithNamed
  <2> QED
    BY <1>1, <2>2 DEF KeptByName, StartsAtFirst
<1> QED
  BY <1>3, <1>4, <1>5, <1>6, <1>7

\* The load is over.
LEMMA GatedDoneStep ==
  ASSUME IInv, GatedDone
  PROVE  IInv'
<1> USE DEF IInv, At
<1>0. TypeOK /\ job.time \in Nat /\ job.at \in Nat \ {0} /\ job.gated \in Seq(Nat)
  BY DEF TypeOK
<1>1. /\ DOMAIN job' = DOMAIN job /\ job'.stage = "end" /\ job'.time = job.time /\ job'.at = job.at
      /\ job'.gated = job.gated /\ job'.doc = job.doc /\ job'.seen = job.seen /\ job'.fresh = job.fresh
      /\ job'.first = job.first /\ job'.calm = job.calm
  BY JobFields DEF GatedDone
<1>2. /\ UNCHANGED <<LoadKeeps, servedModelConfigs, models, loaders, pipelines, loadStatus, since, applied>>
      /\ job.stage = "gated" /\ Running
  BY DEF GatedDone, history, managed
<1>3. TypeOK'
  BY <1>0, <1>1, <1>2, LoadTyped DEF TypeOK, LoadStages
<1>4. TimesInOrder' /\ LoadIsCurrent' /\ TakenIsApplied' /\ HolderWorks' /\ PollsAfterLoad'
  BY <1>1, <1>2, LoadControl DEF LoadStages
<1>5. EntriesInOrder' /\ DoneAsListed' /\ StartsAtFirst'
  <2>1. Ok(job.first) =>
          \A n \in DOMAIN pipelines' : pipelines'[n].state = "AVAILABLE" => n \in ListedPipelines
    BY <1>2 DEF DoneAsListed, Read, LoadStages
  <2> QED
    BY <1>1, <1>2, <2>1, LaterStages DEF LoadKeeps, environment
<1>6. KeptByName'
  BY <1>1, <1>2 DEF KeptByName
<1> QED
  BY <1>3, <1>4, <1>5, <1>6

\* What a load has done and what is kept does not depend on the threads, the file or the
\* server.
LEMMA LoadFrame ==
  ASSUME IInv, UNCHANGED <<job, managed, storage>>
  PROVE  StartsAtFirst' /\ EntriesInOrder' /\ DoneAsListed' /\ KeptByName'
<1> USE DEF IInv, managed
<1>1. StartsAtFirst' /\ KeptByName'
  BY DEF StartsAtFirst, KeptByName
<1>2. EntriesInOrder'
  BY SameDoc DEF EntriesInOrder, Read, LoadStages, EntriesDone
<1>3. \A i : (ServedAs(Entry(i))' <=> ServedAs(Entry(i))) /\ (Unreported(Entry(i))' <=> Unreported(Entry(i)))
  BY SameDoc DEF ServedAs, Unreported, Stuck, LoaderMissing
<1>4. DoneAsListed'
  BY <1>3, SameDoc DEF DoneAsListed, Read, LoadStages, EntriesDone
<1> QED
  BY <1>1, <1>2, <1>4

\* No load is on its way.
LEMMA NothingRead ==
  ASSUME ~ Read', job'.stage \notin {"stat", "read", "loaders"} \/ (job'.at = 1 /\ job'.seen = {} /\ job'.gated = <<>>)
  PROVE  LoadIsCurrent' /\ StartsAtFirst' /\ EntriesInOrder' /\ DoneAsListed'
<1> QED
  BY DEF LoadIsCurrent, StartsAtFirst, EntriesInOrder, DoneAsListed, Read

\* The fields of a new job.
LEMMA NewJob ==
  /\ DOMAIN PollJob = DOMAIN NoJob /\ PollJob.stage = "poll" /\ PollJob.time = 0 /\ PollJob.at = 1
  /\ PollJob.gated = <<>> /\ PollJob.fresh = <<>>
  /\ NoJob.stage = "none" /\ NoJob.time = 0 /\ NoJob.at = 1 /\ NoJob.gated = <<>> /\ NoJob.fresh = <<>>
BY DEF PollJob, NoJob

\* The time of the file is taken: it is not newer than the file.
LEMMA StatConfigStep ==
  ASSUME IInv, StatConfig
  PROVE  IInv'
<1> USE DEF IInv
<1>0. TypeOK /\ job.time \in Nat /\ job.at \in Nat \ {0} /\ job.gated \in Seq(Nat)
  BY DEF TypeOK
<1>1. /\ DOMAIN job' = DOMAIN job /\ job'.stage = "read" /\ job'.time = job.time /\ job'.at = job.at
      /\ job'.gated = job.gated /\ job'.seen = job.seen /\ job'.fresh = job.fresh
  BY JobFields DEF StatConfig
<1>2. /\ UNCHANGED <<LoadKeeps, managed, lastLoadConfigStatus, since, applied>>
      /\ job.stage = "stat" /\ Running /\ configMtx # Nobody
      /\ lastConfigChangeTime' \in {0, lastConfigChangeTime, file.ctime}
  BY DEF StatConfig, At, history
<1>3. TypeOK'
  <2>1. server # "down"
    BY <1>2 DEF Running
  <2>2. lastConfigChangeTime' \in Nat
    BY <1>2 DEF TypeOK
  <2> QED
    BY <1>1, <1>2, <2>1, <2>2 DEF TypeOK, LoadKeeps, environment, process, managed
<1>4. TimesInOrder'
  BY <1>2 DEF TimesInOrder, TypeOK, LoadKeeps, environment
<1>5. job.at = 1 /\ job.seen = {} /\ job.gated = <<>>
  BY <1>2 DEF StartsAtFirst
<1>6. LoadIsCurrent' /\ StartsAtFirst' /\ EntriesInOrder' /\ DoneAsListed'
  <2>1. ~ Read'
    BY <1>1 DEF Read, LoadStages
  <2> QED
    BY <1>1, <1>5, <2>1, NothingRead
<1>7. TakenIsApplied' /\ HolderWorks'
  BY <1>1, <1>2 DEF TakenIsApplied, HolderWorks, PollStages, LoadKeeps
<1>8. PollsAfterLoad'
  BY <1>1, <1>2 DEF PollsAfterLoad, FromFile, Option, PollStages, LoadKeeps, process
<1>9. KeptByName'
  BY <1>1, <1>2 DEF KeptByName, managed
<1> QED
  BY <1>3, <1>4, <1>6, <1>7, <1>8, <1>9

\* The file is read, again, or for good.
LEMMA ReadConfigStep ==
  ASSUME IInv, ReadConfig
  PROVE  IInv'
<1> USE DEF IInv
<1>0. /\ TypeOK /\ job.time \in Nat /\ job.at \in Nat \ {0} /\ job.gated \in Seq(Nat)
      /\ file.content \in DOMAIN Contents /\ file.ctime \in Nat
  BY DEF TypeOK
<1>2. /\ UNCHANGED <<LoadKeeps, managed, loadStatus, since, applied>>
      /\ job.stage = "read" /\ Running /\ configMtx # Nobody
  BY DEF ReadConfig, At, history
<1>a. \/ job' = [job EXCEPT !.reads = @ + 1]
      \/ job' = [Goto("end") EXCEPT !.first = "CONFIG_FILE_INVALID"]
      \/ job' = [Goto("end") EXCEPT !.first = "JSON_INVALID"]
      \/ /\ file.content \in JsonContents
         /\ job' = [Goto("loaders") EXCEPT !.doc = file.content, !.time = file.ctime, !.calm = TRUE]
  <2>1. Content.kind \in {"missing", "garbled", "invalid", "json"}
    BY <1>0, ContentsAssumption DEF Content
  <2>2. CASE Content.kind = "missing"
    BY <2>2 DEF ReadConfig
  <2>3. CASE Content.kind = "garbled"
    BY <2>3 DEF ReadConfig
  <2>4. CASE Content.kind = "invalid"
    BY <2>4 DEF ReadConfig
  <2>5. CASE Content.kind = "json"
    <3>1. file.content \in JsonContents
      BY <1>0, <2>5 DEF Content, JsonContents
    <3> QED
      BY <2>5, <3>1 DEF ReadConfig
  <2> QED
    BY <2>1, <2>2, <2>3, <2>4, <2>5
<1>1. /\ DOMAIN job' = DOMAIN job /\ job'.at = job.at /\ job'.gated = job.gated /\ job'.seen = job.seen
      /\ job'.fresh = job.fresh
      /\ \/ job'.stage = "read" /\ job'.time = job.time
         \/ job'.stage = "end" /\ job'.time = job.time /\ ~ Ok(job'.first)
         \/ /\ job'.stage = "loaders" /\ job'.time = file.ctime /\ job'.doc = file.content
            /\ file.content \in JsonContents
  <2>1. CASE job' = [job EXCEPT !.reads = @ + 1]
    BY <1>0, <1>2, <2>1, JobFields
  <2>2. CASE job' = [Goto("end") EXCEPT !.first = "CONFIG_FILE_INVALID"]
    BY <1>0, <2>2, JobFields DEF Ok
  <2>3. CASE job' = [Goto("end") EXCEPT !.first = "JSON_INVALID"]
    BY <1>0, <2>3, JobFields DEF Ok
  <2>4. CASE /\ file.content \in JsonContents
             /\ job' = [Goto("loaders") EXCEPT !.doc = file.content, !.time = file.ctime, !.calm = TRUE]
    BY <1>0, <2>4, JobFields
  <2> QED
    BY <1>a, <2>1, <2>2, <2>3, <2>4
<1>3. TypeOK'
  <2>1. server # "down"
    BY <1>2 DEF Running
  <2> QED
    BY <1>0, <1>1, <1>2, <2>1 DEF TypeOK, LoadKeeps, environment, process, managed, loadStatus, LoadStages
<1>4. TimesInOrder'
  BY <1>2 DEF TimesInOrder, LoadKeeps, environment, loadStatus
<1>b. job.at = 1 /\ job.seen = {} /\ job.gated = <<>>
  BY <1>2 DEF StartsAtFirst
<1>6. LoadIsCurrent' /\ StartsAtFirst' /\ EntriesInOrder' /\ DoneAsListed'
  <2>1. CASE job'.stage # "loaders"
    <3>1. ~ Read'
      BY <1>1, <2>1 DEF Read, LoadStages
    <3> QED
      BY <1>1, <1>b, <3>1, NothingRead
  <2>2. CASE job'.stage = "loaders"
    <3>1. job'.time = file.ctime /\ job'.doc \in JsonContents
      BY <1>1, <2>2
    <3>2. LoadIsCurrent'
      BY <1>0, <1>2, <3>1 DEF LoadIsCurrent, TimesInOrder, LoadKeeps, environment, loadStatus
    <3>3. StartsAtFirst'
      BY <1>1, <1>b DEF StartsAtFirst
    <3>4. EntriesInOrder'
      BY <1>1, <1>b, <2>2, <3>1 DEF EntriesInOrder
    <3>5. DoneAsListed'
      BY <1>1, <1>b, <2>2 DEF DoneAsListed, EntriesDone
    <3> QED
      BY <3>2, <3>3, <3>4, <3>5
  <2> QED
    BY <2>1, <2>2
<1>7. TakenIsApplied' /\ HolderWorks'
  BY <1>1, <1>2 DEF TakenIsApplied, HolderWorks, PollStages, LoadKeeps
<1>8. PollsAfterLoad'
  BY <1>1, <1>2 DEF PollsAfterLoad, FromFile, Option, PollStages, LoadKeeps, process
<1>9. KeptByName'
  BY <1>1, <1>2 DEF KeptByName, managed
<1> QED
  BY <1>3, <1>4, <1>6, <1>7, <1>8, <1>9

\* The load ends: its status is kept, and what it has read is applied if it is OK.
LEMMA EndLoadStep ==
  ASSUME IInv, EndLoad
  PROVE  IInv'
<1> USE DEF IInv
<1>0. /\ TypeOK /\ job.time \in Nat /\ applied \in Nat /\ lastConfigChangeTime \in Nat /\ file.ctime \in Nat
      /\ DOMAIN thread = Threads /\ configMtx \in Threads \cup {Main, Nobody} /\ since \in [Requests -> Nat]
  BY DEF TypeOK
<1>1. /\ job.stage = "end" /\ Running /\ configMtx # Nobody
      /\ lastLoadConfigStatus' = job.first
      /\ applied' = IF Ok(job.first) THEN job.time ELSE applied
      /\ UNCHANGED <<environment, options, exitTrigger, managed, lastConfigChangeTime, since, lost>>
  BY DEF EndLoad, At
<1>2. /\ Main \notin Requests /\ Watcher \notin Requests /\ Nobody \notin Requests
      /\ Main # Watcher /\ Nobody # Watcher /\ Nobody # Main
  BY RequestsAssumption DEF Main, Watcher, Nobody
<1>3. \/ /\ configMtx = Main /\ Unlock /\ UNCHANGED thread /\ server' \in {"exited", "loaded"}
      \/ configMtx = Watcher /\ job' = PollJob /\ UNCHANGED <<server, thread, configMtx>>
      \/ /\ configMtx \in Requests /\ Unlock /\ UNCHANGED server
         /\ thread' = [thread EXCEPT ![configMtx] = IF Ok(job.first) THEN "update" ELSE "failed"]
  <2>1. CASE configMtx = Main
    BY <1>2, <2>1 DEF EndLoad
  <2>2. CASE configMtx = Watcher
    BY <1>2, <2>2 DEF EndLoad
  <2>3. CASE configMtx \in Requests
    BY <1>2, <2>3 DEF EndLoad
  <2> QED
    BY <1>0, <1>1, <2>1, <2>2, <2>3 DEF Threads
<1>4. /\ DOMAIN job' = DOMAIN NoJob /\ job'.time = 0 /\ job'.at = 1 /\ job'.gated = <<>> /\ job'.fresh = <<>>
      /\ \/ job'.stage = "poll" /\ configMtx' = configMtx /\ configMtx = Watcher
         \/ job'.stage = "none" /\ configMtx' = Nobody
  BY <1>3, NewJob DEF Unlock
<1>5. Ok(job.first) =>
        /\ job.time <= file.ctime /\ lastConfigChangeTime <= job.time /\ applied <= job.time
        /\ configMtx \in Requests => since[configMtx] <= job.time
  BY <1>1 DEF LoadIsCurrent, Read
<1>6. TypeOK'
  <2>1. server' # "down" /\ DOMAIN thread' = Threads
    BY <1>0, <1>1, <1>3 DEF Running
  <2>2. applied' \in Nat
    BY <1>0, <1>1
  <2>3. configMtx' \in Threads \cup {Main, Nobody}
    BY <1>0, <1>4
  <2>4. job'.gated \in Seq(Nat) /\ job'.at \in Nat \ {0} /\ job'.time \in Nat
    BY <1>4
  <2> QED
    BY <1>1, <1>4, <2>1, <2>2, <2>3, <2>4 DEF TypeOK, environment, managed, PollStages
<1>7. TimesInOrder'
  BY <1>1, <1>5 DEF TimesInOrder, environment
<1>8. LoadIsCurrent' /\ StartsAtFirst' /\ EntriesInOrder' /\ DoneAsListed'
  <2>1. ~ Read'
    BY <1>4 DEF Read, LoadStages
  <2> QED
    BY <1>4, <2>1, NothingRead
<1>9. TakenIsApplied' /\ HolderWorks'
  BY <1>1, <1>2, <1>4, <1>5 DEF TakenIsApplied, HolderWorks
<1>10. PollsAfterLoad'
  <2>1. applied <= applied' /\ applied' \in Nat
    BY <1>0, <1>1, <1>5
  <2> SUFFICES ASSUME FromFile, NEW r \in Requests,
                      thread'[r] \in {"update", "answered"} \/ (configMtx' = r /\ job'.stage \in PollStages)
               PROVE  since[r] <= applied'
    BY <1>1 DEF PollsAfterLoad, FromFile, Option
  <2>2. thread'[r] \in {"update", "answered"}
    BY <1>2, <1>4
  <2>3. CASE thread[r] \in {"update", "answered"}
    <3>1. since[r] <= applied
      BY <2>3 DEF PollsAfterLoad
    <3> QED
      BY <1>0, <2>1, <3>1
  <2>4. CASE thread[r] \notin {"update", "answered"}
    <3>1. configMtx = r /\ Ok(job.first)
      BY <1>0, <1>3, <2>2, <2>4 DEF Threads
    <3> QED
      BY <1>1, <1>5, <3>1
  <2> QED
    BY <2>3, <2>4
<1>11. KeptByName'
  BY <1>1, <1>4 DEF KeptByName, managed
<1> QED
  BY <1>6, <1>7, <1>8, <1>9, <1>10, <1>11

(***************************************************************************)
(* updateConfigurationWithoutConfigFile.                                   *)
(***************************************************************************)

\* One model is looked at again.
LEMMA PollModelStep ==
  ASSUME IInv, NEW n, PollModel(n)
  PROVE  IInv'
<1> USE DEF IInv
<1> DEFINE c == servedModelConfigs[n]
<1>0. TypeOK /\ job.time \in Nat /\ job.at \in Nat \ {0} /\ job.gated \in Seq(Nat)
  BY DEF TypeOK
<1>1. /\ UNCHANGED <<LoadKeeps, servedModelConfigs, loadStatus, since, applied>> /\ Running /\ job.stage = "poll"
      /\ ApplyReload(c, Reload(c))
  BY DEF PollModel, At, history
<1>2. /\ DOMAIN job' = DOMAIN job /\ job'.stage = "poll" /\ job'.time = job.time /\ job'.at = job.at
      /\ job'.gated = job.gated /\ job'.fresh = job.fresh
  <2>1. \E seen, reloaded, first : job' = [job EXCEPT !.seen = seen, !.reloaded = reloaded, !.first = first]
    BY DEF PollModel
  <2> QED
    BY <1>0, <1>1, <2>1, JobFields
<1>3. TypeOK'
  <2>1. /\ \A k \in DOMAIN models' : DOMAIN models'[k] = Model
        /\ \A k \in DOMAIN pipelines' : DOMAIN pipelines'[k] = Pipeline
    <3> HIDE DEF c
    <3> QED
      BY <1>0, <1>1, ApplyTyped
  <2> QED
    BY <1>0, <1>1, <1>2, <2>1, LoadTyped DEF PollStages
<1>4. /\ TimesInOrder' /\ LoadIsCurrent' /\ TakenIsApplied' /\ HolderWorks' /\ PollsAfterLoad'
      /\ StartsAtFirst' /\ EntriesInOrder' /\ DoneAsListed'
  BY <1>1, <1>2, PollControl DEF PollStages
<1>5. KeptByName'
  BY <1>1, <1>2 DEF KeptByName
<1> QED
  BY <1>3, <1>4, <1>5

\* The pipelines that were notified are validated again.
LEMMA RevalidatePipelinesStep ==
  ASSUME IInv, RevalidatePipelines
  PROVE  IInv'
<1> USE DEF IInv
<1>0. TypeOK /\ job.time \in Nat /\ job.at \in Nat \ {0} /\ job.gated \in Seq(Nat)
  BY DEF TypeOK
<1>1. /\ UNCHANGED <<LoadKeeps, servedModelConfigs, models, loadStatus, since, applied>> /\ Running /\ job.stage = "poll"
      /\ DOMAIN pipelines' = DOMAIN pipelines
      /\ \A n \in DOMAIN pipelines :
           pipelines'[n] = Validated(n, pipelines[n]) \/ pipelines'[n] = pipelines[n]
  BY DEF RevalidatePipelines, At, history
<1>2. /\ DOMAIN job' = DOMAIN job /\ job'.stage = "polled" /\ job'.time = job.time /\ job'.at = job.at
      /\ job'.gated = job.gated /\ job'.fresh = job.fresh
  <2>1. \E first : job' = [Goto("polled") EXCEPT !.first = first]
    BY DEF RevalidatePipelines
  <2> QED
    BY <1>0, <2>1, JobFields
<1>3. TypeOK'
  <2>1. \A k \in DOMAIN models' : DOMAIN models'[k] = Model
    BY <1>1 DEF TypeOK
  <2>2. \A k \in DOMAIN pipelines' : DOMAIN pipelines'[k] = Pipeline
    <3>1. \A k \in DOMAIN pipelines : DOMAIN Validated(k, pipelines[k]) = DOMAIN pipelines[k]
      BY DEF Validated
    <3> QED
      BY <1>1, <3>1 DEF TypeOK
  <2> QED
    BY <1>0, <1>1, <1>2, <2>1, <2>2, LoadTyped DEF PollStages
<1>4. /\ TimesInOrder' /\ LoadIsCurrent' /\ TakenIsApplied' /\ HolderWorks' /\ PollsAfterLoad'
      /\ StartsAtFirst' /\ EntriesInOrder' /\ DoneAsListed'
  BY <1>1, <1>2, PollControl DEF PollStages
<1>5. KeptByName'
  BY <1>1, <1>2 DEF KeptByName
<1> QED
  BY <1>3, <1>4, <1>5

(***************************************************************************)
(* The threads and the server.                                             *)
(***************************************************************************)

\* Steps that take or leave configMtx, and steps of one thread: the types.
LEMMA ThreadTyped ==
  ASSUME TypeOK, UNCHANGED <<file, managed, loadStatus, applied>>, since' \in [Requests -> Nat],
         DOMAIN thread' = Threads, configMtx' \in Threads \cup {Main, Nobody},
         \/ UNCHANGED job
         \/ /\ DOMAIN job' = DOMAIN NoJob /\ job'.stage \in {"none", "stat", "poll"}
            /\ job'.time = 0 /\ job'.at = 1 /\ job'.gated = <<>>,
         server' # "down"
  PROVE  TypeOK'
<1>1. /\ DOMAIN job' = DOMAIN NoJob
      /\ job'.stage \in LoadStages \cup PollStages \cup {"none", "stat", "read", "end"}
      /\ job'.time \in Nat /\ job'.at \in Nat \ {0} /\ job'.gated \in Seq(Nat)
  <2>1. CASE UNCHANGED job
    BY <2>1 DEF TypeOK
  <2>2. CASE DOMAIN job' = DOMAIN NoJob /\ job'.stage \in {"none", "stat", "poll"}
             /\ job'.time = 0 /\ job'.at = 1 /\ job'.gated = <<>>
    BY <2>2 DEF PollStages
  <2> QED
    BY <2>1, <2>2
<1> QED
  BY <1>1 DEF TypeOK, managed, loadStatus

\* The poll ends.
LEMMA EndPollStep ==
  ASSUME IInv, EndPoll
  PROVE  IInv'
<1> USE DEF IInv
<1>1. /\ UNCHANGED <<environment, process, managed, loadStatus, since, applied>> /\ job.stage = "polled" /\ Running
      /\ configMtx' = Nobody /\ job' = NoJob
      /\ thread' = [thread EXCEPT ![configMtx] =
                      IF configMtx = Watcher THEN "wait" ELSE IF Ok(job.first) THEN "answered" ELSE "failed"]
  BY DEF EndPoll, At, Unlock, history
<1>2. /\ DOMAIN job' = DOMAIN NoJob /\ job'.stage = "none" /\ job'.time = 0 /\ job'.at = 1
      /\ job'.gated = <<>> /\ job'.fresh = <<>>
  BY <1>1, NewJob
<1>3. TypeOK'
  <2>1. server' # "down" /\ DOMAIN thread' = Threads /\ since' \in [Requests -> Nat]
    BY <1>1 DEF Running, TypeOK, process
  <2> QED
    BY <1>1, <1>2, <2>1, ThreadTyped DEF environment
<1>4. TimesInOrder' /\ TakenIsApplied'
  BY <1>1, <1>2 DEF TimesInOrder, TakenIsApplied, environment, loadStatus, PollStages
<1>5. HolderWorks'
  BY <1>1, <1>2, RequestsAssumption DEF HolderWorks, Nobody
<1>6. LoadIsCurrent' /\ StartsAtFirst' /\ EntriesInOrder' /\ DoneAsListed'
  <2>1. ~ Read'
    BY <1>2 DEF Read, LoadStages
  <2> QED
    BY <1>2, <2>1, NothingRead
<1>7. PollsAfterLoad'
  <2> SUFFICES ASSUME FromFile, NEW r \in Requests, thread'[r] \in {"update", "answered"}
               PROVE  since[r] <= applied
    BY <1>1, <1>2 DEF PollsAfterLoad, FromFile, Option, process, PollStages
  <2>1. thread[r] \in {"update", "answered"} \/ configMtx = r
    BY <1>1 DEF TypeOK, Threads
  <2> QED
    BY <1>1, <2>1 DEF PollsAfterLoad, PollStages
<1>8. KeptByName'
  BY <1>1, <1>2 DEF KeptByName, managed
<1> QED
  BY <1>3, <1>4, <1>5, <1>6, <1>7, <1>8

\* configMtx is taken to load or to poll, by the main thread, the watcher, or a request
\* whose turn it is.
LEMMA LockStep ==
  ASSUME IInv, NEW t \in Threads \cup {Main}, configMtx = Nobody, configMtx' = t,
         job' = [NoJob EXCEPT !.stage = "stat"] \/ job' = PollJob,
         UNCHANGED <<file, options, managed, loadStatus, since, applied>>, server' # "down",
         DOMAIN thread' = Threads, t \in Requests => thread'[t] = "busy",
         \A r \in Requests : r # t => thread'[r] = thread[r],
         t \in Requests /\ FromFile /\ job' = PollJob => thread[t] = "update"
  PROVE  IInv'
<1> USE DEF IInv
<1>0. t # Nobody
  BY RequestsAssumption DEF Threads, Nobody, Main, Watcher
<1>1. /\ DOMAIN job' = DOMAIN NoJob /\ job'.time = 0 /\ job'.at = 1 /\ job'.gated = <<>> /\ job'.fresh = <<>>
      /\ \/ job'.stage = "stat" /\ job'.seen = {}
         \/ job'.stage = "poll" /\ job' = PollJob
  <2>1. CASE job' = [NoJob EXCEPT !.stage = "stat"]
    BY <2>1 DEF NoJob
  <2>2. CASE job' = PollJob
    BY <2>2, NewJob
  <2> QED
    BY <2>1, <2>2
<1>2. job.stage = "none"
  BY DEF HolderWorks
<1>3. TypeOK'
  <2>1. since' \in [Requests -> Nat] /\ configMtx' \in Threads \cup {Main, Nobody}
    BY DEF TypeOK
  <2> QED
    BY <1>1, <2>1, ThreadTyped
<1>4. TimesInOrder' /\ TakenIsApplied'
  BY <1>1, <1>2 DEF TimesInOrder, TakenIsApplied, loadStatus, PollStages
<1>5. HolderWorks'
  BY <1>0, <1>1 DEF HolderWorks
<1>6. LoadIsCurrent' /\ StartsAtFirst' /\ EntriesInOrder' /\ DoneAsListed'
  <2>1. ~ Read'
    BY <1>1 DEF Read, LoadStages
  <2> QED
    BY <1>1, <2>1, NothingRead
<1>7. PollsAfterLoad'
  <2> SUFFICES ASSUME FromFile, NEW r \in Requests,
                      thread'[r] \in {"update", "answered"} \/ (t = r /\ job'.stage \in PollStages)
               PROVE  since[r] <= applied
    BY DEF PollsAfterLoad, FromFile, Option
  <2>1. thread[r] \in {"update", "answered"}
    BY <1>1 DEF PollStages
  <2> QED
    BY <2>1 DEF PollsAfterLoad
<1>8. KeptByName'
  BY <1>1 DEF KeptByName, managed
<1> QED
  BY <1>3, <1>4, <1>5, <1>6, <1>7, <1>8

\* The watcher wakes up.
LEMMA WatcherWakesStep ==
  ASSUME IInv, WatcherWakes
  PROVE  IInv'
<1>1. /\ configMtx = Nobody /\ configMtx' = Watcher
      /\ job' = [NoJob EXCEPT !.stage = "stat"] \/ job' = PollJob
  BY DEF WatcherWakes, Lock, LockToPoll
<1>2. /\ UNCHANGED <<file, options, managed, loadStatus, since, applied>> /\ server' = server /\ Running
      /\ thread' = [thread EXCEPT ![Watcher] = "busy"]
  BY DEF WatcherWakes, environment, process, history
<1>3. Watcher \in Threads /\ Watcher \notin Requests
  BY RequestsAssumption DEF Threads, Watcher
<1>4. DOMAIN thread = Threads
  BY DEF IInv, TypeOK
<1>5. DOMAIN thread' = Threads /\ \A r \in Requests : thread'[r] = thread[r]
  BY <1>2, <1>3, <1>4 DEF Threads
<1> QED
  BY <1>1, <1>2, <1>3, <1>5, LockStep DEF Running

\* A request takes configMtx to load the file.
LEMMA RequestLoadsStep ==
  ASSUME IInv, NEW r \in Requests, RequestLoads(r)
  PROVE  IInv'
<1>1. configMtx = Nobody /\ configMtx' = r /\ job' = [NoJob EXCEPT !.stage = "stat"]
  BY DEF RequestLoads, Lock
<1>2. /\ UNCHANGED <<file, options, managed, loadStatus, since, applied>> /\ server' = server /\ Running
      /\ thread' = [thread EXCEPT ![r] = "busy"]
  BY DEF RequestLoads, environment, process, history
<1>3. r \in Threads
  BY DEF Threads
<1>4. DOMAIN thread = Threads
  BY DEF IInv, TypeOK
<1>5. DOMAIN thread' = Threads /\ thread'[r] = "busy" /\ \A q \in Requests : q # r => thread'[q] = thread[q]
  BY <1>2, <1>3, <1>4 DEF Threads
<1>6. job' # PollJob
  <2>1. job'.stage = "stat"
    BY <1>1 DEF NoJob
  <2>2. PollJob.stage = "poll"
    BY NewJob
  <2> QED
    BY <2>1, <2>2
<1> QED
  BY <1>1, <1>2, <1>3, <1>5, <1>6, LockStep DEF Running

\* A request takes configMtx to poll.
LEMMA RequestUpdatesStep ==
  ASSUME IInv, NEW r \in Requests, RequestUpdates(r)
  PROVE  IInv'
<1>1. configMtx = Nobody /\ configMtx' = r /\ job' = PollJob /\ thread[r] = "update"
  BY DEF RequestUpdates, LockToPoll
<1>2. /\ UNCHANGED <<file, options, managed, loadStatus, since, applied>> /\ server' = server /\ Running
      /\ thread' = [thread EXCEPT ![r] = "busy"]
  BY DEF RequestUpdates, environment, process, history
<1>3. r \in Threads
  BY DEF Threads
<1>4. DOMAIN thread = Threads
  BY DEF IInv, TypeOK
<1>5. DOMAIN thread' = Threads /\ thread'[r] = "busy" /\ \A q \in Requests : q # r => thread'[q] = thread[q]
  BY <1>2, <1>3, <1>4 DEF Threads
<1> QED
  BY <1>1, <1>2, <1>3, <1>5, LockStep DEF Running

\* A step of a thread that neither has configMtx nor takes it, or of the main thread.
LEMMA OtherStep ==
  ASSUME IInv, UNCHANGED <<options, file, storage, managed, loadStatus, configMtx, job, applied>>,
         server # "down" => server' # "down",
         since' \in [Requests -> Nat], DOMAIN thread' = Threads,
         \A r \in Requests :
           /\ since'[r] = since[r] \/ (since'[r] = file.ctime /\ configMtx # r /\ thread'[r] \notin {"update", "answered"})
           /\ thread'[r] = thread[r] \/ thread[r] # "busy"
           /\ thread'[r] \in {"update", "answered"} /\ FromFile => since'[r] <= applied
  PROVE  IInv'
<1> USE DEF IInv
<1>0. file.ctime \in Nat /\ applied \in Nat
  BY DEF TypeOK
<1>1. TypeOK'
  BY DEF TypeOK, managed, loadStatus
<1>2. TimesInOrder' /\ TakenIsApplied' /\ HolderWorks'
  BY <1>0 DEF TimesInOrder, TakenIsApplied, HolderWorks, loadStatus
<1>3. StartsAtFirst' /\ EntriesInOrder' /\ DoneAsListed' /\ KeptByName'
  BY LoadFrame
<1>4. LoadIsCurrent'
  BY DEF LoadIsCurrent, Read, loadStatus
<1>5. PollsAfterLoad'
  BY DEF PollsAfterLoad, FromFile, Option
<1> QED
  BY <1>1, <1>2, <1>3, <1>4, <1>5

\* The watcher exits.
LEMMA WatcherExitsStep ==
  ASSUME IInv, WatcherExits
  PROVE  IInv'
<1>1. /\ UNCHANGED <<options, file, storage, managed, loadStatus, configMtx, job, applied, since, server>>
      /\ thread' = [thread EXCEPT ![Watcher] = "exited"]
  BY DEF WatcherExits, environment, process, history
<1>2. Watcher \notin Requests /\ DOMAIN thread = Threads /\ since \in [Requests -> Nat]
  BY RequestsAssumption DEF Watcher, IInv, TypeOK
<1>3. DOMAIN thread' = Threads /\ \A r \in Requests : thread'[r] = thread[r]
  BY <1>1, <1>2 DEF Threads
<1>4. \A r \in Requests : thread[r] \in {"update", "answered"} /\ FromFile => since[r] <= applied
  BY DEF IInv, PollsAfterLoad
<1> QED
  BY <1>1, <1>2, <1>3, <1>4, OtherStep

\* A request comes in: it asks for the file as it is now.
LEMMA RequestReloadStep ==
  ASSUME IInv, NEW r \in Requests, RequestReload(r)
  PROVE  IInv'
<1>1. /\ UNCHANGED <<options, file, storage, managed, loadStatus, configMtx, job, applied, server>> /\ thread[r] = "idle"
      /\ thread' = [thread EXCEPT ![r] = "check"] /\ since' = [since EXCEPT ![r] = file.ctime]
  BY DEF RequestReload, environment, process
<1>2. DOMAIN thread = Threads /\ since \in [Requests -> Nat] /\ file.ctime \in Nat
  BY DEF IInv, TypeOK
<1>3. /\ DOMAIN thread' = Threads /\ thread'[r] = "check" /\ since'[r] = file.ctime /\ since' \in [Requests -> Nat]
      /\ \A q \in Requests : q # r => thread'[q] = thread[q] /\ since'[q] = since[q]
  BY <1>1, <1>2 DEF Threads
<1>4. configMtx # r
  BY <1>1 DEF IInv, HolderWorks
<1>5. \A q \in Requests : thread[q] \in {"update", "answered"} /\ FromFile => since[q] <= applied
  BY DEF IInv, PollsAfterLoad
<1> QED
  BY <1>1, <1>3, <1>4, <1>5, OtherStep

\* A request need not load a file that is applied already.
LEMMA RequestChecksStep ==
  ASSUME IInv, NEW r \in Requests, RequestChecks(r)
  PROVE  IInv'
<1>1. /\ UNCHANGED <<options, file, storage, managed, loadStatus, configMtx, job, applied, since, server>>
      /\ thread[r] = "check" /\ configMtx = Nobody
      /\ thread' = [thread EXCEPT ![r] =
                  IF FromFile /\ ~ FileFound THEN "failed"
                  ELSE IF FromFile /\ (Modified \/ ~ Ok(lastLoadConfigStatus)) THEN "load" ELSE "update"]
  BY DEF RequestChecks, environment, process, history
<1>2. /\ DOMAIN thread = Threads /\ since \in [Requests -> Nat] /\ file.ctime \in Nat /\ applied \in Nat
      /\ lastConfigChangeTime \in Nat
  BY DEF IInv, TypeOK
<1>3. /\ DOMAIN thread' = Threads
      /\ \A q \in Requests : q # r => thread'[q] = thread[q]
      /\ thread'[r] \in {"failed", "load", "update"}
      /\ thread'[r] = "update" /\ FromFile => ~ Modified /\ Ok(lastLoadConfigStatus)
  BY <1>1, <1>2 DEF Threads
<1>4. job.stage = "none"
  BY <1>1 DEF IInv, HolderWorks
<1>5. thread'[r] = "update" /\ FromFile => since[r] <= applied
  <2> SUFFICES ASSUME ~ Modified, Ok(lastLoadConfigStatus) PROVE since[r] <= applied
    BY <1>3
  <2>1. file.ctime <= applied
    BY <1>4 DEF IInv, TakenIsApplied, Modified
  <2>2. since[r] <= file.ctime /\ since[r] \in Nat
    BY <1>2 DEF IInv, TimesInOrder
  <2> QED
    BY <1>2, <2>1, <2>2
<1>6. \A q \in Requests : thread[q] \in {"update", "answered"} /\ FromFile => since[q] <= applied
  BY DEF IInv, PollsAfterLoad
<1> QED
  BY <1>1, <1>2, <1>3, <1>5, <1>6, OtherStep

\* The servers start or stop.
LEMMA ServersStep ==
  ASSUME IInv, StartServers \/ Shutdown \/ ServersDown \/ Join
  PROVE  IInv'
<1>0. Watcher \notin Requests /\ DOMAIN thread = Threads /\ since \in [Requests -> Nat]
  BY RequestsAssumption DEF Watcher, IInv, TypeOK
<1>1. /\ UNCHANGED <<options, file, storage, managed, loadStatus, configMtx, job, applied, since>>
      /\ server' # "down"
      /\ DOMAIN thread' = Threads /\ \A r \in Requests : thread'[r] = thread[r]
  <2>1. CASE StartServers
    <3>1. /\ thread' = [thread EXCEPT ![Watcher] = IF Value(Option.pollWait, 1) > 0 THEN "wait" ELSE "idle"]
          /\ server' \in {"serving", "exited"}
          /\ UNCHANGED <<options, file, storage, managed, loadStatus, configMtx, job, applied, since>>
      BY <2>1 DEF StartServers, environment, history
    <3> QED
      BY <1>0, <3>1 DEF Threads
  <2>2. CASE Shutdown
    BY <1>0, <2>2 DEF Shutdown, environment, history
  <2>3. CASE ServersDown
    BY <1>0, <2>3 DEF ServersDown, environment, history
  <2>4. CASE Join
    BY <1>0, <2>4 DEF Join, environment, history
  <2> QED
    BY <2>1, <2>2, <2>3, <2>4
<1>2. \A q \in Requests : thread[q] \in {"update", "answered"} /\ FromFile => since[q] <= applied
  BY DEF IInv, PollsAfterLoad
<1> QED
  BY <1>0, <1>1, <1>2, OtherStep

\* The server starts with a file or with a single model.
LEMMA StartStep ==
  ASSUME IInv, Start
  PROVE  IInv'
<1> DEFINE c == ParseParameters(Option.modelEntry)
<1>0. /\ server = "down" /\ UNCHANGED <<options, exitTrigger, environment, loadStatus, thread, history>>
      /\ DOMAIN thread = Threads /\ since \in [Requests -> Nat] /\ DOMAIN models = {} /\ job.stage = "none"
  BY DEF Start, IInv, TypeOK
<1>a. \A q \in Requests : thread[q] \in {"update", "answered"} /\ FromFile => since[q] <= applied
  BY DEF IInv, PollsAfterLoad
<1>1. CASE server' = "exited" /\ UNCHANGED <<managed, configMtx, job>>
  BY <1>0, <1>1, <1>a, OtherStep DEF environment, history
<1>2. CASE server' = "starting" /\ Lock(Main, "stat") /\ UNCHANGED managed
  <2>1. Main \notin Requests
    BY RequestsAssumption DEF Main
  <2> QED
    BY <1>0, <1>2, <2>1, LockStep DEF environment, history, Lock
<1>3. CASE /\ servedModelConfigs' = With(<<>>, c.name, c) /\ ApplyReload(c, Reload(c))
           /\ server' # "down" /\ UNCHANGED <<loaders, libraries, configMtx, job>>
  <2> HIDE DEF c
  <2> USE DEF IInv
  <2>1. TypeOK'
    <3>1. /\ \A n \in DOMAIN models' : DOMAIN models'[n] = Model
          /\ \A n \in DOMAIN pipelines' : DOMAIN pipelines'[n] = Pipeline
      BY <1>3, ApplyTyped
    <3> QED
      BY <1>0, <1>3, <3>1 DEF TypeOK, environment, loadStatus, history
  <2>2. TimesInOrder' /\ TakenIsApplied' /\ HolderWorks'
    BY <1>0, <1>3 DEF TimesInOrder, TakenIsApplied, HolderWorks, environment, loadStatus, history
  <2>3. LoadIsCurrent' /\ StartsAtFirst' /\ EntriesInOrder' /\ DoneAsListed'
    <3>1. ~ Read' /\ job'.stage = "none"
      BY <1>0, <1>3 DEF Read, LoadStages
    <3> QED
      BY <3>1, NothingRead
  <2>4. PollsAfterLoad'
    BY <1>0, <1>3 DEF PollsAfterLoad, FromFile, Option, history
  <2>5. KeptByName'
    <3> DEFINE none == <<>>
    <3>1. \A n \in DOMAIN none : none[n].name = n
      OBVIOUS
    <3>2. \A n \in DOMAIN With(none, c.name, c) : With(none, c.name, c)[n].name = n
      <4> HIDE DEF none
      <4> QED
        BY <3>1, WithNamed
    <3> QED
      BY <1>3, <3>2 DEF KeptByName
  <2> QED
    BY <2>1, <2>2, <2>3, <2>4, <2>5
<1> QED
  <2>1. \/ server' = "exited" /\ UNCHANGED <<managed, configMtx, job>>
        \/ server' = "starting" /\ Lock(Main, "stat") /\ UNCHANGED managed
        \/ /\ servedModelConfigs' = With(<<>>, c.name, c) /\ ApplyReload(c, Reload(c))
           /\ server' # "down" /\ UNCHANGED <<loaders, libraries, configMtx, job>>
    BY DEF Start
  <2> QED
    BY <1>1, <1>2, <1>3, <2>1

\* The file changes: it has a later time.
LEMMA EditFileStep ==
  ASSUME IInv, NEW content \in DOMAIN Contents, EditFile(content)
  PROVE  IInv'
<1> USE DEF IInv
<1>1. /\ file'.content = content /\ file'.ctime = file.ctime + 1
      /\ UNCHANGED <<storage, process, managed, loadStatus, thread, configMtx, job, since, applied>>
  BY DEF EditFile, history
<1>2. TypeOK'
  BY <1>1 DEF TypeOK, process, managed, loadStatus
<1>3. TimesInOrder' /\ LoadIsCurrent'
  BY <1>1 DEF TimesInOrder, LoadIsCurrent, Read, TypeOK, loadStatus
<1>4. TakenIsApplied' /\ HolderWorks' /\ PollsAfterLoad'
  BY <1>1 DEF TakenIsApplied, HolderWorks, PollsAfterLoad, FromFile, Option, loadStatus, process
<1>5. StartsAtFirst' /\ EntriesInOrder' /\ DoneAsListed' /\ KeptByName'
  BY <1>1, LoadFrame
<1> QED
  BY <1>2, <1>3, <1>4, <1>5

\* A model directory changes.
LEMMA ChangeStorageStep ==
  ASSUME IInv, NEW b, NEW to, ChangeStorage(b, to)
  PROVE  IInv'
<1> USE DEF IInv
<1>0. TypeOK
  OBVIOUS
<1>1. /\ DOMAIN job' = DOMAIN job /\ job'.stage = job.stage /\ job'.doc = job.doc /\ job'.time = job.time
      /\ job'.first = job.first /\ job'.at = job.at /\ job'.seen = job.seen /\ job'.gated = job.gated
      /\ job'.fresh = job.fresh
      /\ job'.calm => job.stage \notin LoadStages \cup {"end"}
  BY <1>0, JobFields DEF ChangeStorage
<1>2. UNCHANGED <<file, process, managed, loadStatus, thread, configMtx, since, applied>>
  BY DEF ChangeStorage, history
<1>3. TypeOK'
  BY <1>1, <1>2 DEF TypeOK, process, managed, loadStatus
<1>4. TimesInOrder' /\ LoadIsCurrent'
  BY <1>1, <1>2 DEF TimesInOrder, LoadIsCurrent, Read, loadStatus
<1>5. TakenIsApplied' /\ HolderWorks' /\ PollsAfterLoad'
  BY <1>1, <1>2 DEF TakenIsApplied, HolderWorks, PollsAfterLoad, FromFile, Option, loadStatus, process
<1>6. StartsAtFirst' /\ KeptByName'
  BY <1>1, <1>2 DEF StartsAtFirst, KeptByName, managed
<1>7. EntriesInOrder'
  BY <1>1, <1>2, SameDoc DEF EntriesInOrder, Read, LoadStages, EntriesDone, managed
<1>8. DoneAsListed'
  <2>1. Read => ~ job'.calm
    BY <1>1 DEF Read
  <2> QED
    BY <1>1, <1>2, <2>1, SameDoc DEF DoneAsListed, Read, LoadStages, EntriesDone, managed
<1> QED
  BY <1>3, <1>4, <1>5, <1>6, <1>7, <1>8

(***************************************************************************)
(* The invariant.                                                          *)
(***************************************************************************)
LEMMA InitInvariant ==
  ASSUME Init
  PROVE  IInv
<1> USE DEF Init
<1>1. file.content \in DOMAIN Contents /\ file.ctime = 1
  OBVIOUS
<1>2. TypeOK
  <2>1. DOMAIN job = DOMAIN NoJob /\ job.stage = "none" /\ job.time = 0 /\ job.at = 1 /\ job.gated = <<>>
    BY NewJob
  <2>2. job.gated \in Seq(Nat)
    BY <2>1
  <2> QED
    BY <1>1, <2>1, <2>2 DEF TypeOK
<1>3. job.stage = "none" /\ job.fresh = <<>>
  BY NewJob
<1>4. TimesInOrder
  BY <1>1 DEF TimesInOrder
<1>5. ~ Read
  BY <1>3 DEF Read, LoadStages
<1>6. LoadIsCurrent /\ EntriesInOrder /\ DoneAsListed /\ StartsAtFirst
  BY <1>3, <1>5 DEF LoadIsCurrent, EntriesInOrder, DoneAsListed, StartsAtFirst, Read
<1>7. TakenIsApplied
  BY DEF TakenIsApplied
<1>8. HolderWorks
  BY <1>3, RequestsAssumption DEF HolderWorks, Nobody
<1>9. PollsAfterLoad
  BY <1>3 DEF PollsAfterLoad, PollStages, Threads
<1>10. KeptByName
  BY <1>3 DEF KeptByName
<1> QED
  BY <1>2, <1>4, <1>6, <1>7, <1>8, <1>9, <1>10 DEF IInv

LEMMA StutterInvariant ==
  ASSUME IInv, UNCHANGED vars
  PROVE  IInv'
<1>1. /\ UNCHANGED <<options, file, storage, managed, loadStatus, configMtx, job, applied, server, since, thread>>
  BY DEF vars, environment, process, history
<1>2. \A q \in Requests : thread[q] \in {"update", "answered"} /\ FromFile => since[q] <= applied
  BY DEF IInv, PollsAfterLoad
<1>3. DOMAIN thread' = Threads /\ since' \in [Requests -> Nat]
  BY <1>1 DEF IInv, TypeOK
<1> QED
  BY <1>1, <1>2, <1>3, OtherStep

LEMMA NextInvariant ==
  ASSUME IInv, Next
  PROVE  IInv'
<1>1. CASE LoadStep
  BY <1>1, StatConfigStep, ReadConfigStep, LoadCustomLoadersStep, LoadModelSkippedStep, LoadModelStep,
     ModelsListedStep, RetireModelsStep, LoadLibrariesStep, LoadPipelineStep, RetirePipelinesStep,
     RetryGatedStep, GatedDoneStep, EndLoadStep, PollModelStep, RevalidatePipelinesStep, EndPollStep
     DEF LoadStep
<1>2. CASE WatcherWakes \/ WatcherExits
  BY <1>2, WatcherWakesStep, WatcherExitsStep
<1>3. CASE MainStep \/ Shutdown
  BY <1>3, StartStep, ServersStep DEF MainStep
<1>4. CASE Environment
  BY <1>4, EditFileStep, ChangeStorageStep DEF Environment
<1>5. CASE \E r \in Requests : RequestReload(r) \/ RequestStep(r)
  BY <1>5, RequestReloadStep, RequestChecksStep, RequestLoadsStep, RequestUpdatesStep DEF RequestStep
<1> QED
  BY <1>1, <1>2, <1>3, <1>4, <1>5 DEF Next

\* In every state of the server and its configuration file: times in order, one job, what
\* was done so far is as the file says (IInv).
THEOREM InvariantHolds == Spec => []IInv
<1>1. Init => IInv
  BY InitInvariant
<1>2. IInv /\ [Next]_vars => IInv'
  BY NextInvariant, StutterInvariant
<1> QED
  BY <1>1, <1>2, PTL DEF Spec

(***************************************************************************)
(* What it gives.                                                          *)
(***************************************************************************)

\* reloadModelWithVersions changes a model that is served only if it is called for it, with
\* another configuration, without its loader or without a version at its base path.
LEMMA ReloadReason ==
  ASSUME TypeOK, NEW c, models' = Reload(c).models,
         NEW n \in DOMAIN models, models[n].state = "AVAILABLE", models'[n] # models[n]
  PROVE  n = c.name /\ (IsReloadRequired(c, models[n].config) \/ LoaderMissing(c) \/ storage[c.basePath] = "empty")
<1>1. \A k \in DOMAIN models : DOMAIN models[k] = Model
  BY DEF TypeOK
<1> DEFINE after == Reload(c).models
<1>2. models' = after
  OBVIOUS
<1>3. /\ \A k \in DOMAIN models : k # c.name => after[k] = models[k]
      /\ c.name \in DOMAIN models /\ models[c.name].state = "AVAILABLE" =>
           \/ after[c.name] = models[c.name]
           \/ IsReloadRequired(c, models[c.name].config) \/ LoaderMissing(c) \/ storage[c.basePath] = "empty"
  <2> HIDE DEF after
  <2>1. after = Reload(c).models
    BY DEF after
  <2> QED
    BY <1>1, <2>1, ReloadEffect
<1> HIDE DEF after
<1> QED
  BY <1>2, <1>3

\* A /v1/config/reload request that is answered with OK has applied a file that is not
\* older than the request, whichever thread has loaded it.
THEOREM ReloadsAreCurrent == Spec => []ReloadIsCurrent
<1>1. IInv => ReloadIsCurrent
  BY DEF IInv, PollsAfterLoad, ReloadIsCurrent, TypeOK
<1> QED
  BY <1>1, InvariantHolds, PTL

\* A load that reports OK has applied the whole file: every entry that counts is served,
\* unless its custom loader is missing, its base path has no version or its load threw an
\* exception, and nothing else is.
THEOREM ReportsAreApplied == Spec => []ReportedIsApplied
<1>1. IInv => ReportedIsApplied
  <2> SUFFICES ASSUME IInv, At("end"), Ok(job.first), job.calm PROVE Matches(job.doc, Unreported)
    BY DEF ReportedIsApplied
  <2>0. Read /\ job.stage = "end" /\ \A i : EntriesDone(i)
    BY DEF At, Read, EntriesDone
  <2>1. job.doc \in JsonContents
    BY <2>0 DEF IInv, EntriesInOrder
  <2>2. ASSUME NEW c \in Effective(job.doc) PROVE ServedAs(c) \/ Unreported(c)
    <3>1. PICK i \in FirstEntries : c = Entry(i) /\ EntryName(i) \notin DOMAIN pipelines
      BY <2>1, EffectiveEntries
    <3> QED
      BY <2>0, <3>1 DEF IInv, DoneAsListed
  <2>3. \A n \in DOMAIN models : models[n].state = "AVAILABLE" => n \in ListedModels
    BY <2>0 DEF IInv, DoneAsListed
  <2>4. \A n \in DOMAIN pipelines : pipelines[n].state = "AVAILABLE" => n \in ListedPipelines
    BY <2>0 DEF IInv, DoneAsListed
  <2>5. Given(Doc.loaders) => loaders \subseteq {l.name : l \in Doc.loaders.of}
    BY <2>0 DEF IInv, DoneAsListed
  <2> QED
    BY <2>2, <2>3, <2>4, <2>5 DEF Matches, ListedModels, ListedPipelines, EntryName, Doc
<1> QED
  BY <1>1, InvariantHolds, PTL

\* A model that is served stays as it is, unless the file that was read does not list it
\* so, its custom loader is gone, its base path has no version left, or the poll finds
\* another configuration.
THEOREM UnloadsHaveReasons == Spec => UnloadedForAReason
<1> DEFINE Reason(n) ==
             \/ job.doc # "" /\ \A c \in Effective(job.doc) :
                  c.name = n =>
                    IsReloadRequired(c, models[n].config) \/ LoaderMissing(c) \/ storage[c.basePath] = "empty"
             \/ At("poll") /\ (\/ LoaderMissing(models[n].config)
                               \/ IsReloadRequired(servedModelConfigs[n], models[n].config)
                               \/ storage[servedModelConfigs[n].basePath] = "empty")
           Step == \A n \in DOMAIN models : models[n].state = "AVAILABLE" /\ models'[n] # models[n] => Reason(n)
<1>1. IInv /\ [Next]_vars => [Step]_vars
  <2> SUFFICES ASSUME IInv, Next, NEW n \in DOMAIN models, models[n].state = "AVAILABLE", models'[n] # models[n]
               PROVE  Reason(n)
    OBVIOUS
  <2>0. TypeOK /\ (\A k \in DOMAIN models : DOMAIN models[k] = Model) /\ "" \notin DOMAIN Contents
    BY ContentsAssumption DEF IInv, TypeOK
  \* A call for an entry of the file.
  <2>1. ASSUME NEW i \in FirstEntries, job.doc \in JsonContents, models' = Reload(Entry(i)).models
        PROVE  Reason(n)
    <3>1. i \in DOMAIN Doc.models
      BY DEF FirstEntries, AcceptedEntries
    <3>2. Entry(i).name = EntryName(i)
      BY <2>1, <3>1, EntryNamed
    <3>3. /\ n = EntryName(i)
          /\ \/ IsReloadRequired(Entry(i), models[n].config) \/ LoaderMissing(Entry(i))
             \/ storage[Entry(i).basePath] = "empty"
      <4> DEFINE c == Entry(i)
      <4>1. models' = Reload(c).models /\ c.name = EntryName(i)
        BY <2>1, <3>2
      <4> HIDE DEF c, Reason
      <4>2. n = c.name /\ (IsReloadRequired(c, models[n].config) \/ LoaderMissing(c) \/ storage[c.basePath] = "empty")
        BY <2>0, <4>1, ReloadReason
      <4> QED
        BY <4>1, <4>2 DEF c
    <3>4. ASSUME NEW c \in Effective(job.doc), c.name = n PROVE c = Entry(i)
      <4>1. PICK j \in FirstEntries : c = Entry(j) /\ c.name = EntryName(j)
        BY <2>1, EffectiveEntries
      <4>2. i \in AcceptedEntries /\ j \in AcceptedEntries /\ EntryName(i) = EntryName(j)
        BY <3>3, <3>4, <4>1 DEF FirstEntries
      <4>3. i >= j /\ j >= i /\ i \in Nat /\ j \in Nat
        BY <2>1, <4>2, EntryNumbers DEF FirstEntries
      <4> QED
        BY <4>1, <4>3
    <3>5. job.doc # ""
      BY <2>0, <2>1 DEF JsonContents
    <3> QED
      BY <3>3, <3>4, <3>5
  <2>2. CASE LoadModel
    <3>1. job.doc \in JsonContents /\ job.at \in FirstEntries
      BY <2>2, NextEntryIsFirst
    <3>2. models' = Reload(Entry(job.at)).models
      BY <2>2 DEF LoadModel, ApplyReload
    <3> QED
      BY <2>1, <3>1, <3>2
  <2>3. CASE RetryGated
    <3>1. job.gated # <<>> /\ job.stage = "gated" /\ models' = Reload(Entry(Head(job.gated))).models
      BY <2>3 DEF RetryGated, ApplyReload, At
    <3>2. job.doc \in JsonContents /\ \A k \in DOMAIN job.gated : job.gated[k] \in FirstEntries
      BY <3>1 DEF IInv, EntriesInOrder, Read, LoadStages
    <3>3. 1 \in DOMAIN job.gated /\ Head(job.gated) = job.gated[1]
      BY <3>1 DEF IInv, TypeOK
    <3>4. Head(job.gated) \in FirstEntries
      BY <3>2, <3>3
    <3> QED
      BY <2>1, <3>1, <3>2, <3>4
  <2>4. CASE RetireModels
    <3>1. job.stage = "retire" /\ n \notin job.seen
      BY <2>4 DEF RetireModels, At
    <3>2. /\ job.doc \in JsonContents
          /\ \A i \in AcceptedEntries : EntryName(i) \notin DOMAIN pipelines => EntryName(i) \in job.seen
      BY <3>1 DEF IInv, EntriesInOrder, Read, LoadStages, EntriesDone
    <3>3. ASSUME NEW c \in Effective(job.doc), c.name = n PROVE FALSE
      <4>1. PICK i \in FirstEntries : c.name = EntryName(i) /\ c.name \notin DOMAIN pipelines
        BY <3>2, EffectiveEntries
      <4>2. i \in AcceptedEntries
        BY DEF FirstEntries
      <4> QED
        BY <3>1, <3>2, <3>3, <4>1, <4>2
    <3>4. job.doc # ""
      BY <2>0, <3>2 DEF JsonContents
    <3> QED
      BY <3>3, <3>4
  <2>5. ASSUME NEW k \in DOMAIN servedModelConfigs, PollModel(k)
        PROVE  Reason(n)
    <3> DEFINE c == servedModelConfigs[k]
    <3>1. At("poll") /\ models' = Reload(c).models /\ c.name = k
      BY <2>5 DEF PollModel, ApplyReload, IInv, KeptByName
    <3>2. n = k /\ (IsReloadRequired(c, models[n].config) \/ LoaderMissing(c) \/ storage[c.basePath] = "empty")
      <4> HIDE DEF c
      <4> QED
        BY <2>0, <3>1, ReloadReason
    <3>3. IsReloadRequired(c, models[n].config) \/ LoaderMissing(models[n].config) \/ storage[c.basePath] = "empty"
      <4> HIDE DEF c
      <4> QED
        BY <3>2, SameLoader
    <3> QED
      BY <3>1, <3>2, <3>3
  <2>6. CASE Start
    BY <2>6 DEF Start, IInv, TypeOK
  <2>7. CASE models' = models
    BY <2>7
  <2>8. \/ LoadModel \/ RetryGated \/ RetireModels \/ (\E k \in DOMAIN servedModelConfigs : PollModel(k))
        \/ Start \/ models' = models
    <3>1. CASE LoadStep
      <4>1. CASE StatConfig \/ ReadConfig \/ ModelsListed \/ GatedDone \/ EndLoad \/ EndPoll
        BY <4>1 DEF StatConfig, ReadConfig, ModelsListed, GatedDone, EndLoad, EndPoll, managed
      <4>2. CASE LoadCustomLoaders \/ LoadModelSkipped \/ LoadLibraries \/ LoadPipeline \/ RetirePipelines
                 \/ RevalidatePipelines
        BY <4>2 DEF LoadCustomLoaders, LoadModelSkipped, LoadLibraries, LoadPipeline, RetirePipelines,
             RevalidatePipelines, managed
      <4> QED
        BY <3>1, <4>1, <4>2 DEF LoadStep
    <3>2. CASE WatcherWakes \/ WatcherExits \/ MainStep \/ Shutdown
      BY <3>2 DEF WatcherWakes, WatcherExits, MainStep, StartServers, ServersDown, Join, Shutdown, managed
    <3>3. CASE Environment
      BY <3>3 DEF Environment, EditFile, ChangeStorage, managed
    <3>4. CASE \E r \in Requests : RequestReload(r) \/ RequestStep(r)
      BY <3>4 DEF RequestReload, RequestStep, RequestChecks, RequestLoads, RequestUpdates, managed
    <3> QED
      BY <3>1, <3>2, <3>3, <3>4 DEF Next
  <2> HIDE DEF Reason
  <2> QED
    BY <2>2, <2>3, <2>4, <2>5, <2>6, <2>7, <2>8
<1>2. [][Step]_vars => UnloadedForAReason
  BY DEF UnloadedForAReason
<1> QED
  BY <1>1, <1>2, InvariantHolds, PTL DEF Spec
=============================================================================
