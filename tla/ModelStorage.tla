----------------------------- MODULE ModelStorage -----------------------------
(***************************************************************************)
(* Where the files of a model come from: the file systems                  *)
(* (src/src/localfilesystem.cpp, s3filesystem.cpp, gcsfilesystem.cpp,      *)
(* azurefilesystem.cpp, azurestorage.cpp), the download of versions into   *)
(* temporary folders and the life of these copies (src/src/model.cpp), as  *)
(* reloadModelWithVersions (src/src/modelmanager.cpp) drives them.         *)
(*                                                                         *)
(* A path is a sequence of names.  A storage is the set of the paths of    *)
(* its files; a directory is a proper prefix of one of them.  A copy maps  *)
(* the paths below a temporary folder to the remote files they were read   *)
(* from.  Calls to a remote storage may fail, and files come and go        *)
(* between two calls.  One thread at a time downloads (it holds            *)
(* configMtx).                                                             *)
(***************************************************************************)
EXTENDS Integers, Sequences, FiniteSets, FiniteSetsExt, SequencesExt

CONSTANTS Versions,      \* the directory names that are version numbers
          Bases,         \* base paths: [fs, dir, escaped]
          Trees,         \* what the storage may hold at the start
          Uploads,       \* files that may appear later
          ModelFiles,    \* the names a version needs to be loaded
          AcceptedFiles, \* FileSystem::acceptedFiles
          Page,          \* the entries in one segment of an Azure listing
          S3Page,        \* the objects in one answer to ListObjects
          MaxFaults, MaxChanges, MaxRounds  \* bounds

FileSystems == {"local", "s3", "gcs", "az", "azfs"}

ASSUME BasesAssumption == \A b \in Bases : b.fs \in FileSystems /\ b.escaped \in BOOLEAN
ASSUME BoundsAssumption ==
  {Page, S3Page, MaxFaults, MaxChanges, MaxRounds} \subseteq Nat /\ Page > 0 /\ S3Page > 0

\* Paths are sequences of names.
Paths == Seq(STRING)
ASSUME PathsAssumption ==
  /\ Versions \subseteq STRING /\ \A b \in Bases : b.dir \in Paths
  /\ Uploads \subseteq Paths /\ \A t \in Trees : t \subseteq Paths
ASSUME FilesAssumption == ModelFiles # {}

\* No path names both a file and a folder, as in a file system; where an object store
\* has both, the S3 and GCS listings take the path for the folder only.
NoFileIsFolder(files) == \A f, g \in files : IsPrefix(f, g) => f = g
ASSUME TreesAssumption == \A t \in Trees : NoFileIsFolder(t \cup Uploads)

VARIABLES
  remote,      \* the files of the storage
  base,        \* the base path in the configuration
  localPath,   \* ModelConfig::localPath: Unset, Base or a temporary folder
  inst,        \* the registered versions
  tmp,         \* the temporary folders made so far
  pc, todo,    \* where the manager is and the versions left in its loop
  toReload, available, failed,
  dl,          \* the download: [all, versions, stack, status]
  faults, changes, rounds,
  disturbed,   \* history: the storage has changed in this round
  swallowed,   \* history: an error was not reported in this round
  untidy,      \* history: a version was reloaded or a download has failed
  rebased      \* history: versions reloaded from another base path while loaded

copies == <<localPath, inst, tmp>>
lists == <<todo, toReload, available, failed>>
bounds == <<faults, changes, rounds>>
history == <<disturbed, swallowed, untidy, rebased>>
vars == <<remote, base, copies, pc, lists, dl, bounds, history>>

\* A local path is the number of a temporary folder or one of these.
Unset == 0
Base == -1
NoBase == [fs |-> "none"]
Folders == DOMAIN tmp

(***************************************************************************)
(* What the operations of each file system make of the files.              *)
(***************************************************************************)
Below(p) == {f \in remote : Len(f) > Len(p) /\ IsPrefix(p, f)}
Children(p) == {f[Len(p) + 1] : f \in Below(p)}
IsDir(p) == Below(p) # {}
DirChildren(p) == {n \in Children(p) : IsDir(Append(p, n))}
FileChildren(p) == {n \in Children(p) : Append(p, n) \in remote}

LocalSubdirs(p) == DirChildren(p)
LocalFiles(p) == FileChildren(p)
LocalContents(p) == Children(p)
LocalIsDirectory(p) == IsDir(p)
LocalFileExists(p) == p \in remote \/ IsDir(p)

\* Object stores know prefixes: a listing is cut at the next slash, and an entry is
\* a directory if objects have it as their prefix.  ListObjects has no delimiter: S3
\* answers with the first page of all the objects below a path, at whatever depth, and
\* the pages after it are never asked for.
FirstPage(objects) ==
  IF Cardinality(objects) <= S3Page THEN objects
  ELSE CHOOSE s \in SUBSET objects : Cardinality(s) = S3Page

S3IsDirectory(p) == p = <<>> \/ Below(p) # {}
S3Contents(p) == {n \in Children(p) : \E f \in FirstPage(Below(p)) : n = f[Len(p) + 1]}
S3Subdirs(p) == {n \in S3Contents(p) : S3IsDirectory(Append(p, n))}
S3Files(p) == {n \in S3Contents(p) : ~ S3IsDirectory(Append(p, n))}
S3FileExists(p) == p \in remote \/ S3IsDirectory(p)

GCSIsDirectory(p) == Below(p) # {}
GCSContents(p) == {f[Len(p) + 1] : f \in Below(p)}
GCSSubdirs(p) == {n \in GCSContents(p) : GCSIsDirectory(Append(p, n))}
GCSFiles(p) == {n \in GCSContents(p) : ~ GCSIsDirectory(Append(p, n))}
GCSFileExists(p) == p \in remote \/ GCSIsDirectory(p)

\* The Azure listings ask for one segment: the continuation token is never set.
FirstSegment(names) ==
  IF Cardinality(names) <= Page THEN names
  ELSE CHOOSE s \in SUBSET names : Cardinality(s) = Page

\* The directory is looked for among its parent's, in all segments; the root of a
\* container is not found there.
BlobIsDirectory(p) == p # <<>> /\ Last(p) \in DirChildren(Front(p))
BlobContents(p) == FirstSegment(Children(p))
BlobSubdirs(p) == BlobContents(p) \cap DirChildren(p)
BlobFiles(p) == BlobContents(p) \cap FileChildren(p)
BlobFileExists(p) == p \in remote

\* A file share walks down the path and stops before the first directory that does
\* not exist.
LastWorkingSubdir(p) ==
  LET steps == {k \in 1 .. Len(p) : \A i \in 1 .. k : IsDir(SubSeq(p, 1, i))}
  IN  SubSeq(p, 1, Max(steps \cup {0}))

ShareIsDirectory(p) == LastWorkingSubdir(p) = p
ShareContents(p) == FirstSegment(Children(LastWorkingSubdir(p)))
ShareSubdirs(p) == ShareContents(p) \cap DirChildren(LastWorkingSubdir(p))
ShareFiles(p) == ShareContents(p) \cap FileChildren(LastWorkingSubdir(p))
ShareTarget(p) == Append(LastWorkingSubdir(p), Last(p))
ShareFileExists(p) == ShareTarget(p) \in remote

\* Reading a file: the remote file that is really read, or none.
ReadObject(p) == IF p \in remote THEN {p} ELSE {}
LocalRead(p) == ReadObject(p)
S3Read(p) == ReadObject(p)
GCSRead(p) == ReadObject(p)
BlobRead(p) == ReadObject(p)
ShareRead(p) == ReadObject(ShareTarget(p))

\* AzureFileSystem asks the storage object that the factory makes for the path.
IsBlobStoragePath(fs) == fs = "az"
AzureIsDirectory(fs, p) == IF IsBlobStoragePath(fs) THEN BlobIsDirectory(p) ELSE ShareIsDirectory(p)
AzureSubdirs(fs, p) == IF IsBlobStoragePath(fs) THEN BlobSubdirs(p) ELSE ShareSubdirs(p)
AzureFiles(fs, p) == IF IsBlobStoragePath(fs) THEN BlobFiles(p) ELSE ShareFiles(p)
AzureContents(fs, p) == IF IsBlobStoragePath(fs) THEN BlobContents(p) ELSE ShareContents(p)
AzureFileExists(fs, p) == IF IsBlobStoragePath(fs) THEN BlobFileExists(p) ELSE ShareFileExists(p)
AzureRead(fs, p) == IF IsBlobStoragePath(fs) THEN BlobRead(p) ELSE ShareRead(p)

\* getFilesystem: by the prefix of the base path.
IsDirectory(fs, p) ==
  CASE fs = "local" -> LocalIsDirectory(p) [] fs = "s3" -> S3IsDirectory(p)
    [] fs = "gcs" -> GCSIsDirectory(p) [] OTHER -> AzureIsDirectory(fs, p)
Subdirs(fs, p) ==
  CASE fs = "local" -> LocalSubdirs(p) [] fs = "s3" -> S3Subdirs(p)
    [] fs = "gcs" -> GCSSubdirs(p) [] OTHER -> AzureSubdirs(fs, p)
Files(fs, p) ==
  CASE fs = "local" -> LocalFiles(p) [] fs = "s3" -> S3Files(p)
    [] fs = "gcs" -> GCSFiles(p) [] OTHER -> AzureFiles(fs, p)
Contents(fs, p) ==
  CASE fs = "local" -> LocalContents(p) [] fs = "s3" -> S3Contents(p)
    [] fs = "gcs" -> GCSContents(p) [] OTHER -> AzureContents(fs, p)
FileExists(fs, p) ==
  CASE fs = "local" -> LocalFileExists(p) [] fs = "s3" -> S3FileExists(p)
    [] fs = "gcs" -> GCSFileExists(p) [] OTHER -> AzureFileExists(fs, p)
Read(fs, p) ==
  CASE fs = "local" -> LocalRead(p) [] fs = "s3" -> S3Read(p)
    [] fs = "gcs" -> GCSRead(p) [] OTHER -> AzureRead(fs, p)

\* checkPath and parsePath: the path does not escape; a path into a file share names
\* a directory.
BlobPathFits(b) == ~ b.escaped
SharePathFits(b) == ~ b.escaped /\ b.dir # <<>>
S3PathFits(b) == ~ b.escaped
GCSPathFits(b) == ~ b.escaped
PathFits(b) ==
  CASE b.fs = "az" -> BlobPathFits(b) [] b.fs = "azfs" -> SharePathFits(b)
    [] b.fs = "s3" -> S3PathFits(b) [] b.fs = "gcs" -> GCSPathFits(b) [] OTHER -> ~ b.escaped

Accepted(fs, n) == fs \in {"az", "azfs"} \/ n \in AcceptedFiles

(***************************************************************************)
(* Initial state and the environment.                                      *)
(***************************************************************************)
NoInstance == [state |-> "none", base |-> NoBase, path |-> Unset, network |-> Unset]
Registered == {v \in Versions : inst[v].state # "none"}
NoDownload == [all |-> {}, versions |-> {}, stack |-> <<>>, status |-> "OK"]

Init ==
  /\ remote \in Trees /\ base \in Bases
  /\ localPath = Unset /\ inst = [v \in Versions |-> NoInstance] /\ tmp = <<>>
  /\ pc = "idle" /\ todo = {} /\ toReload = {} /\ available = {} /\ failed = {}
  /\ dl = NoDownload
  /\ faults = MaxFaults /\ changes = MaxChanges /\ rounds = MaxRounds
  /\ disturbed = FALSE /\ swallowed = FALSE /\ untidy = FALSE /\ rebased = {}

Fault == faults > 0 /\ faults' = faults - 1
Change == changes > 0 /\ changes' = changes - 1

StorageChanges(files) ==
  /\ Change
  /\ remote' = files /\ disturbed' = TRUE
  /\ UNCHANGED <<base, copies, pc, lists, dl, faults, rounds, swallowed, untidy, rebased>>

Upload(f) == f \notin remote /\ StorageChanges(remote \cup {f})
RemoveDirectory(p) == IsDir(p) /\ StorageChanges(remote \ Below(p))

\* A new configuration is parsed: its local path is not set.
NewConfig(b) ==
  /\ pc = "idle" /\ Change /\ b # base
  /\ base' = b /\ localPath' = Unset
  /\ UNCHANGED <<remote, inst, tmp, pc, lists, dl, faults, rounds, history>>

(***************************************************************************)
(* reloadModelWithVersions.                                                *)
(***************************************************************************)
Quiet == <<remote, base, changes>>

\* The loops go through sorted lists.
Current == CHOOSE v \in todo : TRUE

StartRound ==
  /\ pc = "idle" /\ rounds > 0
  /\ rounds' = rounds - 1
  /\ pc' = IF PathFits(base) THEN "isdir" ELSE "idle"
  /\ available' = {} /\ failed' = {} /\ swallowed' = FALSE /\ disturbed' = FALSE
  /\ UNCHANGED <<Quiet, copies, todo, toReload, dl, faults, untidy, rebased>>

\* readAvailableVersions: a fault ends the round (for GCS as a missing directory).
CheckDirectory ==
  /\ pc = "isdir"
  /\ \/ pc' = (IF IsDirectory(base.fs, base.dir) THEN "list" ELSE "idle") /\ UNCHANGED faults
     \/ Fault /\ pc' = "idle"
  /\ UNCHANGED <<Quiet, copies, lists, dl, rounds, history>>

VersionsToReload(requested) ==
  {v \in requested \cap Registered :
     inst[v].state \in {"END", "FAILED"} \/ inst[v].base # base}

\* The listing; what GCSFileSystem::isDirectory cannot find out is no directory.
ReadAvailableVersions ==
  /\ pc = "list"
  /\ LET dirs == Subdirs(base.fs, base.dir) \cap Versions
     IN  \/ available' = dirs /\ pc' = "add" /\ UNCHANGED <<faults, swallowed>>
         \/ Fault /\ pc' = "idle" /\ UNCHANGED <<available, swallowed>>
         \/ /\ base.fs = "gcs" /\ Fault
            /\ \E v \in dirs : available' = dirs \ {v}
            /\ pc' = "add" /\ swallowed' = TRUE
  /\ toReload' = VersionsToReload(available') /\ todo' = available' \ Registered
  /\ UNCHANGED <<Quiet, copies, failed, dl, rounds, disturbed, untidy, rebased>>

\* downloadModels: nothing to do without versions; a local path is its own copy.
Download(vs, back) ==
  IF vs = {} THEN pc' = back /\ UNCHANGED <<localPath, tmp, dl>>
  ELSE IF base.fs = "local" THEN pc' = back /\ localPath' = Base /\ UNCHANGED <<tmp, dl>>
  ELSE /\ pc' = IF back = "adding" THEN "download" ELSE "redownload"
       /\ tmp' = Append(tmp, [made |-> TRUE, of |-> base, dirs |-> {}, files |-> <<>>])
       /\ dl' = [NoDownload EXCEPT !.all = vs, !.versions = vs]
       /\ UNCHANGED localPath

AddVersions ==
  /\ pc = "add"
  /\ Download(todo, "adding")
  /\ UNCHANGED <<Quiet, inst, lists, faults, rounds, history>>

\* The files at a local path, and what it takes to load a version from it.
FilesAt(path, v) ==
  CASE path = Base -> FileChildren(Append(base.dir, v))
    [] path = Unset -> {}
    [] OTHER -> {Last(f) : f \in {g \in DOMAIN tmp[path].files : Front(g) = <<v>>}}
Loadable(path, v) == ModelFiles \subseteq FilesAt(path, v)

\* Mutant: the whole temporary folder is deleted.
CleanupWholeFolder(path, v) ==
  tmp' = IF path \in {Base, Unset} THEN tmp
         ELSE [tmp EXCEPT ![path] = [@ EXCEPT !.made = FALSE, !.dirs = {}, !.files = <<>>]]

\* Mutant: the temporary folder stays when it is empty.
CleanupVersionOnly(path, v) ==
  tmp' = IF path \in {Base, Unset} \/ <<v>> \notin tmp[path].dirs THEN tmp
         ELSE [tmp EXCEPT ![path] = [@ EXCEPT !.dirs = {d \in @ : d[1] # v},
                                              !.files = [f \in {g \in DOMAIN @ : g[1] # v} |-> @[f]]]]

\* LocalFileSystem::deleteFileFolder of a version's folder, and of the temporary
\* folder once it is empty.
Without(copy, v) ==
  LET dirs == {d \in copy.dirs : d[1] # v}
  IN  [copy EXCEPT !.made = (dirs # {}), !.dirs = dirs,
                   !.files = [f \in {g \in DOMAIN copy.files : g[1] # v} |-> copy.files[f]]]

\* cleanupModelTmpFiles: not if the version is served from its base path or there is
\* nothing at its path.
CleanupModelTmpFiles(path, v) ==
  tmp' = IF path \in {Base, Unset} \/ <<v>> \notin tmp[path].dirs THEN tmp
         ELSE [tmp EXCEPT ![path] = Without(@, v)]

\* addVersion from the local path of the configuration, whatever downloadModels said.
AddVersion ==
  /\ pc = "adding" /\ todo # {}
  /\ LET v == Current
         ok == Loadable(localPath, v)
     IN  /\ inst' = [inst EXCEPT ![v] = [state |-> IF ok THEN "AVAILABLE" ELSE "FAILED", base |-> base,
                                         path |-> localPath, network |-> IF ok THEN localPath ELSE Unset]]
         /\ IF ok THEN UNCHANGED <<tmp, failed>>
            ELSE failed' = failed \cup {v} /\ CleanupModelTmpFiles(localPath, v)
         /\ todo' = todo \ {v}
  /\ UNCHANGED <<Quiet, localPath, pc, toReload, available, dl, faults, rounds, history>>

VersionsAdded ==
  /\ pc = "adding" /\ todo = {}
  /\ pc' = "reload" /\ todo' = toReload
  /\ UNCHANGED <<Quiet, copies, toReload, available, failed, dl, faults, rounds, history>>

\* reloadVersions: a version that has ended or has another base path is downloaded
\* again, together with all the versions to reload.  One that has failed is loaded from
\* its path again, where its copy was deleted.
ReloadVersion ==
  /\ pc = "reload" /\ todo # {}
  /\ untidy' = TRUE
  /\ IF inst[Current].state = "END" \/ inst[Current].base # base
       THEN Download(toReload, "reloading")
       ELSE localPath' = inst[Current].path /\ pc' = "reloading" /\ UNCHANGED <<tmp, dl>>
  /\ UNCHANGED <<Quiet, inst, lists, faults, rounds, disturbed, swallowed, rebased>>

\* reloadModel: the network is read from the path only if there is none.
ReloadModel ==
  /\ pc = "reloading"
  /\ LET v == Current
         ok == Loadable(localPath, v)
         kept == inst[v].network # Unset
     IN  /\ inst' = [inst EXCEPT ![v] =
                       [state |-> IF ok THEN "AVAILABLE" ELSE "FAILED", base |-> base, path |-> localPath,
                        network |-> IF kept \/ ~ ok THEN @.network ELSE localPath]]
         /\ failed' = IF ok THEN failed ELSE failed \cup {v}
         /\ rebased' = IF kept THEN rebased \cup {v} ELSE rebased
         /\ todo' = todo \ {v}
  /\ pc' = "reload"
  /\ UNCHANGED <<Quiet, localPath, tmp, toReload, available, dl, faults, rounds, disturbed,
                 swallowed, untidy>>

\* Mutant: the versions that are not reloaded.
VersionsNotReloaded == {v \in Registered \ toReload : inst[v].state # "END"}

\* Versions that are not requested any more, or have failed, and have not ended.
VersionsToRetire == {v \in Registered \ (available \ failed) : inst[v].state # "END"}

VersionsReloaded ==
  /\ pc = "reload" /\ todo = {}
  /\ pc' = "retire" /\ toReload' = {}
  /\ todo' = VersionsToRetire
  /\ UNCHANGED <<Quiet, copies, available, failed, dl, faults, rounds, history>>

\* retireVersions and cleanupFailedLoad: first the copy goes, then the version.
CleanupBeforeRetire ==
  /\ pc = "retire" /\ todo # {}
  /\ CleanupModelTmpFiles(inst[Current].path, Current)
  /\ pc' = "retiring"
  /\ UNCHANGED <<Quiet, localPath, inst, lists, dl, faults, rounds, history>>

\* retireModel ends the version.  cleanupFailedLoad leaves a version that has failed
\* in this round as it is, LOADING with an error, and it keeps its path.
RetireModel ==
  /\ pc = "retiring"
  /\ inst' = [inst EXCEPT ![Current] =
                [@ EXCEPT !.state = IF Current \in failed THEN "FAILED" ELSE "END", !.network = Unset]]
  /\ rebased' = rebased \ {Current}
  /\ todo' = todo \ {Current} /\ pc' = "retire"
  /\ UNCHANGED <<Quiet, localPath, tmp, toReload, available, failed, dl, faults, rounds, disturbed,
                 swallowed, untidy>>

EndRound ==
  /\ pc = "retire" /\ todo = {}
  /\ pc' = "idle"
  /\ UNCHANGED <<Quiet, copies, lists, dl, faults, rounds, history>>

(***************************************************************************)
(* downloadModelVersions: a stack of the directories being downloaded.     *)
(***************************************************************************)
Downloading == pc \in {"download", "redownload"}
Busy == Downloading /\ dl.stack # <<>>
Idle == Downloading /\ dl.stack = <<>>
Top == Last(dl.stack)
Frame(dir) == [dir |-> dir, at |-> "check", dirs |-> {}, files |-> {}]
RemotePath(rel) == base.dir \o rel
Azure == base.fs \in {"az", "azfs"}

DownloadLeaves == <<Quiet, localPath, inst, pc, lists, rounds, disturbed, untidy, rebased>>
SameTmp == UNCHANGED <<tmp, swallowed>>
MkDir(dir) == tmp' = [tmp EXCEPT ![Len(tmp)].dirs = @ \cup {dir}]

\* The versions downloadModelVersions goes on with after an error: S3 and GCS try them
\* all, Azure stops.
S3AfterError(versions) == versions
GCSAfterError(versions) == versions
AzureAfterError(versions) == {}
AfterError(versions) ==
  CASE base.fs = "s3" -> S3AfterError(versions) [] base.fs = "gcs" -> GCSAfterError(versions)
    [] OTHER -> AzureAfterError(versions)

\* An error ends the version.
Fail == dl' = [dl EXCEPT !.stack = <<>>, !.status = "failed", !.versions = AfterError(@)]
Become(frame) == dl' = [dl EXCEPT !.stack = Append(Front(@), frame)]
Pop == dl' = [dl EXCEPT !.stack = Front(@)]

\* A remote call that may fail.
FailedCall == Fault /\ Fail /\ SameTmp

DownloadVersion ==
  /\ Idle /\ dl.versions # {}
  /\ LET v == CHOOSE w \in dl.versions : TRUE
     IN  /\ MkDir(<<v>>)
         /\ dl' = [dl EXCEPT !.versions = @ \ {v}, !.stack = <<Frame(<<v>>)>>]
  /\ UNCHANGED <<DownloadLeaves, faults, swallowed>>

\* The local path is set only if every version was downloaded.
EndDownload ==
  /\ Idle /\ dl.versions = {}
  /\ localPath' = IF dl.status = "OK" THEN Len(tmp) ELSE localPath
  /\ untidy' = (untidy \/ dl.status # "OK")
  /\ pc' = IF pc = "download" THEN "adding" ELSE "reloading"
  /\ dl' = NoDownload
  /\ UNCHANGED <<Quiet, inst, tmp, lists, faults, rounds, disturbed, swallowed, rebased>>

\* downloadFileFolderTo of a directory; S3 downloads a single object as well, though
\* not over the version's folder.
CheckFolder ==
  /\ Busy /\ Top.at = "check"
  /\ \/ /\ LET p == RemotePath(Top.dir)
           IN  IF IsDirectory(base.fs, p) THEN Become([Top EXCEPT !.at = "list"])
               ELSE IF base.fs = "s3" /\ p \in remote THEN Pop ELSE Fail
        /\ UNCHANGED faults /\ SameTmp
     \/ FailedCall
  /\ UNCHANGED DownloadLeaves

\* getDirectorySubdirs.  The share has no directory to list when the first one is
\* gone; GCS drops a directory of which it could not find out that it is one.
ListSubdirs ==
  /\ Busy /\ Top.at = "list" /\ base.fs # "s3"
  /\ LET p == RemotePath(Top.dir)
         dirs == Subdirs(base.fs, p)
     IN  \/ /\ IF base.fs = "azfs" /\ LastWorkingSubdir(p) = <<>> THEN Fail
               ELSE Become([Top EXCEPT !.at = "files", !.dirs = dirs])
            /\ UNCHANGED faults /\ SameTmp
         \/ FailedCall
         \/ /\ base.fs = "gcs" /\ Fault /\ \E d \in dirs : Become([Top EXCEPT !.at = "files", !.dirs = dirs \ {d}])
            /\ swallowed' = TRUE /\ UNCHANGED tmp
  /\ UNCHANGED DownloadLeaves

\* getDirectoryFiles.
ListFiles ==
  /\ Busy /\ Top.at = "files"
  /\ LET p == RemotePath(Top.dir)
     IN  \/ /\ IF base.fs = "azfs" /\ LastWorkingSubdir(p) = <<>> THEN Fail
               ELSE Become([Top EXCEPT !.at = "descend", !.files = {<<f>> : f \in Files(base.fs, p)}])
            /\ UNCHANGED faults /\ SameTmp
         \/ FailedCall
  /\ UNCHANGED DownloadLeaves

\* Each directory is made and downloaded.  A folder that cannot be made ends the
\* directory with the status of the call before, which is OK.
Descend ==
  /\ Busy /\ Top.at = "descend" /\ Top.dirs # {}
  /\ LET d == CHOOSE e \in Top.dirs : TRUE
         dir == Append(Top.dir, d)
     IN  \/ /\ MkDir(dir) /\ UNCHANGED <<faults, swallowed>>
            /\ dl' = [dl EXCEPT !.stack = Append(Front(@), [Top EXCEPT !.dirs = @ \ {d}]) \o <<Frame(dir)>>]
         \/ Azure /\ FailedCall
         \/ Fault /\ Pop /\ swallowed' = TRUE /\ UNCHANGED tmp
  /\ UNCHANGED DownloadLeaves

Descended ==
  /\ Busy /\ Top.at = "descend" /\ Top.dirs = {}
  /\ Become([Top EXCEPT !.at = "fetch"])
  /\ UNCHANGED <<DownloadLeaves, faults, tmp, swallowed>>

\* S3FileSystem::downloadFileFolder: the contents, then one level of directories.
S3List ==
  /\ Busy /\ Top.at = "list" /\ base.fs = "s3"
  /\ \/ /\ Become([Top EXCEPT !.at = "classify", !.dirs = S3Contents(RemotePath(Top.dir))])
        /\ UNCHANGED faults /\ SameTmp
     \/ FailedCall
  /\ UNCHANGED DownloadLeaves

S3Classify ==
  /\ Busy /\ Top.at = "classify"
  /\ \/ /\ Top.dirs = {} /\ Become([Top EXCEPT !.at = "fetch"])
        /\ UNCHANGED faults /\ SameTmp
     \/ /\ Top.dirs # {}
        /\ LET n == CHOOSE e \in Top.dirs : TRUE
               p == RemotePath(Append(Top.dir, n))
               found == IF S3IsDirectory(p) THEN {<<n, f>> : f \in S3Files(p)} ELSE {<<n>>}
           IN  /\ Become([Top EXCEPT !.dirs = @ \ {n}, !.files = @ \cup found])
               /\ IF S3IsDirectory(p) THEN MkDir(Append(Top.dir, n)) ELSE UNCHANGED tmp
               /\ UNCHANGED <<faults, swallowed>>
     \/ Top.dirs # {} /\ FailedCall
  /\ UNCHANGED DownloadLeaves

\* Mutant: files below subdirectories are saved beside their directory.
FetchFlat ==
  /\ Busy /\ Top.at = "fetch" /\ Top.files # {}
  /\ LET f == CHOOSE g \in Top.files : TRUE
         local == Append(Top.dir, Last(f))
         source == Read(base.fs, RemotePath(Top.dir \o f))
     IN  \/ /\ ~ Accepted(base.fs, Last(f)) \/ source # {}
            /\ Become([Top EXCEPT !.files = @ \ {f}])
            /\ tmp' = IF ~ Accepted(base.fs, Last(f)) THEN tmp
                      ELSE [tmp EXCEPT ![Len(tmp)].files = [g \in DOMAIN @ \cup {local} |->
                                IF g = local THEN CHOOSE q \in source : TRUE ELSE @[g]]]
            /\ UNCHANGED <<faults, swallowed>>
         \/ Accepted(base.fs, Last(f)) /\ source = {} /\ Fail /\ UNCHANGED faults /\ SameTmp
         \/ Accepted(base.fs, Last(f)) /\ FailedCall
  /\ UNCHANGED DownloadLeaves

\* downloadFile of the accepted files.
Fetch ==
  /\ Busy /\ Top.at = "fetch" /\ Top.files # {}
  /\ LET f == CHOOSE g \in Top.files : TRUE
         local == Top.dir \o f
         source == Read(base.fs, RemotePath(local))
     IN  \/ /\ ~ Accepted(base.fs, Last(f)) \/ source # {}
            /\ Become([Top EXCEPT !.files = @ \ {f}])
            /\ tmp' = IF ~ Accepted(base.fs, Last(f)) THEN tmp
                      ELSE [tmp EXCEPT ![Len(tmp)].files = [g \in DOMAIN @ \cup {local} |->
                                IF g = local THEN CHOOSE q \in source : TRUE ELSE @[g]]]
            /\ UNCHANGED <<faults, swallowed>>
         \/ Accepted(base.fs, Last(f)) /\ source = {} /\ Fail /\ UNCHANGED faults /\ SameTmp
         \/ Accepted(base.fs, Last(f)) /\ FailedCall
  /\ UNCHANGED DownloadLeaves

EndFolder ==
  /\ Busy /\ Top.at = "fetch" /\ Top.files = {}
  /\ Pop
  /\ UNCHANGED <<DownloadLeaves, faults, tmp, swallowed>>

-----------------------------------------------------------------------------
DownloadTree ==
  CheckFolder \/ ListSubdirs \/ ListFiles \/ Descend \/ Descended \/ Fetch \/ EndFolder
BlobDownloadFileFolderTo == base.fs = "az" /\ DownloadTree
ShareDownloadFileFolderTo == base.fs = "azfs" /\ DownloadTree
GCSDownloadFileFolder == base.fs = "gcs" /\ DownloadTree
S3DownloadFileFolder ==
  base.fs = "s3" /\ (CheckFolder \/ S3List \/ S3Classify \/ Fetch \/ EndFolder)

DownloadStep ==
  \/ DownloadVersion \/ EndDownload
  \/ BlobDownloadFileFolderTo \/ ShareDownloadFileFolderTo \/ GCSDownloadFileFolder \/ S3DownloadFileFolder

ManagerStep ==
  \/ CheckDirectory \/ ReadAvailableVersions \/ AddVersions \/ AddVersion \/ VersionsAdded
  \/ ReloadVersion \/ ReloadModel \/ VersionsReloaded \/ CleanupBeforeRetire \/ RetireModel
  \/ EndRound

Environment ==
  \/ \E f \in Uploads : Upload(f)
  \/ \E f \in remote : \E k \in 1 .. Len(f) - 1 : RemoveDirectory(SubSeq(f, 1, k))
  \/ \E b \in Bases : NewConfig(b)

Next == StartRound \/ ManagerStep \/ DownloadStep \/ Environment

Spec == Init /\ [][Next]_vars

-----------------------------------------------------------------------------
(***************************************************************************)
(* Properties.                                                             *)
(***************************************************************************)
Directories == UNION {{SubSeq(f, 1, k) : k \in 1 .. Len(f) - 1} : f \in remote}
Complete(fs, p) ==
  /\ fs \in {"az", "azfs"} => Cardinality(Children(p)) <= Page
  /\ fs = "s3" => Cardinality(Below(p)) <= S3Page

RelativePath(f) == SubSeq(f, Len(base.dir) + 1, Len(f))
Copied(f) == RelativePath(f) \in DOMAIN tmp[Len(tmp)].files

\* What the code does not copy: files that are not accepted, files more than one
\* directory below a version in S3, and files below a folder, from the version's down,
\* that takes more than one page to list in S3 or more than one segment in Azure.
Exempt(f) ==
  \/ Last(f) \notin AcceptedFiles
  \/ base.fs = "s3" /\ Len(RelativePath(f)) > 3
  \/ \E k \in Len(base.dir) + 1 .. Len(f) - 1 : ~ Complete(base.fs, SubSeq(f, 1, k))

FilesWhereTheyWere ==
  \A i \in Folders : \A f \in DOMAIN tmp[i].files :
    (tmp[i].of.fs = "azfs" /\ changes < MaxChanges) \/ tmp[i].files[f] = tmp[i].of.dir \o f

\* A download that is reported as OK has every accepted file of every version, and a
\* file is copied to where it was.  Not covered, because the code does not do it:
\* the exempt files, a swallowed error, and a share whose directories disappear.
CopyIsFaithful ==
  /\ Idle /\ dl.versions = {} /\ dl.status = "OK" /\ ~ disturbed /\ ~ swallowed =>
       \A v \in dl.all : \A f \in Below(RemotePath(<<v>>)) : Copied(f) \/ Exempt(f)
  /\ FilesWhereTheyWere

\* A version that is served has its copy, and its network is the one of that copy:
\* deleting the copy of one version never takes the files of another one.  While a
\* version is retired its copy is gone already.  A version that was loaded when its
\* base path changed keeps the network of the old path.
ServedFromItsCopy ==
  \A v \in Versions :
    inst[v].state = "AVAILABLE" /\ inst[v].path # Base /\ ~ (pc = "retiring" /\ v = Current) =>
      /\ inst[v].path \in Folders /\ Loadable(inst[v].path, v)
      /\ inst[v].network = inst[v].path \/ v \in rebased

\* Between two rounds the temporary folders hold the copies of the versions that are
\* served and nothing else, as long as every download succeeds and no version is
\* reloaded.
CopiesReclaimed ==
  pc = "idle" /\ ~ untidy =>
    \A i \in Folders :
      /\ tmp[i].made <=> tmp[i].dirs # {}
      /\ \A d \in tmp[i].dirs : inst[d[1]].state = "AVAILABLE" /\ inst[d[1]].path = i

\* A version that is served is retired only if its directory has gone, the storage has
\* changed since the round began, an error was swallowed, or the base directory takes
\* more than one page (S3) or segment (Azure) to list: then the code retires versions
\* that are still there.
RetiredOnlyIfGone ==
  [][\A v \in Versions : inst[v].state = "AVAILABLE" /\ inst'[v].state = "END" =>
       \/ ~ IsDir(RemotePath(<<v>>)) \/ disturbed \/ swallowed
       \/ ~ Complete(base.fs, base.dir)]_vars

(***************************************************************************)
(* Why they hold: the inductive invariant.                                 *)
(***************************************************************************)
LocalPaths == Folders \cup {Unset, Base}
Instances ==
  [state : {"none", "AVAILABLE", "FAILED", "END"}, base : Bases \cup {NoBase}, path : Int, network : Int]
Frames ==
  [dir : Paths \ {<<>>}, at : {"check", "list", "files", "descend", "classify", "fetch"},
   dirs : SUBSET STRING, files : SUBSET (Paths \ {<<>>})]
Copy == {"made", "of", "dirs", "files"}

TypeOK ==
  /\ remote \subseteq Paths /\ base \in Bases
  /\ tmp \in Seq(Range(tmp))
  /\ \A i \in Folders :
       DOMAIN tmp[i] = Copy /\ tmp[i].dirs \subseteq Paths \ {<<>>} /\ DOMAIN tmp[i].files \subseteq Paths
  /\ localPath \in LocalPaths
  /\ inst \in [Versions -> Instances] /\ \A v \in Versions : inst[v].path \in LocalPaths
  /\ pc \in {"idle", "isdir", "list", "add", "download", "adding", "reload", "redownload", "reloading",
             "retire", "retiring"}
  /\ todo \cup toReload \cup available \cup failed \subseteq Versions
  /\ DOMAIN dl = DOMAIN NoDownload /\ dl.all \subseteq Versions /\ dl.stack \in Seq(Frames)
  /\ pc \in {"redownload", "reloading", "retiring"} => todo # {}
  /\ Downloading => tmp # <<>>

\* The directories of a copy are those of its versions.  The directories on the stack
\* belong to versions that are downloaded into the last folder.
VersionsOfFolders ==
  /\ \A i \in Folders : \A d \in tmp[i].dirs : d[1] \in Versions /\ <<d[1]>> \in tmp[i].dirs
  /\ Downloading =>
       /\ dl.versions \subseteq dl.all
       /\ \A k \in DOMAIN dl.stack :
            dl.stack[k].dir[1] \in dl.all /\ <<dl.stack[k].dir[1]>> \in tmp[Len(tmp)].dirs

\* As long as nothing was reloaded and no download has failed, a copy is of a version
\* that is served from it or that is about to be added.
Being(i, v) ==
  \/ inst[v].state = "AVAILABLE" /\ inst[v].path = i /\ ~ (pc = "retiring" /\ v = Current)
  \/ pc = "adding" /\ i = localPath /\ v \in todo
  \/ pc = "download" /\ i = Len(tmp) /\ v \in todo
CopiesAccounted ==
  ~ untidy =>
    /\ pc \notin {"redownload", "reloading"}
    /\ \A i \in Folders : \A d \in tmp[i].dirs : Being(i, d[1])
    /\ pc \in {"add", "download", "adding"} => \A v \in todo : inst[v].state = "none"
    /\ pc = "download" =>
         /\ dl.all \subseteq todo /\ tmp[Len(tmp)].made
         /\ dl.versions # {} \/ tmp[Len(tmp)].dirs # {}
    /\ \A i \in Folders : (pc = "download" /\ i = Len(tmp)) \/ (tmp[i].made <=> tmp[i].dirs # {})

\* What a round knows of the storage and of its versions.
RoundIsCurrent ==
  /\ pc \notin {"idle", "isdir"} /\ ~ disturbed => IsDirectory(base.fs, base.dir)
  /\ pc \notin {"idle", "isdir", "list"} /\ ~ disturbed /\ ~ swallowed =>
       available = Subdirs(base.fs, base.dir) \cap Versions
  /\ \A v \in failed : inst[v].state # "AVAILABLE"
  /\ pc \in {"isdir", "list", "add", "download"} => failed = {}
  /\ pc \in {"add", "download", "adding"} => todo \cap toReload = {} /\ toReload \cap failed = {}
  /\ pc \in {"adding", "reload", "redownload", "reloading"} => todo \cap failed = {}
  /\ pc \in {"retire", "retiring"} => \A v \in todo : inst[v].state = "AVAILABLE" => v \notin available

IInv == TypeOK /\ VersionsOfFolders /\ ServedFromItsCopy /\ CopiesAccounted /\ RoundIsCurrent

(***************************************************************************)
(* Why a copy is faithful: a file that is not copied is still to come.     *)
(***************************************************************************)

\* The download of the folder of a frame has not yet dealt with file f.
StillToCome(frame, f) ==
  LET sub(n) == RemotePath(Append(frame.dir, n))
  IN  \/ frame.at \in {"check", "list"} /\ f \in Below(RemotePath(frame.dir))
      \/ frame.at \in {"files", "descend"} /\ \E n \in frame.dirs : f \in Below(sub(n))
      \/ frame.at = "files" /\ \E n \in Children(RemotePath(frame.dir)) : f = sub(n)
      \/ frame.at = "classify" /\ \E n \in frame.dirs : f = sub(n) \/ f \in Below(sub(n))
      \/ frame.at \in {"descend", "classify", "fetch"} /\ \E g \in frame.files : f = RemotePath(frame.dir \o g)

NothingMissed ==
  Downloading /\ dl.status = "OK" /\ ~ disturbed /\ ~ swallowed =>
    \A v \in dl.all : \A f \in Below(RemotePath(<<v>>)) :
      v \in dl.versions \/ Copied(f) \/ Exempt(f) \/ \E k \in DOMAIN dl.stack : StillToCome(dl.stack[k], f)

\* A share that has not changed walks down to the folder of a frame, and has the
\* files of its list.
ShareWalked ==
  Downloading /\ base.fs = "azfs" /\ ~ disturbed =>
    \A k \in DOMAIN dl.stack :
      /\ dl.stack[k].at # "check" => ShareIsDirectory(RemotePath(dl.stack[k].dir))
      /\ \A g \in dl.stack[k].files : RemotePath(dl.stack[k].dir \o g) \in remote

CopyInv ==
  /\ NothingMissed /\ ShareWalked /\ FilesWhereTheyWere
  /\ NoFileIsFolder(remote \cup Uploads)
  /\ changes \in 0 .. MaxChanges /\ (changes = MaxChanges => ~ disturbed)
  /\ Downloading => tmp[Len(tmp)].of = base
=============================================================================
