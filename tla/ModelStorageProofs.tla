------------------------- MODULE ModelStorageProofs -------------------------
(***************************************************************************)
(* Proofs about the copies of a model's versions, for any storages, base   *)
(* paths and versions and any number of faults, changes and rounds.        *)
(***************************************************************************)
EXTENDS ModelStorage, SequenceTheorems, WellFoundedInduction, TLAPS

(***************************************************************************)
(* Numbers and sequences.                                                  *)
(***************************************************************************)

\* Every set of numbers has a least member.
LEMMA LeastNumber ==
  ASSUME NEW S \in SUBSET Nat, S # {}
  PROVE  \E x \in S : \A y \in S : x =< y
<1>1. PICK x \in S : \A y \in S : ~ (<<y, x>> \in OpToRel(<, Nat))
  BY NatLessThanWellFounded, WFMin
<1>2. ASSUME NEW y \in S PROVE x =< y
  <2>1. ~ (<<y, x>> \in OpToRel(<, Nat))
    BY <1>1
  <2>2. x \in Nat /\ y \in Nat
    OBVIOUS
  <2>3. ~ (y < x)
    BY <2>1, <2>2 DEF OpToRel
  <2> QED
    BY <2>2, <2>3
<1> QED
  BY <1>2

\* A set of numbers with a bound has a greatest member.
LEMMA GreatestNumber ==
  ASSUME NEW n \in Nat, NEW S \in SUBSET (0 .. n), S # {}
  PROVE  Max(S) \in S /\ \A y \in S : Max(S) >= y
<1> DEFINE T == {n - x : x \in S}
<1>0. \A x \in S : x \in Nat /\ n - x \in Nat
  OBVIOUS
<1>1. T \in SUBSET Nat /\ T # {}
  BY <1>0
<1>2. PICK t \in T : \A u \in T : t =< u
  BY <1>1, LeastNumber
<1>3. PICK x \in S : t = n - x
  BY <1>2
<1>4. ASSUME NEW y \in S PROVE x >= y
  <2>1. n - y \in T
    OBVIOUS
  <2>2. n - x =< n - y
    BY <1>2, <1>3, <2>1
  <2> QED
    BY <1>0, <2>2
<1> QED
  BY <1>4 DEF Max

\* A sequence is one of its own members.
LEMMA OwnMembers ==
  ASSUME NEW S, NEW s \in Seq(S)
  PROVE  s \in Seq(Range(s)) /\ Len(s) \in Nat /\ DOMAIN s = 1 .. Len(s)
<1>1. Len(s) \in Nat /\ DOMAIN s = 1 .. Len(s) /\ s \in [1 .. Len(s) -> S]
  OBVIOUS
<1>2. s \in [1 .. Len(s) -> Range(s)]
  BY <1>1 DEF Range
<1> QED
  BY <1>1, <1>2

\* One more folder.
LEMMA TmpAppended ==
  ASSUME TypeOK, NEW c, tmp' = Append(tmp, c)
  PROVE  /\ Len(tmp) \in Nat /\ Folders = 1 .. Len(tmp)
         /\ tmp' \in Seq(Range(tmp')) /\ Len(tmp') = Len(tmp) + 1 /\ Folders' = 1 .. Len(tmp) + 1
         /\ tmp'[Len(tmp) + 1] = c /\ \A i \in Folders : tmp'[i] = tmp[i]
<1>1. tmp \in Seq(Range(tmp))
  BY DEF TypeOK
<1> DEFINE S == Range(tmp) \cup {c}
<1>2. Append(tmp, c) \in Seq(S)
  <2>1. tmp \in Seq(S)
    BY <1>1
  <2> HIDE DEF S
  <2>2. c \in S
    BY DEF S
  <2> QED
    BY <2>1, <2>2
<1>3. Append(tmp, c) \in Seq(Range(Append(tmp, c)))
  <2> HIDE DEF S
  <2> QED
    BY <1>2, OwnMembers
<1> QED
  BY <1>1, <1>3 DEF Folders

\* Another folder in the place of one.
LEMMA TmpChanged ==
  ASSUME TypeOK, NEW k \in Folders, NEW c, tmp' = [tmp EXCEPT ![k] = c]
  PROVE  /\ Len(tmp) \in Nat /\ Folders = 1 .. Len(tmp)
         /\ tmp' \in Seq(Range(tmp')) /\ Len(tmp') = Len(tmp) /\ Folders' = Folders
         /\ tmp'[k] = c /\ \A i \in Folders : i # k => tmp'[i] = tmp[i]
<1>1. tmp \in Seq(Range(tmp)) /\ Len(tmp) \in Nat /\ Folders = 1 .. Len(tmp)
  BY DEF TypeOK, Folders
<1> DEFINE S == Range(tmp) \cup {c}
<1>2. tmp' \in [1 .. Len(tmp) -> S]
  <2>1. tmp \in [1 .. Len(tmp) -> S] /\ c \in S
    BY <1>1
  <2> HIDE DEF S
  <2> QED
    BY <2>1
<1>3. tmp' \in Seq(S) /\ Len(tmp') = Len(tmp)
  <2> HIDE DEF S
  <2>1. tmp' \in Seq(S)
    BY <1>1, <1>2, SeqDef
  <2>2. DOMAIN tmp' = 1 .. Len(tmp) /\ DOMAIN tmp' = 1 .. Len(tmp') /\ Len(tmp') \in Nat
    BY <1>2, <2>1
  <2> QED
    BY <1>1, <2>1, <2>2
<1>4. tmp' \in Seq(Range(tmp'))
  <2> HIDE DEF S
  <2> QED
    BY <1>3, OwnMembers
<1> QED
  BY <1>1, <1>3, <1>4 DEF Folders

\* The last folder.
LEMMA LastFolder ==
  ASSUME TypeOK, tmp # <<>>
  PROVE  Len(tmp) \in Folders /\ Len(tmp) \in Nat /\ Folders = 1 .. Len(tmp)
BY DEF TypeOK, Folders

(***************************************************************************)
(* Names and paths.                                                        *)
(***************************************************************************)

\* What is listed are names.
LEMMA ChildrenAreNames ==
  ASSUME TypeOK, NEW p \in Paths
  PROVE  Children(p) \subseteq STRING /\ DirChildren(p) \subseteq Children(p) /\ FileChildren(p) \subseteq Children(p)
<1>1. ASSUME NEW f \in Below(p) PROVE f[Len(p) + 1] \in STRING
  <2>1. f \in Seq(STRING) /\ p \in Seq(STRING) /\ Len(f) > Len(p)
    BY DEF Below, TypeOK, Paths
  <2> QED
    BY <2>1
<1> QED
  BY <1>1 DEF Children, DirChildren, FileChildren

\* The walk down a path of a file share ends at a directory on it.
LEMMA WalkIsPath ==
  ASSUME NEW p \in Paths
  PROVE  LastWorkingSubdir(p) \in Paths
<1> DEFINE steps == {k \in 1 .. Len(p) : \A i \in 1 .. k : IsDir(SubSeq(p, 1, i))}
<1>1. Len(p) \in Nat /\ p \in Seq(STRING)
  BY DEF Paths
<1>2. steps \cup {0} \in SUBSET (0 .. Len(p)) /\ steps \cup {0} # {}
  BY <1>1
<1>3. Max(steps \cup {0}) \in 0 .. Len(p)
  <2> HIDE DEF steps
  <2> QED
    BY <1>1, <1>2, GreatestNumber
<1>4. \A m \in 0 .. Len(p) : SubSeq(p, 1, m) \in Seq(STRING)
  BY <1>1
<1> QED
  BY <1>3, <1>4 DEF LastWorkingSubdir, Paths

LEMMA ListedAreNames ==
  ASSUME TypeOK, NEW p \in Paths, NEW fs
  PROVE  Subdirs(fs, p) \subseteq STRING /\ Files(fs, p) \subseteq STRING /\ S3Contents(p) \subseteq STRING
         /\ S3Files(p) \subseteq STRING
<1>1. /\ Children(p) \subseteq STRING /\ DirChildren(p) \subseteq STRING /\ FileChildren(p) \subseteq STRING
  BY ChildrenAreNames
<1>2. /\ DirChildren(LastWorkingSubdir(p)) \subseteq STRING /\ FileChildren(LastWorkingSubdir(p)) \subseteq STRING
  BY WalkIsPath, ChildrenAreNames
<1>3. S3Contents(p) \subseteq Children(p) /\ GCSContents(p) = Children(p)
  BY DEF S3Contents, GCSContents, Children
<1>4. Subdirs(fs, p) \subseteq STRING
  BY <1>1, <1>2, <1>3 DEF Subdirs, LocalSubdirs, S3Subdirs, GCSSubdirs, AzureSubdirs, BlobSubdirs, ShareSubdirs
<1>5. Files(fs, p) \subseteq STRING
  BY <1>1, <1>2, <1>3 DEF Files, LocalFiles, S3Files, GCSFiles, AzureFiles, BlobFiles, ShareFiles
<1> QED
  BY <1>1, <1>3, <1>4, <1>5 DEF S3Files

\* The remote path of a path below the base path.
LEMMA RemotePaths ==
  ASSUME TypeOK, NEW rel \in Paths
  PROVE  RemotePath(rel) \in Paths
<1>1. base.dir \in Seq(STRING) /\ rel \in Seq(STRING)
  BY PathsAssumption DEF TypeOK, Paths
<1> QED
  BY <1>1 DEF RemotePath, Paths

(***************************************************************************)
(* The download.                                                           *)
(***************************************************************************)

\* The stack holds directories of the versions it held before.
StackFollows ==
  /\ DOMAIN dl' = DOMAIN dl /\ dl'.all = dl.all /\ dl'.versions \subseteq dl.versions /\ dl'.stack \in Seq(Frames)
  /\ \A k \in DOMAIN dl'.stack : \E j \in DOMAIN dl.stack : dl'.stack[k].dir[1] = dl.stack[j].dir[1]

\* The last folder gets directories of the versions on the stack, and files.
FolderGrows ==
  /\ tmp' \in Seq(Range(tmp')) /\ Len(tmp') = Len(tmp) /\ Folders' = Folders
  /\ \A i \in Folders : i # Len(tmp) => tmp'[i] = tmp[i]
  /\ DOMAIN tmp'[Len(tmp)] = Copy /\ tmp'[Len(tmp)].made = tmp[Len(tmp)].made /\ tmp'[Len(tmp)].of = tmp[Len(tmp)].of
  /\ tmp[Len(tmp)].dirs \subseteq tmp'[Len(tmp)].dirs /\ tmp'[Len(tmp)].dirs \subseteq Paths \ {<<>>}
  /\ \A d \in tmp'[Len(tmp)].dirs :
       d \in tmp[Len(tmp)].dirs \/ \E j \in DOMAIN dl.stack : d[1] = dl.stack[j].dir[1]
  /\ DOMAIN tmp[Len(tmp)].files \subseteq DOMAIN tmp'[Len(tmp)].files
  /\ DOMAIN tmp'[Len(tmp)].files \subseteq Paths

\* What is on top of the stack.
LEMMA TopOfStack ==
  ASSUME TypeOK, Busy
  PROVE  /\ Len(dl.stack) \in DOMAIN dl.stack /\ Top = dl.stack[Len(dl.stack)] /\ Top \in Frames
         /\ Top.dir \in Paths \ {<<>>} /\ Top.dirs \subseteq STRING /\ Top.files \subseteq Paths \ {<<>>}
         /\ dl.stack \in Seq(Frames) /\ Front(dl.stack) \in Seq(Frames)
         /\ DOMAIN Front(dl.stack) \subseteq DOMAIN dl.stack
         /\ \A k \in DOMAIN Front(dl.stack) : Front(dl.stack)[k] = dl.stack[k]
         /\ DOMAIN dl = {"all", "versions", "stack", "status"}
<1>1. dl.stack \in Seq(Frames) /\ dl.stack # <<>> /\ DOMAIN dl = {"all", "versions", "stack", "status"}
  BY DEF TypeOK, Busy, NoDownload
<1> DEFINE s == dl.stack
           F == Frames
<1> HIDE DEF s
<1>2. s \in Seq(Frames) /\ s # <<>>
  BY <1>1 DEF s
<1>3. Len(s) \in Nat \ {0} /\ Len(s) \in DOMAIN s /\ s[Len(s)] \in F
  <2> HIDE DEF F
  <2> QED
    BY <1>2 DEF F
<1>4. /\ SubSeq(s, 1, Len(s) - 1) \in Seq(F) /\ DOMAIN SubSeq(s, 1, Len(s) - 1) \subseteq DOMAIN s
      /\ \A k \in DOMAIN SubSeq(s, 1, Len(s) - 1) : SubSeq(s, 1, Len(s) - 1)[k] = s[k]
  <2> HIDE DEF F
  <2> QED
    BY <1>2, <1>3 DEF F
<1>5. Top \in F /\ Top = s[Len(s)]
  BY <1>3 DEF Top, Last, s
<1>6. Top.dir \in Paths \ {<<>>} /\ Top.dirs \subseteq STRING /\ Top.files \subseteq Paths \ {<<>>}
  BY <1>5 DEF Frames
<1> QED
  BY <1>1, <1>3, <1>4, <1>5, <1>6 DEF Front, s

\* Nothing happens to the folders.
LEMMA SameFolders ==
  ASSUME TypeOK, Downloading, tmp' = tmp
  PROVE  FolderGrows
<1>1. Len(tmp) \in Folders
  BY LastFolder DEF TypeOK
<1> QED
  BY <1>1 DEF FolderGrows, TypeOK, Folders

\* A directory of a version on the stack is made.
LEMMA MkDirGrows ==
  ASSUME TypeOK, Busy, NEW dir \in Paths \ {<<>>}, dir[1] = Top.dir[1], MkDir(dir)
  PROVE  FolderGrows
<1> DEFINE L == Len(tmp)
           c == tmp[L]
           e == [c EXCEPT !.dirs = @ \cup {dir}]
<1>1. L \in Folders /\ DOMAIN c = Copy /\ c.dirs \subseteq Paths \ {<<>>} /\ DOMAIN c.files \subseteq Paths
  BY LastFolder DEF TypeOK, Busy
<1>2. tmp' = [tmp EXCEPT ![L] = e]
  BY DEF MkDir
<1>3. DOMAIN e = Copy /\ e.made = c.made /\ e.of = c.of /\ e.files = c.files /\ e.dirs = c.dirs \cup {dir}
  <2> HIDE DEF c
  <2> QED
    BY <1>1 DEF Copy
<1>4. /\ tmp' \in Seq(Range(tmp')) /\ Len(tmp') = Len(tmp) /\ Folders' = Folders
      /\ tmp'[L] = e /\ \A i \in Folders : i # L => tmp'[i] = tmp[i]
  <2> HIDE DEF e, L
  <2> QED
    BY <1>1, <1>2, TmpChanged DEF L
<1>5. \E j \in DOMAIN dl.stack : dir[1] = dl.stack[j].dir[1]
  BY TopOfStack
<1> HIDE DEF e, c
<1> QED
  BY <1>1, <1>3, <1>4, <1>5 DEF FolderGrows, c

\* An error clears the stack.
LEMMA FailFollows ==
  ASSUME TypeOK, Busy, Fail
  PROVE  StackFollows
<1>1. AfterError(dl.versions) \subseteq dl.versions
  BY DEF AfterError, S3AfterError, GCSAfterError, AzureAfterError
<1>2. /\ DOMAIN dl' = DOMAIN dl /\ dl'.all = dl.all /\ dl'.versions = AfterError(dl.versions) /\ dl'.stack = <<>>
  BY TopOfStack DEF Fail
<1> QED
  BY <1>1, <1>2 DEF StackFollows

LEMMA PopFollows ==
  ASSUME TypeOK, Busy, Pop
  PROVE  StackFollows
<1>1. /\ DOMAIN dl' = DOMAIN dl /\ dl'.all = dl.all /\ dl'.versions = dl.versions /\ dl'.stack = Front(dl.stack)
  BY TopOfStack DEF Pop
<1> QED
  BY <1>1, TopOfStack DEF StackFollows

LEMMA BecomeFollows ==
  ASSUME TypeOK, Busy, NEW frame \in Frames, frame.dir = Top.dir, Become(frame)
  PROVE  StackFollows
<1> DEFINE s == Front(dl.stack)
<1>1. /\ DOMAIN dl' = DOMAIN dl /\ dl'.all = dl.all /\ dl'.versions = dl.versions
      /\ dl'.stack = Append(s, frame)
  BY TopOfStack DEF Become
<1>2. /\ s \in Seq(Frames) /\ DOMAIN s \subseteq DOMAIN dl.stack /\ \A k \in DOMAIN s : s[k] = dl.stack[k]
      /\ Len(dl.stack) \in DOMAIN dl.stack /\ frame.dir = dl.stack[Len(dl.stack)].dir
  BY TopOfStack
<1>3. Append(s, frame) \in Seq(Frames)
  <2> HIDE DEF s
  <2> QED
    BY <1>2
<1>4. \A k \in DOMAIN Append(s, frame) : Append(s, frame)[k] = frame \/ (k \in DOMAIN s /\ Append(s, frame)[k] = s[k])
  <2> HIDE DEF s
  <2> QED
    BY <1>2
<1> HIDE DEF s
<1> QED
  BY <1>1, <1>2, <1>3, <1>4 DEF StackFollows

\* The copies at a path can only grow.
LEMMA StillLoadable ==
  ASSUME NEW i, NEW v, i \notin {Base, Unset}, Loadable(i, v),
         \A g \in DOMAIN tmp[i].files : Front(g) = <<v>> => g \in DOMAIN tmp'[i].files
  PROVE  Loadable(i, v)'
BY DEF Loadable, FilesAt

LEMMA FoldersAreNumbers ==
  ASSUME TypeOK, NEW i \in Folders
  PROVE  i \notin {Base, Unset}
<1>1. i \in Nat /\ i >= 1
  BY DEF TypeOK, Folders
<1> QED
  BY <1>1 DEF Base, Unset

\* The operations of a file system see what is in the storage.
LEMMA SameStorage ==
  ASSUME UNCHANGED <<remote, base>>
  PROVE  /\ IsDirectory(base.fs, base.dir)' <=> IsDirectory(base.fs, base.dir)
         /\ Subdirs(base.fs, base.dir)' = Subdirs(base.fs, base.dir)
<1>1. \A p : Below(p)' = Below(p) /\ (IsDir(p)' <=> IsDir(p))
  BY DEF Below, IsDir
<1>2. \A p : Children(p)' = Children(p) /\ DirChildren(p)' = DirChildren(p)
  BY <1>1 DEF Children, DirChildren
<1>3. \A p : LastWorkingSubdir(p)' = LastWorkingSubdir(p)
  BY <1>1 DEF LastWorkingSubdir
<1>4. \A fs, p : IsDirectory(fs, p)' <=> IsDirectory(fs, p)
  BY <1>1, <1>2, <1>3 DEF IsDirectory, LocalIsDirectory, S3IsDirectory, GCSIsDirectory, AzureIsDirectory,
     BlobIsDirectory, ShareIsDirectory
<1>5. \A p : /\ S3Subdirs(p)' = S3Subdirs(p) /\ GCSSubdirs(p)' = GCSSubdirs(p)
            /\ BlobSubdirs(p)' = BlobSubdirs(p) /\ ShareSubdirs(p)' = ShareSubdirs(p)
  BY <1>1, <1>2, <1>3 DEF S3Subdirs, S3Contents, S3IsDirectory, GCSSubdirs, GCSContents, GCSIsDirectory,
     BlobSubdirs, BlobContents, ShareSubdirs, ShareContents
<1>6. \A fs, p : Subdirs(fs, p)' = Subdirs(fs, p)
  BY <1>2, <1>5 DEF Subdirs, LocalSubdirs, AzureSubdirs
<1> QED
  BY <1>4, <1>6

\* What a step of downloadModelVersions does to the last folder and to the stack.
DownloadGoesOn ==
  /\ tmp' \in Seq(Range(tmp')) /\ Len(tmp') = Len(tmp) /\ Folders' = Folders
  /\ \A i \in Folders : i # Len(tmp) => tmp'[i] = tmp[i]
  /\ DOMAIN tmp'[Len(tmp)] = Copy /\ tmp'[Len(tmp)].made = tmp[Len(tmp)].made
  /\ tmp[Len(tmp)].dirs \subseteq tmp'[Len(tmp)].dirs /\ tmp'[Len(tmp)].dirs \subseteq Paths \ {<<>>}
  /\ tmp'[Len(tmp)].dirs # {}
  /\ \A d \in tmp'[Len(tmp)].dirs :
       d \in tmp[Len(tmp)].dirs \/ (d[1] \in dl.all /\ <<d[1]>> \in tmp'[Len(tmp)].dirs)
  /\ DOMAIN tmp[Len(tmp)].files \subseteq DOMAIN tmp'[Len(tmp)].files
  /\ DOMAIN tmp'[Len(tmp)].files \subseteq Paths
  /\ DOMAIN dl' = DOMAIN dl /\ dl'.all = dl.all /\ dl'.versions \subseteq dl.versions /\ dl'.stack \in Seq(Frames)
  /\ \A k \in DOMAIN dl'.stack :
       dl'.stack[k].dir[1] \in dl.all /\ <<dl'.stack[k].dir[1]>> \in tmp'[Len(tmp)].dirs

LEMMA DownloadingStep ==
  ASSUME IInv, Downloading, UNCHANGED DownloadLeaves, DownloadGoesOn, swallowed => swallowed'
  PROVE  IInv'
<1> USE DEF IInv, DownloadLeaves, Quiet, lists
<1>0. Downloading /\ tmp # <<>> /\ Len(tmp) \in Folders /\ dl.versions \subseteq dl.all /\ dl.all \subseteq Versions
  BY LastFolder DEF TypeOK, VersionsOfFolders
<1>b. Folders' = Folders /\ Len(tmp') = Len(tmp) /\ Downloading'
  BY <1>0 DEF DownloadGoesOn, Downloading
<1>1. TypeOK'
  <2>1. tmp' \in Seq(Range(tmp')) /\ tmp' # <<>>
    <3>1. tmp' \in Seq(Range(tmp')) /\ Len(tmp') = Len(tmp) /\ Len(tmp) \in Nat /\ Len(tmp) >= 1
      BY <1>0, LastFolder DEF DownloadGoesOn
    <3> QED
      BY <3>1
  <2>2. \A i \in Folders :
          DOMAIN tmp'[i] = Copy /\ tmp'[i].dirs \subseteq Paths \ {<<>>} /\ DOMAIN tmp'[i].files \subseteq Paths
    BY DEF DownloadGoesOn, TypeOK
  <2>3. DOMAIN dl' = DOMAIN NoDownload /\ dl'.all \subseteq Versions /\ dl'.stack \in Seq(Frames)
    BY DEF DownloadGoesOn, TypeOK
  <2> QED
    BY <1>b, <2>1, <2>2, <2>3 DEF TypeOK, LocalPaths
<1>2. VersionsOfFolders'
  <2>1. \A i \in Folders : \A d \in tmp'[i].dirs : d[1] \in Versions /\ <<d[1]>> \in tmp'[i].dirs
    <3> SUFFICES ASSUME NEW i \in Folders, NEW d \in tmp'[i].dirs
                 PROVE  d[1] \in Versions /\ <<d[1]>> \in tmp'[i].dirs
      OBVIOUS
    <3>1. CASE i # Len(tmp)
      BY <3>1 DEF DownloadGoesOn, VersionsOfFolders
    <3>2. CASE i = Len(tmp)
      <4>1. CASE d \in tmp[i].dirs
        BY <3>2, <4>1 DEF DownloadGoesOn, VersionsOfFolders
      <4>2. CASE d \notin tmp[i].dirs
        BY <1>0, <3>2, <4>2 DEF DownloadGoesOn
      <4> QED
        BY <4>1, <4>2
    <3> QED
      BY <3>1, <3>2
  <2>2. dl'.versions \subseteq dl'.all
    BY <1>0 DEF DownloadGoesOn
  <2>3. \A k \in DOMAIN dl'.stack : dl'.stack[k].dir[1] \in dl'.all /\ <<dl'.stack[k].dir[1]>> \in tmp'[Len(tmp)].dirs
    BY DEF DownloadGoesOn
  <2> QED
    BY <1>b, <2>1, <2>2, <2>3 DEF VersionsOfFolders
<1>3. ServedFromItsCopy'
  <2> SUFFICES ASSUME NEW v \in Versions, inst[v].state = "AVAILABLE", inst[v].path # Base
               PROVE  /\ inst[v].path \in Folders /\ Loadable(inst[v].path, v)'
                      /\ inst[v].network = inst[v].path \/ v \in rebased
    BY <1>b DEF ServedFromItsCopy
  <2>0. pc # "retiring"
    BY <1>0 DEF Downloading
  <2> DEFINE i == inst[v].path
  <2>1. i \in Folders /\ Loadable(i, v) /\ (inst[v].network = i \/ v \in rebased)
    BY <2>0 DEF ServedFromItsCopy
  <2>a. i' = i
    OBVIOUS
  <2> HIDE DEF i
  <2>2. DOMAIN tmp[i].files \subseteq DOMAIN tmp'[i].files /\ i \notin {Base, Unset}
    BY <2>1, FoldersAreNumbers DEF DownloadGoesOn
  <2>3. Loadable(i, v)'
    BY <2>1, <2>2, <2>a, StillLoadable
  <2> QED
    BY <2>1, <2>3 DEF i
<1>4. CopiesAccounted'
  <2> SUFFICES ASSUME ~ untidy PROVE CopiesAccounted'
    BY DEF CopiesAccounted
  <2>1. pc = "download"
    BY <1>0 DEF Downloading, CopiesAccounted
  <2>2. \A i \in Folders : \A d \in tmp'[i].dirs : Being(i, d[1])'
    <3> SUFFICES ASSUME NEW i \in Folders, NEW d \in tmp'[i].dirs PROVE Being(i, d[1])'
      OBVIOUS
    <3>1. CASE d \in tmp[i].dirs
      <4>1. Being(i, d[1])
        BY <3>1 DEF CopiesAccounted
      <4> QED
        BY <1>b, <4>1 DEF Being, Current
    <3>2. CASE d \notin tmp[i].dirs
      <4>1. i = Len(tmp) /\ d[1] \in dl.all
        BY <3>2 DEF DownloadGoesOn
      <4>2. d[1] \in todo
        BY <2>1, <4>1 DEF CopiesAccounted
      <4> QED
        BY <1>b, <2>1, <4>1, <4>2 DEF Being
    <3> QED
      BY <3>1, <3>2
  <2>3. dl'.all \subseteq todo /\ tmp'[Len(tmp)].made /\ tmp'[Len(tmp)].dirs # {}
    BY <1>0, <2>1 DEF CopiesAccounted, DownloadGoesOn
  <2>4. \A i \in Folders : i = Len(tmp) \/ (tmp'[i].made <=> tmp'[i].dirs # {})
    BY <2>1 DEF CopiesAccounted, DownloadGoesOn
  <2> QED
    BY <1>b, <2>1, <2>2, <2>3, <2>4 DEF CopiesAccounted
<1>5. RoundIsCurrent'
  <2>1. /\ IsDirectory(base.fs, base.dir)' <=> IsDirectory(base.fs, base.dir)
        /\ Subdirs(base.fs, base.dir)' = Subdirs(base.fs, base.dir)
    BY SameStorage
  <2> QED
    BY <1>0, <2>1 DEF RoundIsCurrent, Downloading
<1> QED
  BY <1>1, <1>2, <1>3, <1>4, <1>5

\* A step within a version.
LEMMA BusyStep ==
  ASSUME IInv, Busy, UNCHANGED DownloadLeaves, StackFollows, FolderGrows, swallowed => swallowed'
  PROVE  IInv'
<1>0. TypeOK /\ VersionsOfFolders /\ Downloading /\ Len(dl.stack) \in DOMAIN dl.stack
  BY TopOfStack DEF IInv, Busy
<1>1. \A j \in DOMAIN dl.stack : dl.stack[j].dir[1] \in dl.all /\ <<dl.stack[j].dir[1]>> \in tmp[Len(tmp)].dirs
  BY <1>0 DEF VersionsOfFolders
<1>2. /\ tmp'[Len(tmp)].dirs # {}
      /\ \A d \in tmp'[Len(tmp)].dirs :
           d \in tmp[Len(tmp)].dirs \/ (d[1] \in dl.all /\ <<d[1]>> \in tmp'[Len(tmp)].dirs)
  BY <1>0, <1>1 DEF FolderGrows
<1>3. \A k \in DOMAIN dl'.stack :
        dl'.stack[k].dir[1] \in dl.all /\ <<dl'.stack[k].dir[1]>> \in tmp'[Len(tmp)].dirs
  BY <1>1 DEF FolderGrows, StackFollows
<1>4. DownloadGoesOn
  BY <1>2, <1>3 DEF DownloadGoesOn, FolderGrows, StackFollows
<1> QED
  BY <1>0, <1>4, DownloadingStep

\* Sequences of one and two members, and one with a member more.
LEMMA ShortSequences ==
  ASSUME NEW S, NEW n \in S, NEW f \in S
  PROVE  <<n>> \in Seq(S) \ {<<>>} /\ <<n, f>> \in Seq(S) \ {<<>>}
<1>1. <<n>> \in Seq(S) /\ Len(<<n>>) = 1 /\ <<n, f>> \in Seq(S) /\ Len(<<n, f>>) = 2
  OBVIOUS
<1>2. <<n>> # <<>> /\ <<n, f>> # <<>>
  BY <1>1
<1> QED
  BY <1>1, <1>2

LEMMA LongerSequence ==
  ASSUME NEW S, NEW s \in Seq(S) \ {<<>>}, NEW n \in S
  PROVE  Append(s, n) \in Seq(S) \ {<<>>} /\ Append(s, n)[1] = s[1]
<1>1. Len(s) \in Nat /\ Len(s) >= 1
  OBVIOUS
<1>2. Append(s, n) \in Seq(S) /\ Len(Append(s, n)) = Len(s) + 1 /\ Append(s, n)[1] = s[1]
  BY <1>1
<1>3. Append(s, n) # <<>>
  BY <1>1, <1>2
<1> QED
  BY <1>2, <1>3

\* Paths of one and two names, and a path with one more name, which is below the same
\* version.
LEMMA ShortPaths ==
  ASSUME NEW n \in STRING, NEW f \in STRING
  PROVE  <<n>> \in Paths \ {<<>>} /\ <<n, f>> \in Paths \ {<<>>}
BY ShortSequences DEF Paths

LEMMA LongerPath ==
  ASSUME NEW dir \in Paths \ {<<>>}, NEW n \in STRING
  PROVE  Append(dir, n) \in Paths \ {<<>>} /\ Append(dir, n)[1] = dir[1]
<1>1. PICK S : S = STRING
  OBVIOUS
<1>2. Paths = Seq(S)
  BY <1>1 DEF Paths
<1>3. dir \in Seq(S) \ {<<>>} /\ n \in S
  BY <1>1, <1>2
<1>4. \A s \in Seq(S) \ {<<>>} : \A x \in S : Append(s, x) \in Seq(S) \ {<<>>} /\ Append(s, x)[1] = s[1]
  BY LongerSequence
<1>5. Append(dir, n) \in Seq(S) \ {<<>>} /\ Append(dir, n)[1] = dir[1]
  BY <1>3, <1>4, Zenon
<1> QED
  BY <1>2, <1>5

\* A frame with other contents.
LEMMA FrameChanged ==
  ASSUME TypeOK, Busy,
         NEW at \in {"check", "list", "files", "descend", "classify", "fetch"},
         NEW dirs \in SUBSET STRING, NEW files \in SUBSET (Paths \ {<<>>})
  PROVE  /\ [Top EXCEPT !.at = at] \in Frames /\ [Top EXCEPT !.at = at].dir = Top.dir
         /\ [Top EXCEPT !.at = at, !.dirs = dirs] \in Frames /\ [Top EXCEPT !.at = at, !.dirs = dirs].dir = Top.dir
         /\ [Top EXCEPT !.at = at, !.files = files] \in Frames /\ [Top EXCEPT !.at = at, !.files = files].dir = Top.dir
         /\ [Top EXCEPT !.dirs = dirs] \in Frames /\ [Top EXCEPT !.dirs = dirs].dir = Top.dir
         /\ [Top EXCEPT !.files = files] \in Frames /\ [Top EXCEPT !.files = files].dir = Top.dir
         /\ [Top EXCEPT !.dirs = dirs, !.files = files] \in Frames
         /\ [Top EXCEPT !.dirs = dirs, !.files = files].dir = Top.dir
<1>1. Top \in Frames
  BY TopOfStack
<1> HIDE DEF Top
<1> QED
  BY <1>1 DEF Frames

\* A call fails.
LEMMA FailedCallStep ==
  ASSUME IInv, Busy, FailedCall, UNCHANGED DownloadLeaves
  PROVE  IInv'
<1>1. StackFollows
  BY FailFollows DEF FailedCall, IInv
<1>2. FolderGrows
  BY SameFolders DEF FailedCall, SameTmp, IInv, Busy
<1> QED
  BY <1>1, <1>2, BusyStep DEF FailedCall, SameTmp

\* The folders stay, the stack follows.
LEMMA StackStep ==
  ASSUME IInv, Busy, StackFollows, tmp' = tmp, swallowed => swallowed', UNCHANGED DownloadLeaves
  PROVE  IInv'
<1>1. FolderGrows
  BY SameFolders DEF IInv, Busy
<1> QED
  BY <1>1, BusyStep

LEMMA CheckFolderStep ==
  ASSUME IInv, CheckFolder
  PROVE  IInv'
<1>0. Busy /\ UNCHANGED DownloadLeaves /\ TypeOK
  BY DEF CheckFolder, IInv
<1>1. CASE FailedCall
  BY <1>0, <1>1, FailedCallStep
<1>2. CASE (Become([Top EXCEPT !.at = "list"]) \/ Pop \/ Fail) /\ SameTmp
  <2>1. ASSUME Become([Top EXCEPT !.at = "list"]) PROVE StackFollows
    <3>1. [Top EXCEPT !.at = "list"] \in Frames /\ [Top EXCEPT !.at = "list"].dir = Top.dir
      BY <1>0, FrameChanged
    <3> QED
      BY <1>0, <2>1, <3>1, BecomeFollows
  <2>2. StackFollows
    BY <1>0, <1>2, <2>1, PopFollows, FailFollows
  <2> QED
    BY <1>0, <1>2, <2>2, StackStep DEF SameTmp
<1> QED
  BY <1>1, <1>2 DEF CheckFolder

LEMMA ListSubdirsStep ==
  ASSUME IInv, ListSubdirs
  PROVE  IInv'
<1> DEFINE p == RemotePath(Top.dir)
           dirs == Subdirs(base.fs, p)
<1>0. Busy /\ UNCHANGED DownloadLeaves /\ TypeOK
  BY DEF ListSubdirs, IInv
<1>a. dirs \subseteq STRING
  <2>1. p \in Paths
    BY <1>0, TopOfStack, RemotePaths
  <2> HIDE DEF p
  <2> QED
    BY <1>0, <2>1, ListedAreNames
<1>b. ASSUME NEW some \in SUBSET STRING, Become([Top EXCEPT !.at = "files", !.dirs = some]) PROVE StackFollows
  <2>1. /\ [Top EXCEPT !.at = "files", !.dirs = some] \in Frames
        /\ [Top EXCEPT !.at = "files", !.dirs = some].dir = Top.dir
    BY <1>0, FrameChanged
  <2> QED
    BY <1>0, <1>b, <2>1, BecomeFollows
<1>c. \/ (Fail \/ Become([Top EXCEPT !.at = "files", !.dirs = dirs])) /\ SameTmp
      \/ FailedCall
      \/ /\ \E d \in dirs : Become([Top EXCEPT !.at = "files", !.dirs = dirs \ {d}])
         /\ swallowed' = TRUE /\ UNCHANGED tmp
  BY DEF ListSubdirs
<1> HIDE DEF dirs
<1>1. CASE FailedCall
  BY <1>0, <1>1, FailedCallStep
<1>2. CASE (Fail \/ Become([Top EXCEPT !.at = "files", !.dirs = dirs])) /\ SameTmp
  <2>1. StackFollows
    BY <1>0, <1>2, <1>a, <1>b, FailFollows
  <2> QED
    BY <1>0, <1>2, <2>1, StackStep DEF SameTmp
<1>3. CASE /\ \E d \in dirs : Become([Top EXCEPT !.at = "files", !.dirs = dirs \ {d}])
           /\ swallowed' = TRUE /\ UNCHANGED tmp
  <2>1. PICK d \in dirs : Become([Top EXCEPT !.at = "files", !.dirs = dirs \ {d}])
    BY <1>3
  <2>2. dirs \ {d} \in SUBSET STRING
    BY <1>a
  <2>3. StackFollows
    BY <1>b, <2>1, <2>2
  <2> QED
    BY <1>0, <1>3, <2>3, StackStep
<1> QED
  BY <1>c, <1>1, <1>2, <1>3

LEMMA ListFilesStep ==
  ASSUME IInv, ListFiles
  PROVE  IInv'
<1> DEFINE p == RemotePath(Top.dir)
           files == {<<f>> : f \in Files(base.fs, p)}
<1>0. Busy /\ UNCHANGED DownloadLeaves /\ TypeOK
  BY DEF ListFiles, IInv
<1>a. files \in SUBSET (Paths \ {<<>>})
  <2>1. p \in Paths
    BY <1>0, TopOfStack, RemotePaths
  <2>2. Files(base.fs, p) \subseteq STRING
    <3> HIDE DEF p
    <3> QED
      BY <1>0, <2>1, ListedAreNames
  <2>3. \A f \in STRING : <<f>> \in Paths \ {<<>>}
    BY ShortPaths
  <2> QED
    BY <2>2, <2>3
<1>c. \/ (Fail \/ Become([Top EXCEPT !.at = "descend", !.files = files])) /\ SameTmp
      \/ FailedCall
  BY DEF ListFiles
<1> HIDE DEF files
<1>b. /\ [Top EXCEPT !.at = "descend", !.files = files] \in Frames
      /\ [Top EXCEPT !.at = "descend", !.files = files].dir = Top.dir
  BY <1>0, <1>a, FrameChanged
<1>1. CASE FailedCall
  BY <1>0, <1>1, FailedCallStep
<1>2. CASE (Fail \/ Become([Top EXCEPT !.at = "descend", !.files = files])) /\ SameTmp
  <2>1. StackFollows
    BY <1>0, <1>2, <1>b, FailFollows, BecomeFollows
  <2> QED
    BY <1>0, <1>2, <2>1, StackStep DEF SameTmp
<1> QED
  BY <1>c, <1>1, <1>2

LEMMA DescendStep ==
  ASSUME IInv, Descend
  PROVE  IInv'
<1> DEFINE d == CHOOSE e \in Top.dirs : TRUE
           dir == Append(Top.dir, d)
           rest == [Top EXCEPT !.dirs = @ \ {d}]
           pushed == [dl EXCEPT !.stack = Append(Front(@), rest) \o <<Frame(dir)>>]
<1>0. Busy /\ UNCHANGED DownloadLeaves /\ TypeOK /\ Top.dirs # {} /\ Top.dirs \subseteq STRING
      /\ Top.dir \in Paths \ {<<>>}
  BY TopOfStack DEF Descend, IInv
<1>a. d \in Top.dirs /\ d \in STRING
  BY <1>0
<1>b. \/ MkDir(dir) /\ UNCHANGED swallowed /\ dl' = pushed
      \/ FailedCall
      \/ Pop /\ swallowed' = TRUE /\ UNCHANGED tmp
  BY DEF Descend
<1> HIDE DEF d
<1>c. dir \in Paths \ {<<>>} /\ dir[1] = Top.dir[1]
  BY <1>0, <1>a, LongerPath
<1>d. rest \in Frames /\ rest.dir = Top.dir
  <2>1. Top.dirs \ {d} \in SUBSET STRING
    BY <1>0
  <2>2. [Top EXCEPT !.dirs = Top.dirs \ {d}] \in Frames /\ [Top EXCEPT !.dirs = Top.dirs \ {d}].dir = Top.dir
    BY <1>0, <2>1, FrameChanged
  <2> QED
    BY <2>2
<1>e. Frame(dir) \in Frames /\ Frame(dir).dir = dir
  <2> HIDE DEF dir
  <2> QED
    BY <1>c DEF Frame, Frames
<1>f. ASSUME dl' = pushed PROVE StackFollows
  <2> DEFINE s == Front(dl.stack)
             t == Append(s, rest) \o <<Frame(dir)>>
             u == Append(s, rest)
             g == Frame(dir)
  <2>1. /\ DOMAIN dl' = DOMAIN dl /\ dl'.all = dl.all /\ dl'.versions = dl.versions /\ dl'.stack = t
    <3> HIDE DEF rest, dir
    <3> QED
      BY <1>0, <1>f, TopOfStack
  <2>2. /\ s \in Seq(Frames) /\ DOMAIN s \subseteq DOMAIN dl.stack /\ \A k \in DOMAIN s : s[k] = dl.stack[k]
        /\ Len(dl.stack) \in DOMAIN dl.stack /\ Top = dl.stack[Len(dl.stack)]
    BY <1>0, TopOfStack
  <2> HIDE DEF rest, dir, s
  <2>3. /\ u \in Seq(Frames)
        /\ \A k \in DOMAIN u : u[k] = rest \/ (k \in DOMAIN s /\ u[k] = s[k])
    BY <1>d, <2>2
  <2> HIDE DEF u, g
  <2>4. t \in Seq(Frames) /\ \A k \in DOMAIN t : t[k] = g \/ (k \in DOMAIN u /\ t[k] = u[k])
    <3>1. g \in Frames
      BY <1>e DEF g
    <3>2. t = u \o <<g>>
      BY DEF u, g
    <3> HIDE DEF t
    <3> QED
      BY <2>3, <3>1, <3>2
  <2> HIDE DEF t
  <2>5. \A k \in DOMAIN t : \E j \in DOMAIN dl.stack : t[k].dir[1] = dl.stack[j].dir[1]
    BY <1>c, <1>d, <1>e, <2>2, <2>3, <2>4 DEF g
  <2> QED
    BY <2>1, <2>4, <2>5 DEF StackFollows
<1>1. CASE FailedCall
  BY <1>0, <1>1, FailedCallStep
<1>2. CASE Pop /\ swallowed' = TRUE /\ UNCHANGED tmp
  BY <1>0, <1>2, PopFollows, StackStep
<1>3. CASE MkDir(dir) /\ UNCHANGED swallowed /\ dl' = pushed
  <2> HIDE DEF dir, pushed
  <2>1. FolderGrows
    BY <1>0, <1>3, <1>c, MkDirGrows
  <2> QED
    BY <1>0, <1>3, <1>f, <2>1, BusyStep
<1> QED
  BY <1>b, <1>1, <1>2, <1>3

LEMMA DescendedStep ==
  ASSUME IInv, Descended
  PROVE  IInv'
<1>0. Busy /\ UNCHANGED DownloadLeaves /\ TypeOK /\ tmp' = tmp /\ UNCHANGED swallowed
      /\ Become([Top EXCEPT !.at = "fetch"])
  BY DEF Descended, IInv
<1>1. [Top EXCEPT !.at = "fetch"] \in Frames /\ [Top EXCEPT !.at = "fetch"].dir = Top.dir
  BY <1>0, FrameChanged
<1> QED
  BY <1>0, <1>1, BecomeFollows, StackStep

LEMMA S3ListStep ==
  ASSUME IInv, S3List
  PROVE  IInv'
<1> DEFINE dirs == S3Contents(RemotePath(Top.dir))
<1>0. Busy /\ UNCHANGED DownloadLeaves /\ TypeOK
  BY DEF S3List, IInv
<1>a. dirs \in SUBSET STRING
  BY <1>0, TopOfStack, RemotePaths, ListedAreNames
<1>b. (Become([Top EXCEPT !.at = "classify", !.dirs = dirs]) /\ SameTmp) \/ FailedCall
  BY DEF S3List
<1> HIDE DEF dirs
<1>1. CASE FailedCall
  BY <1>0, <1>1, FailedCallStep
<1>2. CASE Become([Top EXCEPT !.at = "classify", !.dirs = dirs]) /\ SameTmp
  <2>1. /\ [Top EXCEPT !.at = "classify", !.dirs = dirs] \in Frames
        /\ [Top EXCEPT !.at = "classify", !.dirs = dirs].dir = Top.dir
    BY <1>0, <1>a, FrameChanged
  <2> QED
    BY <1>0, <1>2, <2>1, BecomeFollows, StackStep DEF SameTmp
<1> QED
  BY <1>b, <1>1, <1>2

LEMMA S3ClassifyStep ==
  ASSUME IInv, S3Classify
  PROVE  IInv'
<1> DEFINE n == CHOOSE e \in Top.dirs : TRUE
           dir == Append(Top.dir, n)
           p == RemotePath(dir)
           found == IF S3IsDirectory(p) THEN {<<n, f>> : f \in S3Files(p)} ELSE {<<n>>}
           rest == [Top EXCEPT !.dirs = @ \ {n}, !.files = @ \cup found]
<1>0. Busy /\ UNCHANGED DownloadLeaves /\ TypeOK /\ Top.dirs \subseteq STRING /\ Top.files \subseteq Paths \ {<<>>}
      /\ Top.dir \in Paths \ {<<>>}
  BY TopOfStack DEF S3Classify, IInv
<1>a. \/ Become([Top EXCEPT !.at = "fetch"]) /\ SameTmp
      \/ Top.dirs # {} /\ Become(rest) /\ (MkDir(dir) \/ UNCHANGED tmp) /\ UNCHANGED swallowed
      \/ FailedCall
  BY DEF S3Classify
<1>1. CASE FailedCall
  BY <1>0, <1>1, FailedCallStep
<1>2. CASE Become([Top EXCEPT !.at = "fetch"]) /\ SameTmp
  <2>1. [Top EXCEPT !.at = "fetch"] \in Frames /\ [Top EXCEPT !.at = "fetch"].dir = Top.dir
    BY <1>0, FrameChanged
  <2> QED
    BY <1>0, <1>2, <2>1, BecomeFollows, StackStep DEF SameTmp
<1>3. CASE Top.dirs # {} /\ Become(rest) /\ (MkDir(dir) \/ UNCHANGED tmp) /\ UNCHANGED swallowed
  <2>1. n \in STRING
    BY <1>0, <1>3
  <2> HIDE DEF n
  <2>2. dir \in Paths \ {<<>>} /\ dir[1] = Top.dir[1]
    BY <1>0, <2>1, LongerPath
  <2>3. found \in SUBSET (Paths \ {<<>>})
    <3>1. p \in Paths
      BY <1>0, <2>2, RemotePaths
    <3>2. S3Files(p) \subseteq STRING
      <4> HIDE DEF p
      <4> QED
        BY <1>0, <3>1, ListedAreNames
    <3>3. \A f \in STRING : <<n, f>> \in Paths \ {<<>>}
      BY <2>1, ShortPaths
    <3>4. <<n>> \in Paths \ {<<>>}
      BY <2>1, ShortPaths
    <3> HIDE DEF p
    <3> QED
      BY <3>2, <3>3, <3>4
  <2>4. rest \in Frames /\ rest.dir = Top.dir
    <3> HIDE DEF found
    <3>1. Top.dirs \ {n} \in SUBSET STRING /\ Top.files \cup found \in SUBSET (Paths \ {<<>>})
      BY <1>0, <2>3
    <3>2. /\ [Top EXCEPT !.dirs = Top.dirs \ {n}, !.files = Top.files \cup found] \in Frames
          /\ [Top EXCEPT !.dirs = Top.dirs \ {n}, !.files = Top.files \cup found].dir = Top.dir
      BY <1>0, <3>1, FrameChanged
    <3> QED
      BY <3>2
  <2> HIDE DEF rest, dir
  <2>5. StackFollows
    BY <1>0, <1>3, <2>4, BecomeFollows
  <2>6. FolderGrows
    BY <1>0, <1>3, <2>2, MkDirGrows, SameFolders DEF Busy
  <2> QED
    BY <1>0, <1>3, <2>5, <2>6, BusyStep
<1> QED
  BY <1>a, <1>1, <1>2, <1>3

LEMMA FetchStep ==
  ASSUME IInv, Fetch
  PROVE  IInv'
<1> DEFINE f == CHOOSE g \in Top.files : TRUE
           local == Top.dir \o f
           source == Read(base.fs, RemotePath(local))
           L == Len(tmp)
           c == tmp[L]
           saved == [g \in DOMAIN c.files \cup {local} |-> IF g = local THEN CHOOSE q \in source : TRUE ELSE c.files[g]]
           e == [c EXCEPT !.files = saved]
           rest == [Top EXCEPT !.files = @ \ {f}]
<1>0. /\ Busy /\ UNCHANGED DownloadLeaves /\ TypeOK /\ Top.files \subseteq Paths \ {<<>>} /\ Top.files # {}
      /\ Top.dir \in Paths \ {<<>>}
  BY TopOfStack DEF Fetch, IInv
<1>a. f \in Paths \ {<<>>}
  BY <1>0
<1>b. \/ Become(rest) /\ (tmp' = tmp \/ tmp' = [tmp EXCEPT ![L] = e]) /\ UNCHANGED swallowed
      \/ Fail /\ SameTmp
      \/ FailedCall
  BY DEF Fetch
<1>c. local \in Paths
  <2> HIDE DEF f
  <2>1. f \in Seq(STRING) /\ Top.dir \in Seq(STRING)
    BY <1>0, <1>a DEF Paths
  <2> QED
    BY <2>1 DEF Paths
<1>d. L \in Folders /\ DOMAIN c = Copy /\ c.dirs \subseteq Paths \ {<<>>} /\ DOMAIN c.files \subseteq Paths
  BY <1>0, LastFolder DEF TypeOK, Busy
<1>e. DOMAIN saved = DOMAIN c.files \cup {local}
  OBVIOUS
<1>1. CASE FailedCall
  BY <1>0, <1>1, FailedCallStep
<1>2. CASE Fail /\ SameTmp
  BY <1>0, <1>2, FailFollows, StackStep DEF SameTmp
<1>3. CASE Become(rest) /\ (tmp' = tmp \/ tmp' = [tmp EXCEPT ![L] = e]) /\ UNCHANGED swallowed
  <2>1. rest \in Frames /\ rest.dir = Top.dir
    <3> HIDE DEF f
    <3>1. Top.files \ {f} \in SUBSET (Paths \ {<<>>})
      BY <1>0
    <3>2. [Top EXCEPT !.files = Top.files \ {f}] \in Frames /\ [Top EXCEPT !.files = Top.files \ {f}].dir = Top.dir
      BY <1>0, <3>1, FrameChanged
    <3> QED
      BY <3>2
  <2>2. StackFollows
    <3> HIDE DEF rest
    <3> QED
      BY <1>0, <1>3, <2>1, BecomeFollows
  <2>3. CASE tmp' = tmp
    BY <1>0, <1>3, <2>2, <2>3, StackStep
  <2>4. CASE tmp' = [tmp EXCEPT ![L] = e]
    <3> HIDE DEF saved, local, c
    <3>1. DOMAIN e = Copy /\ e.made = c.made /\ e.of = c.of /\ e.files = saved /\ e.dirs = c.dirs
      BY <1>d DEF Copy
    <3> HIDE DEF e, L
    <3>2. /\ tmp' \in Seq(Range(tmp')) /\ Len(tmp') = Len(tmp) /\ Folders' = Folders
          /\ tmp'[L] = e /\ \A i \in Folders : i # L => tmp'[i] = tmp[i]
      BY <1>0, <1>d, <2>4, TmpChanged
    <3>3. FolderGrows
      BY <1>c, <1>d, <1>e, <3>1, <3>2 DEF FolderGrows, c, L
    <3> QED
      BY <1>0, <1>3, <2>2, <3>3, BusyStep
  <2> QED
    BY <1>3, <2>3, <2>4
<1> HIDE DEF rest, e
<1> QED
  BY <1>b, <1>1, <1>2, <1>3

LEMMA EndFolderStep ==
  ASSUME IInv, EndFolder
  PROVE  IInv'
<1>0. Busy /\ UNCHANGED DownloadLeaves /\ TypeOK /\ tmp' = tmp /\ UNCHANGED swallowed /\ Pop
  BY DEF EndFolder, IInv
<1> QED
  BY <1>0, PopFollows, StackStep

\* downloadModelVersions begins with a version.
LEMMA DownloadVersionStep ==
  ASSUME IInv, DownloadVersion
  PROVE  IInv'
<1> DEFINE v == CHOOSE w \in dl.versions : TRUE
           L == Len(tmp)
           c == tmp[L]
           e == [c EXCEPT !.dirs = @ \cup {<<v>>}]
<1>0. /\ TypeOK /\ Downloading /\ UNCHANGED DownloadLeaves /\ UNCHANGED swallowed /\ dl.versions # {}
      /\ tmp' = [tmp EXCEPT ![L] = e] /\ dl' = [dl EXCEPT !.versions = @ \ {v}, !.stack = <<Frame(<<v>>)>>]
  BY DEF DownloadVersion, IInv, Idle, MkDir
<1>1. v \in dl.all /\ v \in Versions /\ v \in STRING
  <2>1. v \in dl.versions /\ dl.versions \subseteq dl.all /\ dl.all \subseteq Versions
    BY <1>0 DEF IInv, VersionsOfFolders, TypeOK
  <2> QED
    BY <2>1, PathsAssumption
<1> HIDE DEF v
<1>2. L \in Folders /\ DOMAIN c = Copy /\ c.dirs \subseteq Paths \ {<<>>} /\ DOMAIN c.files \subseteq Paths
  BY <1>0, LastFolder DEF TypeOK
<1>3. DOMAIN e = Copy /\ e.made = c.made /\ e.files = c.files /\ e.dirs = c.dirs \cup {<<v>>}
  <2> HIDE DEF c
  <2> QED
    BY <1>2 DEF Copy
<1>4. /\ tmp' \in Seq(Range(tmp')) /\ Len(tmp') = Len(tmp) /\ Folders' = Folders
      /\ tmp'[L] = e /\ \A i \in Folders : i # L => tmp'[i] = tmp[i]
  <2> HIDE DEF e, L
  <2> QED
    BY <1>0, <1>2, TmpChanged
<1>5. <<v>> \in Paths \ {<<>>} /\ <<v>>[1] = v
  BY <1>1, ShortPaths
<1>6. /\ DOMAIN dl' = DOMAIN dl /\ dl'.all = dl.all /\ dl'.versions \subseteq dl.versions
      /\ dl'.stack = <<Frame(<<v>>)>>
  BY <1>0 DEF TypeOK, NoDownload
<1>7. Frame(<<v>>) \in Frames /\ Frame(<<v>>).dir = <<v>>
  BY <1>5 DEF Frame, Frames
<1>8. dl'.stack \in Seq(Frames) /\ \A k \in DOMAIN dl'.stack : dl'.stack[k].dir = <<v>>
  <2> DEFINE g == Frame(<<v>>)
  <2>1. g \in Frames /\ g.dir = <<v>> /\ dl'.stack = <<g>>
    BY <1>6, <1>7
  <2> HIDE DEF g
  <2> QED
    BY <2>1
<1>9. DownloadGoesOn
  <2> HIDE DEF e, c
  <2>1. /\ \A d \in tmp'[L].dirs : d \in tmp[L].dirs \/ (d[1] \in dl.all /\ <<d[1]>> \in tmp'[L].dirs)
        /\ tmp'[L].dirs # {} /\ tmp'[L].dirs \subseteq Paths \ {<<>>} /\ tmp[L].dirs \subseteq tmp'[L].dirs
    BY <1>1, <1>2, <1>3, <1>4, <1>5 DEF c
  <2>2. \A k \in DOMAIN dl'.stack : dl'.stack[k].dir[1] \in dl.all /\ <<dl'.stack[k].dir[1]>> \in tmp'[L].dirs
    BY <1>1, <1>3, <1>4, <1>5, <1>8
  <2>3. /\ DOMAIN tmp'[L] = Copy /\ tmp'[L].made = tmp[L].made
        /\ DOMAIN tmp[L].files \subseteq DOMAIN tmp'[L].files /\ DOMAIN tmp'[L].files \subseteq Paths
    BY <1>2, <1>3, <1>4 DEF c
  <2> QED
    BY <1>4, <1>6, <1>8, <2>1, <2>2, <2>3 DEF DownloadGoesOn
<1> QED
  BY <1>0, <1>9, DownloadingStep

LEMMA DownloadStepStep ==
  ASSUME IInv, DownloadStep, ~ EndDownload
  PROVE  IInv'
<1>1. ASSUME DownloadTree PROVE IInv'
  BY <1>1, CheckFolderStep, ListSubdirsStep, ListFilesStep, DescendStep, DescendedStep, FetchStep, EndFolderStep
     DEF DownloadTree
<1> QED
  BY <1>1, CheckFolderStep, S3ListStep, S3ClassifyStep, FetchStep, EndFolderStep, DownloadVersionStep
     DEF DownloadStep, BlobDownloadFileFolderTo, ShareDownloadFileFolderTo, GCSDownloadFileFolder, S3DownloadFileFolder

\* The end of a download.
LEMMA EndDownloadStep ==
  ASSUME IInv, EndDownload
  PROVE  IInv'
<1> USE DEF IInv, EndDownload, Quiet, lists, Idle
<1>0. Downloading /\ tmp # <<>> /\ Len(tmp) \in Folders
  BY LastFolder DEF TypeOK
<1>a. Folders' = Folders /\ ~ Downloading' /\ pc' \in {"adding", "reloading"}
  BY DEF Folders, Downloading
<1>1. TypeOK'
  <2>1. localPath' \in Folders \cup {Unset, Base}
    BY <1>0 DEF TypeOK, LocalPaths
  <2>2. DOMAIN dl' = DOMAIN NoDownload /\ dl'.all \subseteq Versions /\ dl'.stack \in Seq(Frames)
    BY DEF NoDownload
  <2>3. pc' \in {"redownload", "reloading", "retiring"} => todo # {}
    BY <1>0 DEF TypeOK, Downloading
  <2> QED
    BY <1>a, <2>1, <2>2, <2>3 DEF TypeOK, LocalPaths
<1>2. VersionsOfFolders'
  BY <1>a DEF VersionsOfFolders
<1>3. ServedFromItsCopy'
  <2> SUFFICES ASSUME NEW v \in Versions, inst[v].state = "AVAILABLE", inst[v].path # Base
               PROVE  /\ inst[v].path \in Folders /\ Loadable(inst[v].path, v)'
                      /\ inst[v].network = inst[v].path \/ v \in rebased
    BY <1>a DEF ServedFromItsCopy
  <2>0. pc # "retiring"
    BY <1>0 DEF Downloading
  <2> DEFINE i == inst[v].path
  <2>1. i \in Folders /\ Loadable(i, v) /\ (inst[v].network = i \/ v \in rebased)
    BY <2>0 DEF ServedFromItsCopy
  <2>a. i' = i
    OBVIOUS
  <2> HIDE DEF i
  <2>2. i \notin {Base, Unset}
    BY <2>1, FoldersAreNumbers
  <2>3. Loadable(i, v)'
    BY <2>1, <2>2, <2>a, StillLoadable
  <2> QED
    BY <2>1, <2>3 DEF i
<1>4. CopiesAccounted'
  <2> SUFFICES ASSUME ~ untidy' PROVE CopiesAccounted'
    BY DEF CopiesAccounted
  <2>1. pc = "download" /\ ~ untidy /\ localPath' = Len(tmp) /\ pc' = "adding"
    BY <1>0 DEF Downloading, CopiesAccounted
  <2>2. \A i \in Folders : \A d \in tmp[i].dirs : Being(i, d[1])'
    BY <2>1 DEF CopiesAccounted, Being
  <2>3. \A i \in Folders : tmp[i].made <=> tmp[i].dirs # {}
    BY <2>1 DEF CopiesAccounted
  <2> QED
    BY <1>a, <2>1, <2>2, <2>3 DEF CopiesAccounted
<1>5. RoundIsCurrent'
  <2>1. /\ IsDirectory(base.fs, base.dir)' <=> IsDirectory(base.fs, base.dir)
        /\ Subdirs(base.fs, base.dir)' = Subdirs(base.fs, base.dir)
    BY SameStorage
  <2> QED
    BY <1>0, <2>1 DEF RoundIsCurrent, Downloading
<1> QED
  BY <1>1, <1>2, <1>3, <1>4, <1>5

(***************************************************************************)
(* The manager.                                                            *)
(***************************************************************************)

\* A new temporary folder.
LEMMA FolderMade ==
  ASSUME IInv, NEW vs \in SUBSET Versions, vs # {},
         tmp' = Append(tmp, [made |-> TRUE, of |-> base, dirs |-> {}, files |-> <<>>]),
         dl' = [NoDownload EXCEPT !.all = vs, !.versions = vs],
         UNCHANGED <<remote, base, localPath, inst, lists, disturbed, swallowed, rebased>>,
         \/ pc = "add" /\ pc' = "download" /\ vs = todo /\ UNCHANGED untidy
         \/ pc = "reload" /\ pc' = "redownload" /\ todo # {} /\ untidy'
  PROVE  IInv'
<1> USE DEF IInv, lists
<1> DEFINE L == Len(tmp) + 1
           c == [made |-> TRUE, of |-> base, dirs |-> {}, files |-> <<>>]
<1>0. /\ Len(tmp) \in Nat /\ Folders = 1 .. Len(tmp)
      /\ tmp' \in Seq(Range(tmp')) /\ Len(tmp') = L /\ Folders' = 1 .. L
      /\ tmp'[L] = c /\ \A i \in Folders : tmp'[i] = tmp[i]
  <2> HIDE DEF c
  <2> QED
    BY TmpAppended DEF c
<1>a. DOMAIN c = Copy /\ c.made /\ c.dirs = {} /\ DOMAIN c.files = {}
  BY DEF Copy
<1>b. /\ DOMAIN dl' = DOMAIN NoDownload /\ dl'.all = vs /\ dl'.versions = vs /\ dl'.stack = <<>>
  BY DEF NoDownload
<1>c. tmp' # <<>> /\ L \notin Folders /\ Folders' = Folders \cup {L} /\ Folders \subseteq Folders'
  BY <1>0
<1>d. Downloading' /\ ~ Downloading
  BY DEF Downloading
<1> HIDE DEF c, L
<1>1. TypeOK'
  <2>1. \A i \in Folders' :
          DOMAIN tmp'[i] = Copy /\ tmp'[i].dirs \subseteq Paths \ {<<>>} /\ DOMAIN tmp'[i].files \subseteq Paths
    BY <1>0, <1>a, <1>c DEF TypeOK
  <2>2. localPath \in LocalPaths' /\ \A v \in Versions : inst[v].path \in LocalPaths'
    BY <1>c DEF TypeOK, LocalPaths
  <2>3. dl'.all \subseteq Versions /\ dl'.stack \in Seq(Frames)
    <3>1. dl'.all \subseteq Versions
      BY <1>b
    <3>2. <<>> \in Seq(Frames)
      OBVIOUS
    <3> QED
      BY <1>b, <3>1, <3>2
  <2> QED
    BY <1>0, <1>b, <1>c, <2>1, <2>2, <2>3 DEF TypeOK
<1>2. VersionsOfFolders'
  BY <1>0, <1>a, <1>b, <1>c DEF VersionsOfFolders
<1>3. ServedFromItsCopy'
  <2> SUFFICES ASSUME NEW v \in Versions, inst[v].state = "AVAILABLE", inst[v].path # Base
               PROVE  /\ inst[v].path \in Folders' /\ Loadable(inst[v].path, v)'
                      /\ inst[v].network = inst[v].path \/ v \in rebased
    BY DEF ServedFromItsCopy
  <2> DEFINE i == inst[v].path
  <2>1. i \in Folders /\ Loadable(i, v) /\ (inst[v].network = i \/ v \in rebased)
    BY DEF ServedFromItsCopy
  <2>a. i' = i
    OBVIOUS
  <2> HIDE DEF i
  <2>2. i \notin {Base, Unset} /\ tmp'[i] = tmp[i]
    BY <1>0, <2>1, FoldersAreNumbers
  <2>3. Loadable(i, v)'
    BY <2>1, <2>2, <2>a, StillLoadable
  <2> QED
    BY <1>c, <2>1, <2>3 DEF i
<1>4. CopiesAccounted'
  <2> SUFFICES ASSUME ~ untidy' PROVE CopiesAccounted'
    BY DEF CopiesAccounted
  <2>1. pc = "add" /\ pc' = "download" /\ vs = todo /\ ~ untidy
    OBVIOUS
  <2>2. \A i \in Folders' : \A d \in tmp'[i].dirs : Being(i, d[1])'
    <3> SUFFICES ASSUME NEW i \in Folders', NEW d \in tmp'[i].dirs PROVE Being(i, d[1])'
      OBVIOUS
    <3>1. i \in Folders /\ d \in tmp[i].dirs
      BY <1>0, <1>a, <1>c
    <3>2. Being(i, d[1])
      BY <2>1, <3>1 DEF CopiesAccounted
    <3> QED
      BY <2>1, <3>2 DEF Being
  <2>3. \A i \in Folders' : i = Len(tmp') \/ (tmp'[i].made <=> tmp'[i].dirs # {})
    BY <1>0, <1>c, <2>1 DEF CopiesAccounted
  <2>4. \A v \in todo : inst[v].state = "none"
    BY <2>1 DEF CopiesAccounted
  <2> QED
    BY <1>0, <1>a, <1>b, <2>1, <2>2, <2>3, <2>4 DEF CopiesAccounted
<1>5. RoundIsCurrent'
  <2>1. /\ IsDirectory(base.fs, base.dir)' <=> IsDirectory(base.fs, base.dir)
        /\ Subdirs(base.fs, base.dir)' = Subdirs(base.fs, base.dir)
    BY SameStorage
  <2> QED
    BY <2>1 DEF RoundIsCurrent
<1> QED
  BY <1>1, <1>2, <1>3, <1>4, <1>5

\* A step between the loops: the versions and their copies stay.
LEMMA CopiesStay ==
  ASSUME IInv, UNCHANGED <<inst, tmp, dl, rebased>>, untidy => untidy',
         remote' \subseteq Paths, base' \in Bases, localPath' \in LocalPaths,
         (todo \cup toReload \cup available \cup failed)' \subseteq Versions,
         pc \notin {"download", "redownload", "reloading", "retiring"}, pc = "adding" => todo = {},
         pc' \in {"idle", "isdir", "list", "add", "adding", "reload", "reloading", "retire"},
         pc' = "reloading" => todo' # {} /\ untidy',
         pc' \in {"add", "adding"} /\ ~ untidy => \A v \in todo' : inst[v].state = "none"
  PROVE  TypeOK' /\ VersionsOfFolders' /\ ServedFromItsCopy' /\ CopiesAccounted'
<1> USE DEF IInv
<1>0. Folders' = Folders /\ ~ Downloading /\ ~ Downloading'
  BY DEF Folders, Downloading
<1>1. TypeOK'
  BY <1>0 DEF TypeOK, LocalPaths
<1>2. VersionsOfFolders'
  BY <1>0 DEF VersionsOfFolders
<1>3. ServedFromItsCopy'
  <2> SUFFICES ASSUME NEW v \in Versions, inst[v].state = "AVAILABLE", inst[v].path # Base
               PROVE  /\ inst[v].path \in Folders /\ Loadable(inst[v].path, v)'
                      /\ inst[v].network = inst[v].path \/ v \in rebased
    BY <1>0 DEF ServedFromItsCopy
  <2> DEFINE i == inst[v].path
  <2>1. i \in Folders /\ Loadable(i, v) /\ (inst[v].network = i \/ v \in rebased)
    BY DEF ServedFromItsCopy
  <2>a. i' = i
    OBVIOUS
  <2> HIDE DEF i
  <2>2. i \notin {Base, Unset}
    BY <2>1, FoldersAreNumbers
  <2>3. Loadable(i, v)'
    BY <2>1, <2>2, <2>a, StillLoadable
  <2> QED
    BY <2>1, <2>3 DEF i
<1>4. CopiesAccounted'
  <2> SUFFICES ASSUME ~ untidy' PROVE CopiesAccounted'
    BY DEF CopiesAccounted
  <2>1. ~ untidy
    OBVIOUS
  <2>2. \A i \in Folders : \A d \in tmp[i].dirs : Being(i, d[1])'
    BY <2>1 DEF CopiesAccounted, Being
  <2> QED
    BY <1>0, <2>1, <2>2 DEF CopiesAccounted
<1> QED
  BY <1>1, <1>2, <1>3, <1>4

\* downloadModels: there is nothing to download, or the local path is its own copy, or
\* a temporary folder is made.
LEMMA AddVersionsStep ==
  ASSUME IInv, AddVersions
  PROVE  IInv'
<1> USE DEF Quiet, lists, history
<1>0. TypeOK /\ pc = "add" /\ UNCHANGED <<Quiet, inst, lists, faults, rounds, history>> /\ todo \subseteq Versions
  BY DEF AddVersions, IInv, TypeOK
<1>1. CASE todo # {} /\ base.fs # "local"
  <2>1. /\ tmp' = Append(tmp, [made |-> TRUE, of |-> base, dirs |-> {}, files |-> <<>>])
        /\ dl' = [NoDownload EXCEPT !.all = todo, !.versions = todo] /\ pc' = "download" /\ UNCHANGED localPath
    BY <1>1 DEF AddVersions, Download
  <2> QED
    BY <1>0, <1>1, <2>1, FolderMade
<1>2. CASE ~ (todo # {} /\ base.fs # "local")
  <2>1. pc' = "adding" /\ UNCHANGED <<tmp, dl>> /\ localPath' \in LocalPaths
    BY <1>0, <1>2 DEF AddVersions, Download, TypeOK, LocalPaths
  <2>2. TypeOK' /\ VersionsOfFolders' /\ ServedFromItsCopy' /\ CopiesAccounted'
    <3>1. remote' \subseteq Paths /\ base' \in Bases /\ (todo \cup toReload \cup available \cup failed)' \subseteq Versions
      BY <1>0 DEF TypeOK
    <3>2. ~ untidy => \A v \in todo' : inst[v].state = "none"
      BY <1>0 DEF IInv, CopiesAccounted
    <3> QED
      BY <1>0, <2>1, <3>1, <3>2, CopiesStay
  <2>3. RoundIsCurrent'
    BY <1>0, <2>1, SameStorage DEF IInv, RoundIsCurrent
  <2> QED
    BY <2>2, <2>3 DEF IInv
<1> QED
  BY <1>1, <1>2

LEMMA ReloadVersionStep ==
  ASSUME IInv, ReloadVersion
  PROVE  IInv'
<1> USE DEF Quiet, lists
<1>0. /\ TypeOK /\ pc = "reload" /\ todo # {} /\ untidy' /\ toReload \subseteq Versions /\ todo \subseteq Versions
      /\ UNCHANGED <<Quiet, inst, lists, faults, rounds, disturbed, swallowed, rebased>>
  BY DEF ReloadVersion, IInv, TypeOK
<1>a. inst[Current].path \in LocalPaths
  BY <1>0 DEF Current, TypeOK
<1>1. CASE /\ tmp' = Append(tmp, [made |-> TRUE, of |-> base, dirs |-> {}, files |-> <<>>])
           /\ dl' = [NoDownload EXCEPT !.all = toReload, !.versions = toReload] /\ pc' = "redownload"
           /\ UNCHANGED localPath /\ toReload # {}
  BY <1>0, <1>1, FolderMade
<1>2. CASE pc' = "reloading" /\ UNCHANGED <<tmp, dl>> /\ localPath' \in LocalPaths
  <2>2. TypeOK' /\ VersionsOfFolders' /\ ServedFromItsCopy' /\ CopiesAccounted'
    <3>1. remote' \subseteq Paths /\ base' \in Bases /\ (todo \cup toReload \cup available \cup failed)' \subseteq Versions
      BY <1>0 DEF TypeOK
    <3> QED
      BY <1>0, <1>2, <3>1, CopiesStay
  <2>3. RoundIsCurrent'
    BY <1>0, <1>2, SameStorage DEF IInv, RoundIsCurrent
  <2> QED
    BY <2>2, <2>3 DEF IInv
<1>3. localPath \in LocalPaths /\ Base \in LocalPaths
  BY <1>0 DEF TypeOK, LocalPaths
<1>4. CASE Download(toReload, "reloading")
  <2>1. CASE toReload # {} /\ base.fs # "local"
    BY <1>1, <1>4, <2>1 DEF Download
  <2>2. CASE ~ (toReload # {} /\ base.fs # "local")
    BY <1>2, <1>3, <1>4, <2>2 DEF Download
  <2> QED
    BY <2>1, <2>2
<1>5. CASE localPath' = inst[Current].path /\ pc' = "reloading" /\ UNCHANGED <<tmp, dl>>
  BY <1>2, <1>5, <1>a
<1> QED
  BY <1>4, <1>5 DEF ReloadVersion

\* The steps between the loops.
LEMMA StartRoundStep ==
  ASSUME IInv, StartRound
  PROVE  IInv'
<1> USE DEF Quiet, copies
<1>0. /\ TypeOK /\ pc = "idle" /\ pc' \in {"isdir", "idle"} /\ available' = {} /\ failed' = {}
      /\ UNCHANGED <<Quiet, copies, todo, toReload, dl, faults, untidy, rebased>>
  BY DEF StartRound, IInv
<1>1. TypeOK' /\ VersionsOfFolders' /\ ServedFromItsCopy' /\ CopiesAccounted'
  <2>1. /\ remote' \subseteq Paths /\ base' \in Bases /\ localPath' \in LocalPaths
        /\ (todo \cup toReload \cup available \cup failed)' \subseteq Versions
    BY <1>0 DEF TypeOK
  <2> QED
    BY <1>0, <2>1, CopiesStay
<1>2. RoundIsCurrent'
  BY <1>0 DEF RoundIsCurrent
<1> QED
  BY <1>1, <1>2 DEF IInv

LEMMA CheckDirectoryStep ==
  ASSUME IInv, CheckDirectory
  PROVE  IInv'
<1> USE DEF Quiet, copies, lists, history
<1>0. /\ TypeOK /\ pc = "isdir" /\ pc' \in {"list", "idle"} /\ (pc' = "list" => IsDirectory(base.fs, base.dir))
      /\ UNCHANGED <<Quiet, copies, lists, dl, rounds, history>>
  BY DEF CheckDirectory, IInv
<1>1. TypeOK' /\ VersionsOfFolders' /\ ServedFromItsCopy' /\ CopiesAccounted'
  <2>1. /\ remote' \subseteq Paths /\ base' \in Bases /\ localPath' \in LocalPaths
        /\ (todo \cup toReload \cup available \cup failed)' \subseteq Versions
    BY <1>0 DEF TypeOK
  <2> QED
    BY <1>0, <2>1, CopiesStay
<1>2. RoundIsCurrent'
  BY <1>0, SameStorage DEF IInv, RoundIsCurrent
<1> QED
  BY <1>1, <1>2 DEF IInv

LEMMA ReadAvailableVersionsStep ==
  ASSUME IInv, ReadAvailableVersions
  PROVE  IInv'
<1> USE DEF Quiet, copies
<1> DEFINE dirs == Subdirs(base.fs, base.dir) \cap Versions
<1>0. /\ TypeOK /\ pc = "list" /\ pc' \in {"add", "idle"}
      /\ toReload' = VersionsToReload(available') /\ todo' = available' \ Registered
      /\ UNCHANGED <<Quiet, copies, failed, dl, rounds, disturbed, untidy, rebased>>
  BY DEF ReadAvailableVersions, IInv
<1>a. \/ available' = dirs /\ UNCHANGED swallowed
      \/ available' = available /\ pc' = "idle" /\ UNCHANGED swallowed
      \/ (\E v \in dirs : available' = dirs \ {v}) /\ swallowed' = TRUE
  BY DEF ReadAvailableVersions
<1> HIDE DEF dirs
<1>b. available' \subseteq Versions
  BY <1>0, <1>a DEF dirs, TypeOK
<1>c. VersionsToReload(available') \subseteq Registered
  BY DEF VersionsToReload
<1>d. VersionsToReload(available') \subseteq Versions /\ todo' \subseteq Versions
  BY <1>0, <1>b, <1>c DEF Registered
<1>1. TypeOK' /\ VersionsOfFolders' /\ ServedFromItsCopy' /\ CopiesAccounted'
  <2>1. /\ remote' \subseteq Paths /\ base' \in Bases /\ localPath' \in LocalPaths
        /\ (todo \cup toReload \cup available \cup failed)' \subseteq Versions
    BY <1>0, <1>b, <1>d DEF TypeOK
  <2>2. \A v \in todo' : inst[v].state = "none"
    BY <1>0, <1>b DEF Registered
  <2> QED
    BY <1>0, <2>1, <2>2, CopiesStay
<1>2. RoundIsCurrent'
  <2>1. /\ IsDirectory(base.fs, base.dir)' <=> IsDirectory(base.fs, base.dir)
        /\ Subdirs(base.fs, base.dir)' = Subdirs(base.fs, base.dir)
    BY <1>0, SameStorage
  <2>2. pc' # "idle" /\ ~ swallowed' => available' = dirs
    BY <1>a
  <2>3. failed' = {} /\ todo' \cap toReload' = {}
    BY <1>0, <1>c DEF IInv, RoundIsCurrent
  <2>4. pc' \notin {"idle", "isdir"} /\ ~ disturbed' => IsDirectory(base.fs, base.dir)
    BY <1>0 DEF IInv, RoundIsCurrent
  <2> QED
    BY <1>0, <2>1, <2>2, <2>3, <2>4 DEF RoundIsCurrent, dirs
<1> QED
  BY <1>1, <1>2 DEF IInv

LEMMA VersionsAddedStep ==
  ASSUME IInv, VersionsAdded
  PROVE  IInv'
<1> USE DEF Quiet, copies, history
<1>0. /\ TypeOK /\ pc = "adding" /\ todo = {} /\ pc' = "reload" /\ todo' = toReload
      /\ UNCHANGED <<Quiet, copies, toReload, available, failed, dl, faults, rounds, history>>
  BY DEF VersionsAdded, IInv
<1>1. TypeOK' /\ VersionsOfFolders' /\ ServedFromItsCopy' /\ CopiesAccounted'
  <2>1. /\ remote' \subseteq Paths /\ base' \in Bases /\ localPath' \in LocalPaths
        /\ (todo \cup toReload \cup available \cup failed)' \subseteq Versions
    BY <1>0 DEF TypeOK
  <2> QED
    BY <1>0, <2>1, CopiesStay
<1>2. RoundIsCurrent'
  BY <1>0, SameStorage DEF IInv, RoundIsCurrent
<1> QED
  BY <1>1, <1>2 DEF IInv

LEMMA VersionsReloadedStep ==
  ASSUME IInv, VersionsReloaded
  PROVE  IInv'
<1> USE DEF Quiet, copies, history
<1>0. /\ TypeOK /\ pc = "reload" /\ todo = {} /\ pc' = "retire" /\ todo' = VersionsToRetire /\ toReload' = {}
      /\ UNCHANGED <<Quiet, copies, available, failed, dl, faults, rounds, history>>
  BY DEF VersionsReloaded, IInv
<1>a. VersionsToRetire \subseteq Versions /\ \A v \in VersionsToRetire : v \notin available \ failed
  BY DEF VersionsToRetire, Registered
<1>1. TypeOK' /\ VersionsOfFolders' /\ ServedFromItsCopy' /\ CopiesAccounted'
  <2>1. /\ remote' \subseteq Paths /\ base' \in Bases /\ localPath' \in LocalPaths
        /\ (todo \cup toReload \cup available \cup failed)' \subseteq Versions
    BY <1>0, <1>a DEF TypeOK
  <2> QED
    BY <1>0, <2>1, CopiesStay
<1>2. RoundIsCurrent'
  BY <1>0, <1>a, SameStorage DEF IInv, RoundIsCurrent
<1> QED
  BY <1>1, <1>2 DEF IInv

LEMMA EndRoundStep ==
  ASSUME IInv, EndRound
  PROVE  IInv'
<1> USE DEF Quiet, copies, lists, history
<1>0. /\ TypeOK /\ pc = "retire" /\ todo = {} /\ pc' = "idle"
      /\ UNCHANGED <<Quiet, copies, lists, dl, faults, rounds, history>>
  BY DEF EndRound, IInv
<1>1. TypeOK' /\ VersionsOfFolders' /\ ServedFromItsCopy' /\ CopiesAccounted'
  <2>1. /\ remote' \subseteq Paths /\ base' \in Bases /\ localPath' \in LocalPaths
        /\ (todo \cup toReload \cup available \cup failed)' \subseteq Versions
    BY <1>0 DEF TypeOK
  <2> QED
    BY <1>0, <2>1, CopiesStay
<1>2. RoundIsCurrent'
  BY <1>0 DEF IInv, RoundIsCurrent
<1> QED
  BY <1>1, <1>2 DEF IInv

LEMMA NewConfigStep ==
  ASSUME IInv, NEW b \in Bases, NewConfig(b)
  PROVE  IInv'
<1> USE DEF lists, history
<1>0. /\ TypeOK /\ pc = "idle" /\ base' = b /\ localPath' = Unset
      /\ UNCHANGED <<remote, inst, tmp, pc, lists, dl, faults, rounds, history>>
  BY DEF NewConfig, IInv
<1>1. TypeOK' /\ VersionsOfFolders' /\ ServedFromItsCopy' /\ CopiesAccounted'
  <2>1. /\ remote' \subseteq Paths /\ base' \in Bases /\ localPath' \in LocalPaths
        /\ (todo \cup toReload \cup available \cup failed)' \subseteq Versions
    BY <1>0 DEF TypeOK, LocalPaths
  <2> QED
    BY <1>0, <2>1, CopiesStay
<1>2. RoundIsCurrent'
  BY <1>0 DEF IInv, RoundIsCurrent
<1> QED
  BY <1>1, <1>2 DEF IInv

\* Files come and go.
LEMMA StorageStep ==
  ASSUME IInv, NEW files \in SUBSET Paths, StorageChanges(files)
  PROVE  IInv'
<1> USE DEF StorageChanges, IInv, copies, lists
<1>0. Folders' = Folders /\ (Downloading' <=> Downloading) /\ Current' = Current /\ disturbed'
  BY DEF Folders, Downloading, Current
<1>1. TypeOK'
  BY <1>0 DEF TypeOK, LocalPaths
<1>2. VersionsOfFolders'
  BY <1>0 DEF VersionsOfFolders
<1>3. ServedFromItsCopy'
  <2> SUFFICES ASSUME NEW v \in Versions, inst[v].state = "AVAILABLE", inst[v].path # Base,
                      ~ (pc = "retiring" /\ v = Current)
               PROVE  /\ inst[v].path \in Folders /\ Loadable(inst[v].path, v)'
                      /\ inst[v].network = inst[v].path \/ v \in rebased
    BY <1>0 DEF ServedFromItsCopy
  <2> DEFINE i == inst[v].path
  <2>1. i \in Folders /\ Loadable(i, v) /\ (inst[v].network = i \/ v \in rebased)
    BY DEF ServedFromItsCopy
  <2>a. i' = i
    OBVIOUS
  <2> HIDE DEF i
  <2>2. i \notin {Base, Unset}
    BY <2>1, FoldersAreNumbers
  <2>3. Loadable(i, v)'
    BY <2>1, <2>2, <2>a, StillLoadable
  <2> QED
    BY <2>1, <2>3 DEF i
<1>4. CopiesAccounted'
  BY <1>0 DEF CopiesAccounted, Being
<1>5. RoundIsCurrent'
  BY <1>0 DEF RoundIsCurrent
<1> QED
  BY <1>1, <1>2, <1>3, <1>4, <1>5

(***************************************************************************)
(* The copies of a version are deleted, and only those.                    *)
(***************************************************************************)

\* A file directly in the folder of a version is below that version.
LEMMA FirstName ==
  ASSUME NEW S, NEW g \in Seq(S), NEW w, Front(g) = <<w>>
  PROVE  g[1] = w
<1>1. Len(g) \in Nat /\ g # <<>>
  <2>1. Len(<<w>>) = 1
    OBVIOUS
  <2>2. g = <<>> => Len(SubSeq(g, 1, Len(g) - 1)) = 0
    OBVIOUS
  <2> QED
    BY <2>1, <2>2 DEF Front
<1>2. Len(g) >= 1 /\ SubSeq(g, 1, Len(g) - 1) = <<w>>
  BY <1>1 DEF Front
<1>3. Len(SubSeq(g, 1, Len(g) - 1)) = Len(g) - 1
  BY <1>1, <1>2
<1>a. Len(<<w>>) = 1 /\ <<w>>[1] = w
  OBVIOUS
<1>4. Len(g) = 2
  <2> DEFINE n == Len(SubSeq(g, 1, Len(g) - 1))
  <2>1. n = 1
    BY <1>2, <1>a
  <2>2. n = Len(g) - 1
    BY <1>3
  <2> HIDE DEF n
  <2> QED
    BY <1>1, <2>1, <2>2
<1>5. SubSeq(g, 1, Len(g) - 1)[1] = g[1]
  BY <1>4
<1> QED
  BY <1>2, <1>5, <1>a

\* What deleting the copy of a version at a path leaves.
OthersStay(v) ==
  /\ tmp' \in Seq(Range(tmp')) /\ Len(tmp') = Len(tmp) /\ Folders' = Folders
  /\ \A i \in Folders :
       /\ DOMAIN tmp'[i] = Copy /\ tmp'[i].dirs \subseteq tmp[i].dirs
       /\ DOMAIN tmp'[i].files \subseteq DOMAIN tmp[i].files
       /\ tmp'[i] = tmp[i] \/ (tmp'[i].made <=> tmp'[i].dirs # {})
       /\ \A d \in tmp'[i].dirs : <<d[1]>> \in tmp'[i].dirs
       /\ \A w : w # v => \A g \in DOMAIN tmp[i].files : Front(g) = <<w>> => g \in DOMAIN tmp'[i].files

LEMMA CopyDeleted ==
  ASSUME TypeOK, VersionsOfFolders, NEW v \in Versions, NEW path \in LocalPaths, CleanupModelTmpFiles(path, v)
  PROVE  OthersStay(v) /\ \A i \in Folders : i = path => \A d \in tmp'[i].dirs : d[1] # v
<1>1. CASE path \in {Base, Unset} \/ <<v>> \notin tmp[path].dirs
  <2>1. tmp' = tmp
    BY <1>1 DEF CleanupModelTmpFiles
  <2>2. \A i \in Folders : i = path => \A d \in tmp'[i].dirs : d[1] # v
    BY <1>1, <2>1, FoldersAreNumbers DEF VersionsOfFolders
  <2> QED
    BY <2>1, <2>2 DEF OthersStay, TypeOK, VersionsOfFolders, Folders
<1>2. CASE path \notin {Base, Unset} /\ <<v>> \in tmp[path].dirs
  <2> DEFINE c == tmp[path]
             dirs == {d \in c.dirs : d[1] # v}
             files == [f \in {g \in DOMAIN c.files : g[1] # v} |-> c.files[f]]
             e == [c EXCEPT !.made = (dirs # {}), !.dirs = dirs, !.files = files]
  <2>a. path \in Folders
    BY <1>2 DEF LocalPaths
  <2>b. tmp' = [tmp EXCEPT ![path] = e]
    BY <1>2, Zenon DEF CleanupModelTmpFiles, Without
  <2>1. path \in Folders /\ tmp' = [tmp EXCEPT ![path] = e]
    BY <2>a, <2>b, Zenon
  <2>2. DOMAIN c = Copy /\ DOMAIN c.files \subseteq Paths
    BY <2>1 DEF TypeOK
  <2>3. DOMAIN files = {g \in DOMAIN c.files : g[1] # v}
    OBVIOUS
  <2>4. DOMAIN e = Copy /\ (e.made <=> dirs # {}) /\ e.dirs = dirs /\ e.files = files
    <3> HIDE DEF c, dirs, files
    <3> QED
      BY <2>2 DEF Copy
  <2>5. /\ tmp' \in Seq(Range(tmp')) /\ Len(tmp') = Len(tmp) /\ Folders' = Folders
        /\ tmp'[path] = e /\ \A i \in Folders : i # path => tmp'[i] = tmp[i]
    <3> HIDE DEF e
    <3> QED
      BY <2>1, TmpChanged
  <2>6. \A w : w # v => \A g \in DOMAIN c.files : Front(g) = <<w>> => g[1] # v
    BY <2>2, FirstName DEF Paths
  <2>8. \A d \in dirs : <<d[1]>> \in dirs
    <3> SUFFICES ASSUME NEW d \in dirs PROVE <<d[1]>> \in dirs
      OBVIOUS
    <3>1. <<d[1]>> \in c.dirs /\ d[1] # v
      BY <2>1 DEF VersionsOfFolders
    <3>2. <<d[1]>>[1] = d[1]
      OBVIOUS
    <3> QED
      BY <3>1, <3>2
  <2> HIDE DEF e, files
  <2>7. \A i \in Folders : i # path =>
          DOMAIN tmp[i] = Copy /\ tmp'[i] = tmp[i] /\ \A d \in tmp[i].dirs : <<d[1]>> \in tmp[i].dirs
    BY <2>5 DEF TypeOK, VersionsOfFolders
  <2> QED
    BY <2>3, <2>4, <2>5, <2>6, <2>7, <2>8 DEF OthersStay
<1> QED
  BY <1>1, <1>2

\* addVersion: the version is served from the local path, or its copy is deleted.
LEMMA AddVersionStep ==
  ASSUME IInv, AddVersion
  PROVE  IInv'
<1> USE DEF IInv, Quiet, history
<1> DEFINE v == Current
           ok == Loadable(localPath, v)
           new == [state |-> IF ok THEN "AVAILABLE" ELSE "FAILED", base |-> base,
                   path |-> localPath, network |-> IF ok THEN localPath ELSE Unset]
<1>0. /\ pc = "adding" /\ todo # {} /\ todo' = todo \ {v} /\ inst' = [inst EXCEPT ![v] = new]
      /\ (ok /\ UNCHANGED <<tmp, failed>>) \/ (~ ok /\ failed' = failed \cup {v} /\ CleanupModelTmpFiles(localPath, v))
      /\ UNCHANGED <<Quiet, localPath, pc, toReload, available, dl, faults, rounds, history>>
  BY DEF AddVersion
<1>a. v \in todo /\ v \in Versions
  BY <1>0 DEF Current, TypeOK
<1>b. /\ inst'[v] = new /\ \A w \in Versions : w # v => inst'[w] = inst[w]
  <2> HIDE DEF v, new
  <2> QED
    BY <1>0, <1>a DEF TypeOK
<1>c. /\ new.state = (IF ok THEN "AVAILABLE" ELSE "FAILED") /\ new.path = localPath
      /\ (ok => new.network = localPath)
  BY DEF ok
<1>d. localPath \in LocalPaths /\ localPath \in Int
  BY DEF TypeOK, LocalPaths, Folders, Unset, Base
<1>e. new \in Instances
  <2> HIDE DEF ok
  <2> QED
    BY <1>d DEF Instances, TypeOK, Unset
<1>f. ~ Downloading /\ ~ Downloading'
  BY <1>0 DEF Downloading
<1> HIDE DEF v, ok, new
<1>g. /\ OthersStay(v)
      /\ ok => tmp' = tmp
      /\ \A i \in Folders : i = localPath => ok \/ \A d \in tmp'[i].dirs : d[1] # v
  <2>1. CASE ok
    BY <1>0, <2>1 DEF OthersStay, TypeOK, VersionsOfFolders, Folders
  <2>2. CASE ~ ok
    BY <1>0, <1>a, <1>d, <2>2, CopyDeleted
  <2> QED
    BY <2>1, <2>2
<1>1. TypeOK'
  <2>1. inst' \in [Versions -> Instances] /\ \A w \in Versions : inst'[w].path \in LocalPaths
    <3>1. inst' \in [Versions -> Instances]
      BY <1>0, <1>a, <1>e DEF TypeOK
    <3> QED
      BY <3>1, <1>b, <1>c, <1>d DEF TypeOK
  <2>2. \A i \in Folders :
          DOMAIN tmp'[i] = Copy /\ tmp'[i].dirs \subseteq Paths \ {<<>>} /\ DOMAIN tmp'[i].files \subseteq Paths
    BY <1>g DEF TypeOK, OthersStay
  <2>3. LocalPaths' = LocalPaths
    BY <1>g DEF LocalPaths, OthersStay
  <2>4. (todo \cup toReload \cup available \cup failed)' \subseteq Versions
    BY <1>0, <1>a DEF TypeOK
  <2> QED
    BY <1>0, <1>d, <1>f, <1>g, <2>1, <2>2, <2>3, <2>4 DEF TypeOK, OthersStay
<1>2. VersionsOfFolders'
  BY <1>f, <1>g DEF VersionsOfFolders, OthersStay
<1>3. ServedFromItsCopy'
  <2> SUFFICES ASSUME NEW w \in Versions, inst'[w].state = "AVAILABLE", inst'[w].path # Base
               PROVE  /\ inst'[w].path \in Folders /\ Loadable(inst[w].path, w)'
                      /\ inst'[w].network = inst'[w].path \/ w \in rebased
    BY <1>0, <1>g DEF ServedFromItsCopy, OthersStay
  <2>1. CASE w = v
    <3>1. ok /\ tmp' = tmp /\ inst'[w].path = localPath /\ inst'[w].network = localPath
      BY <1>b, <1>c, <1>g, <2>1 DEF OthersStay
    <3>2. localPath # Unset
      BY <3>1, FilesAssumption DEF ok, Loadable, FilesAt, Unset, Base
    <3>3. localPath \in Folders
      BY <1>d, <3>1, <3>2 DEF LocalPaths
    <3>4. Loadable(localPath, w)
      BY <2>1, <3>1 DEF ok
    <3> DEFINE i == localPath
    <3>a. i' = i /\ inst'[w].path = i /\ i \in Folders /\ Loadable(i, w)
      BY <1>0, <3>1, <3>3, <3>4
    <3> HIDE DEF i
    <3>b. i \notin {Base, Unset} /\ tmp' = tmp
      BY <3>1, <3>a, FoldersAreNumbers
    <3>5. Loadable(i, w)'
      BY <3>a, <3>b, StillLoadable
    <3> QED
      BY <3>1, <3>5, <3>a
  <2>2. CASE w # v
    <3> DEFINE i == inst[w].path
    <3>1. i \in Folders /\ Loadable(i, w) /\ (inst[w].network = i \/ w \in rebased) /\ inst'[w] = inst[w]
      BY <1>0, <1>b, <2>2 DEF ServedFromItsCopy
    <3>a. i' = i
      BY <3>1
    <3> HIDE DEF i
    <3>2. i \notin {Base, Unset} /\ \A g \in DOMAIN tmp[i].files : Front(g) = <<w>> => g \in DOMAIN tmp'[i].files
      BY <1>g, <2>2, <3>1, FoldersAreNumbers DEF OthersStay
    <3>3. Loadable(i, w)'
      BY <3>1, <3>2, <3>a, StillLoadable
    <3> QED
      BY <3>1, <3>3, <3>a DEF i
  <2> QED
    BY <2>1, <2>2
<1>4. CopiesAccounted'
  <2> SUFFICES ASSUME ~ untidy PROVE CopiesAccounted'
    BY <1>0 DEF CopiesAccounted
  <2>1. /\ \A i \in Folders : \A d \in tmp[i].dirs : Being(i, d[1])
        /\ \A w \in todo : inst[w].state = "none"
        /\ \A i \in Folders : tmp[i].made <=> tmp[i].dirs # {}
    BY <1>0 DEF CopiesAccounted
  <2>2. \A i \in Folders : \A d \in tmp'[i].dirs : Being(i, d[1])'
    <3> SUFFICES ASSUME NEW i \in Folders, NEW d \in tmp'[i].dirs PROVE Being(i, d[1])'
      OBVIOUS
    <3>1. Being(i, d[1]) /\ d[1] \in Versions
      BY <1>g, <2>1 DEF VersionsOfFolders, OthersStay
    <3>2. CASE d[1] = v
      <4>1. i = localPath
        BY <1>0, <1>a, <2>1, <3>1, <3>2 DEF Being
      <4>2. ok
        BY <1>g, <3>2, <4>1 DEF OthersStay
      <4> QED
        BY <1>0, <1>b, <1>c, <3>2, <4>1, <4>2 DEF Being
    <3>3. CASE d[1] # v
      BY <1>0, <1>b, <3>1, <3>3 DEF Being
    <3> QED
      BY <3>2, <3>3
  <2>3. \A w \in todo' : inst'[w].state = "none"
    BY <1>0, <1>b, <2>1 DEF TypeOK
  <2>4. \A i \in Folders : tmp'[i].made <=> tmp'[i].dirs # {}
    BY <1>g, <2>1 DEF OthersStay
  <2> QED
    BY <1>0, <1>g, <2>2, <2>3, <2>4 DEF CopiesAccounted, OthersStay
<1>5. RoundIsCurrent'
  <2>1. /\ IsDirectory(base.fs, base.dir)' <=> IsDirectory(base.fs, base.dir)
        /\ Subdirs(base.fs, base.dir)' = Subdirs(base.fs, base.dir)
    BY <1>0, SameStorage
  <2>2. /\ todo \cap toReload = {} /\ toReload \cap failed = {} /\ todo \cap failed = {}
        /\ \A w \in failed : inst[w].state # "AVAILABLE" /\ w \in Versions
    BY <1>0 DEF RoundIsCurrent, TypeOK
  <2>3. \A w \in failed' : inst'[w].state # "AVAILABLE"
    BY <1>0, <1>a, <1>b, <1>c, <2>2
  <2>4. todo' \cap toReload = {} /\ toReload \cap failed' = {} /\ todo' \cap failed' = {}
    BY <1>0, <1>a, <2>2
  <2> QED
    BY <1>0, <2>1, <2>3, <2>4 DEF RoundIsCurrent
<1> QED
  BY <1>1, <1>2, <1>3, <1>4, <1>5

\* reloadModel: from the local path of the configuration.
LEMMA ReloadModelStep ==
  ASSUME IInv, ReloadModel
  PROVE  IInv'
<1> USE DEF IInv, Quiet
<1> DEFINE v == Current
           ok == Loadable(localPath, v)
           kept == inst[v].network # Unset
           new == [state |-> IF ok THEN "AVAILABLE" ELSE "FAILED", base |-> base, path |-> localPath,
                   network |-> IF kept \/ ~ ok THEN inst[v].network ELSE localPath]
<1>0. /\ pc = "reloading" /\ pc' = "reload" /\ todo' = todo \ {v} /\ inst' = [inst EXCEPT ![v] = new]
      /\ failed' = (IF ok THEN failed ELSE failed \cup {v})
      /\ rebased' = (IF kept THEN rebased \cup {v} ELSE rebased)
      /\ UNCHANGED <<Quiet, localPath, tmp, toReload, available, dl, faults, rounds, disturbed, swallowed, untidy>>
  BY DEF ReloadModel
<1>a. v \in todo /\ v \in Versions /\ untidy
  BY <1>0 DEF Current, TypeOK, CopiesAccounted
<1>b. /\ inst'[v] = new /\ \A w \in Versions : w # v => inst'[w] = inst[w]
  <2> HIDE DEF v, new
  <2> QED
    BY <1>0, <1>a DEF TypeOK
<1>c. /\ new.state = (IF ok THEN "AVAILABLE" ELSE "FAILED") /\ new.path = localPath
      /\ (ok => kept \/ new.network = localPath)
  BY DEF ok
<1>d. localPath \in LocalPaths /\ localPath \in Int
  BY DEF TypeOK, LocalPaths, Folders, Unset, Base
<1>e. new \in Instances
  <2> HIDE DEF ok, kept
  <2>1. inst[v].network \in Int /\ base \in Bases
    BY <1>a DEF TypeOK, Instances
  <2> QED
    BY <1>d, <2>1 DEF Instances
<1>f. ~ Downloading /\ ~ Downloading' /\ Folders' = Folders
  BY <1>0 DEF Downloading, Folders
<1> HIDE DEF v, ok, new, kept
<1>1. TypeOK'
  <2>1. inst' \in [Versions -> Instances] /\ \A w \in Versions : inst'[w].path \in LocalPaths
    <3>1. inst' \in [Versions -> Instances]
      BY <1>0, <1>a, <1>e DEF TypeOK
    <3> QED
      BY <3>1, <1>b, <1>c, <1>d DEF TypeOK
  <2>3. LocalPaths' = LocalPaths
    BY <1>f DEF LocalPaths
  <2>4. (todo \cup toReload \cup available \cup failed)' \subseteq Versions
    BY <1>0, <1>a DEF TypeOK
  <2> QED
    BY <1>0, <1>d, <1>f, <2>1, <2>3, <2>4 DEF TypeOK
<1>2. VersionsOfFolders'
  BY <1>0, <1>f DEF VersionsOfFolders
<1>3. ServedFromItsCopy'
  <2> SUFFICES ASSUME NEW w \in Versions, inst'[w].state = "AVAILABLE", inst'[w].path # Base
               PROVE  /\ inst'[w].path \in Folders /\ Loadable(inst[w].path, w)'
                      /\ inst'[w].network = inst'[w].path \/ w \in rebased'
    BY <1>0, <1>f DEF ServedFromItsCopy
  <2>1. CASE w = v
    <3>1. ok /\ tmp' = tmp /\ inst'[w].path = localPath
      BY <1>0, <1>b, <1>c, <2>1
    <3>2. localPath # Unset
      BY <3>1, FilesAssumption DEF ok, Loadable, FilesAt, Unset, Base
    <3>3. localPath \in Folders
      BY <1>d, <3>1, <3>2 DEF LocalPaths
    <3>4. Loadable(localPath, w)
      BY <2>1, <3>1 DEF ok
    <3> DEFINE i == localPath
    <3>a. i' = i /\ inst'[w].path = i /\ i \in Folders /\ Loadable(i, w)
      BY <1>0, <3>1, <3>3, <3>4
    <3>c. inst'[w].network = i \/ w \in rebased'
      BY <1>0, <1>b, <1>c, <2>1, <3>1
    <3> HIDE DEF i
    <3>b. i \notin {Base, Unset} /\ tmp' = tmp
      BY <3>1, <3>a, FoldersAreNumbers
    <3>5. Loadable(i, w)'
      BY <3>a, <3>b, StillLoadable
    <3> QED
      BY <3>5, <3>a, <3>c
  <2>2. CASE w # v
    <3> DEFINE i == inst[w].path
    <3>1. i \in Folders /\ Loadable(i, w) /\ (inst[w].network = i \/ w \in rebased) /\ inst'[w] = inst[w]
      BY <1>0, <1>b, <2>2 DEF ServedFromItsCopy
    <3>a. i' = i
      BY <3>1
    <3> HIDE DEF i
    <3>2. i \notin {Base, Unset} /\ tmp' = tmp
      BY <1>0, <3>1, FoldersAreNumbers
    <3>3. Loadable(i, w)'
      BY <3>1, <3>2, <3>a, StillLoadable
    <3> QED
      BY <1>0, <3>1, <3>3, <3>a DEF i
  <2> QED
    BY <2>1, <2>2
<1>4. CopiesAccounted'
  BY <1>0, <1>a DEF CopiesAccounted
<1>5. RoundIsCurrent'
  <2>1. /\ IsDirectory(base.fs, base.dir)' <=> IsDirectory(base.fs, base.dir)
        /\ Subdirs(base.fs, base.dir)' = Subdirs(base.fs, base.dir)
    BY <1>0, SameStorage
  <2>2. todo \cap failed = {} /\ \A w \in failed : inst[w].state # "AVAILABLE" /\ w \in Versions
    BY <1>0 DEF RoundIsCurrent, TypeOK
  <2>3. \A w \in failed' : inst'[w].state # "AVAILABLE"
    BY <1>0, <1>a, <1>b, <1>c, <2>2
  <2>4. todo' \cap failed' = {}
    BY <1>0, <1>a, <2>2
  <2> QED
    BY <1>0, <2>1, <2>3, <2>4 DEF RoundIsCurrent
<1> QED
  BY <1>1, <1>2, <1>3, <1>4, <1>5

\* retireVersions: first the copy goes.
LEMMA CleanupBeforeRetireStep ==
  ASSUME IInv, CleanupBeforeRetire
  PROVE  IInv'
<1> USE DEF IInv, Quiet, lists, history
<1> DEFINE v == Current
<1>0. /\ pc = "retire" /\ pc' = "retiring" /\ todo # {} /\ CleanupModelTmpFiles(inst[v].path, v)
      /\ UNCHANGED <<Quiet, localPath, inst, lists, dl, faults, rounds, history>>
  BY DEF CleanupBeforeRetire
<1>a. v \in todo /\ v \in Versions /\ Current' = v /\ inst[v].path \in LocalPaths
  BY <1>0 DEF Current, TypeOK
<1> HIDE DEF v
<1>b. OthersStay(v) /\ \A i \in Folders : i = inst[v].path => \A d \in tmp'[i].dirs : d[1] # v
  BY <1>0, <1>a, CopyDeleted
<1>c. ~ Downloading /\ ~ Downloading'
  BY <1>0 DEF Downloading
<1>1. TypeOK'
  <2>2. \A i \in Folders :
          DOMAIN tmp'[i] = Copy /\ tmp'[i].dirs \subseteq Paths \ {<<>>} /\ DOMAIN tmp'[i].files \subseteq Paths
    BY <1>b DEF TypeOK, OthersStay
  <2>3. LocalPaths' = LocalPaths
    BY <1>b DEF LocalPaths, OthersStay
  <2> QED
    BY <1>0, <1>b, <1>c, <2>2, <2>3 DEF TypeOK, OthersStay
<1>2. VersionsOfFolders'
  BY <1>b, <1>c DEF VersionsOfFolders, OthersStay
<1>3. ServedFromItsCopy'
  <2> SUFFICES ASSUME NEW w \in Versions, inst[w].state = "AVAILABLE", inst[w].path # Base, w # v
               PROVE  /\ inst[w].path \in Folders /\ Loadable(inst[w].path, w)'
                      /\ inst[w].network = inst[w].path \/ w \in rebased
    BY <1>0, <1>a, <1>b DEF ServedFromItsCopy, OthersStay
  <2> DEFINE i == inst[w].path
  <2>1. i \in Folders /\ Loadable(i, w) /\ (inst[w].network = i \/ w \in rebased)
    BY <1>0 DEF ServedFromItsCopy
  <2>a. i' = i
    BY <1>0
  <2> HIDE DEF i
  <2>2. i \notin {Base, Unset} /\ \A g \in DOMAIN tmp[i].files : Front(g) = <<w>> => g \in DOMAIN tmp'[i].files
    BY <1>b, <2>1, FoldersAreNumbers DEF OthersStay
  <2>3. Loadable(i, w)'
    BY <2>1, <2>2, <2>a, StillLoadable
  <2> QED
    BY <2>1, <2>3 DEF i
<1>4. CopiesAccounted'
  <2> SUFFICES ASSUME ~ untidy PROVE CopiesAccounted'
    BY <1>0 DEF CopiesAccounted
  <2>1. \A i \in Folders : \A d \in tmp'[i].dirs : Being(i, d[1])'
    <3> SUFFICES ASSUME NEW i \in Folders, NEW d \in tmp'[i].dirs PROVE Being(i, d[1])'
      OBVIOUS
    <3>1. Being(i, d[1])
      BY <1>b DEF CopiesAccounted, OthersStay
    <3>2. inst[d[1]].state = "AVAILABLE" /\ inst[d[1]].path = i
      BY <1>0, <3>1 DEF Being
    <3>3. d[1] # v
      BY <1>b, <3>2
    <3> QED
      BY <1>0, <1>a, <3>2, <3>3 DEF Being
  <2>2. \A i \in Folders : tmp'[i].made <=> tmp'[i].dirs # {}
    BY <1>0, <1>b DEF CopiesAccounted, OthersStay
  <2> QED
    BY <1>0, <1>b, <2>1, <2>2 DEF CopiesAccounted, OthersStay
<1>5. RoundIsCurrent'
  BY <1>0, SameStorage DEF RoundIsCurrent
<1> QED
  BY <1>1, <1>2, <1>3, <1>4, <1>5

\* Then the version.
LEMMA RetireModelStep ==
  ASSUME IInv, RetireModel
  PROVE  IInv'
<1> USE DEF IInv, Quiet
<1>s. PICK state : state = IF Current \in failed THEN "FAILED" ELSE "END"
  OBVIOUS
<1>t. state \in {"none", "AVAILABLE", "FAILED", "END"} /\ state # "AVAILABLE"
  BY <1>s
<1> DEFINE v == Current
           new == [inst[v] EXCEPT !.state = state, !.network = Unset]
<1>0. /\ pc = "retiring" /\ pc' = "retire" /\ todo' = todo \ {v} /\ inst' = [inst EXCEPT ![v] = new]
      /\ rebased' = rebased \ {v}
      /\ UNCHANGED <<Quiet, localPath, tmp, toReload, available, failed, dl, faults, rounds, disturbed,
                     swallowed, untidy>>
  BY <1>s DEF RetireModel
<1>a. v \in todo /\ v \in Versions /\ inst[v] \in Instances
  BY <1>0 DEF Current, TypeOK
<1>b. /\ inst'[v] = new /\ \A w \in Versions : w # v => inst'[w] = inst[w]
  <2> HIDE DEF v, new
  <2> QED
    BY <1>0, <1>a DEF TypeOK
<1>c. new.state = state /\ state # "AVAILABLE" /\ new.path = inst[v].path /\ new \in Instances
  <2>1. Unset \in Int
    BY DEF Unset
  <2>2. PICK r : r = inst[v]
    OBVIOUS
  <2>3. r \in Instances
    BY <1>a, <2>2
  <2>4. new = [r EXCEPT !.state = state, !.network = Unset]
    BY <2>2
  <2> HIDE DEF new, v
  <2>5. /\ [r EXCEPT !.state = state, !.network = Unset].state = state
        /\ [r EXCEPT !.state = state, !.network = Unset].path = r.path
        /\ [r EXCEPT !.state = state, !.network = Unset] \in Instances
    BY <1>t, <2>1, <2>3 DEF Instances
  <2>6. new.state = state /\ new.path = r.path /\ new \in Instances
    BY <2>4, <2>5
  <2> QED
    BY <1>t, <2>2, <2>6 DEF new, v
<1>f. ~ Downloading /\ ~ Downloading' /\ Folders' = Folders
  BY <1>0 DEF Downloading, Folders
<1>g. v = Current
  OBVIOUS
<1> HIDE DEF v, new
<1>1. TypeOK'
  <2>1. inst' \in [Versions -> Instances] /\ \A w \in Versions : inst'[w].path \in LocalPaths
    <3>1. inst' \in [Versions -> Instances]
      BY <1>0, <1>a, <1>c DEF TypeOK
    <3> QED
      BY <3>1, <1>a, <1>b, <1>c DEF TypeOK
  <2>3. LocalPaths' = LocalPaths
    BY <1>f DEF LocalPaths
  <2> QED
    BY <1>0, <1>f, <2>1, <2>3 DEF TypeOK
<1>2. VersionsOfFolders'
  BY <1>0, <1>f DEF VersionsOfFolders
<1>3. ServedFromItsCopy'
  <2> SUFFICES ASSUME NEW w \in Versions, inst'[w].state = "AVAILABLE", inst'[w].path # Base
               PROVE  /\ inst'[w].path \in Folders /\ Loadable(inst[w].path, w)'
                      /\ inst'[w].network = inst'[w].path \/ w \in rebased'
    BY <1>0, <1>f DEF ServedFromItsCopy
  <2>0. w # v
    BY <1>b, <1>c
  <2> DEFINE i == inst[w].path
  <2>1. i \in Folders /\ Loadable(i, w) /\ (inst[w].network = i \/ w \in rebased) /\ inst'[w] = inst[w]
    BY <1>b, <1>g, <2>0 DEF ServedFromItsCopy
  <2>a. i' = i
    BY <2>1
  <2> HIDE DEF i
  <2>2. i \notin {Base, Unset} /\ tmp' = tmp
    BY <1>0, <2>1, FoldersAreNumbers
  <2>3. Loadable(i, w)'
    BY <2>1, <2>2, <2>a, StillLoadable
  <2> QED
    BY <1>0, <2>0, <2>1, <2>3, <2>a DEF i
<1>4. CopiesAccounted'
  <2> SUFFICES ASSUME ~ untidy PROVE CopiesAccounted'
    BY <1>0 DEF CopiesAccounted
  <2>1. \A i \in Folders : \A d \in tmp[i].dirs : Being(i, d[1])'
    <3> SUFFICES ASSUME NEW i \in Folders, NEW d \in tmp[i].dirs PROVE Being(i, d[1])'
      OBVIOUS
    <3>1. Being(i, d[1]) /\ d[1] \in Versions
      BY DEF CopiesAccounted, VersionsOfFolders
    <3>2. inst[d[1]].state = "AVAILABLE" /\ inst[d[1]].path = i /\ d[1] # v
      BY <1>0, <1>g, <3>1 DEF Being
    <3> QED
      BY <1>0, <1>b, <3>1, <3>2 DEF Being
  <2> QED
    BY <1>0, <1>f, <2>1 DEF CopiesAccounted
<1>5. RoundIsCurrent'
  <2>1. /\ IsDirectory(base.fs, base.dir)' <=> IsDirectory(base.fs, base.dir)
        /\ Subdirs(base.fs, base.dir)' = Subdirs(base.fs, base.dir)
    BY <1>0, SameStorage
  <2>2. \A w \in failed : inst'[w].state # "AVAILABLE"
    BY <1>a, <1>b, <1>c DEF RoundIsCurrent, TypeOK
  <2>3. \A w \in todo' : inst'[w].state = "AVAILABLE" => w \notin available
    BY <1>0, <1>a, <1>b, <1>c DEF RoundIsCurrent, TypeOK
  <2> QED
    BY <1>0, <2>1, <2>2, <2>3 DEF RoundIsCurrent
<1> QED
  BY <1>1, <1>2, <1>3, <1>4, <1>5

(***************************************************************************)
(* The invariant.                                                          *)
(***************************************************************************)
LEMMA InitHolds ==
  ASSUME Init
  PROVE  IInv
<1> USE DEF Init
<1>1. Folders = {} /\ ~ Downloading /\ pc = "idle"
  BY DEF Folders, Downloading
<1>2. \A v \in Versions : inst[v] = NoInstance
  OBVIOUS
<1>3. NoInstance \in Instances /\ NoInstance.path = Unset /\ NoInstance.state = "none"
  BY DEF NoInstance, Instances, Unset
<1>4. TypeOK
  <2>1. remote \subseteq Paths /\ base \in Bases
    BY PathsAssumption
  <2>2. tmp \in Seq(Range(tmp))
    OBVIOUS
  <2>3. inst \in [Versions -> Instances] /\ \A v \in Versions : inst[v].path \in LocalPaths
    BY <1>3 DEF LocalPaths
  <2>4. DOMAIN dl = DOMAIN NoDownload /\ dl.all \subseteq Versions /\ dl.stack \in Seq(Frames)
    BY DEF NoDownload
  <2>5. localPath \in LocalPaths
    BY DEF LocalPaths
  <2> QED
    BY <1>1, <2>1, <2>2, <2>3, <2>4, <2>5 DEF TypeOK
<1>5. VersionsOfFolders /\ CopiesAccounted /\ RoundIsCurrent
  BY <1>1 DEF VersionsOfFolders, CopiesAccounted, RoundIsCurrent
<1>6. ServedFromItsCopy
  BY <1>2, <1>3 DEF ServedFromItsCopy
<1> QED
  BY <1>4, <1>5, <1>6 DEF IInv

LEMMA SameState ==
  ASSUME IInv, UNCHANGED vars
  PROVE  IInv'
<1> USE DEF vars, copies, lists, bounds, history, IInv
<1>0. Folders' = Folders /\ (Downloading' <=> Downloading) /\ Current' = Current
  BY DEF Folders, Downloading, Current
<1>1. TypeOK'
  BY <1>0 DEF TypeOK, LocalPaths
<1>2. VersionsOfFolders'
  BY <1>0 DEF VersionsOfFolders
<1>3. ServedFromItsCopy'
  BY <1>0 DEF ServedFromItsCopy, Loadable, FilesAt, FileChildren, Children, Below
<1>4. CopiesAccounted'
  BY <1>0 DEF CopiesAccounted, Being
<1>5. RoundIsCurrent'
  BY SameStorage DEF RoundIsCurrent
<1> QED
  BY <1>1, <1>2, <1>3, <1>4, <1>5

LEMMA EnvironmentStep ==
  ASSUME IInv, Environment
  PROVE  IInv'
<1>0. remote \subseteq Paths
  BY DEF IInv, TypeOK
<1>1. ASSUME NEW f \in Uploads, Upload(f) PROVE IInv'
  <2>1. remote \cup {f} \in SUBSET Paths
    BY <1>0, PathsAssumption
  <2> QED
    BY <1>1, <2>1, StorageStep DEF Upload
<1>2. ASSUME NEW p, RemoveDirectory(p) PROVE IInv'
  <2>1. remote \ Below(p) \in SUBSET Paths
    BY <1>0
  <2> QED
    BY <1>2, <2>1, StorageStep DEF RemoveDirectory
<1>3. ASSUME NEW b \in Bases, NewConfig(b) PROVE IInv'
  BY <1>3, NewConfigStep
<1> QED
  BY <1>1, <1>2, <1>3 DEF Environment

LEMMA NextPreserves ==
  ASSUME IInv, [Next]_vars
  PROVE  IInv'
<1>1. CASE ManagerStep
  BY <1>1, CheckDirectoryStep, ReadAvailableVersionsStep, AddVersionsStep, AddVersionStep, VersionsAddedStep,
     ReloadVersionStep, ReloadModelStep, VersionsReloadedStep, CleanupBeforeRetireStep, RetireModelStep, EndRoundStep
     DEF ManagerStep
<1> QED
  BY <1>1, StartRoundStep, DownloadStepStep, EndDownloadStep, EnvironmentStep, SameState DEF Next

\* The inductive invariant of the copies holds in every reachable state.
THEOREM InvariantHolds == Spec => []IInv
<1>1. Init => IInv
  BY InitHolds
<1>2. IInv /\ [Next]_vars => IInv'
  BY NextPreserves
<1> QED
  BY <1>1, <1>2, PTL DEF Spec

\* A version that is served has its copy and the network of that copy, whatever fails,
\* changes or is retired: cleanupModelTmpFiles never takes the files of another version.
THEOREM ServedVersionsHaveTheirCopy == Spec => []ServedFromItsCopy
<1>1. IInv => ServedFromItsCopy
  BY DEF IInv
<1> QED
  BY <1>1, InvariantHolds, PTL

\* Between two rounds the temporary folders hold the copies of the versions that are
\* served and nothing else, unless a version was reloaded or a download has failed.
THEOREM FoldersAreReclaimed == Spec => []CopiesReclaimed
<1>1. IInv => CopiesReclaimed
  BY DEF IInv, CopiesAccounted, CopiesReclaimed, Being
<1> QED
  BY <1>1, InvariantHolds, PTL

(***************************************************************************)
(* Versions are retired for a reason.                                      *)
(***************************************************************************)

\* What is below a directory is below the directory it is in.
LEMMA BelowChild ==
  ASSUME NEW S, NEW p \in Seq(S), NEW v \in S, NEW f \in Seq(S),
         Len(f) > Len(Append(p, v)), IsPrefix(Append(p, v), f)
  PROVE  Len(f) > Len(p) /\ IsPrefix(p, f) /\ f[Len(p) + 1] = v
<1> DEFINE q == Append(p, v)
<1>1. /\ q \in Seq(S) /\ Len(q) = Len(p) + 1 /\ q[Len(p) + 1] = v /\ \A i \in 1 .. Len(p) : q[i] = p[i]
      /\ Len(p) \in Nat /\ Len(f) \in Nat
  OBVIOUS
<1> HIDE DEF q
<1>2. Len(f) > Len(q) /\ SubSeq(q, 1, Len(q)) = SubSeq(f, 1, Len(q))
  BY DEF IsPrefix, q
<1>3. \A i \in 1 .. Len(q) : f[i] = q[i]
  <2> SUFFICES ASSUME NEW i \in 1 .. Len(q) PROVE f[i] = q[i]
    OBVIOUS
  <2>1. SubSeq(q, 1, Len(q))[i] = q[i]
    BY <1>1
  <2>2. SubSeq(f, 1, Len(q))[i] = f[i]
    BY <1>1, <1>2
  <2> QED
    BY <1>2, <2>1, <2>2
<1>4. f[Len(p) + 1] = v /\ Len(f) > Len(p) /\ \A i \in 1 .. Len(p) : f[i] = p[i]
  BY <1>1, <1>2, <1>3
<1>5. SubSeq(p, 1, Len(p)) = SubSeq(f, 1, Len(p))
  BY <1>1, <1>4
<1> QED
  BY <1>1, <1>4, <1>5 DEF IsPrefix

LEMMA DirectoryIsChild ==
  ASSUME TypeOK, NEW p \in Paths, NEW v \in STRING, IsDir(Append(p, v))
  PROVE  v \in Children(p) /\ v \in DirChildren(p)
<1>1. PICK f \in remote : Len(f) > Len(Append(p, v)) /\ IsPrefix(Append(p, v), f)
  BY DEF IsDir, Below
<1>2. PICK S : S = STRING
  OBVIOUS
<1>3. p \in Seq(S) /\ f \in Seq(S) /\ v \in S
  BY <1>2 DEF TypeOK, Paths
<1>4. Len(f) > Len(p) /\ IsPrefix(p, f) /\ f[Len(p) + 1] = v
  BY <1>1, <1>3, BelowChild
<1>5. v \in Children(p)
  BY <1>4 DEF Children, Below
<1> QED
  BY <1>5 DEF DirChildren

\* S3 lists everything that fits on a page.
LEMMA WholePage ==
  ASSUME NEW p, Complete("s3", p)
  PROVE  S3Contents(p) = Children(p)
<1>1. FirstPage(Below(p)) = Below(p)
  BY DEF Complete, FirstPage
<1> QED
  BY <1>1 DEF S3Contents, Children

\* getDirectorySubdirs lists every directory, unless it takes more than one segment or page.
LEMMA DirectoryIsListed ==
  ASSUME TypeOK, NEW v \in STRING, IsDir(RemotePath(<<v>>)), Complete(base.fs, base.dir),
         IsDirectory(base.fs, base.dir)
  PROVE  v \in Subdirs(base.fs, base.dir)
<1> DEFINE p == base.dir
<1>1. p \in Paths /\ RemotePath(<<v>>) = Append(p, v)
  <2>1. PICK S : S = STRING
    OBVIOUS
  <2>2. p \in Seq(S) /\ v \in S /\ p \in Paths
    BY <2>1, PathsAssumption DEF TypeOK, Paths
  <2>3. p \o <<v>> = Append(p, v)
    <3> HIDE DEF p
    <3> QED
      BY <2>2
  <2> QED
    BY <2>2, <2>3 DEF RemotePath
<1> HIDE DEF p
<1>2. IsDir(Append(p, v)) /\ v \in Children(p) /\ v \in DirChildren(p)
  BY <1>1, DirectoryIsChild
<1>3. GCSContents(p) = Children(p)
  BY DEF GCSContents, Children
<1>5. base.fs \in FileSystems /\ p = base.dir
  BY BasesAssumption DEF TypeOK, p
<1>8. base.fs = "s3" => v \in S3Subdirs(p)
  BY <1>2, <1>5, WholePage DEF S3Subdirs, S3IsDirectory, IsDir
<1>4. v \in LocalSubdirs(p) /\ v \in GCSSubdirs(p)
  BY <1>2, <1>3 DEF LocalSubdirs, GCSSubdirs, GCSIsDirectory, IsDir
<1>6. CASE base.fs \in {"local", "s3", "gcs"}
  BY <1>4, <1>5, <1>6, <1>8 DEF Subdirs
<1>7. CASE base.fs \in {"az", "azfs"}
  <2>1. FirstSegment(Children(p)) = Children(p)
    BY <1>5, <1>7 DEF Complete, FirstSegment
  <2>2. v \in BlobSubdirs(p)
    BY <1>2, <2>1 DEF BlobSubdirs, BlobContents
  <2>3. base.fs = "azfs" => LastWorkingSubdir(p) = p
    BY <1>5 DEF IsDirectory, AzureIsDirectory, IsBlobStoragePath, ShareIsDirectory
  <2>4. base.fs = "azfs" => v \in ShareSubdirs(p)
    BY <1>2, <2>1, <2>3 DEF ShareSubdirs, ShareContents
  <2>5. v \in AzureSubdirs(base.fs, p)
    BY <1>7, <2>2, <2>4 DEF AzureSubdirs, IsBlobStoragePath
  <2> QED
    BY <1>5, <1>7, <2>5 DEF Subdirs
<1> QED
  BY <1>5, <1>6, <1>7 DEF FileSystems

\* Only retireModel ends a version.
LEMMA EndsByRetiring ==
  ASSUME IInv, [Next]_vars, NEW v \in Versions, inst[v].state = "AVAILABLE", inst'[v].state = "END"
  PROVE  RetireModel
<1>1. CASE UNCHANGED inst
  BY <1>1
<1>2. CASE AddVersion
  <2>1. inst'[v] = inst[v] \/ inst'[v].state \in {"AVAILABLE", "FAILED"}
    BY <1>2 DEF AddVersion, IInv, TypeOK
  <2> QED
    BY <2>1
<1>3. CASE ReloadModel
  <2>1. inst'[v] = inst[v] \/ inst'[v].state \in {"AVAILABLE", "FAILED"}
    BY <1>3 DEF ReloadModel, IInv, TypeOK
  <2> QED
    BY <2>1
<1>4. ASSUME DownloadStep PROVE UNCHANGED inst
  <2>1. CASE DownloadVersion \/ EndDownload
    BY <2>1 DEF DownloadVersion, EndDownload, DownloadLeaves
  <2>2. ASSUME CheckFolder \/ ListSubdirs \/ ListFiles \/ Descend \/ Descended PROVE UNCHANGED inst
    BY <2>2 DEF CheckFolder, ListSubdirs, ListFiles, Descend, Descended, DownloadLeaves
  <2>3. ASSUME Fetch \/ EndFolder \/ S3List \/ S3Classify PROVE UNCHANGED inst
    BY <2>3 DEF Fetch, EndFolder, S3List, S3Classify, DownloadLeaves
  <2> QED
    BY <1>4, <2>1, <2>2, <2>3 DEF DownloadStep, BlobDownloadFileFolderTo, ShareDownloadFileFolderTo,
       GCSDownloadFileFolder, S3DownloadFileFolder, DownloadTree
<1>5. ASSUME Environment \/ StartRound PROVE UNCHANGED inst
  BY <1>5 DEF Environment, Upload, RemoveDirectory, StorageChanges, NewConfig, StartRound, copies
<1>6. ASSUME ManagerStep, ~ AddVersion, ~ ReloadModel, ~ RetireModel PROVE UNCHANGED inst
  BY <1>6 DEF ManagerStep, CheckDirectory, ReadAvailableVersions, AddVersions, VersionsAdded, ReloadVersion,
     VersionsReloaded, CleanupBeforeRetire, EndRound, copies
<1> QED
  BY <1>1, <1>2, <1>3, <1>4, <1>5, <1>6 DEF Next, vars, copies

\* A version that is served is retired only if its directory has gone, the storage has
\* changed during the round, an error was swallowed or the listing was cut: a version
\* that could not be reloaded or added is not served any more when it is retired.
THEOREM RetiredForAReason == Spec => RetiredOnlyIfGone
<1> DEFINE Reason(v) == \/ ~ IsDir(RemotePath(<<v>>)) \/ disturbed \/ swallowed
                        \/ ~ Complete(base.fs, base.dir)
<1>1. ASSUME IInv, [Next]_vars, NEW v \in Versions, inst[v].state = "AVAILABLE", inst'[v].state = "END"
      PROVE  Reason(v)
  <2>1. RetireModel
    BY <1>1, EndsByRetiring
  <2>2. v = Current /\ pc = "retiring"
    <3>1. inst' = [inst EXCEPT ![Current] =
                     [inst[Current] EXCEPT !.state = IF Current \in failed THEN "FAILED" ELSE "END",
                                           !.network = Unset]]
          /\ pc = "retiring"
      BY <2>1 DEF RetireModel
    <3>2. v # Current => inst'[v] = inst[v]
      BY <1>1, <3>1 DEF IInv, TypeOK
    <3> QED
      BY <1>1, <3>1, <3>2
  <2>3. v \in todo
    BY <1>1, <2>2 DEF IInv, TypeOK, Current
  <2>4. v \notin available
    BY <1>1, <2>2, <2>3 DEF IInv, RoundIsCurrent
  <2>5. SUFFICES ASSUME ~ Reason(v) PROVE FALSE
    OBVIOUS
  <2>6. IsDirectory(base.fs, base.dir) /\ available = Subdirs(base.fs, base.dir) \cap Versions
    BY <1>1, <2>2, <2>5 DEF IInv, RoundIsCurrent
  <2>7. v \in STRING /\ TypeOK
    BY <1>1, PathsAssumption DEF IInv
  <2>8. v \in Subdirs(base.fs, base.dir)
    BY <2>5, <2>6, <2>7, DirectoryIsListed
  <2> QED
    BY <2>4, <2>6, <2>8
<1>2. IInv /\ [Next]_vars =>
        [\A v \in Versions : inst[v].state = "AVAILABLE" /\ inst'[v].state = "END" =>
           \/ ~ IsDir(RemotePath(<<v>>)) \/ disturbed \/ swallowed
           \/ ~ Complete(base.fs, base.dir)]_vars
  BY <1>1
<1> QED
  BY <1>2, InvariantHolds, PTL DEF Spec, RetiredOnlyIfGone

(***************************************************************************)
(* Copies are faithful: paths.                                             *)
(***************************************************************************)

\* A prefix, name by name.
LEMMA PrefixNames ==
  ASSUME NEW S, NEW p \in Seq(S), NEW f \in Seq(S)
  PROVE  IsPrefix(p, f) <=> Len(p) <= Len(f) /\ \A i \in 1 .. Len(p) : f[i] = p[i]
<1>1. Len(p) \in Nat /\ Len(f) \in Nat /\ SubSeq(p, 1, Len(p)) = p
  OBVIOUS
<1>2. ASSUME Len(p) <= Len(f)
      PROVE  /\ SubSeq(f, 1, Len(p)) \in Seq(S) /\ Len(SubSeq(f, 1, Len(p))) = Len(p)
             /\ \A i \in 1 .. Len(p) : SubSeq(f, 1, Len(p))[i] = f[i]
  BY <1>1, <1>2
<1>3. ASSUME Len(p) <= Len(f), \A i \in 1 .. Len(p) : f[i] = p[i]
      PROVE  SubSeq(f, 1, Len(p)) = p
  BY <1>1, <1>2, <1>3
<1> QED
  BY <1>1, <1>2, <1>3 DEF IsPrefix

\* The parts of a path that lies below another.
LEMMA BelowNames ==
  ASSUME TypeOK, NEW p \in Paths, NEW f
  PROVE  f \in Below(p) <=> /\ f \in remote /\ f \in Paths /\ Len(f) > Len(p)
                            /\ \A i \in 1 .. Len(p) : f[i] = p[i]
<1>1. PICK S : S = STRING
  OBVIOUS
<1>2. p \in Seq(S) /\ remote \subseteq Seq(S) /\ Paths = Seq(S)
  BY <1>1 DEF TypeOK, Paths
<1>3. ASSUME f \in remote PROVE IsPrefix(p, f) <=> Len(p) <= Len(f) /\ \A i \in 1 .. Len(p) : f[i] = p[i]
  BY <1>2, <1>3, PrefixNames
<1>4. ASSUME f \in remote PROVE Len(p) \in Nat /\ Len(f) \in Nat
  BY <1>2, <1>4
<1> QED
  BY <1>2, <1>3, <1>4 DEF Below

LEMMA SplitPath ==
  ASSUME NEW S, NEW p \in Seq(S), NEW f \in Seq(S), Len(f) > Len(p), \A i \in 1 .. Len(p) : f[i] = p[i]
  PROVE  LET n == f[Len(p) + 1]
         IN  /\ n \in S /\ Append(p, n) \in Seq(S) /\ Len(Append(p, n)) = Len(p) + 1
             /\ \A i \in 1 .. Len(p) + 1 : f[i] = Append(p, n)[i]
             /\ Len(f) = Len(p) + 1 => f = Append(p, n)
<1> DEFINE n == f[Len(p) + 1]
           q == Append(p, n)
<1>1. Len(p) \in Nat /\ Len(f) \in Nat /\ n \in S
  OBVIOUS
<1>2. /\ q \in Seq(S) /\ Len(q) = Len(p) + 1 /\ q[Len(p) + 1] = n
      /\ \A i \in 1 .. Len(p) : q[i] = p[i]
  <2> HIDE DEF n
  <2> QED
    BY <1>1
<1> HIDE DEF q
<1>3. \A i \in 1 .. Len(p) + 1 : f[i] = q[i]
  BY <1>1, <1>2
<1>4. ASSUME Len(f) = Len(p) + 1 PROVE f = q
  BY <1>1, <1>2, <1>3, <1>4
<1> QED
  BY <1>1, <1>2, <1>3, <1>4 DEF q

\* A file below a folder is one of its files or below one of its folders.
LEMMA BelowSplit ==
  ASSUME TypeOK, NEW p \in Paths, NEW f \in Below(p)
  PROVE  \E n \in Children(p) : n \in STRING /\ (f = Append(p, n) \/ f \in Below(Append(p, n)))
<1> DEFINE n == f[Len(p) + 1]
<1>1. PICK S : S = STRING
  OBVIOUS
<1>2. f \in remote /\ Len(f) > Len(p) /\ f \in Paths /\ \A i \in 1 .. Len(p) : f[i] = p[i]
  BY BelowNames
<1>3. p \in Seq(S) /\ f \in Seq(S) /\ Paths = Seq(S)
  BY <1>1, <1>2 DEF Paths
<1>4. /\ n \in S /\ Append(p, n) \in Seq(S) /\ Len(Append(p, n)) = Len(p) + 1
      /\ \A i \in 1 .. Len(p) + 1 : f[i] = Append(p, n)[i]
      /\ Len(f) = Len(p) + 1 => f = Append(p, n)
  BY <1>2, <1>3, SplitPath
<1>5. n \in Children(p)
  BY DEF Children
<1>6. Len(p) \in Nat /\ Len(f) \in Nat
  BY <1>3
<1>7. ASSUME Len(f) # Len(p) + 1 PROVE f \in Below(Append(p, n))
  <2> DEFINE q == Append(p, n)
  <2>1. q \in Paths /\ Len(f) > Len(q) /\ \A i \in 1 .. Len(q) : f[i] = q[i]
    BY <1>2, <1>3, <1>4, <1>6, <1>7
  <2> HIDE DEF q
  <2> QED
    BY <1>2, <2>1, BelowNames DEF q
<1> HIDE DEF n
<1> QED
  BY <1>1, <1>4, <1>5, <1>7

\* Nothing is below a file.
LEMMA FileIsNoFolder ==
  ASSUME TypeOK, NoFileIsFolder(remote \cup Uploads), NEW f \in remote
  PROVE  Below(f) = {} /\ ~ IsDir(f)
<1>1. ASSUME NEW g \in Below(f) PROVE FALSE
  <2>1. g \in remote /\ Len(g) > Len(f) /\ IsPrefix(f, g)
    BY DEF Below
  <2>2. f = g
    BY <2>1 DEF NoFileIsFolder
  <2>3. Len(f) \in Nat
    BY DEF TypeOK, Paths
  <2> QED
    BY <2>1, <2>2, <2>3
<1> QED
  BY <1>1 DEF IsDir

\* Joined paths.
JoinedOne(p, d, x) == p \o Append(d, x) = Append(p \o d, x) /\ p \o (d \o <<x>>) = Append(p \o d, x)
JoinedTwo(p, d, x, y) == p \o (d \o <<x, y>>) = Append(Append(p \o d, x), y)

LEMMA JoinedPath ==
  ASSUME NEW S
  PROVE  \A p \in Seq(S), d \in Seq(S) : \A x \in S, y \in S : JoinedOne(p, d, x) /\ JoinedTwo(p, d, x, y)
<1> SUFFICES ASSUME NEW p \in Seq(S), NEW d \in Seq(S), NEW x \in S, NEW y \in S
             PROVE  JoinedOne(p, d, x) /\ JoinedTwo(p, d, x, y)
  OBVIOUS
<1>1. d \o <<x>> = Append(d, x)
  OBVIOUS
<1>2. \A e \in Seq(S), z \in S : p \o Append(e, z) = Append(p \o e, z)
  OBVIOUS
<1>3. d \o <<x, y>> = Append(Append(d, x), y)
  OBVIOUS
<1>4. Append(d, x) \in Seq(S)
  OBVIOUS
<1> QED
  BY <1>1, <1>2, <1>3, <1>4 DEF JoinedOne, JoinedTwo

\* The remote path of something in a folder.
InFolder(dir, n) ==
  /\ RemotePath(Append(dir, n)) = Append(RemotePath(dir), n)
  /\ RemotePath(dir \o <<n>>) = Append(RemotePath(dir), n)
InSubfolder(dir, n, m) == RemotePath(dir \o <<n, m>>) = Append(Append(RemotePath(dir), n), m)

LEMMA RemoteChild ==
  ASSUME TypeOK, NEW dir \in Paths, NEW n \in STRING, NEW m \in STRING
  PROVE  InFolder(dir, n) /\ InSubfolder(dir, n, m)
<1>1. PICK S : S = STRING
  OBVIOUS
<1>2. base.dir \in Seq(S) /\ dir \in Seq(S) /\ n \in S /\ m \in S
  BY <1>1, PathsAssumption DEF TypeOK, Paths
<1>3. \A p \in Seq(S), d \in Seq(S) : \A x \in S, y \in S : JoinedOne(p, d, x) /\ JoinedTwo(p, d, x, y)
  BY JoinedPath
<1>4. JoinedOne(base.dir, dir, n) /\ JoinedTwo(base.dir, dir, n, m)
  BY <1>2, <1>3, Zenon
<1> QED
  BY <1>4, Zenon DEF JoinedOne, JoinedTwo, InFolder, InSubfolder, RemotePath

LEMMA JoinedParts ==
  ASSUME NEW S, NEW p \in Seq(S), NEW r \in Seq(S)
  PROVE  /\ SubSeq(p \o r, Len(p) + 1, Len(p \o r)) = r
         /\ Len(p \o r) = Len(p) + Len(r)
         /\ r # <<>> => Last(p \o r) = Last(r) /\ p \o r # <<>>
<1>1. /\ Len(p) \in Nat /\ Len(r) \in Nat /\ p \o r \in Seq(S) /\ Len(p \o r) = Len(p) + Len(r)
      /\ \A i \in 1 .. Len(r) : (p \o r)[Len(p) + i] = r[i]
  OBVIOUS
<1> DEFINE q == p \o r
<1> HIDE DEF q
<1>2. /\ SubSeq(q, Len(p) + 1, Len(q)) \in Seq(S) /\ Len(SubSeq(q, Len(p) + 1, Len(q))) = Len(r)
      /\ \A i \in 1 .. Len(r) : SubSeq(q, Len(p) + 1, Len(q))[i] = q[Len(p) + i]
  BY <1>1 DEF q
<1>3. SubSeq(q, Len(p) + 1, Len(q)) = r
  BY <1>1, <1>2 DEF q
<1>4. ASSUME r # <<>> PROVE Last(q) = Last(r) /\ q # <<>>
  <2>1. Len(r) \in 1 .. Len(r)
    BY <1>1, <1>4
  <2> QED
    BY <1>1, <2>1 DEF q, Last
<1> QED
  BY <1>1, <1>3, <1>4 DEF q

\* The relative path of a remote path, and its name.
LEMMA RelativeOfRemote ==
  ASSUME TypeOK, NEW dir \in Paths, NEW g \in Paths, g # <<>>
  PROVE  /\ RelativePath(RemotePath(dir \o g)) = dir \o g
         /\ Last(RemotePath(dir \o g)) = Last(g)
         /\ dir \o g \in Paths /\ RemotePath(dir \o g) # <<>>
<1>1. PICK S : S = STRING
  OBVIOUS
<1>2. base.dir \in Seq(S) /\ dir \in Seq(S) /\ g \in Seq(S) /\ Paths = Seq(S)
  BY <1>1, PathsAssumption DEF TypeOK, Paths
<1>3. dir \o g \in Seq(S) /\ dir \o g # <<>> /\ Last(dir \o g) = Last(g)
  BY <1>2, JoinedParts
<1> DEFINE r == dir \o g
           p == base.dir
<1> HIDE DEF r, p
<1>4. p \in Seq(S) /\ r \in Seq(S) /\ r # <<>>
  BY <1>2, <1>3 DEF r, p
<1>5. /\ SubSeq(p \o r, Len(p) + 1, Len(p \o r)) = r
      /\ Last(p \o r) = Last(r) /\ p \o r # <<>>
  BY <1>4, JoinedParts
<1> QED
  BY <1>2, <1>3, <1>5 DEF RelativePath, RemotePath, r, p

\* What is below a folder two levels below a folder of a version is too deep for S3.
LEMMA DeepBelow ==
  ASSUME TypeOK, NEW dir \in Paths, dir # <<>>, NEW n \in STRING, NEW m \in STRING,
         NEW f \in Below(Append(Append(RemotePath(dir), n), m))
  PROVE  Len(RelativePath(f)) > 3
<1>1. PICK S : S = STRING
  OBVIOUS
<1> DEFINE b == base.dir
           p == b \o dir
           q == Append(Append(p, n), m)
<1>2. b \in Seq(S) /\ dir \in Seq(S) /\ n \in S /\ m \in S /\ Paths = Seq(S)
  BY <1>1, PathsAssumption DEF TypeOK, Paths
<1> HIDE DEF b
<1>3. Len(b) \in Nat /\ Len(dir) \in Nat /\ Len(dir) >= 1 /\ p \in Seq(S) /\ Len(p) = Len(b) + Len(dir)
  BY <1>2
<1> HIDE DEF p
<1>4. q \in Seq(S) /\ Len(q) = Len(p) + 2
  <2>1. \A o \in Seq(S) : \A x \in S : Append(o, x) \in Seq(S) /\ Len(Append(o, x)) = Len(o) + 1 /\ Len(o) \in Nat
    OBVIOUS
  <2>2. Append(p, n) \in Seq(S) /\ Len(Append(p, n)) = Len(p) + 1 /\ Len(p) \in Nat
    BY <1>2, <1>3, <2>1, Zenon
  <2>3. q \in Seq(S) /\ Len(q) = Len(Append(p, n)) + 1
    BY <1>2, <2>1, <2>2, Zenon
  <2> HIDE DEF q
  <2> QED
    BY <2>2, <2>3
<1>5. RemotePath(dir) = p
  BY DEF RemotePath, b, p
<1> HIDE DEF q
<1>6. f \in Below(q) /\ q \in Paths
  BY <1>2, <1>4, <1>5 DEF q
<1>7. f \in Seq(S) /\ Len(f) > Len(q) /\ Len(f) \in Nat
  BY <1>2, <1>6, BelowNames
<1>8. Len(SubSeq(f, Len(b) + 1, Len(f))) = Len(f) - Len(b)
  BY <1>3, <1>4, <1>7
<1>9. Len(f) - Len(b) > 3
  BY <1>3, <1>4, <1>7
<1> QED
  BY <1>8, <1>9 DEF RelativePath, b

\* Folders of versions are below the base path.
OfVersion(p) == p # <<>> /\ Len(p) > Len(base.dir)

LEMMA RemoteIsOfVersion ==
  ASSUME TypeOK, NEW dir \in Paths, dir # <<>>
  PROVE  OfVersion(RemotePath(dir))
<1>1. PICK S : S = STRING
  OBVIOUS
<1>2. PICK b : b = base.dir
  OBVIOUS
<1>3. b \in Seq(S) /\ dir \in Seq(S)
  BY <1>1, <1>2, PathsAssumption DEF TypeOK, Paths
<1>4. Len(b) \in Nat /\ Len(dir) \in Nat /\ Len(dir) >= 1 /\ Len(b \o dir) = Len(b) + Len(dir)
  BY <1>3
<1>5. b \o dir # <<>>
  BY <1>3, JoinedParts
<1> QED
  BY <1>2, <1>4, <1>5 DEF RemotePath, OfVersion

\* Files below a folder of more than one segment or page are exempt.
LEMMA CutIsExempt ==
  ASSUME TypeOK, NEW p \in Paths, OfVersion(p), NEW f \in Below(p), ~ Complete(base.fs, p)
  PROVE  Exempt(f)
<1>1. PICK S : S = STRING
  OBVIOUS
<1>2. p \in Seq(S) /\ f \in Seq(S) /\ Len(f) > Len(p) /\ \A i \in 1 .. Len(p) : f[i] = p[i]
  BY <1>1, BelowNames DEF Paths
<1>0. Len(base.dir) \in Nat
  BY PathsAssumption DEF TypeOK, Paths
<1>3. Len(p) \in Len(base.dir) + 1 .. Len(f) - 1
  BY <1>0, <1>2 DEF OfVersion
<1>4. SubSeq(f, 1, Len(p)) = p
  BY <1>2
<1>5. ~ Complete(base.fs, SubSeq(f, 1, Len(p)))
  BY <1>4
<1> QED
  BY <1>3, <1>5 DEF Exempt

(***************************************************************************)
(* Copies are faithful: what the listings show.                            *)
(***************************************************************************)

\* What a folder directly contains is below it.
LEMMA LongerIsBelow ==
  ASSUME TypeOK, NEW p \in Paths, NEW n \in STRING, Append(p, n) \in remote
  PROVE  Append(p, n) \in Below(p)
<1>1. PICK S : S = STRING
  OBVIOUS
<1>2. p \in Seq(S) /\ n \in S /\ Paths = Seq(S)
  BY <1>1 DEF Paths
<1>3. \A o \in Seq(S) : \A x \in S :
        Append(o, x) \in Seq(S) /\ Len(Append(o, x)) > Len(o) /\ \A i \in 1 .. Len(o) : Append(o, x)[i] = o[i]
  OBVIOUS
<1>4. /\ Append(p, n) \in Paths /\ Len(Append(p, n)) > Len(p)
      /\ \A i \in 1 .. Len(p) : Append(p, n)[i] = p[i]
  BY <1>2, <1>3, Zenon
<1> DEFINE f == Append(p, n)
<1> HIDE DEF f
<1>5. f \in remote /\ f \in Paths /\ Len(f) > Len(p) /\ \A i \in 1 .. Len(p) : f[i] = p[i]
  BY <1>4, Zenon DEF f
<1>6. f \in Below(p)
  BY <1>5, BelowNames
<1> QED
  BY <1>6 DEF f

\* getDirectorySubdirs shows every folder that has files, unless the listing is cut.
LEMMA FoldersAreListed ==
  ASSUME TypeOK, NEW p \in Paths, OfVersion(p), base.fs \in {"gcs", "az", "azfs"},
         base.fs = "azfs" => ShareIsDirectory(p), NEW f \in Below(p)
  PROVE  \/ Exempt(f)
         \/ \E n \in Subdirs(base.fs, p) : f \in Below(Append(p, n))
         \/ \E n \in Children(p) : f = Append(p, n)
<1>1. PICK n \in Children(p) : n \in STRING /\ (f = Append(p, n) \/ f \in Below(Append(p, n)))
  BY BelowSplit
<1> SUFFICES ASSUME f \in Below(Append(p, n)), Complete(base.fs, p)
             PROVE  n \in Subdirs(base.fs, p)
  BY <1>1, CutIsExempt
<1>2. n \in DirChildren(p) /\ IsDir(Append(p, n))
  BY <1>1 DEF DirChildren, IsDir
<1>3. CASE base.fs = "gcs"
  <2>1. GCSContents(p) = Children(p)
    BY DEF GCSContents, Children
  <2>2. n \in GCSSubdirs(p)
    BY <1>1, <1>2, <2>1 DEF GCSSubdirs, GCSIsDirectory, IsDir
  <2> QED
    BY <1>3, <2>2 DEF Subdirs
<1>4. CASE base.fs \in {"az", "azfs"}
  <2>1. FirstSegment(Children(p)) = Children(p)
    BY <1>4 DEF Complete, FirstSegment
  <2>2. n \in BlobSubdirs(p)
    BY <1>2, <2>1 DEF BlobSubdirs, BlobContents
  <2>3. base.fs = "azfs" => LastWorkingSubdir(p) = p
    BY DEF ShareIsDirectory
  <2>4. base.fs = "azfs" => n \in ShareSubdirs(p)
    BY <1>2, <2>1, <2>3 DEF ShareSubdirs, ShareContents
  <2>5. n \in AzureSubdirs(base.fs, p)
    BY <1>4, <2>2, <2>4 DEF AzureSubdirs, IsBlobStoragePath
  <2> QED
    BY <1>4, <2>5 DEF Subdirs
<1> QED
  BY <1>3, <1>4

\* getDirectoryFiles shows every file, unless the listing is cut.
LEMMA FilesAreListed ==
  ASSUME TypeOK, NoFileIsFolder(remote \cup Uploads), NEW p \in Paths, OfVersion(p), base.fs \in {"gcs", "az", "azfs"},
         base.fs = "azfs" => ShareIsDirectory(p), NEW n \in Children(p), Append(p, n) \in remote
  PROVE  Exempt(Append(p, n)) \/ n \in Files(base.fs, p)
<1>1. n \in STRING
  BY ChildrenAreNames
<1>2. Append(p, n) \in Below(p)
  BY <1>1, LongerIsBelow
<1> SUFFICES ASSUME Complete(base.fs, p)
             PROVE  n \in Files(base.fs, p)
  BY <1>2, CutIsExempt
<1>3. n \in FileChildren(p) /\ Below(Append(p, n)) = {}
  BY FileIsNoFolder DEF FileChildren
<1>4. CASE base.fs = "gcs"
  <2>1. GCSContents(p) = Children(p)
    BY DEF GCSContents, Children
  <2>2. n \in GCSFiles(p)
    BY <1>3, <2>1 DEF GCSFiles, GCSIsDirectory
  <2> QED
    BY <1>4, <2>2 DEF Files
<1>5. CASE base.fs \in {"az", "azfs"}
  <2>1. FirstSegment(Children(p)) = Children(p)
    BY <1>5 DEF Complete, FirstSegment
  <2>2. n \in BlobFiles(p)
    BY <1>3, <2>1 DEF BlobFiles, BlobContents
  <2>3. base.fs = "azfs" => LastWorkingSubdir(p) = p
    BY DEF ShareIsDirectory
  <2>4. base.fs = "azfs" => n \in ShareFiles(p)
    BY <1>3, <2>1, <2>3 DEF ShareFiles, ShareContents
  <2>5. n \in AzureFiles(base.fs, p)
    BY <1>5, <2>2, <2>4 DEF AzureFiles, IsBlobStoragePath
  <2> QED
    BY <1>5, <2>5 DEF Files
<1> QED
  BY <1>4, <1>5

\* S3: one level of folders is looked into.
Classified(q, f) ==
  IF S3IsDirectory(q) THEN Exempt(f) \/ \E m \in S3Files(q) : m \in STRING /\ f = Append(q, m) ELSE f = q

LEMMA ObjectsAreClassified ==
  ASSUME TypeOK, NoFileIsFolder(remote \cup Uploads), base.fs = "s3", NEW dir \in Paths, dir # <<>>, NEW n \in STRING,
         NEW q, q = Append(RemotePath(dir), n), q \in Paths, NEW f \in remote, f = q \/ f \in Below(q)
  PROVE  Classified(q, f)
<1>0. OfVersion(q)
  <2>1. Append(dir, n) \in Paths \ {<<>>}
    BY LongerPath
  <2>2. OfVersion(RemotePath(Append(dir, n)))
    BY <2>1, RemoteIsOfVersion
  <2>3. InFolder(dir, n)
    BY RemoteChild
  <2> QED
    BY <2>2, <2>3, Zenon DEF InFolder
<1>1. q # <<>>
  <2>1. Append(RemotePath(dir), n) # <<>>
    <3>1. RemotePath(dir) \in Paths
      BY RemotePaths
    <3> DEFINE p == RemotePath(dir)
    <3> HIDE DEF p
    <3>2. PICK S : S = STRING
      OBVIOUS
    <3>3. p \in Seq(S) /\ n \in S
      BY <3>1, <3>2 DEF Paths, p
    <3>4. \A o \in Seq(S) : \A x \in S : Append(o, x) # <<>>
      OBVIOUS
    <3>5. Append(p, n) # <<>>
      BY <3>3, <3>4, Zenon
    <3> QED
      BY <3>5 DEF p
  <2> QED
    BY <2>1
<1>2. S3IsDirectory(q) <=> Below(q) # {}
  BY <1>1 DEF S3IsDirectory
<1>3. ASSUME f = q, Below(q) # {} PROVE FALSE
  BY <1>3, FileIsNoFolder
<1>4. ASSUME f \in Below(q) PROVE Exempt(f) \/ \E m \in S3Files(q) : m \in STRING /\ f = Append(q, m)
  <2>1. PICK m \in Children(q) : m \in STRING /\ (f = Append(q, m) \/ f \in Below(Append(q, m)))
    BY <1>4, BelowSplit
  <2>2. CASE f \in Below(Append(q, m))
    <3>1. f \in Below(Append(Append(RemotePath(dir), n), m)) /\ m \in STRING
      BY <2>1, <2>2
    <3>2. Len(RelativePath(f)) > 3
      BY <3>1, DeepBelow
    <3> QED
      BY <3>2 DEF Exempt
  <2>3. CASE f = Append(q, m)
    <3>1. Below(Append(q, m)) = {}
      BY <2>3, FileIsNoFolder
    <3> SUFFICES ASSUME ~ Exempt(f) PROVE \E o \in S3Files(q) : o \in STRING /\ f = Append(q, o)
      OBVIOUS
    <3>2. Append(q, m) # <<>> /\ m \in S3Contents(q)
      <4>1. m \in S3Contents(q)
        <5>1. Complete("s3", q)
          BY <1>0, <1>4, CutIsExempt
        <5> QED
          BY <2>1, <5>1, WholePage
      <4>2. PICK S : S = STRING
        OBVIOUS
      <4>3. q \in Seq(S) /\ m \in S
        BY <2>1, <4>2 DEF Paths
      <4>4. \A o \in Seq(S) : \A x \in S : Append(o, x) # <<>>
        OBVIOUS
      <4> QED
        BY <4>1, <4>3, <4>4, Zenon
    <3>3. m \in S3Files(q)
      BY <3>1, <3>2 DEF S3Files, S3IsDirectory
    <3> QED
      BY <2>1, <2>3, <3>3
  <2> QED
    BY <2>1, <2>2, <2>3
<1> QED
  BY <1>2, <1>3, <1>4 DEF Classified

LEMMA AtLeastTwo == \A k \in Nat : k >= 1 /\ k # 1 => k > 1 /\ k - 1 \in 1 .. k
OBVIOUS

\* A file share that has a file walks down to the folder of the file.
LEMMA FrontAndLast ==
  ASSUME NEW S, NEW p \in Seq(S), p # <<>>
  PROVE  Append(SubSeq(p, 1, Len(p) - 1), Last(p)) = p
<1>1. Len(p) \in Nat /\ Len(p) >= 1
  OBVIOUS
<1>2. CASE Len(p) = 1
  <2>1. SubSeq(p, 1, Len(p) - 1) = <<>>
    BY <1>1, <1>2
  <2>2. Append(<<>>, p[1]) = p
    BY <1>1, <1>2
  <2> QED
    BY <1>2, <2>1, <2>2 DEF Last
<1>3. CASE Len(p) > 1
  <2> DEFINE q == SubSeq(p, 1, Len(p) - 1)
  <2>1. q \in Seq(S) /\ Len(q) = Len(p) - 1 /\ \A i \in 1 .. Len(p) - 1 : q[i] = p[i]
    BY <1>1, <1>3
  <2>2. p[Len(p)] \in S
    BY <1>1
  <2> HIDE DEF q
  <2>3. /\ Append(q, p[Len(p)]) \in Seq(S) /\ Len(Append(q, p[Len(p)])) = Len(p)
        /\ \A i \in 1 .. Len(p) : Append(q, p[Len(p)])[i] = p[i]
    BY <1>1, <2>1, <2>2
  <2>4. Append(q, p[Len(p)]) = p
    BY <1>1, <2>3
  <2> QED
    BY <2>4 DEF Last, q
<1>4. ASSUME Len(p) # 1 PROVE Len(p) > 1
  BY <1>1, <1>4, AtLeastTwo, Zenon
<1> QED
  BY <1>2, <1>3, <1>4

LEMMA FoldersOfFile ==
  ASSUME TypeOK, NEW p \in remote, NEW i \in 1 .. Len(p) - 1
  PROVE  IsDir(SubSeq(p, 1, i))
<1>1. PICK S : S = STRING
  OBVIOUS
<1>2. p \in Seq(S) /\ Paths = Seq(S)
  BY <1>1 DEF TypeOK, Paths
<1> DEFINE q == SubSeq(p, 1, i)
<1>3. q \in Seq(S) /\ Len(q) = i /\ Len(p) > i /\ \A j \in 1 .. i : q[j] = p[j]
  BY <1>2
<1> HIDE DEF q
<1>4. p \in Below(q)
  <2>1. q \in Paths /\ p \in Paths /\ Len(p) > Len(q) /\ \A j \in 1 .. Len(q) : p[j] = q[j]
    BY <1>2, <1>3
  <2> QED
    BY <2>1, BelowNames
<1> QED
  BY <1>4 DEF IsDir, q

LEMMA ShareWalksToFile ==
  ASSUME TypeOK, NoFileIsFolder(remote \cup Uploads), NEW p \in remote, p # <<>>
  PROVE  ShareTarget(p) = p
<1>1. PICK S : S = STRING
  OBVIOUS
<1>2. p \in Seq(S) /\ Len(p) \in Nat /\ Len(p) >= 1
  BY <1>1 DEF TypeOK, Paths
<1> DEFINE steps == {k \in 1 .. Len(p) : \A i \in 1 .. k : IsDir(SubSeq(p, 1, i))}
           top == steps \cup {0}
<1> HIDE DEF steps
<1>3. Len(p) \notin steps
  <2>1. ~ IsDir(p) /\ SubSeq(p, 1, Len(p)) = p /\ Len(p) \in 1 .. Len(p)
    BY <1>2, FileIsNoFolder
  <2>2. ~ IsDir(SubSeq(p, 1, Len(p)))
    BY <2>1
  <2>3. ASSUME Len(p) \in steps PROVE \A i \in 1 .. Len(p) : IsDir(SubSeq(p, 1, i))
    BY <2>3, Zenon DEF steps
  <2>4. ASSUME Len(p) \in steps PROVE IsDir(SubSeq(p, 1, Len(p)))
    BY <2>1, <2>3, <2>4, Zenon
  <2> QED
    BY <2>2, <2>4
<1>4. Len(p) - 1 \in top
  <2>1. CASE Len(p) = 1
    BY <2>1
  <2>2. CASE Len(p) # 1
    <3>1. Len(p) - 1 \in 1 .. Len(p)
      BY <1>2, <2>2, AtLeastTwo, Zenon
    <3>2. \A i \in 1 .. Len(p) - 1 : IsDir(SubSeq(p, 1, i))
      BY FoldersOfFile
    <3> QED
      BY <3>1, <3>2 DEF steps
  <2> QED
    BY <2>1, <2>2
<1>5. top \in SUBSET (0 .. Len(p)) /\ top # {} /\ Len(p) \notin top
  <2>1. steps \subseteq 1 .. Len(p)
    BY DEF steps
  <2> QED
    BY <1>2, <1>3, <2>1
<1> HIDE DEF top
<1>6. Max(top) \in top /\ \A y \in top : Max(top) >= y
  BY <1>2, <1>5, GreatestNumber
<1>7. Max(top) = Len(p) - 1
  <2> DEFINE x == Max(top)
  <2>1. x \in 0 .. Len(p) /\ x # Len(p) /\ x >= Len(p) - 1
    BY <1>4, <1>5, <1>6
  <2> HIDE DEF x
  <2>2. x = Len(p) - 1
    BY <1>2, <2>1
  <2> QED
    BY <2>2 DEF x
<1>8. LastWorkingSubdir(p) = SubSeq(p, 1, Len(p) - 1)
  BY <1>7, Zenon DEF LastWorkingSubdir, top, steps
<1>9. Append(SubSeq(p, 1, Len(p) - 1), Last(p)) = p
  BY <1>2, FrontAndLast
<1> QED
  BY <1>8, <1>9, Zenon DEF ShareTarget

\* What is read for a remote path is the file at that path.
LEMMA ReadsThePath ==
  ASSUME TypeOK, NEW p, base.fs \in {"s3", "gcs", "az", "azfs"}, NEW q \in Read(base.fs, p),
         base.fs = "azfs" => ShareTarget(p) = p
  PROVE  q = p
<1>1. CASE base.fs \in {"s3", "gcs"}
  BY <1>1 DEF Read, S3Read, GCSRead, ReadObject
<1>2. CASE base.fs = "az"
  BY <1>2 DEF Read, AzureRead, IsBlobStoragePath, BlobRead, ReadObject
<1>3. CASE base.fs = "azfs"
  <2>1. Read(base.fs, p) = ReadObject(ShareTarget(p))
    BY <1>3 DEF Read, AzureRead, IsBlobStoragePath, ShareRead
  <2> QED
    BY <1>3, <2>1 DEF ReadObject
<1> QED
  BY <1>1, <1>2, <1>3

\* The files of a listing of a share are there.
LEMMA ShareHasListed ==
  ASSUME base.fs = "azfs", NEW p, ShareIsDirectory(p), NEW n \in Files(base.fs, p)
  PROVE  Append(p, n) \in remote
<1>1. n \in ShareFiles(p) /\ LastWorkingSubdir(p) = p
  BY DEF Files, AzureFiles, IsBlobStoragePath, ShareIsDirectory
<1> QED
  BY <1>1 DEF ShareFiles, FileChildren

(***************************************************************************)
(* Copies are faithful: steps of the download.                             *)
(***************************************************************************)

\* The words of the invariant depend on the storage and the base path.
LEMMA SameWords ==
  ASSUME UNCHANGED <<remote, base>>
  PROVE  /\ \A p : Below(p)' = Below(p) /\ RemotePath(p)' = RemotePath(p)
         /\ \A f : (Exempt(f)' <=> Exempt(f)) /\ RelativePath(f)' = RelativePath(f)
         /\ \A p : ShareIsDirectory(p)' <=> ShareIsDirectory(p)
         /\ \A frame, f : StillToCome(frame, f)' <=> StillToCome(frame, f)
<1>1. \A p : Below(p)' = Below(p) /\ RemotePath(p)' = RemotePath(p)
  BY DEF Below, RemotePath
<1>2. \A p : Children(p)' = Children(p)
  BY <1>1 DEF Children
<1>6. \A fs, p : Complete(fs, p)' <=> Complete(fs, p)
  BY <1>1, <1>2 DEF Complete
<1>3. \A f : (Exempt(f)' <=> Exempt(f)) /\ RelativePath(f)' = RelativePath(f)
  BY <1>6 DEF Exempt, RelativePath
<1>4. \A p : ShareIsDirectory(p)' <=> ShareIsDirectory(p)
  BY <1>1 DEF ShareIsDirectory, LastWorkingSubdir, IsDir
<1>5. \A frame, f : StillToCome(frame, f)' <=> StillToCome(frame, f)
  BY <1>1, <1>2 DEF StillToCome
<1> QED
  BY <1>1, <1>3, <1>4, <1>5

\* The frame on top of the stack gives way to news, the others stay.
StackIs(news) ==
  /\ dl'.all = dl.all /\ dl'.versions = dl.versions /\ dl'.status = dl.status
  /\ \A k \in DOMAIN dl.stack : dl.stack[k] = Top \/ \E j \in DOMAIN dl'.stack : dl'.stack[j] = dl.stack[k]
  /\ \A frame \in news : \E j \in DOMAIN dl'.stack : dl'.stack[j] = frame
  /\ \A j \in DOMAIN dl'.stack : dl'.stack[j] \in news \/ \E k \in DOMAIN dl.stack : dl'.stack[j] = dl.stack[k]

\* Files are only added to the folders.
FilesKept ==
  /\ Len(tmp') = Len(tmp) /\ Folders' = Folders
  /\ \A i \in Folders : tmp'[i].of = tmp[i].of /\ DOMAIN tmp[i].files \subseteq DOMAIN tmp'[i].files

\* What the top of the stack has still to deal with is copied, exempt or with the news.
HandedOn(news) ==
  \A f \in remote : StillToCome(Top, f) =>
    \/ RelativePath(f) \in DOMAIN tmp'[Len(tmp)].files \/ Exempt(f)
    \/ \E frame \in news : StillToCome(frame, f)

FrameWalked(frame) ==
  base.fs = "azfs" /\ ~ disturbed =>
    /\ frame.at # "check" => ShareIsDirectory(RemotePath(frame.dir))
    /\ \A g \in frame.files : RemotePath(frame.dir \o g) \in remote

LEMMA TopReplaced ==
  ASSUME IInv, CopyInv, Busy, UNCHANGED DownloadLeaves, NEW news, StackIs(news), FilesKept, FilesWhereTheyWere',
         swallowed => swallowed', ~ disturbed /\ ~ swallowed' => HandedOn(news),
         \A frame \in news : FrameWalked(frame)
  PROVE  CopyInv'
<1>0. /\ UNCHANGED <<remote, base, changes, pc, disturbed>> /\ Downloading /\ Downloading'
      /\ Len(tmp) \in Folders
  BY LastFolder DEF DownloadLeaves, Quiet, Busy, Downloading, IInv, TypeOK
<1>1. NothingMissed'
  <2> SUFFICES ASSUME dl'.status = "OK", ~ disturbed', ~ swallowed', NEW v \in dl'.all, NEW f \in Below(RemotePath(<<v>>))'
               PROVE  v \in dl'.versions \/ Copied(f)' \/ Exempt(f)' \/ \E k \in DOMAIN dl'.stack : StillToCome(dl.stack[k], f)'
    BY DEF NothingMissed
  <2>1. v \in dl.all /\ f \in Below(RemotePath(<<v>>)) /\ f \in remote
    BY <1>0, SameWords DEF StackIs, Below
  <2>2. \/ v \in dl.versions \/ Copied(f) \/ Exempt(f) \/ \E k \in DOMAIN dl.stack : StillToCome(dl.stack[k], f)
    BY <1>0, <2>1 DEF StackIs, CopyInv, NothingMissed
  <2>3. CASE v \in dl.versions \/ Exempt(f)
    BY <1>0, <2>3, SameWords DEF StackIs
  <2>4. RelativePath(f) \in DOMAIN tmp'[Len(tmp)].files => Copied(f)'
    BY <1>0, SameWords DEF Copied, FilesKept
  <2>5. CASE Copied(f)
    BY <1>0, <2>4, <2>5 DEF Copied, FilesKept
  <2>6. ASSUME NEW frame, StillToCome(frame, f), \E j \in DOMAIN dl'.stack : dl'.stack[j] = frame
        PROVE  \E j \in DOMAIN dl'.stack : StillToCome(dl.stack[j], f)'
    <3>1. PICK j \in DOMAIN dl'.stack : dl'.stack[j] = frame
      BY <2>6
    <3>2. StillToCome(frame, f)'
      BY <1>0, <2>6, SameWords
    <3> QED
      BY <3>1, <3>2 DEF StillToCome
  <2>7. CASE \E k \in DOMAIN dl.stack : StillToCome(dl.stack[k], f)
    <3>1. PICK k \in DOMAIN dl.stack : StillToCome(dl.stack[k], f)
      BY <2>7
    <3>2. CASE \E j \in DOMAIN dl'.stack : dl'.stack[j] = dl.stack[k]
      BY <2>6, <3>1, <3>2
    <3>3. CASE dl.stack[k] = Top
      <4>1. \/ RelativePath(f) \in DOMAIN tmp'[Len(tmp)].files \/ Exempt(f)
            \/ \E frame \in news : StillToCome(frame, f)
        BY <1>0, <2>1, <3>1, <3>3 DEF HandedOn
      <4>2. \A frame \in news : \E j \in DOMAIN dl'.stack : dl'.stack[j] = frame
        BY DEF StackIs
      <4> QED
        BY <2>3, <2>4, <2>6, <4>1, <4>2
    <3> QED
      BY <3>2, <3>3 DEF StackIs
  <2> QED
    BY <2>2, <2>3, <2>5, <2>7
<1>2. ShareWalked'
  <2> SUFFICES ASSUME base'.fs = "azfs", ~ disturbed', NEW k \in DOMAIN dl'.stack
               PROVE  /\ dl'.stack[k].at # "check" => ShareIsDirectory(RemotePath(dl.stack[k].dir))'
                      /\ \A g \in dl'.stack[k].files : RemotePath(dl.stack[k].dir \o g)' \in remote'
    BY DEF ShareWalked
  <2>1. PICK frame : frame = dl'.stack[k]
    OBVIOUS
  <2>2. /\ frame.at # "check" => ShareIsDirectory(RemotePath(frame.dir))
        /\ \A g \in frame.files : RemotePath(frame.dir \o g) \in remote
    <3>1. CASE frame \in news
      BY <1>0, <3>1 DEF FrameWalked
    <3>2. CASE frame \notin news
      BY <1>0, <2>1, <3>2 DEF CopyInv, ShareWalked, StackIs
    <3> QED
      BY <3>1, <3>2
  <2>3. /\ frame.at # "check" => ShareIsDirectory(RemotePath(frame.dir))'
        /\ \A g \in frame.files : RemotePath(frame.dir \o g)' \in remote'
    BY <1>0, <2>2, SameWords
  <2> QED
    BY <2>1, <2>3
<1>3. tmp'[Len(tmp')].of = base'
  BY <1>0 DEF CopyInv, FilesKept
<1> QED
  BY <1>0, <1>1, <1>2, <1>3 DEF CopyInv

\* A download that fails promises nothing.
LEMMA FailureCopies ==
  ASSUME IInv, CopyInv, Busy, Fail, tmp' = tmp, UNCHANGED DownloadLeaves
  PROVE  CopyInv'
<1>0. /\ UNCHANGED <<remote, base, changes, pc, disturbed>> /\ Downloading /\ Downloading'
  BY DEF DownloadLeaves, Quiet, Busy, Downloading
<1>1. dl'.status = "failed" /\ dl'.stack = <<>>
  BY TopOfStack DEF IInv, Fail
<1>2. NothingMissed'
  BY <1>1 DEF NothingMissed
<1>3. ShareWalked'
  BY <1>1 DEF ShareWalked
<1>4. FilesWhereTheyWere'
  BY <1>0 DEF CopyInv, FilesWhereTheyWere, Folders
<1> QED
  BY <1>0, <1>2, <1>3, <1>4 DEF CopyInv

\* The folders have the files they had.
SameFiles ==
  /\ Len(tmp') = Len(tmp) /\ Folders' = Folders
  /\ \A i \in Folders : tmp'[i].of = tmp[i].of /\ tmp'[i].files = tmp[i].files

LEMMA SameFilesKept ==
  ASSUME CopyInv, SameFiles, UNCHANGED changes
  PROVE  FilesKept /\ FilesWhereTheyWere'
BY DEF SameFiles, FilesKept, CopyInv, FilesWhereTheyWere

LEMMA MkDirKeepsFiles ==
  ASSUME TypeOK, tmp # <<>>, NEW dir, MkDir(dir)
  PROVE  SameFiles
<1> DEFINE L == Len(tmp)
           c == tmp[L]
           e == [c EXCEPT !.dirs = @ \cup {dir}]
<1>1. L \in Folders /\ DOMAIN c = Copy
  BY LastFolder DEF TypeOK
<1>2. tmp' = [tmp EXCEPT ![L] = e]
  BY DEF MkDir
<1>3. e.of = c.of /\ e.files = c.files
  <2> HIDE DEF c
  <2> QED
    BY <1>1 DEF Copy
<1>4. Len(tmp') = Len(tmp) /\ Folders' = Folders /\ tmp'[L] = e /\ \A i \in Folders : i # L => tmp'[i] = tmp[i]
  <2> HIDE DEF e, L
  <2> QED
    BY <1>1, <1>2, TmpChanged DEF L
<1> HIDE DEF e
<1> QED
  BY <1>3, <1>4 DEF SameFiles

LEMMA SameTmpKeepsFiles ==
  ASSUME tmp' = tmp
  PROVE  SameFiles
BY DEF SameFiles, Folders

\* What the operations on the stack make of it.
LEMMA StackWithoutTop ==
  ASSUME TypeOK, Busy
  PROVE  /\ Front(dl.stack) \in Seq(Frames)
         /\ \A k \in DOMAIN Front(dl.stack) : k \in DOMAIN dl.stack /\ Front(dl.stack)[k] = dl.stack[k]
         /\ \A k \in DOMAIN dl.stack : dl.stack[k] = Top \/ (k \in DOMAIN Front(dl.stack) /\ Front(dl.stack)[k] = dl.stack[k])
<1> DEFINE s == dl.stack
           F == Frames
<1>1. s \in Seq(F) /\ s # <<>>
  BY DEF TypeOK, Busy
<1> HIDE DEF s, F
<1>2. /\ Len(s) \in Nat \ {0} /\ DOMAIN s = 1 .. Len(s)
      /\ SubSeq(s, 1, Len(s) - 1) \in Seq(F) /\ DOMAIN SubSeq(s, 1, Len(s) - 1) = 1 .. Len(s) - 1
      /\ \A k \in 1 .. Len(s) - 1 : SubSeq(s, 1, Len(s) - 1)[k] = s[k]
  BY <1>1
<1>3. \A k \in DOMAIN s : k = Len(s) \/ k \in 1 .. Len(s) - 1
  BY <1>2
<1>4. Top = s[Len(s)] /\ Front(dl.stack) = SubSeq(s, 1, Len(s) - 1)
  BY DEF Top, Last, Front, s
<1> QED
  BY <1>2, <1>3, <1>4 DEF s, F

LEMMA PopIs ==
  ASSUME TypeOK, Busy, Pop
  PROVE  StackIs({})
<1>1. /\ dl'.all = dl.all /\ dl'.versions = dl.versions /\ dl'.status = dl.status /\ dl'.stack = Front(dl.stack)
  BY TopOfStack DEF Pop
<1> QED
  BY <1>1, StackWithoutTop DEF StackIs

LEMMA BecomeIs ==
  ASSUME TypeOK, Busy, NEW frame \in Frames, Become(frame)
  PROVE  StackIs({frame})
<1> DEFINE s == Front(dl.stack)
           t == Append(s, frame)
<1>1. /\ dl'.all = dl.all /\ dl'.versions = dl.versions /\ dl'.status = dl.status /\ dl'.stack = t
  BY TopOfStack DEF Become
<1>2. s \in Seq(Frames)
  BY StackWithoutTop
<1> HIDE DEF s
<1>3. /\ \A k \in DOMAIN s : k \in DOMAIN t /\ t[k] = s[k]
      /\ \A k \in DOMAIN t : t[k] = frame \/ (k \in DOMAIN s /\ t[k] = s[k])
      /\ \E k \in DOMAIN t : t[k] = frame
  <2> DEFINE F == Frames
  <2>1. s \in Seq(F) /\ frame \in F
    BY <1>2
  <2> HIDE DEF F
  <2>2. /\ \A k \in DOMAIN s : k \in DOMAIN t /\ t[k] = s[k]
        /\ \A k \in DOMAIN t : t[k] = frame \/ (k \in DOMAIN s /\ t[k] = s[k])
    BY <2>1
  <2>3. Len(s) + 1 \in DOMAIN t /\ t[Len(s) + 1] = frame
    BY <2>1
  <2> QED
    BY <2>2, <2>3
<1> HIDE DEF t
<1>4. /\ \A k \in DOMAIN s : k \in DOMAIN dl.stack /\ s[k] = dl.stack[k]
      /\ \A k \in DOMAIN dl.stack : dl.stack[k] = Top \/ (k \in DOMAIN s /\ s[k] = dl.stack[k])
  BY StackWithoutTop DEF s
<1>5. \A k \in DOMAIN dl.stack : dl.stack[k] = Top \/ \E j \in DOMAIN t : t[j] = dl.stack[k]
  BY <1>3, <1>4
<1>6. \A j \in DOMAIN t : t[j] \in {frame} \/ \E k \in DOMAIN dl.stack : t[j] = dl.stack[k]
  BY <1>3, <1>4
<1> QED
  BY <1>1, <1>3, <1>5, <1>6 DEF StackIs

LEMMA PushIs ==
  ASSUME TypeOK, Busy, NEW rest \in Frames, NEW frame \in Frames,
         dl' = [dl EXCEPT !.stack = Append(Front(@), rest) \o <<frame>>]
  PROVE  StackIs({rest, frame})
<1> DEFINE s == Front(dl.stack)
           t == Append(s, rest) \o <<frame>>
<1>1. /\ dl'.all = dl.all /\ dl'.versions = dl.versions /\ dl'.status = dl.status /\ dl'.stack = t
  BY TopOfStack
<1>2. s \in Seq(Frames)
  BY StackWithoutTop
<1> HIDE DEF s
<1>3. /\ \A k \in DOMAIN s : k \in DOMAIN t /\ t[k] = s[k]
      /\ \A k \in DOMAIN t : t[k] \in {rest, frame} \/ (k \in DOMAIN s /\ t[k] = s[k])
      /\ \E k \in DOMAIN t : t[k] = rest
      /\ \E k \in DOMAIN t : t[k] = frame
  <2> DEFINE F == Frames
             u == Append(s, rest)
  <2>1. s \in Seq(F) /\ frame \in F /\ rest \in F
    BY <1>2
  <2> HIDE DEF F
  <2>2. /\ u \in Seq(F) /\ Len(u) = Len(s) + 1 /\ Len(s) \in Nat /\ u[Len(s) + 1] = rest
        /\ DOMAIN s = 1 .. Len(s) /\ \A k \in 1 .. Len(s) : u[k] = s[k]
    BY <2>1
  <2> HIDE DEF u
  <2>3. /\ DOMAIN (u \o <<frame>>) = 1 .. Len(u) + 1 /\ (u \o <<frame>>)[Len(u) + 1] = frame
        /\ \A k \in 1 .. Len(u) : (u \o <<frame>>)[k] = u[k]
    BY <2>1, <2>2
  <2>4. t = u \o <<frame>>
    BY DEF u
  <2> HIDE DEF t
  <2>5. /\ DOMAIN t = 1 .. Len(s) + 2 /\ t[Len(s) + 2] = frame /\ t[Len(s) + 1] = rest
        /\ \A k \in 1 .. Len(s) : t[k] = s[k]
    BY <2>2, <2>3, <2>4
  <2>6. \A k \in DOMAIN t : k \in 1 .. Len(s) \/ k = Len(s) + 1 \/ k = Len(s) + 2
    BY <2>2, <2>5
  <2>7. Len(s) + 1 \in DOMAIN t /\ Len(s) + 2 \in DOMAIN t /\ DOMAIN s \subseteq DOMAIN t
    BY <2>2, <2>5
  <2> QED
    BY <2>2, <2>5, <2>6, <2>7
<1> HIDE DEF t
<1>4. /\ \A k \in DOMAIN s : k \in DOMAIN dl.stack /\ s[k] = dl.stack[k]
      /\ \A k \in DOMAIN dl.stack : dl.stack[k] = Top \/ (k \in DOMAIN s /\ s[k] = dl.stack[k])
  BY StackWithoutTop DEF s
<1>5. \A k \in DOMAIN dl.stack : dl.stack[k] = Top \/ \E j \in DOMAIN t : t[j] = dl.stack[k]
  BY <1>3, <1>4
<1>6. \A j \in DOMAIN t : t[j] \in {rest, frame} \/ \E k \in DOMAIN dl.stack : t[j] = dl.stack[k]
  BY <1>3, <1>4
<1> QED
  BY <1>1, <1>3, <1>5, <1>6 DEF StackIs

\* What is known of the top of the stack.
LEMMA TopKnown ==
  ASSUME IInv, CopyInv, Busy
  PROVE  /\ TypeOK /\ Top \in Frames /\ Top.dir \in Paths \ {<<>>} /\ Top.dirs \subseteq STRING
         /\ Top.files \subseteq Paths \ {<<>>} /\ FrameWalked(Top) /\ tmp # <<>>
         /\ RemotePath(Top.dir) \in Paths /\ OfVersion(RemotePath(Top.dir)) /\ RemotePath(Top.dir) # <<>>
         /\ NoFileIsFolder(remote \cup Uploads)
<1>1. /\ TypeOK /\ Downloading /\ tmp # <<>> /\ NoFileIsFolder(remote \cup Uploads)
  BY DEF IInv, TypeOK, Busy, CopyInv
<1>2. /\ Top \in Frames /\ Top.dir \in Paths \ {<<>>} /\ Top.dirs \subseteq STRING /\ Top.files \subseteq Paths \ {<<>>}
      /\ Len(dl.stack) \in DOMAIN dl.stack /\ Top = dl.stack[Len(dl.stack)]
  BY <1>1, TopOfStack
<1>3. FrameWalked(Top)
  BY <1>1, <1>2 DEF FrameWalked, CopyInv, ShareWalked
<1>4. RemotePath(Top.dir) \in Paths
  BY <1>1, <1>2, RemotePaths
<1>5. OfVersion(RemotePath(Top.dir))
  BY <1>1, <1>2, RemoteIsOfVersion
<1> QED
  BY <1>1, <1>2, <1>3, <1>4, <1>5 DEF OfVersion

\* The folder on top of the stack goes on; no files are copied.
GoesOnAs(frame) == \A f \in remote : StillToCome(Top, f) => Exempt(f) \/ StillToCome(frame, f)

LEMMA FrameReplaced ==
  ASSUME IInv, CopyInv, Busy, UNCHANGED DownloadLeaves, NEW frame \in Frames, Become(frame), SameFiles,
         swallowed => swallowed', ~ disturbed /\ ~ swallowed' => GoesOnAs(frame), FrameWalked(frame)
  PROVE  CopyInv'
<1>1. StackIs({frame})
  BY BecomeIs DEF IInv
<1>2. FilesKept /\ FilesWhereTheyWere'
  BY SameFilesKept DEF DownloadLeaves, Quiet
<1>3. ~ disturbed /\ ~ swallowed' => HandedOn({frame})
  BY DEF GoesOnAs, HandedOn
<1>4. \A g \in {frame} : FrameWalked(g)
  OBVIOUS
<1> QED
  BY <1>1, <1>2, <1>3, <1>4, TopReplaced

LEMMA FrameDropped ==
  ASSUME IInv, CopyInv, Busy, UNCHANGED DownloadLeaves, Pop, SameFiles,
         swallowed => swallowed', ~ disturbed /\ ~ swallowed' => \A f \in remote : ~ StillToCome(Top, f)
  PROVE  CopyInv'
<1>1. StackIs({})
  BY PopIs DEF IInv
<1>2. FilesKept /\ FilesWhereTheyWere'
  BY SameFilesKept DEF DownloadLeaves, Quiet
<1>3. ~ disturbed /\ ~ swallowed' => HandedOn({})
  BY DEF HandedOn
<1>4. \A g \in {} : FrameWalked(g)
  OBVIOUS
<1> QED
  BY <1>1, <1>2, <1>3, <1>4, TopReplaced

LEMMA CheckFolderCopies ==
  ASSUME IInv, CopyInv, CheckFolder
  PROVE  CopyInv'
<1> DEFINE p == RemotePath(Top.dir)
           next == [Top EXCEPT !.at = "list"]
<1>0. Busy /\ UNCHANGED DownloadLeaves /\ Top.at = "check"
  BY DEF CheckFolder
<1>1. /\ TypeOK /\ Top \in Frames /\ FrameWalked(Top) /\ p # <<>>
  BY <1>0, TopKnown
<1>2. \/ FailedCall \/ (Fail /\ SameTmp)
      \/ IsDirectory(base.fs, p) /\ Become(next) /\ SameTmp
      \/ ~ IsDirectory(base.fs, p) /\ base.fs = "s3" /\ Pop /\ SameTmp
  BY DEF CheckFolder
<1>3. CASE FailedCall \/ (Fail /\ SameTmp)
  BY <1>0, <1>3, FailureCopies DEF FailedCall, SameTmp
<1>4. CASE IsDirectory(base.fs, p) /\ Become(next) /\ SameTmp
  <2>1. next \in Frames /\ next.at = "list" /\ next.dir = Top.dir /\ next.files = Top.files
    BY <1>1 DEF Frames
  <2> HIDE DEF next
  <2>2. FrameWalked(next)
    BY <1>1, <1>4, <2>1 DEF FrameWalked, IsDirectory, AzureIsDirectory, IsBlobStoragePath
  <2>3. GoesOnAs(next)
    BY <1>0, <2>1 DEF GoesOnAs, StillToCome
  <2> QED
    BY <1>0, <1>4, <2>1, <2>2, <2>3, FrameReplaced, SameTmpKeepsFiles DEF SameTmp
<1>5. CASE ~ IsDirectory(base.fs, p) /\ base.fs = "s3" /\ Pop /\ SameTmp
  <2>1. Below(p) = {}
    BY <1>1, <1>5 DEF IsDirectory, S3IsDirectory
  <2>2. \A f \in remote : ~ StillToCome(Top, f)
    BY <1>0, <2>1 DEF StillToCome
  <2> QED
    BY <1>0, <1>5, <2>2, FrameDropped, SameTmpKeepsFiles DEF SameTmp
<1> QED
  BY <1>2, <1>3, <1>4, <1>5

LEMMA DescendedCopies ==
  ASSUME IInv, CopyInv, Descended
  PROVE  CopyInv'
<1> DEFINE next == [Top EXCEPT !.at = "fetch"]
<1>0. Busy /\ UNCHANGED DownloadLeaves /\ Top.at = "descend" /\ Top.dirs = {} /\ Become(next) /\ UNCHANGED <<tmp, swallowed>>
  BY DEF Descended
<1>1. Top \in Frames /\ FrameWalked(Top)
  BY <1>0, TopKnown
<1>2. next \in Frames /\ next.at = "fetch" /\ next.dir = Top.dir /\ next.files = Top.files
  BY <1>1 DEF Frames
<1> HIDE DEF next
<1>3. FrameWalked(next)
  BY <1>0, <1>1, <1>2 DEF FrameWalked
<1>4. GoesOnAs(next)
  BY <1>0, <1>2 DEF GoesOnAs, StillToCome
<1> QED
  BY <1>0, <1>2, <1>3, <1>4, FrameReplaced, SameTmpKeepsFiles

LEMMA EndFolderCopies ==
  ASSUME IInv, CopyInv, EndFolder
  PROVE  CopyInv'
<1>0. Busy /\ UNCHANGED DownloadLeaves /\ Top.at = "fetch" /\ Top.files = {} /\ Pop /\ UNCHANGED <<tmp, swallowed>>
  BY DEF EndFolder
<1>1. \A f \in remote : ~ StillToCome(Top, f)
  BY <1>0 DEF StillToCome
<1> QED
  BY <1>0, <1>1, FrameDropped, SameTmpKeepsFiles

\* What is in a folder of the stack, by its remote path.
LEMMA TopChildren ==
  ASSUME IInv, CopyInv, Busy, NEW n \in STRING
  PROVE  RemotePath(Append(Top.dir, n)) = Append(RemotePath(Top.dir), n)
         /\ RemotePath(Top.dir \o <<n>>) = Append(RemotePath(Top.dir), n)
<1>1. TypeOK /\ Top.dir \in Paths
  BY TopKnown
<1>2. InFolder(Top.dir, n)
  BY <1>1, RemoteChild
<1> QED
  BY <1>2, Zenon DEF InFolder

LEMMA ListSubdirsCopies ==
  ASSUME IInv, CopyInv, ListSubdirs, base.fs \in {"gcs", "az", "azfs"}
  PROVE  CopyInv'
<1> DEFINE p == RemotePath(Top.dir)
           dirs == Subdirs(base.fs, p)
<1>0. Busy /\ UNCHANGED DownloadLeaves /\ Top.at = "list"
  BY DEF ListSubdirs
<1>1. /\ TypeOK /\ Top \in Frames /\ FrameWalked(Top) /\ OfVersion(p) /\ p \in Paths
  BY <1>0, TopKnown
<1>2. \/ FailedCall \/ (Fail /\ SameTmp)
      \/ Become([Top EXCEPT !.at = "files", !.dirs = dirs]) /\ SameTmp
      \/ \E d \in dirs : Become([Top EXCEPT !.at = "files", !.dirs = dirs \ {d}]) /\ swallowed' = TRUE /\ UNCHANGED tmp
  BY DEF ListSubdirs
<1>3. dirs \subseteq STRING
  BY <1>1, ListedAreNames
<1>4. CASE FailedCall \/ (Fail /\ SameTmp)
  BY <1>0, <1>4, FailureCopies DEF FailedCall, SameTmp
<1> HIDE DEF dirs
<1>5. ASSUME NEW some \in SUBSET STRING
      PROVE  LET next == [Top EXCEPT !.at = "files", !.dirs = some]
             IN  /\ next \in Frames /\ next.at = "files" /\ next.dir = Top.dir /\ next.dirs = some /\ next.files = Top.files
                 /\ FrameWalked(next)
  <2> DEFINE next == [Top EXCEPT !.at = "files", !.dirs = some]
  <2>1. next \in Frames /\ next.at = "files" /\ next.dir = Top.dir /\ next.dirs = some /\ next.files = Top.files
    BY <1>1 DEF Frames
  <2> HIDE DEF next
  <2>2. FrameWalked(next)
    BY <1>0, <1>1, <2>1 DEF FrameWalked
  <2> QED
    BY <2>1, <2>2 DEF next
<1>6. CASE Become([Top EXCEPT !.at = "files", !.dirs = dirs]) /\ SameTmp
  <2> DEFINE next == [Top EXCEPT !.at = "files", !.dirs = dirs]
  <2>1. /\ next \in Frames /\ next.at = "files" /\ next.dir = Top.dir /\ next.dirs = dirs
        /\ FrameWalked(next)
    BY <1>3, <1>5
  <2> HIDE DEF next
  <2>2. ASSUME ~ disturbed, NEW f \in remote, StillToCome(Top, f) PROVE Exempt(f) \/ StillToCome(next, f)
    <3>1. f \in Below(p)
      BY <1>0, <2>2 DEF StillToCome
    <3>2. base.fs = "azfs" => ShareIsDirectory(p)
      BY <1>0, <1>1, <2>2 DEF FrameWalked
    <3>3. \/ Exempt(f)
          \/ \E n \in dirs : f \in Below(Append(p, n))
          \/ \E n \in Children(p) : f = Append(p, n)
      <4> HIDE DEF p
      <4> QED
        BY <1>1, <3>1, <3>2, FoldersAreListed DEF dirs
    <3>4. CASE \E n \in dirs : f \in Below(Append(p, n))
      <4>1. PICK n \in dirs : f \in Below(Append(p, n))
        BY <3>4
      <4>2. RemotePath(Append(next.dir, n)) = Append(p, n)
        BY <1>0, <1>3, <2>1, TopChildren
      <4>3. n \in next.dirs /\ f \in Below(RemotePath(Append(next.dir, n)))
        BY <2>1, <4>1, <4>2
      <4> QED
        BY <2>1, <4>3 DEF StillToCome
    <3>5. CASE \E n \in Children(p) : f = Append(p, n)
      <4>1. PICK n \in Children(p) : f = Append(p, n)
        BY <3>5
      <4>2. n \in STRING
        BY <1>1, ChildrenAreNames
      <4>3. RemotePath(Append(next.dir, n)) = Append(p, n)
        BY <1>0, <4>2, <2>1, TopChildren
      <4>4. n \in Children(RemotePath(next.dir)) /\ f = RemotePath(Append(next.dir, n))
        BY <2>1, <4>1, <4>3
      <4> QED
        BY <2>1, <4>4 DEF StillToCome
    <3> QED
      BY <3>3, <3>4, <3>5
  <2>3. ~ disturbed => GoesOnAs(next)
    BY <2>2 DEF GoesOnAs
  <2>4. Become(next)
    BY <1>6 DEF next
  <2> QED
    BY <1>0, <1>6, <2>1, <2>3, <2>4, FrameReplaced, SameTmpKeepsFiles DEF SameTmp
<1>7. CASE \E d \in dirs : Become([Top EXCEPT !.at = "files", !.dirs = dirs \ {d}]) /\ swallowed' = TRUE /\ UNCHANGED tmp
  <2>1. PICK d \in dirs : Become([Top EXCEPT !.at = "files", !.dirs = dirs \ {d}]) /\ swallowed' = TRUE /\ UNCHANGED tmp
    BY <1>7
  <2> DEFINE next == [Top EXCEPT !.at = "files", !.dirs = dirs \ {d}]
  <2>2. next \in Frames /\ FrameWalked(next)
    <3>1. dirs \ {d} \in SUBSET STRING
      BY <1>3
    <3> QED
      BY <1>5, <3>1
  <2>3. Become(next)
    BY <2>1
  <2> HIDE DEF next
  <2> QED
    BY <1>0, <2>1, <2>2, <2>3, FrameReplaced, SameTmpKeepsFiles
<1> QED
  BY <1>2, <1>4, <1>6, <1>7

LEMMA ListFilesCopies ==
  ASSUME IInv, CopyInv, ListFiles, base.fs \in {"gcs", "az", "azfs"}
  PROVE  CopyInv'
<1> DEFINE p == RemotePath(Top.dir)
           names == Files(base.fs, p)
           files == {<<f>> : f \in Files(base.fs, p)}
           next == [Top EXCEPT !.at = "descend", !.files = files]
<1>0. Busy /\ UNCHANGED DownloadLeaves /\ Top.at = "files"
  BY DEF ListFiles
<1>1. /\ TypeOK /\ Top \in Frames /\ FrameWalked(Top) /\ OfVersion(p) /\ p \in Paths /\ NoFileIsFolder(remote \cup Uploads)
  BY <1>0, TopKnown
<1>2. ((Fail \/ Become(next)) /\ SameTmp) \/ FailedCall
  BY DEF ListFiles
<1>3. names \subseteq STRING
  BY <1>1, ListedAreNames
<1>4. files \in SUBSET (Paths \ {<<>>})
  <2>1. \A n \in STRING : <<n>> \in Paths \ {<<>>}
    BY ShortPaths
  <2> QED
    BY <1>3, <2>1
<1>5. CASE FailedCall \/ (Fail /\ SameTmp)
  BY <1>0, <1>5, FailureCopies DEF FailedCall, SameTmp
<1>6. CASE Become(next) /\ SameTmp
  <2>0. files = {<<n>> : n \in names}
    OBVIOUS
  <2>1. next \in Frames /\ next.at = "descend" /\ next.dir = Top.dir /\ next.dirs = Top.dirs /\ next.files = files
    <3> HIDE DEF files
    <3> QED
      BY <1>1, <1>4 DEF Frames
  <2> HIDE DEF next, names, files
  <2>2. \A n \in names : RemotePath(Top.dir \o <<n>>) = Append(p, n)
    BY <1>0, <1>3, TopChildren
  <2>3. FrameWalked(next)
    <3> SUFFICES ASSUME base.fs = "azfs", ~ disturbed
                 PROVE  ShareIsDirectory(p) /\ \A g \in files : RemotePath(Top.dir \o g) \in remote
      BY <2>1 DEF FrameWalked
    <3>1. ShareIsDirectory(p)
      BY <1>0, <1>1 DEF FrameWalked
    <3>2. \A n \in names : Append(p, n) \in remote
      <4> HIDE DEF p
      <4> QED
        BY <3>1, ShareHasListed DEF names
    <3> HIDE DEF p
    <3> QED
      BY <2>0, <2>2, <3>1, <3>2
  <2>4. ASSUME ~ disturbed, NEW f \in remote, StillToCome(Top, f) PROVE Exempt(f) \/ StillToCome(next, f)
    <3>1. \/ \E n \in Top.dirs : f \in Below(RemotePath(Append(Top.dir, n)))
          \/ \E n \in Children(p) : f = RemotePath(Append(Top.dir, n))
      BY <1>0, <2>4 DEF StillToCome
    <3>2. CASE \E n \in Top.dirs : f \in Below(RemotePath(Append(Top.dir, n)))
      BY <2>1, <3>2 DEF StillToCome
    <3>3. CASE \E n \in Children(p) : f = RemotePath(Append(Top.dir, n))
      <4>1. PICK n \in Children(p) : f = RemotePath(Append(Top.dir, n))
        BY <3>3
      <4>2. n \in STRING
        BY <1>1, ChildrenAreNames
      <4>3. f = Append(p, n)
        BY <1>0, <4>1, <4>2, TopChildren
      <4>4. base.fs = "azfs" => ShareIsDirectory(p)
        BY <1>0, <1>1, <2>4 DEF FrameWalked
      <4>5. Exempt(f) \/ n \in names
        <5> HIDE DEF p
        <5>1. Append(p, n) \in remote
          BY <4>3
        <5>2. Exempt(Append(p, n)) \/ n \in Files(base.fs, p)
          BY <1>1, <4>4, <5>1, FilesAreListed
        <5> QED
          BY <4>3, <5>2 DEF names
      <4>6. ASSUME n \in names PROVE \E g \in next.files : f = RemotePath(next.dir \o g)
        <5>1. <<n>> \in files /\ f = RemotePath(Top.dir \o <<n>>)
          BY <2>0, <2>2, <4>3, <4>6
        <5> QED
          BY <2>1, <5>1
      <4>7. ASSUME n \in names PROVE StillToCome(next, f)
        BY <2>1, <4>6, <4>7 DEF StillToCome
      <4> QED
        BY <4>5, <4>7
    <3> QED
      BY <3>1, <3>2, <3>3
  <2>5. ~ disturbed => GoesOnAs(next)
    BY <2>4 DEF GoesOnAs
  <2> QED
    BY <1>0, <1>6, <2>1, <2>3, <2>5, FrameReplaced, SameTmpKeepsFiles DEF SameTmp
<1> QED
  BY <1>2, <1>5, <1>6

LEMMA DescendCopies ==
  ASSUME IInv, CopyInv, Descend
  PROVE  CopyInv'
<1> DEFINE d == CHOOSE e \in Top.dirs : TRUE
           dir == Append(Top.dir, d)
           rest == [Top EXCEPT !.dirs = @ \ {d}]
           pushed == [dl EXCEPT !.stack = Append(Front(@), rest) \o <<Frame(dir)>>]
<1>0. Busy /\ UNCHANGED DownloadLeaves /\ Top.at = "descend" /\ Top.dirs # {}
  BY DEF Descend
<1>1. /\ TypeOK /\ Top \in Frames /\ FrameWalked(Top) /\ Top.dirs \subseteq STRING /\ Top.dir \in Paths \ {<<>>} /\ tmp # <<>>
  BY <1>0, TopKnown
<1>2. \/ FailedCall
      \/ MkDir(dir) /\ UNCHANGED swallowed /\ dl' = pushed
      \/ Pop /\ swallowed' = TRUE /\ UNCHANGED tmp
  BY DEF Descend
<1>3. CASE FailedCall
  BY <1>0, <1>3, FailureCopies DEF FailedCall, SameTmp
<1>4. CASE Pop /\ swallowed' = TRUE /\ UNCHANGED tmp
  BY <1>0, <1>4, FrameDropped, SameTmpKeepsFiles
<1>5. CASE MkDir(dir) /\ UNCHANGED swallowed /\ dl' = pushed
  <2>1. d \in Top.dirs /\ d \in STRING
    BY <1>0, <1>1
  <2> HIDE DEF d
  <2>2. dir \in Paths \ {<<>>}
    BY <1>1, <2>1, LongerPath
  <2>3. rest \in Frames /\ rest.at = "descend" /\ rest.dir = Top.dir /\ rest.dirs = Top.dirs \ {d} /\ rest.files = Top.files
    BY <1>0, <1>1 DEF Frames
  <2>4. Frame(dir) \in Frames /\ Frame(dir).at = "check" /\ Frame(dir).dir = dir /\ Frame(dir).files = {}
    <3> HIDE DEF dir
    <3> QED
      BY <2>2 DEF Frame, Frames
  <2> DEFINE new == Frame(dir)
  <2>5. dl' = [dl EXCEPT !.stack = Append(Front(@), rest) \o <<new>>]
    BY <1>5
  <2> HIDE DEF rest, dir, new
  <2>6. StackIs({rest, new})
    <3>1. new \in Frames
      BY <2>4 DEF new
    <3> QED
      BY <1>0, <1>1, <2>3, <2>5, <3>1, PushIs
  <2>7. SameFiles
    BY <1>1, <1>5, MkDirKeepsFiles
  <2>8. FilesKept /\ FilesWhereTheyWere'
    BY <1>0, <2>7, SameFilesKept DEF DownloadLeaves, Quiet
  <2>9. FrameWalked(rest) /\ FrameWalked(new)
    <3>1. FrameWalked(rest)
      BY <1>0, <1>1, <2>3 DEF FrameWalked
    <3>2. new.at = "check" /\ new.files = {}
      BY <2>4 DEF new
    <3>3. FrameWalked(new)
      BY <3>2 DEF FrameWalked
    <3> QED
      BY <3>1, <3>3
  <2>10. ASSUME NEW f \in remote, StillToCome(Top, f) PROVE StillToCome(rest, f) \/ StillToCome(new, f)
    <3>1. \/ \E n \in Top.dirs : f \in Below(RemotePath(Append(Top.dir, n)))
          \/ \E g \in Top.files : f = RemotePath(Top.dir \o g)
      BY <1>0, <2>10 DEF StillToCome
    <3>2. CASE \E g \in Top.files : f = RemotePath(Top.dir \o g)
      BY <2>3, <3>2 DEF StillToCome
    <3>3. CASE \E n \in Top.dirs : f \in Below(RemotePath(Append(Top.dir, n)))
      <4>1. PICK n \in Top.dirs : f \in Below(RemotePath(Append(Top.dir, n)))
        BY <3>3
      <4>2. CASE n # d
        BY <2>3, <4>1, <4>2 DEF StillToCome
      <4>3. CASE n = d
        <5>1. f \in Below(RemotePath(new.dir)) /\ new.at = "check"
          BY <2>4, <4>1, <4>3 DEF new, dir
        <5> QED
          BY <5>1 DEF StillToCome
      <4> QED
        BY <4>2, <4>3
    <3> QED
      BY <3>1, <3>2, <3>3
  <2>11. HandedOn({rest, new})
    BY <2>10 DEF HandedOn
  <2>12. \A frame \in {rest, new} : FrameWalked(frame)
    BY <2>9
  <2> QED
    BY <1>0, <1>5, <2>6, <2>8, <2>11, <2>12, TopReplaced
<1> HIDE DEF pushed, dir
<1> QED
  BY <1>2, <1>3, <1>4, <1>5

LEMMA S3ListCopies ==
  ASSUME IInv, CopyInv, S3List
  PROVE  CopyInv'
<1> DEFINE p == RemotePath(Top.dir)
           dirs == S3Contents(p)
           next == [Top EXCEPT !.at = "classify", !.dirs = dirs]
<1>0. Busy /\ UNCHANGED DownloadLeaves /\ Top.at = "list" /\ base.fs = "s3"
  BY DEF S3List
<1>1. /\ TypeOK /\ Top \in Frames /\ p \in Paths /\ OfVersion(p)
  BY <1>0, TopKnown
<1>2. (Become(next) /\ SameTmp) \/ FailedCall
  BY DEF S3List
<1>3. dirs \subseteq STRING /\ (Complete("s3", p) => dirs = Children(p))
  BY <1>1, ListedAreNames, WholePage
<1>4. CASE FailedCall
  BY <1>0, <1>4, FailureCopies DEF FailedCall, SameTmp
<1>5. CASE Become(next) /\ SameTmp
  <2>1. next \in Frames /\ next.at = "classify" /\ next.dir = Top.dir /\ next.dirs = dirs
    <3> HIDE DEF dirs
    <3> QED
      BY <1>1, <1>3 DEF Frames
  <2> HIDE DEF next, dirs
  <2>2. FrameWalked(next)
    BY <1>0 DEF FrameWalked
  <2>3. ASSUME NEW f \in remote, StillToCome(Top, f), ~ Exempt(f) PROVE StillToCome(next, f)
    <3>1. f \in Below(p)
      BY <1>0, <2>3 DEF StillToCome
    <3>5. Complete("s3", p)
      BY <1>0, <1>1, <2>3, <3>1, CutIsExempt
    <3>2. PICK n \in Children(p) : n \in STRING /\ (f = Append(p, n) \/ f \in Below(Append(p, n)))
      BY <1>1, <3>1, BelowSplit
    <3>3. RemotePath(Append(next.dir, n)) = Append(p, n)
      BY <1>0, <2>1, <3>2, TopChildren
    <3>4. n \in next.dirs /\ (f = RemotePath(Append(next.dir, n)) \/ f \in Below(RemotePath(Append(next.dir, n))))
      BY <1>3, <2>1, <3>2, <3>3, <3>5
    <3> QED
      BY <2>1, <3>4 DEF StillToCome
  <2>4. GoesOnAs(next)
    BY <2>3 DEF GoesOnAs
  <2> QED
    BY <1>0, <1>5, <2>1, <2>2, <2>4, FrameReplaced, SameTmpKeepsFiles DEF SameTmp
<1> HIDE DEF next
<1> QED
  BY <1>2, <1>4, <1>5

LEMMA S3ClassifyCopies ==
  ASSUME IInv, CopyInv, S3Classify, base.fs = "s3"
  PROVE  CopyInv'
<1> DEFINE n == CHOOSE e \in Top.dirs : TRUE
           dir == Append(Top.dir, n)
           q == RemotePath(dir)
           found == IF S3IsDirectory(q) THEN {<<n, f>> : f \in S3Files(q)} ELSE {<<n>>}
           rest == [Top EXCEPT !.dirs = @ \ {n}, !.files = @ \cup found]
           fetch == [Top EXCEPT !.at = "fetch"]
<1>0. Busy /\ UNCHANGED DownloadLeaves /\ Top.at = "classify"
  BY DEF S3Classify
<1>1. /\ TypeOK /\ Top \in Frames /\ Top.dirs \subseteq STRING /\ Top.files \subseteq Paths \ {<<>>}
      /\ Top.dir \in Paths \ {<<>>} /\ tmp # <<>> /\ NoFileIsFolder(remote \cup Uploads)
  BY <1>0, TopKnown
<1>2. \/ Top.dirs = {} /\ Become(fetch) /\ SameTmp
      \/ Top.dirs # {} /\ Become(rest) /\ (MkDir(dir) \/ UNCHANGED tmp) /\ UNCHANGED swallowed
      \/ FailedCall
  BY DEF S3Classify
<1>3. CASE FailedCall
  BY <1>0, <1>3, FailureCopies DEF FailedCall, SameTmp
<1>4. \A frame : FrameWalked(frame)
  BY DEF FrameWalked
<1>5. CASE Top.dirs = {} /\ Become(fetch) /\ SameTmp
  <2>1. fetch \in Frames /\ fetch.at = "fetch" /\ fetch.dir = Top.dir /\ fetch.files = Top.files
    BY <1>1 DEF Frames
  <2> HIDE DEF fetch
  <2>2. GoesOnAs(fetch)
    BY <1>0, <1>5, <2>1 DEF GoesOnAs, StillToCome
  <2> QED
    BY <1>0, <1>4, <1>5, <2>1, <2>2, FrameReplaced, SameTmpKeepsFiles DEF SameTmp
<1>6. CASE Top.dirs # {} /\ Become(rest) /\ (MkDir(dir) \/ UNCHANGED tmp) /\ UNCHANGED swallowed
  <2>1. n \in Top.dirs /\ n \in STRING
    BY <1>1, <1>6
  <2> HIDE DEF n
  <2>2. dir \in Paths \ {<<>>} /\ q = Append(RemotePath(Top.dir), n) /\ q \in Paths
    <3>1. dir \in Paths \ {<<>>}
      BY <1>1, <2>1, LongerPath
    <3>2. q \in Paths
      BY <1>1, <3>1, RemotePaths
    <3>3. q = Append(RemotePath(Top.dir), n)
      BY <1>0, <2>1, TopChildren
    <3> QED
      BY <3>1, <3>2, <3>3
  <2>3. found \in SUBSET (Paths \ {<<>>})
    <3>1. S3Files(q) \subseteq STRING
      <4> HIDE DEF q
      <4> QED
        BY <1>1, <2>2, ListedAreNames
    <3>2. \A f \in STRING : <<n, f>> \in Paths \ {<<>>}
      BY <2>1, ShortPaths
    <3>3. <<n>> \in Paths \ {<<>>}
      BY <2>1, ShortPaths
    <3> HIDE DEF q
    <3> QED
      BY <3>1, <3>2, <3>3
  <2>4. /\ rest \in Frames /\ rest.at = "classify" /\ rest.dir = Top.dir /\ rest.dirs = Top.dirs \ {n}
        /\ rest.files = Top.files \cup found
    <3> HIDE DEF found
    <3> QED
      BY <1>0, <1>1, <2>3 DEF Frames
  <2>5. SameFiles
    <3> HIDE DEF dir
    <3> QED
      BY <1>1, <1>6, MkDirKeepsFiles, SameTmpKeepsFiles
  <2> HIDE DEF q
  <2>6. ASSUME NEW f \in remote, f = q \/ f \in Below(q)
        PROVE  Exempt(f) \/ \E g \in found : f = RemotePath(Top.dir \o g)
    <3>1. IF S3IsDirectory(q) THEN Exempt(f) \/ \E m \in S3Files(q) : m \in STRING /\ f = Append(q, m) ELSE f = q
      <4>1. /\ TypeOK /\ NoFileIsFolder(remote \cup Uploads) /\ Top.dir \in Paths /\ Top.dir # <<>>
            /\ n \in STRING /\ q = Append(RemotePath(Top.dir), n) /\ q \in Paths
        BY <1>1, <2>1, <2>2
      <4>2. Classified(q, f)
        BY <2>6, <4>1, ObjectsAreClassified, Zenon
      <4> QED
        BY <4>2 DEF Classified
    <3>2. CASE ~ S3IsDirectory(q)
      <4>1. f = RemotePath(Top.dir \o <<n>>)
        <5>1. RemotePath(Top.dir \o <<n>>) = Append(RemotePath(Top.dir), n)
          BY <1>0, <2>1, TopChildren
        <5> QED
          BY <2>2, <3>1, <3>2, <5>1
      <4>2. <<n>> \in found
        BY <3>2
      <4> HIDE DEF found
      <4> QED
        BY <4>1, <4>2
    <3>3. CASE S3IsDirectory(q) /\ ~ Exempt(f)
      <4>1. PICK m \in S3Files(q) : m \in STRING /\ f = Append(q, m)
        BY <3>1, <3>3
      <4>2. InSubfolder(Top.dir, n, m)
        BY <1>1, <2>1, <4>1, RemoteChild
      <4>3. f = RemotePath(Top.dir \o <<n, m>>)
        BY <2>2, <4>1, <4>2, Zenon DEF InSubfolder
      <4>4. <<n, m>> \in found
        BY <3>3, <4>1
      <4> HIDE DEF found
      <4> QED
        BY <4>3, <4>4
    <3> QED
      BY <3>2, <3>3
  <2> HIDE DEF rest, found, q
  <2>7. ASSUME NEW f \in remote, StillToCome(Top, f) PROVE Exempt(f) \/ StillToCome(rest, f)
    <3>1. \/ \E e \in Top.dirs : f = RemotePath(Append(Top.dir, e)) \/ f \in Below(RemotePath(Append(Top.dir, e)))
          \/ \E g \in Top.files : f = RemotePath(Top.dir \o g)
      BY <1>0, <2>7 DEF StillToCome
    <3>2. ASSUME \E g \in Top.files \cup found : f = RemotePath(Top.dir \o g) PROVE StillToCome(rest, f)
      BY <2>4, <3>2 DEF StillToCome
    <3>3. CASE \E e \in Top.dirs : f = RemotePath(Append(Top.dir, e)) \/ f \in Below(RemotePath(Append(Top.dir, e)))
      <4>1. PICK e \in Top.dirs : f = RemotePath(Append(Top.dir, e)) \/ f \in Below(RemotePath(Append(Top.dir, e)))
        BY <3>3
      <4>2. CASE e # n
        BY <2>4, <4>1, <4>2 DEF StillToCome
      <4>3. CASE e = n
        <5>1. f = q \/ f \in Below(q)
          BY <4>1, <4>3 DEF q
        <5> QED
          BY <2>6, <3>2, <5>1
      <4> QED
        BY <4>2, <4>3
    <3> QED
      BY <3>1, <3>2, <3>3
  <2>8. GoesOnAs(rest)
    BY <2>7 DEF GoesOnAs
  <2> QED
    BY <1>0, <1>4, <1>6, <2>4, <2>5, <2>8, FrameReplaced
<1> HIDE DEF rest, fetch, dir
<1> QED
  BY <1>2, <1>3, <1>5, <1>6

\* A file is saved where it was, unless a share has changed.
LEMMA ReadWhereItWas ==
  ASSUME IInv, CopyInv, Busy, base.fs \in {"s3", "gcs", "az", "azfs"}, NEW f \in Top.files,
         NEW q \in Read(base.fs, RemotePath(Top.dir \o f))
  PROVE  (base.fs = "azfs" /\ changes < MaxChanges) \/ q = base.dir \o (Top.dir \o f)
<1> DEFINE p == RemotePath(Top.dir \o f)
<1>1. /\ TypeOK /\ FrameWalked(Top) /\ NoFileIsFolder(remote \cup Uploads)
      /\ Top.dir \in Paths /\ f \in Paths /\ f # <<>>
  BY TopKnown
<1>2. p # <<>>
  BY <1>1, RelativeOfRemote
<1>3. CASE base.fs = "azfs" /\ changes = MaxChanges
  <2>1. p \in remote
    BY <1>1, <1>3 DEF FrameWalked, CopyInv
  <2>2. ShareTarget(p) = p
    <3> HIDE DEF p
    <3> QED
      BY <1>1, <1>2, <2>1, ShareWalksToFile
  <2>3. q = p
    <3>1. q \in Read(base.fs, p)
      OBVIOUS
    <3> HIDE DEF p
    <3> QED
      BY <1>1, <2>2, <3>1, ReadsThePath
  <2> QED
    BY <2>3 DEF RemotePath
<1>4. CASE base.fs # "azfs"
  <2>1. q \in Read(base.fs, p)
    OBVIOUS
  <2>2. q = p
    <3> HIDE DEF p
    <3> QED
      BY <1>1, <1>4, <2>1, ReadsThePath
  <2> QED
    BY <2>2 DEF RemotePath
<1>5. changes = MaxChanges \/ changes < MaxChanges
  BY BoundsAssumption DEF CopyInv
<1> QED
  BY <1>3, <1>4, <1>5

\* A file that is not accepted need not be copied.
LEMMA UnacceptedIsExempt ==
  ASSUME TypeOK, NEW dir \in Paths, NEW g \in Paths, g # <<>>, ~ Accepted(base.fs, Last(g))
  PROVE  Exempt(RemotePath(dir \o g))
<1>1. Last(RemotePath(dir \o g)) = Last(g)
  BY RelativeOfRemote
<1> QED
  BY <1>1 DEF Exempt, Accepted

LEMMA FetchCopies ==
  ASSUME IInv, CopyInv, Fetch, base.fs \in {"s3", "gcs", "az", "azfs"}
  PROVE  CopyInv'
<1> DEFINE f == CHOOSE g \in Top.files : TRUE
           local == Top.dir \o f
           source == Read(base.fs, RemotePath(local))
           chosen == CHOOSE q \in source : TRUE
           L == Len(tmp)
           c == tmp[L]
           saved == [g \in DOMAIN c.files \cup {local} |-> IF g = local THEN chosen ELSE c.files[g]]
           e == [c EXCEPT !.files = saved]
           rest == [Top EXCEPT !.files = @ \ {f}]
<1>0. /\ Busy /\ UNCHANGED DownloadLeaves /\ Top.files # {} /\ Top.at = "fetch"
  BY DEF Fetch
<1>1. /\ TypeOK /\ Top \in Frames /\ Top.dir \in Paths /\ Top.files \subseteq Paths \ {<<>>}
      /\ FrameWalked(Top) /\ tmp # <<>>
  BY <1>0, TopKnown
<1>2. f \in Top.files /\ f \in Paths /\ f # <<>>
  BY <1>0, <1>1
<1>3. \/ Become(rest) /\ ~ Accepted(base.fs, Last(f)) /\ tmp' = tmp /\ UNCHANGED swallowed
      \/ Become(rest) /\ source # {} /\ tmp' = [tmp EXCEPT ![L] = e] /\ UNCHANGED swallowed
      \/ Fail /\ SameTmp
      \/ FailedCall
  BY DEF Fetch
<1>4. CASE FailedCall \/ (Fail /\ SameTmp)
  BY <1>0, <1>4, FailureCopies DEF FailedCall, SameTmp
<1> HIDE DEF f
<1>5. /\ rest \in Frames /\ rest.at = "fetch" /\ rest.dir = Top.dir /\ rest.dirs = Top.dirs
      /\ rest.files = Top.files \ {f}
  BY <1>0, <1>1 DEF Frames
<1>6. RelativePath(RemotePath(local)) = local
  BY <1>1, <1>2, RelativeOfRemote
<1> HIDE DEF rest, local, chosen
<1>7. FrameWalked(rest)
  BY <1>0, <1>1, <1>5 DEF FrameWalked
<1>8. \A g \in remote : StillToCome(Top, g) => g = RemotePath(local) \/ StillToCome(rest, g)
  BY <1>0, <1>5 DEF StillToCome, local
<1>9. CASE Become(rest) /\ ~ Accepted(base.fs, Last(f)) /\ tmp' = tmp /\ UNCHANGED swallowed
  <2>1. Exempt(RemotePath(local))
    BY <1>1, <1>2, <1>9, UnacceptedIsExempt DEF local
  <2>2. GoesOnAs(rest)
    BY <1>8, <2>1 DEF GoesOnAs
  <2> QED
    BY <1>0, <1>5, <1>7, <1>9, <2>2, FrameReplaced, SameTmpKeepsFiles
<1>10. CASE Become(rest) /\ source # {} /\ tmp' = [tmp EXCEPT ![L] = e] /\ UNCHANGED swallowed
  <2>1. L \in Folders /\ DOMAIN c = Copy /\ c.of = base
    BY <1>0, <1>1, LastFolder DEF TypeOK, CopyInv, Busy
  <2>2. chosen \in source
    BY <1>10 DEF chosen
  <2>3. (base.fs = "azfs" /\ changes < MaxChanges) \/ chosen = base.dir \o local
    BY <1>0, <1>2, <2>2, ReadWhereItWas DEF local
  <2>4. DOMAIN saved = DOMAIN c.files \cup {local} /\ saved[local] = chosen
        /\ \A g \in DOMAIN c.files : g # local => saved[g] = c.files[g]
    OBVIOUS
  <2> HIDE DEF saved, c
  <2>5. e.of = c.of /\ e.files = saved
    BY <2>1 DEF Copy
  <2> HIDE DEF e, L
  <2>6. /\ Len(tmp') = Len(tmp) /\ Folders' = Folders
        /\ tmp'[L] = e /\ \A i \in Folders : i # L => tmp'[i] = tmp[i]
    BY <1>1, <1>10, <2>1, TmpChanged
  <2>7. FilesKept
    BY <2>4, <2>5, <2>6 DEF FilesKept, c
  <2>8. FilesWhereTheyWere'
    <3> SUFFICES ASSUME NEW i \in Folders, NEW g \in DOMAIN tmp'[i].files
                 PROVE  (tmp'[i].of.fs = "azfs" /\ changes < MaxChanges) \/ tmp'[i].files[g] = tmp'[i].of.dir \o g
      BY <1>0, <2>6 DEF FilesWhereTheyWere, DownloadLeaves, Quiet
    <3>1. CASE i # L \/ g # local
      <4>1. tmp'[i].of = tmp[i].of /\ g \in DOMAIN tmp[i].files /\ tmp'[i].files[g] = tmp[i].files[g]
        <5>1. CASE i # L
          BY <2>6, <5>1
        <5>2. CASE i = L
          <6>1. g \in DOMAIN saved /\ g # local /\ tmp'[i] = e
            BY <2>5, <2>6, <3>1, <5>2
          <6>2. g \in DOMAIN c.files /\ saved[g] = c.files[g]
            BY <2>4, <6>1
          <6> QED
            BY <2>5, <5>2, <6>1, <6>2 DEF c
        <5> QED
          BY <5>1, <5>2
      <4>2. (tmp[i].of.fs = "azfs" /\ changes < MaxChanges) \/ tmp[i].files[g] = tmp[i].of.dir \o g
        BY <4>1 DEF CopyInv, FilesWhereTheyWere
      <4> QED
        BY <4>1, <4>2
    <3>2. CASE i = L /\ g = local
      BY <2>1, <2>3, <2>4, <2>5, <2>6, <3>2
    <3> QED
      BY <3>1, <3>2
  <2>9. HandedOn({rest})
    <3>1. local \in DOMAIN tmp'[L].files
      BY <2>4, <2>5, <2>6
    <3>2. RelativePath(RemotePath(local)) \in DOMAIN tmp'[Len(tmp)].files
      BY <1>6, <3>1 DEF L
    <3> QED
      BY <1>8, <3>2 DEF HandedOn
  <2>10. StackIs({rest})
    BY <1>0, <1>1, <1>5, <1>10, BecomeIs
  <2>11. \A frame \in {rest} : FrameWalked(frame)
    BY <1>7
  <2> QED
    BY <1>0, <1>10, <2>7, <2>8, <2>9, <2>10, <2>11, TopReplaced
<1> HIDE DEF e
<1> QED
  BY <1>3, <1>4, <1>9, <1>10

\* downloadModelVersions begins with a version: all its files are still to come.
LEMMA DownloadVersionCopies ==
  ASSUME IInv, CopyInv, DownloadVersion
  PROVE  CopyInv'
<1> DEFINE v == CHOOSE w \in dl.versions : TRUE
           new == Frame(<<v>>)
<1>0. /\ Downloading /\ UNCHANGED DownloadLeaves /\ UNCHANGED swallowed /\ dl.versions # {} /\ dl.stack = <<>>
      /\ MkDir(<<v>>) /\ dl' = [dl EXCEPT !.versions = @ \ {v}, !.stack = <<new>>]
  BY DEF DownloadVersion, Idle
<1>1. TypeOK /\ tmp # <<>> /\ v \in dl.versions
  BY <1>0 DEF IInv, TypeOK
<1>a. UNCHANGED <<remote, base, changes, pc, disturbed>> /\ Downloading'
  BY <1>0 DEF DownloadLeaves, Quiet, Downloading
<1> HIDE DEF v
<1>2. new.at = "check" /\ new.dir = <<v>> /\ new.files = {}
  BY DEF Frame
<1> HIDE DEF new
<1>3. dl'.all = dl.all /\ dl'.versions = dl.versions \ {v} /\ dl'.status = dl.status /\ dl'.stack = <<new>>
  BY <1>0, <1>1 DEF TypeOK, NoDownload
<1>4. DOMAIN dl'.stack = {1} /\ dl'.stack[1] = new
  BY <1>3
<1>5. SameFiles
  <2> DEFINE d == <<v>>
  <2>1. MkDir(d)
    BY <1>0
  <2> HIDE DEF d
  <2> QED
    BY <1>1, <2>1, MkDirKeepsFiles
<1>6. FilesKept /\ FilesWhereTheyWere'
  BY <1>a, <1>5, SameFilesKept
<1>7. NothingMissed'
  <2> SUFFICES ASSUME dl'.status = "OK", ~ disturbed', ~ swallowed', NEW w \in dl'.all, NEW f \in Below(RemotePath(<<w>>))'
               PROVE  w \in dl'.versions \/ Copied(f)' \/ Exempt(f)' \/ \E k \in DOMAIN dl'.stack : StillToCome(dl.stack[k], f)'
    BY DEF NothingMissed
  <2>1. w \in dl.all /\ f \in Below(RemotePath(<<w>>))
    BY <1>a, <1>3, SameWords
  <2>2. w \in dl.versions \/ Copied(f) \/ Exempt(f)
    <3>1. w \in dl.versions \/ Copied(f) \/ Exempt(f) \/ \E k \in DOMAIN dl.stack : StillToCome(dl.stack[k], f)
      BY <1>0, <1>a, <1>3, <2>1 DEF CopyInv, NothingMissed
    <3>2. DOMAIN dl.stack = {}
      BY <1>0
    <3> QED
      BY <3>1, <3>2
  <2>3. CASE Exempt(f)
    BY <1>a, <2>3, SameWords
  <2>4. CASE Copied(f)
    <3>1. Len(tmp) \in Folders
      BY <1>1, LastFolder
    <3>2. RelativePath(f) \in DOMAIN tmp'[Len(tmp')].files
      BY <1>5, <2>4, <3>1 DEF Copied, SameFiles
    <3> QED
      BY <1>a, <3>2, SameWords DEF Copied
  <2>5. CASE w = v
    <3>1. f \in Below(RemotePath(new.dir))
      BY <1>2, <2>1, <2>5
    <3>2. PICK frame : frame = new
      OBVIOUS
    <3>3. StillToCome(frame, f)
      BY <1>2, <3>1, <3>2 DEF StillToCome
    <3>a. StillToCome(frame, f)'
      BY <1>a, <3>3, SameWords
    <3>b. dl'.stack[1] = frame
      BY <1>4, <3>2
    <3>4. StillToCome(dl.stack[1], f)'
      BY <3>a, <3>b DEF StillToCome
    <3> QED
      BY <1>4, <3>4
  <2> QED
    BY <1>3, <2>2, <2>3, <2>4, <2>5
<1>8. ShareWalked'
  BY <1>2, <1>4 DEF ShareWalked
<1>9. tmp'[Len(tmp')].of = base'
  <2>1. Len(tmp) \in Folders
    BY <1>1, LastFolder
  <2> QED
    BY <1>0, <1>a, <1>5, <2>1 DEF CopyInv, SameFiles
<1> QED
  BY <1>a, <1>6, <1>7, <1>8, <1>9 DEF CopyInv

\* Steps of the download.
LEMMA DownloadCopies ==
  ASSUME IInv, CopyInv, DownloadStep, ~ EndDownload
  PROVE  CopyInv'
<1>1. ASSUME DownloadTree, base.fs \in {"az", "azfs", "gcs"} PROVE CopyInv'
  BY <1>1, CheckFolderCopies, ListSubdirsCopies, ListFilesCopies, DescendCopies, DescendedCopies, FetchCopies,
     EndFolderCopies DEF DownloadTree
<1>2. ASSUME S3DownloadFileFolder PROVE CopyInv'
  BY <1>2, CheckFolderCopies, S3ListCopies, S3ClassifyCopies, FetchCopies, EndFolderCopies DEF S3DownloadFileFolder
<1> QED
  BY <1>1, <1>2, DownloadVersionCopies
     DEF DownloadStep, BlobDownloadFileFolderTo, ShareDownloadFileFolderTo, GCSDownloadFileFolder

\* Files are kept as they are, or deleted.
FilesFewer ==
  \A i \in Folders' : i \in Folders /\ tmp'[i].of = tmp[i].of
    /\ DOMAIN tmp'[i].files \subseteq DOMAIN tmp[i].files
    /\ \A f \in DOMAIN tmp'[i].files : tmp'[i].files[f] = tmp[i].files[f]

\* No download: the invariant is about the folders.
LEMMA NotDownloading ==
  ASSUME CopyInv, ~ Downloading', FilesFewer, NoFileIsFolder(remote' \cup Uploads),
         changes' \in 0 .. MaxChanges, changes' <= changes, changes' = MaxChanges => ~ disturbed'
  PROVE  CopyInv'
<1>1. FilesWhereTheyWere'
  <2> SUFFICES ASSUME NEW i \in Folders', NEW f \in DOMAIN tmp'[i].files
               PROVE  (tmp'[i].of.fs = "azfs" /\ changes' < MaxChanges) \/ tmp'[i].files[f] = tmp'[i].of.dir \o f
    BY DEF FilesWhereTheyWere
  <2>1. /\ i \in Folders /\ tmp'[i].of = tmp[i].of /\ f \in DOMAIN tmp[i].files /\ tmp'[i].files[f] = tmp[i].files[f]
    BY DEF FilesFewer
  <2>2. (tmp[i].of.fs = "azfs" /\ changes < MaxChanges) \/ tmp[i].files[f] = tmp[i].of.dir \o f
    BY <2>1 DEF CopyInv, FilesWhereTheyWere
  <2>3. changes < MaxChanges => changes' < MaxChanges
    BY BoundsAssumption DEF CopyInv
  <2> QED
    BY <2>1, <2>2, <2>3
<1>2. NothingMissed' /\ ShareWalked'
  BY DEF NothingMissed, ShareWalked
<1> QED
  BY <1>1, <1>2 DEF CopyInv

\* What the steps outside a download leave alone.
LEMMA QuietStep ==
  ASSUME CopyInv, ~ Downloading', FilesFewer, UNCHANGED Quiet, disturbed' => disturbed
  PROVE  CopyInv'
<1>1. /\ UNCHANGED <<remote, changes>> /\ changes \in 0 .. MaxChanges /\ (changes = MaxChanges => ~ disturbed)
      /\ NoFileIsFolder(remote \cup Uploads)
  BY DEF Quiet, CopyInv
<1>2. changes' <= changes
  BY <1>1, BoundsAssumption
<1> QED
  BY <1>1, <1>2, NotDownloading

LEMMA SameTmpFewer ==
  ASSUME tmp' = tmp
  PROVE  FilesFewer
BY DEF FilesFewer, Folders

\* cleanupModelTmpFiles deletes files and changes none.
LEMMA CleanupFewer ==
  ASSUME TypeOK, NEW v, NEW path \in LocalPaths, CleanupModelTmpFiles(path, v)
  PROVE  FilesFewer
<1>1. CASE path \in {Base, Unset} \/ <<v>> \notin tmp[path].dirs
  BY <1>1, SameTmpFewer DEF CleanupModelTmpFiles
<1>2. CASE path \notin {Base, Unset} /\ <<v>> \in tmp[path].dirs
  <2> DEFINE c == tmp[path]
             dirs == {d \in c.dirs : d[1] # v}
             files == [f \in {g \in DOMAIN c.files : g[1] # v} |-> c.files[f]]
             e == [c EXCEPT !.made = (dirs # {}), !.dirs = dirs, !.files = files]
  <2>1. path \in Folders
    BY <1>2 DEF LocalPaths
  <2>2. tmp' = [tmp EXCEPT ![path] = e]
    BY <1>2, Zenon DEF CleanupModelTmpFiles, Without
  <2>3. DOMAIN c = Copy
    BY <2>1 DEF TypeOK
  <2>4. DOMAIN files \subseteq DOMAIN c.files /\ \A f \in DOMAIN files : files[f] = c.files[f]
    OBVIOUS
  <2>5. e.of = c.of /\ e.files = files
    <3> HIDE DEF c, dirs, files
    <3> QED
      BY <2>3 DEF Copy
  <2> HIDE DEF e, files
  <2>6. /\ Folders' = Folders /\ tmp'[path] = e /\ \A i \in Folders : i # path => tmp'[i] = tmp[i]
    BY <2>1, <2>2, TmpChanged
  <2>7. ASSUME NEW i \in Folders PROVE /\ tmp'[i].of = tmp[i].of /\ DOMAIN tmp'[i].files \subseteq DOMAIN tmp[i].files
                                       /\ \A f \in DOMAIN tmp'[i].files : tmp'[i].files[f] = tmp[i].files[f]
    <3>1. CASE i = path
      BY <2>4, <2>5, <2>6, <3>1
    <3>2. CASE i # path
      BY <2>6, <3>2
    <3> QED
      BY <3>1, <3>2
  <2> QED
    BY <2>6, <2>7 DEF FilesFewer
<1> QED
  BY <1>1, <1>2

\* A download begins: the new folder is empty, and all the versions are still to come.
LEMMA FolderMadeCopies ==
  ASSUME TypeOK, CopyInv, NEW vs,
         tmp' = Append(tmp, [made |-> TRUE, of |-> base, dirs |-> {}, files |-> <<>>]),
         dl' = [NoDownload EXCEPT !.all = vs, !.versions = vs],
         UNCHANGED Quiet, UNCHANGED disturbed
  PROVE  CopyInv'
<1> DEFINE c == [made |-> TRUE, of |-> base, dirs |-> {}, files |-> <<>>]
<1>0. UNCHANGED <<remote, base, changes>>
  BY DEF Quiet
<1>1. c.of = base /\ DOMAIN c.files = {}
  OBVIOUS
<1>2. /\ Len(tmp) \in Nat /\ Folders = 1 .. Len(tmp)
      /\ Len(tmp') = Len(tmp) + 1 /\ Folders' = 1 .. Len(tmp) + 1
      /\ tmp'[Len(tmp) + 1] = c /\ \A i \in Folders : tmp'[i] = tmp[i]
  <2> HIDE DEF c
  <2> QED
    BY TmpAppended DEF c
<1>3. dl'.all = vs /\ dl'.versions = vs /\ dl'.stack = <<>>
  BY DEF NoDownload
<1> HIDE DEF c
<1>4. FilesWhereTheyWere'
  <2> SUFFICES ASSUME NEW i \in Folders', NEW f \in DOMAIN tmp'[i].files
               PROVE  (tmp'[i].of.fs = "azfs" /\ changes' < MaxChanges) \/ tmp'[i].files[f] = tmp'[i].of.dir \o f
    BY DEF FilesWhereTheyWere
  <2>1. i \in Folders \/ i = Len(tmp) + 1
    BY <1>2
  <2>2. i \in Folders
    BY <1>1, <1>2, <2>1
  <2>3. tmp'[i] = tmp[i]
    BY <1>2, <2>2
  <2> QED
    BY <1>0, <2>2, <2>3 DEF CopyInv, FilesWhereTheyWere
<1>5. NothingMissed' /\ ShareWalked'
  BY <1>3 DEF NothingMissed, ShareWalked
<1>6. tmp'[Len(tmp')].of = base'
  BY <1>0, <1>1, <1>2
<1> QED
  BY <1>0, <1>4, <1>5, <1>6 DEF CopyInv

LEMMA BeginDownloadCopies ==
  ASSUME TypeOK, CopyInv, NEW vs, NEW back \in {"adding", "reloading"}, Download(vs, back),
         UNCHANGED Quiet, UNCHANGED disturbed
  PROVE  CopyInv'
<1>1. CASE vs = {} \/ base.fs = "local"
  <2>1. tmp' = tmp /\ pc' = back
    BY <1>1 DEF Download
  <2>2. ~ Downloading'
    BY <2>1 DEF Downloading
  <2> QED
    BY <2>1, <2>2, QuietStep, SameTmpFewer
<1>2. CASE ~ (vs = {} \/ base.fs = "local")
  <2>1. /\ tmp' = Append(tmp, [made |-> TRUE, of |-> base, dirs |-> {}, files |-> <<>>])
        /\ dl' = [NoDownload EXCEPT !.all = vs, !.versions = vs]
    BY <1>2 DEF Download
  <2> QED
    BY <2>1, FolderMadeCopies
<1> QED
  BY <1>1, <1>2

LEMMA ManagerCopies ==
  ASSUME IInv, CopyInv, ManagerStep \/ EndDownload
  PROVE  CopyInv'
<1>0. TypeOK /\ todo \subseteq Versions /\ \A v \in Versions : inst[v].path \in LocalPaths
  BY DEF IInv, TypeOK
<1> USE DEF history
<1>1. CASE AddVersions
  BY <1>0, <1>1, BeginDownloadCopies DEF AddVersions
<1>2. CASE ReloadVersion
  <2>1. UNCHANGED Quiet /\ UNCHANGED disturbed
    BY <1>2 DEF ReloadVersion
  <2>2. CASE Download(toReload, "reloading")
    BY <1>0, <2>1, <2>2, BeginDownloadCopies
  <2>3. CASE pc' = "reloading" /\ UNCHANGED <<tmp, dl>>
    BY <2>1, <2>3, QuietStep, SameTmpFewer DEF Downloading
  <2> QED
    BY <1>2, <2>2, <2>3 DEF ReloadVersion
<1>3. CASE AddVersion
  <2>1. UNCHANGED Quiet /\ UNCHANGED disturbed /\ ~ Downloading'
    BY <1>3 DEF AddVersion, Downloading
  <2>2. tmp' = tmp \/ CleanupModelTmpFiles(localPath, Current)
    BY <1>3 DEF AddVersion
  <2>3. localPath \in LocalPaths
    BY <1>0 DEF TypeOK
  <2> QED
    BY <1>0, <2>1, <2>2, <2>3, CleanupFewer, SameTmpFewer, QuietStep
<1>4. CASE CleanupBeforeRetire
  <2>1. UNCHANGED Quiet /\ UNCHANGED disturbed /\ ~ Downloading' /\ todo # {}
    BY <1>4 DEF CleanupBeforeRetire, Downloading
  <2>2. CleanupModelTmpFiles(inst[Current].path, Current)
    BY <1>4 DEF CleanupBeforeRetire
  <2>3. inst[Current].path \in LocalPaths
    BY <1>0, <2>1 DEF Current
  <2> QED
    BY <1>0, <2>1, <2>2, <2>3, CleanupFewer, QuietStep
<1>5. CASE CheckDirectory \/ ReadAvailableVersions \/ VersionsAdded \/ ReloadModel \/ VersionsReloaded \/ RetireModel \/ EndRound
  <2>1. UNCHANGED Quiet /\ UNCHANGED disturbed /\ tmp' = tmp /\ ~ Downloading'
    BY <1>5 DEF CheckDirectory, ReadAvailableVersions, VersionsAdded, ReloadModel, VersionsReloaded, RetireModel, EndRound,
                copies, Downloading
  <2> QED
    BY <2>1, QuietStep, SameTmpFewer
<1>6. CASE EndDownload
  <2>1. UNCHANGED Quiet /\ UNCHANGED disturbed /\ tmp' = tmp /\ ~ Downloading'
    BY <1>6 DEF EndDownload, Downloading
  <2> QED
    BY <2>1, QuietStep, SameTmpFewer
<1> QED
  BY <1>1, <1>2, <1>3, <1>4, <1>5, <1>6 DEF ManagerStep

LEMMA StartRoundCopies ==
  ASSUME CopyInv, StartRound
  PROVE  CopyInv'
<1>1. UNCHANGED Quiet /\ disturbed' = FALSE /\ tmp' = tmp /\ ~ Downloading'
  BY DEF StartRound, copies, Downloading
<1> QED
  BY <1>1, QuietStep, SameTmpFewer

\* The storage changes: nothing is promised of the download that is under way.
LEMMA StorageCopies ==
  ASSUME CopyInv, NEW files, StorageChanges(files), NoFileIsFolder(files \cup Uploads)
  PROVE  CopyInv'
<1>1. /\ changes' = changes - 1 /\ changes > 0 /\ remote' = files /\ disturbed' = TRUE
      /\ UNCHANGED <<base, tmp, pc, dl>>
  BY DEF StorageChanges, Change, copies
<1>2. changes' \in 0 .. MaxChanges /\ changes' < MaxChanges
  BY <1>1, BoundsAssumption DEF CopyInv
<1>3. FilesWhereTheyWere'
  BY <1>1, <1>2 DEF CopyInv, FilesWhereTheyWere, Folders
<1>4. NothingMissed' /\ ShareWalked'
  BY <1>1 DEF NothingMissed, ShareWalked
<1>5. Downloading' => tmp'[Len(tmp')].of = base'
  BY <1>1 DEF CopyInv, Downloading
<1> QED
  BY <1>1, <1>2, <1>3, <1>4, <1>5 DEF CopyInv

LEMMA EnvironmentCopies ==
  ASSUME CopyInv, Environment
  PROVE  CopyInv'
<1>0. NoFileIsFolder(remote \cup Uploads)
  BY DEF CopyInv
<1>1. ASSUME NEW f \in Uploads, Upload(f) PROVE CopyInv'
  <2>1. NoFileIsFolder((remote \cup {f}) \cup Uploads)
    BY <1>0 DEF NoFileIsFolder
  <2> QED
    BY <1>1, <2>1, StorageCopies DEF Upload
<1>2. ASSUME NEW p, RemoveDirectory(p) PROVE CopyInv'
  <2>1. NoFileIsFolder((remote \ Below(p)) \cup Uploads)
    BY <1>0 DEF NoFileIsFolder
  <2> QED
    BY <1>2, <2>1, StorageCopies DEF RemoveDirectory
<1>3. ASSUME NEW b \in Bases, NewConfig(b) PROVE CopyInv'
  <2>1. /\ changes' = changes - 1 /\ changes > 0 /\ UNCHANGED <<remote, tmp, disturbed>> /\ ~ Downloading'
    BY <1>3 DEF NewConfig, Change, history, Downloading
  <2>2. changes' \in 0 .. MaxChanges /\ changes' <= changes /\ changes' # MaxChanges
    BY <2>1, BoundsAssumption DEF CopyInv
  <2> QED
    BY <1>0, <2>1, <2>2, NotDownloading, SameTmpFewer
<1> QED
  BY <1>1, <1>2, <1>3 DEF Environment

LEMMA StutterCopies ==
  ASSUME CopyInv, UNCHANGED vars
  PROVE  CopyInv'
<1>0. UNCHANGED <<remote, base, tmp, pc, dl, changes, disturbed, swallowed>>
  BY DEF vars, copies, bounds, history
<1>1. Folders' = Folders /\ (Downloading' <=> Downloading)
  BY <1>0 DEF Folders, Downloading
<1>2. FilesWhereTheyWere'
  BY <1>0, <1>1 DEF CopyInv, FilesWhereTheyWere
<1>3. NothingMissed'
  <2> SUFFICES ASSUME Downloading, dl.status = "OK", ~ disturbed, ~ swallowed, NEW v \in dl.all,
                      NEW f \in Below(RemotePath(<<v>>))'
               PROVE  v \in dl.versions \/ Copied(f)' \/ Exempt(f)' \/ \E k \in DOMAIN dl.stack : StillToCome(dl.stack[k], f)'
    BY <1>0, <1>1 DEF NothingMissed
  <2>1. f \in Below(RemotePath(<<v>>))
    BY <1>0, SameWords
  <2>2. v \in dl.versions \/ Copied(f) \/ Exempt(f) \/ \E k \in DOMAIN dl.stack : StillToCome(dl.stack[k], f)
    BY <2>1 DEF CopyInv, NothingMissed
  <2>3. (Copied(f) => Copied(f)') /\ (Exempt(f) => Exempt(f)')
    BY <1>0, SameWords DEF Copied
  <2>4. ASSUME NEW k \in DOMAIN dl.stack, StillToCome(dl.stack[k], f) PROVE StillToCome(dl.stack[k], f)'
    <3>1. PICK frame : frame = dl.stack[k]
      OBVIOUS
    <3>2. StillToCome(frame, f)'
      BY <1>0, <2>4, <3>1, SameWords
    <3>3. dl'.stack[k] = frame
      BY <1>0, <3>1
    <3> QED
      BY <3>2, <3>3 DEF StillToCome
  <2> QED
    BY <2>2, <2>3, <2>4
<1>4. ShareWalked'
  <2> SUFFICES ASSUME Downloading, base.fs = "azfs", ~ disturbed, NEW k \in DOMAIN dl.stack
               PROVE  /\ dl'.stack[k].at # "check" => ShareIsDirectory(RemotePath(dl.stack[k].dir))'
                      /\ \A g \in dl'.stack[k].files : RemotePath(dl.stack[k].dir \o g)' \in remote'
    BY <1>0, <1>1 DEF ShareWalked
  <2>1. PICK frame : frame = dl.stack[k] /\ frame = dl'.stack[k]
    BY <1>0
  <2>2. /\ frame.at # "check" => ShareIsDirectory(RemotePath(frame.dir))
        /\ \A g \in frame.files : RemotePath(frame.dir \o g) \in remote
    BY <2>1 DEF CopyInv, ShareWalked
  <2>3. /\ frame.at # "check" => ShareIsDirectory(RemotePath(frame.dir))'
        /\ \A g \in frame.files : RemotePath(frame.dir \o g)' \in remote'
    BY <1>0, <2>2, SameWords
  <2> QED
    BY <2>1, <2>3
<1> QED
  BY <1>0, <1>1, <1>2, <1>3, <1>4 DEF CopyInv

LEMMA InitCopies ==
  ASSUME Init
  PROVE  CopyInv
<1>1. Folders = {} /\ ~ Downloading
  BY DEF Init, Folders, Downloading
<1>2. NoFileIsFolder(remote \cup Uploads)
  BY TreesAssumption DEF Init
<1>3. changes \in 0 .. MaxChanges /\ ~ disturbed
  BY BoundsAssumption DEF Init
<1> QED
  BY <1>1, <1>2, <1>3 DEF CopyInv, NothingMissed, ShareWalked, FilesWhereTheyWere

LEMMA NextKeepsCopies ==
  ASSUME IInv, CopyInv, [Next]_vars
  PROVE  CopyInv'
BY DownloadCopies, ManagerCopies, StartRoundCopies, EnvironmentCopies, StutterCopies DEF Next

\* While a version is downloaded, each of its files is copied, exempt or still to come, a
\* share that has not changed walks down to the folders that are read, and every copy is
\* of the file at its path.
THEOREM CopyInvariantHolds == Spec => []CopyInv
<1>1. Init => CopyInv
  BY InitCopies
<1>2. IInv /\ CopyInv /\ [Next]_vars => CopyInv'
  BY NextKeepsCopies
<1> QED
  BY <1>1, <1>2, InvariantHolds, PTL DEF Spec

\* A download that downloadModels reports as OK has every accepted file of every version,
\* whatever fails on the way, and a file is copied to where it was, for any tree of files,
\* any base path and any of the remote file systems: the recursion of downloadFileFolder
\* drops nothing but what the code leaves out on purpose or swallows.
THEOREM CopiesAreFaithful == Spec => []CopyIsFaithful
<1>1. CopyInv => CopyIsFaithful
  <2>1. ASSUME CopyInv, Idle, dl.versions = {}, dl.status = "OK", ~ disturbed, ~ swallowed,
               NEW v \in dl.all, NEW f \in Below(RemotePath(<<v>>))
        PROVE  Copied(f) \/ Exempt(f)
    <3>1. Downloading /\ DOMAIN dl.stack = {}
      BY <2>1 DEF Idle
    <3> QED
      BY <2>1, <3>1 DEF CopyInv, NothingMissed
  <2> QED
    BY <2>1 DEF CopyIsFaithful, CopyInv
<1> QED
  BY <1>1, CopyInvariantHolds, PTL
=============================================================================
