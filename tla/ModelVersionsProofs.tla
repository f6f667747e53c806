------------------------ MODULE ModelVersionsProofs ------------------------
(***************************************************************************)
(* Proofs about the versions of a model, for any finite set of versions,   *)
(* any order of their directories and any configurations.                  *)
(***************************************************************************)
EXTENDS ModelVersions, FiniteSetTheorems, WellFoundedInduction, TLAPS

\* Every set of numbers has a least member.
LEMMA LeastNumber ==
  ASSUME NEW S \in SUBSET Nat, S # {}
  PROVE  \E x \in S : \A y \in S : x =< y
<1>1. PICK x \in S : \A y \in S : ~ (<<y, x>> \in OpToRel(<, Nat))
  BY NatLessThanWellFounded, WFMin
<1>2. ASSUME NEW y \in S PROVE x =< y
  <2>1. ~ (<<y, x>> \in OpToRel(<, Nat))
    BY <1>1
  <2>2. x \in Nat /\ y \in Nat
    OBVIOUS
  <2>3. ~ (y < x)
    BY <2>1, <2>2 DEF OpToRel
  <2> QED
    BY <2>2, <2>3
<1> QED
  BY <1>2

\* The loops work on a version of their list.
LEMMA MinIsIn ==
  ASSUME NEW S \in SUBSET Nat, S # {}
  PROVE  Min(S) \in S
BY LeastNumber DEF Min

\* A higher number has fewer members of a finite set above it.
LEMMA FewerAbove ==
  ASSUME NEW S \in SUBSET Nat, IsFiniteSet(S), NEW x \in S, NEW y \in S, y > x
  PROVE  Cardinality({w \in S : w > y}) < Cardinality({w \in S : w > x})
<1> DEFINE X == {w \in S : w > x}
           Y == {w \in S : w > y}
<1>1. x \in Nat /\ y \in Nat /\ \A w \in S : w \in Nat
  OBVIOUS
<1>2. Y \subseteq X /\ y \in X /\ y \notin Y
  <2>1. \A w \in S : w > y => w > x
    BY <1>1
  <2>2. y > x /\ ~ (y > y)
    BY <1>1
  <2> QED
    BY <2>1, <2>2
<1>3. IsFiniteSet(X) /\ IsFiniteSet(Y)
  BY FS_Subset
<1> HIDE DEF X, Y
<1>4. Cardinality(X) \in Nat /\ Cardinality(Y) \in Nat
  BY <1>3, FS_CardinalityType
<1>5. Cardinality(Y) <= Cardinality(X) /\ Cardinality(Y) # Cardinality(X)
  BY <1>2, <1>3, FS_Subset
<1>6. Cardinality(Y) < Cardinality(X)
  BY <1>4, <1>5
<1> QED
  BY <1>6 DEF X, Y

\* A finite set of version numbers has a highest one: of its members, the one with
\* the fewest members above it.
LEMMA MaxIsIn ==
  ASSUME NEW S \in SUBSET Nat, IsFiniteSet(S), S # {}
  PROVE  Max(S) \in S
<1> DEFINE Above(y) == Cardinality({w \in S : w > y})
           Counts == {Above(y) : y \in S}
<1>1. \A y \in S : Above(y) \in Nat
  BY FS_Subset, FS_CardinalityType
<1> HIDE DEF Above
<1>2. Counts \in SUBSET Nat /\ Counts # {}
  BY <1>1
<1>3. PICK k \in Counts : \A j \in Counts : k =< j
  BY <1>2, LeastNumber
<1>4. PICK x \in S : k = Above(x)
  BY <1>3
<1>5. \A y \in S : ~ (Above(y) < Above(x))
  BY <1>1, <1>3, <1>4
<1>6. \A y \in S : ~ (y > x)
  BY <1>5, FewerAbove DEF Above
<1>7. \A y \in S : x >= y
  BY <1>6
<1> QED
  BY <1>7 DEF Max

\* Removing no failed version removes none.
LEMMA RemoveNothing ==
  ASSUME NEW vs
  PROVE  RemoveFailed(vs, <<>>) = vs
<1>1. DOMAIN <<>> = {}
  OBVIOUS
<1> QED
  BY <1>1 DEF RemoveFailed, FoldLeft, MapThenFoldSet

\* The manager's loops work on one of the versions.
LEMMA CurrentIsIn ==
  ASSUME TypeOK, todo # {}
  PROVE  Current \in todo /\ Current \in Versions
BY VersionsAssumption, MinIsIn DEF TypeOK, Current

\* updateDefaultVersion finds an AVAILABLE version that is not the ignored one.
LEMMA HighestIsAvailable ==
  ASSUME TypeOK, NEW ignored
  PROVE  /\ Highest(Available \ {ignored}) \in (Available \ {ignored}) \cup {None}
         /\ Available \subseteq Versions /\ None \notin Versions
<1> DEFINE S == Available \ {ignored}
<1>1. Available \subseteq Versions /\ None \notin Versions
  BY VersionsAssumption DEF Available, None
<1>2. S \subseteq Versions /\ S \in SUBSET Nat
  BY <1>1, VersionsAssumption
<1>3. IsFiniteSet(S)
  BY <1>2, VersionsAssumption, FS_Subset
<1> HIDE DEF S
<1>4. S # {} => Max(S) \in S
  BY <1>2, <1>3, MaxIsIn
<1>5. Highest(S) \in S \cup {None}
  BY <1>4 DEF Highest
<1> QED
  BY <1>1, <1>5 DEF S

\* What the call leaves to start or to reload covers what the policy asks for, unless
\* some version is LOADING.
LEMMA ListsCoverRequested ==
  ASSUME TypeOK, NEW c, NEW vs, \A v \in Versions : status[v] # "LOADING"
  PROVE  Requested(c, vs) \subseteq Available \cup VersionsToStart(c, vs) \cup VersionsToReload(c, vs)
BY DEF TypeOK, Available, VersionsToStart, VersionsToReload, Registered, WillEndUnloaded

\* The lists of a call hold versions.
LEMMA ListsAreVersions ==
  ASSUME NEW c, NEW vs
  PROVE  /\ VersionsToReload(c, vs) \subseteq Versions /\ VersionsToRetire(c, vs) \subseteq Versions
         /\ RemoveFailed(vs, failed) \subseteq vs /\ Registered \subseteq Versions
BY DEF VersionsToReload, VersionsToRetire, RemoveFailed, Registered

\* The versions that the policy asks for are among the ones that are listed.
LEMMA RequestedIsListed ==
  ASSUME NEW c \in Configs, NEW vs
  PROVE  VersionsToStart(c, vs) \subseteq vs
BY ConfigsAssumption DEF VersionsToStart, Requested, Filter

\* A call in which a load has failed has a failed version.
LEMMA SomeFailed ==
  ASSUME NEW s \in Seq(Versions), s # <<>>
  PROVE  ToSet(s) # {}
<1>1. Len(s) \in Nat \ {0} /\ DOMAIN s = 1 .. Len(s)
  OBVIOUS
<1>2. s[1] \in ToSet(s)
  BY <1>1 DEF ToSet
<1> QED
  BY <1>2

\* A call starts with the lists of versions to start and to reload.
LEMMA ReloadModelWithVersionsStep ==
  ASSUME IInv, NEW c \in Configs, ReloadModelWithVersions(c)
  PROVE  IInv'
<1> USE DEF IInv, ReloadModelWithVersions, Goto, environment, requests, lists, StartOrReload
<1>1. TypeOK'
  <2>1. /\ VersionsToReload(c, available') \subseteq Versions
        /\ Registered \subseteq Versions
    BY ListsAreVersions
  <2>2. c.loader # "missing" => VersionsToStart(c, available') \subseteq Versions
    BY RequestedIsListed
  <2>3. /\ todo' \subseteq Versions /\ toReload' \subseteq Versions /\ available' \subseteq Versions
        /\ pc' \in {"add", "reload", "retireAll"}
    BY <2>1, <2>2 DEF TypeOK
  <2> HIDE DEF StartOrReload
  <2> QED
    BY <2>3 DEF TypeOK, PCs, Loading
<1>2. DefaultNotRetired'
  BY DEF DefaultNotRetired, WillEndUnloaded
<1>3. DefaultMovedAway'
  BY DEF DefaultMovedAway
<1>4. ServedInCall'
  BY DEF ServedInCall
<1>5. RolloutOnTrack'
  <2> SUFFICES ASSUME ~ reshaped, c.loader # "missing" PROVE RolloutOnTrack'
    BY DEF RolloutOnTrack
  <2>1. \A v \in Versions : status[v] # "LOADING"
    BY DEF RolloutOnTrack
  <2>2. Requested(c, available') \subseteq
          Available \cup VersionsToStart(c, available') \cup VersionsToReload(c, available')
    BY <2>1, ListsCoverRequested
  <2>3. Requested(c, available') = Requested(served, available)'
    BY DEF Requested, Registered
  <2>4. pc' = "add" => Requested(c, available') \subseteq Available \cup todo' \cup toReload'
    BY <2>2
  <2>5. pc' = "reload" => Requested(c, available') \subseteq Available \cup todo'
    BY <2>2
  <2>6. pc' \in {"add", "reload"} /\ Available' = Available
    BY DEF Available
  <2> HIDE DEF StartOrReload
  <2> QED
    BY <2>1, <2>3, <2>4, <2>5, <2>6 DEF RolloutOnTrack
<1> QED
  BY <1>1, <1>2, <1>3, <1>4, <1>5

\* A call that fails keeps the configuration.
LEMMA ReadAvailableVersionsFailsStep ==
  ASSUME IInv, ReadAvailableVersionsFails
  PROVE  IInv'
<1> USE DEF IInv, ReadAvailableVersionsFails, Goto, environment, requests, lists
<1>1. TypeOK'
  BY DEF TypeOK
<1>2. DefaultNotRetired'
  BY DEF DefaultNotRetired, WillEndUnloaded
<1>3. DefaultMovedAway'
  BY DEF DefaultMovedAway
<1>4. ServedInCall'
  BY DEF ServedInCall
<1>5. RolloutOnTrack'
  BY DEF RolloutOnTrack, Available, Requested, Registered
<1> QED
  BY <1>1, <1>2, <1>3, <1>4, <1>5

\* A version is added to the model.
LEMMA AddVersionStep ==
  ASSUME IInv, AddVersion
  PROVE  IInv'
<1> USE DEF IInv, AddVersion, Goto, environment, requests, lists
<1>a. Current \in todo /\ Current \in Versions
  BY CurrentIsIn DEF TypeOK, Loading
<1>b. Current' = Current
  BY DEF Current
<1>1. TypeOK'
  <2>1. served.options \in Options
    BY DEF ServedInCall, Options
  <2>2. conf' \in [Versions -> Options \cup {NoOptions}]
    BY <1>a, <2>1 DEF TypeOK
  <2> QED
    BY <1>a, <2>2 DEF TypeOK, PCs, Loading
<1>2. DefaultNotRetired'
  BY <1>a, <1>b DEF DefaultNotRetired, WillEndUnloaded
<1>3. DefaultMovedAway'
  BY <1>a, <1>b DEF DefaultMovedAway
<1>4. ServedInCall'
  BY DEF ServedInCall
<1>5. RolloutOnTrack'
  BY <1>a, <1>b DEF RolloutOnTrack, Available, Requested, Registered
<1> QED
  BY <1>1, <1>2, <1>3, <1>4, <1>5

\* A version is loaded again.
LEMMA ReloadVersionStep ==
  ASSUME IInv, ReloadVersion
  PROVE  IInv'
<1> USE DEF IInv, ReloadVersion, Goto, environment, requests, lists
<1>a. Current \in todo /\ Current \in Versions
  BY CurrentIsIn DEF TypeOK, Loading
<1>b. Current' = Current
  BY DEF Current
<1>1. TypeOK'
  <2>1. served.options \in Options
    BY DEF ServedInCall, Options
  <2>2. conf' \in [Versions -> Options \cup {NoOptions}]
    BY <1>a, <2>1 DEF TypeOK
  <2> QED
    BY <1>a, <2>2 DEF TypeOK, PCs, Loading
<1>2. DefaultNotRetired'
  BY <1>a, <1>b DEF DefaultNotRetired, WillEndUnloaded
<1>3. DefaultMovedAway'
  BY <1>a, <1>b DEF DefaultMovedAway
<1>4. ServedInCall'
  BY DEF ServedInCall
<1>5. RolloutOnTrack'
  BY <1>a, <1>b DEF RolloutOnTrack, Available, Requested, Registered
<1> QED
  BY <1>1, <1>2, <1>3, <1>4, <1>5

\* The load succeeds.
LEMMA LoadSucceedsStep ==
  ASSUME IInv, LoadSucceeds
  PROVE  IInv'
<1> USE DEF IInv, LoadSucceeds, Goto, environment, requests, lists
<1>a. Current \in todo /\ Current \in Versions
  BY CurrentIsIn DEF TypeOK, Loading
<1>b. Current' = Current
  BY DEF Current
<1>1. TypeOK'
  BY <1>a, <1>b DEF TypeOK, PCs, Loading
<1>2. DefaultNotRetired'
  BY <1>a, <1>b DEF DefaultNotRetired, WillEndUnloaded
<1>3. DefaultMovedAway'
  BY <1>a, <1>b DEF DefaultMovedAway
<1>4. ServedInCall'
  BY DEF ServedInCall
<1>5. RolloutOnTrack'
  BY <1>a, <1>b DEF RolloutOnTrack, Available, Requested, Registered, TypeOK
<1> QED
  BY <1>1, <1>2, <1>3, <1>4, <1>5

\* The load fails: the call has failed.
LEMMA LoadFailsStep ==
  ASSUME IInv, LoadFails
  PROVE  IInv'
<1> USE DEF IInv, LoadFails, Goto, environment, requests, lists
<1>a. Current \in todo /\ Current \in Versions
  BY CurrentIsIn DEF TypeOK, Loading
<1>1. TypeOK'
  BY <1>a DEF TypeOK, PCs, Loading
<1>2. DefaultNotRetired'
  BY <1>a DEF DefaultNotRetired, WillEndUnloaded
<1>3. DefaultMovedAway'
  BY <1>a DEF DefaultMovedAway
<1>4. ServedInCall'
  BY DEF ServedInCall
<1>5. RolloutOnTrack'
  BY <1>a DEF RolloutOnTrack, Available, Requested, Registered, TypeOK
<1> QED
  BY <1>1, <1>2, <1>3, <1>4, <1>5

\* The default version is AVAILABLE after a load.
LEMMA DefaultAfterLoadStep ==
  ASSUME IInv, DefaultAfterLoad
  PROVE  IInv'
<1> USE DEF IInv, DefaultAfterLoad, Goto, environment, requests, lists, UpdateDefaultVersion
<1>a. Current \in todo /\ Current \in Versions
  BY CurrentIsIn DEF TypeOK, Loading
<1>c. defaultVersion' \in (Available \ {None}) \cup {None} /\ Available \subseteq Versions /\ None \notin Versions
  BY HighestIsAvailable DEF UpdateDefaultVersion
<1>1. TypeOK'
  BY <1>a, <1>c DEF TypeOK, PCs, Loading
<1>2. DefaultNotRetired'
  <2>1. defaultVersion' # None => defaultVersion' \in Versions /\ status[defaultVersion'] = "AVAILABLE"
    BY <1>c DEF Available
  <2> QED
    BY <2>1 DEF DefaultNotRetired, WillEndUnloaded
<1>3. DefaultMovedAway'
  BY <1>a, <1>c DEF DefaultMovedAway
<1>4. ServedInCall'
  BY DEF ServedInCall
<1>5. RolloutOnTrack'
  BY <1>a, <1>c DEF RolloutOnTrack, Available, Requested, Registered
<1> QED
  BY <1>1, <1>2, <1>3, <1>4, <1>5

\* The versions to reload come next, or the policy chooses again.
LEMMA VersionsAddedStep ==
  ASSUME IInv, VersionsAdded
  PROVE  IInv'
<1> USE DEF IInv, VersionsAdded, Goto, environment, requests, lists, StartOrReload
<1>1. TypeOK'
  <2>1. /\ VersionsToReload(served, available') \subseteq Versions
        /\ RemoveFailed(available, failed) \subseteq Versions
    BY ListsAreVersions DEF TypeOK
  <2>2. available' \subseteq Versions
    BY <2>1 DEF TypeOK
  <2>3. served \in Configs
    BY DEF ServedInCall
  <2>4. VersionsToStart(served, available') \subseteq Versions
    BY <2>2, <2>3, RequestedIsListed
  <2>5. todo' \subseteq Versions /\ toReload' \subseteq Versions /\ pc' \in {"add", "reload"}
    BY <2>1, <2>4 DEF TypeOK
  <2>6. ToSet(failed) \subseteq Versions
    BY DEF TypeOK, ToSet
  <2>7. allFailed' \subseteq Versions
    BY <2>6 DEF TypeOK
  <2>8. <<>> \in Seq(Versions) /\ failed' \in {failed, <<>>}
    OBVIOUS
  <2> HIDE DEF StartOrReload
  <2> QED
    BY <2>2, <2>5, <2>7, <2>8 DEF TypeOK, PCs, Loading
<1>2. DefaultNotRetired'
  BY DEF DefaultNotRetired, WillEndUnloaded
<1>3. DefaultMovedAway'
  BY DEF DefaultMovedAway
<1>4. ServedInCall'
  BY DEF ServedInCall
<1>5. RolloutOnTrack'
  <2> SUFFICES ASSUME ~ reshaped PROVE RolloutOnTrack'
    BY DEF RolloutOnTrack
  <2>1. /\ \A v \in Versions : status[v] # "LOADING"
        /\ busy = {}
    BY DEF RolloutOnTrack
  <2>2. CASE failed = <<>>
    <3>1. pc' = "reload" /\ todo' = toReload /\ UNCHANGED <<available, failed, allFailed>>
      BY <2>2
    <3>2. Requested(served, available)' = Requested(served, available) /\ Available' = Available
      BY <3>1 DEF Requested, Registered, Available
    <3> QED
      BY <2>1, <3>1, <3>2 DEF RolloutOnTrack
  <2>3. CASE failed # <<>>
    <3>1. failed \in Seq(Versions) /\ ToSet(failed) # {}
      BY <2>3, SomeFailed DEF TypeOK
    <3>2. allFailed' # {}
      BY <2>3, <3>1
    <3>3. pc' \in {"add", "reload"}
      OBVIOUS
    <3> HIDE DEF StartOrReload
    <3> QED
      BY <2>1, <3>2, <3>3 DEF RolloutOnTrack
  <2> QED
    BY <2>2, <2>3
<1> QED
  BY <1>1, <1>2, <1>3, <1>4, <1>5

\* What is retired is not asked for.
LEMMA VersionsReloadedStep ==
  ASSUME IInv, VersionsReloaded
  PROVE  IInv'
<1> USE DEF IInv, VersionsReloaded, Goto, environment, requests, lists
<1>1. TypeOK'
  <2>1. /\ VersionsToRetire(served, available') \subseteq Versions
        /\ available' \subseteq Versions
    BY ListsAreVersions DEF TypeOK
  <2>2. ToSet(failed) \subseteq Versions
    BY DEF TypeOK, ToSet
  <2>3. todo' \subseteq Versions /\ toCleanup' \subseteq Versions /\ allFailed' \subseteq Versions
    BY <2>1, <2>2 DEF TypeOK
  <2> QED
    BY <2>1, <2>3 DEF TypeOK, PCs, Loading
<1>2. DefaultNotRetired'
  BY DEF DefaultNotRetired, WillEndUnloaded
<1>3. DefaultMovedAway'
  BY DEF DefaultMovedAway
<1>4. ServedInCall'
  BY DEF ServedInCall
<1>5. RolloutOnTrack'
  <2> SUFFICES ASSUME ~ reshaped PROVE RolloutOnTrack'
    BY DEF RolloutOnTrack
  <2>1. /\ \A v \in Versions : status[v] # "LOADING"
        /\ busy = {}
    BY DEF RolloutOnTrack
  <2>2. failed # <<>> => allFailed' # {}
    BY SomeFailed DEF TypeOK
  <2>3. failed = <<>> => available' = available
    BY RemoveNothing
  <2>4. failed = <<>> => Requested(served, available)' = Requested(served, available)
    BY <2>3 DEF Requested, Registered
  <2>5. failed = <<>> => todo' \cap Requested(served, available) = {}
    BY <2>3 DEF VersionsToRetire
  <2>6. allFailed' = {} => allFailed = {}
    OBVIOUS
  <2>7. Available' = Available
    BY DEF Available
  <2> QED
    BY <2>1, <2>2, <2>4, <2>5, <2>6, <2>7 DEF RolloutOnTrack
<1> QED
  BY <1>1, <1>2, <1>3, <1>4, <1>5

\* The default version moves away from the version to retire.
LEMMA DefaultBeforeRetireStep ==
  ASSUME IInv, DefaultBeforeRetire
  PROVE  IInv'
<1> USE DEF IInv, DefaultBeforeRetire, Goto, environment, requests, lists, UpdateDefaultVersion
<1>a. Current \in todo /\ Current \in Versions
  BY CurrentIsIn DEF TypeOK, Loading
<1>b. Current' = Current
  BY DEF Current
<1>c. defaultVersion' \in (Available \ {Current}) \cup {None} /\ Available \subseteq Versions /\ None \notin Versions
  BY HighestIsAvailable DEF UpdateDefaultVersion
<1>1. TypeOK'
  BY <1>a, <1>b, <1>c DEF TypeOK, PCs, Loading
<1>2. DefaultNotRetired'
  <2>1. defaultVersion' # None => defaultVersion' \in Versions /\ status[defaultVersion'] = "AVAILABLE"
    BY <1>c DEF Available
  <2> QED
    BY <2>1 DEF DefaultNotRetired, WillEndUnloaded
<1>3. DefaultMovedAway'
  BY <1>a, <1>b, <1>c DEF DefaultMovedAway
<1>4. ServedInCall'
  BY DEF ServedInCall
<1>5. RolloutOnTrack'
  BY <1>a, <1>b, <1>c DEF RolloutOnTrack, Available, Requested, Registered
<1> QED
  BY <1>1, <1>2, <1>3, <1>4, <1>5

\* A version that is retired one by one is not the default version.
LEMMA RetireModelStep ==
  ASSUME IInv, RetireModel
  PROVE  IInv'
<1> USE DEF IInv, RetireModel, Goto, environment, requests, lists
<1>a. Current \in todo /\ Current \in Versions
  BY CurrentIsIn DEF TypeOK, Loading
<1>b. Current' = Current
  BY DEF Current
<1>1. TypeOK'
  BY <1>a, <1>b DEF TypeOK, PCs, Loading
<1>2. DefaultNotRetired'
  BY <1>a, <1>b DEF DefaultNotRetired, WillEndUnloaded, TypeOK, DefaultMovedAway
<1>3. DefaultMovedAway'
  BY <1>a, <1>b DEF DefaultMovedAway
<1>4. ServedInCall'
  BY DEF ServedInCall
<1>5. RolloutOnTrack'
  BY <1>a, <1>b DEF RolloutOnTrack, Available, Requested, Registered
<1> QED
  BY <1>1, <1>2, <1>3, <1>4, <1>5

\* A version that has ended is not the default version, or will not be for long.
LEMMA SetEndStep ==
  ASSUME IInv, SetEnd
  PROVE  IInv'
<1> USE DEF IInv, SetEnd, Goto, environment, requests, lists
<1>a. Current \in todo /\ Current \in Versions
  BY CurrentIsIn DEF TypeOK, Loading
<1>1. TypeOK'
  BY <1>a DEF TypeOK, PCs, Loading
<1>2. DefaultNotRetired'
  <2>1. CASE pc = "ending"
    <3>1. defaultVersion # Current
      BY <2>1 DEF DefaultMovedAway
    <3>2. defaultVersion # None => ~ WillEndUnloaded(defaultVersion)
      BY <2>1 DEF DefaultNotRetired
    <3>3. defaultVersion # None => status'[defaultVersion] = status[defaultVersion]
      BY <3>1 DEF TypeOK
    <3> QED
      BY <3>2, <3>3 DEF DefaultNotRetired, WillEndUnloaded
  <2>2. CASE pc = "endingAll"
    <3>1. Current' = Current
      BY <2>2 DEF Current
    <3>2. defaultVersion # None /\ defaultVersion # Current => status'[defaultVersion] = status[defaultVersion]
      BY DEF TypeOK
    <3> QED
      BY <2>2, <3>1, <3>2 DEF DefaultNotRetired, WillEndUnloaded
  <2> QED
    BY <2>1, <2>2
<1>3. DefaultMovedAway'
  BY <1>a DEF DefaultMovedAway
<1>4. ServedInCall'
  BY DEF ServedInCall
<1>5. RolloutOnTrack'
  BY <1>a DEF RolloutOnTrack, Available, Requested, Registered
<1> QED
  BY <1>1, <1>2, <1>3, <1>4, <1>5

\* Failed versions are cleaned up next.
LEMMA VersionsRetiredStep ==
  ASSUME IInv, VersionsRetired
  PROVE  IInv'
<1> USE DEF IInv, VersionsRetired, Goto, environment, requests, lists
<1>1. TypeOK'
  BY DEF TypeOK, PCs, Loading
<1>2. DefaultNotRetired'
  BY DEF DefaultNotRetired, WillEndUnloaded
<1>3. DefaultMovedAway'
  BY DEF DefaultMovedAway
<1>4. ServedInCall'
  BY DEF ServedInCall
<1>5. RolloutOnTrack'
  BY DEF RolloutOnTrack, Available, Requested, Registered
<1> QED
  BY <1>1, <1>2, <1>3, <1>4, <1>5

\* The default version moves away from the version to clean up.
LEMMA DefaultBeforeCleanupStep ==
  ASSUME IInv, DefaultBeforeCleanup
  PROVE  IInv'
<1> USE DEF IInv, DefaultBeforeCleanup, Goto, environment, requests, lists, UpdateDefaultVersion
<1>a. Current \in todo /\ Current \in Versions
  BY CurrentIsIn DEF TypeOK, Loading
<1>b. Current' = Current
  BY DEF Current
<1>c. defaultVersion' \in (Available \ {Current}) \cup {None} /\ Available \subseteq Versions /\ None \notin Versions
  BY HighestIsAvailable DEF UpdateDefaultVersion
<1>1. TypeOK'
  BY <1>a, <1>b, <1>c DEF TypeOK, PCs, Loading
<1>2. DefaultNotRetired'
  <2>1. defaultVersion' # None => defaultVersion' \in Versions /\ status[defaultVersion'] = "AVAILABLE"
    BY <1>c DEF Available
  <2> QED
    BY <2>1 DEF DefaultNotRetired, WillEndUnloaded
<1>3. DefaultMovedAway'
  BY <1>a, <1>b, <1>c DEF DefaultMovedAway
<1>4. ServedInCall'
  BY DEF ServedInCall
<1>5. RolloutOnTrack'
  BY <1>a, <1>b, <1>c DEF RolloutOnTrack, Available, Requested, Registered
<1> QED
  BY <1>1, <1>2, <1>3, <1>4, <1>5

\* A version is cleaned up.
LEMMA CleanupFailedLoadStep ==
  ASSUME IInv, CleanupFailedLoad
  PROVE  IInv'
<1> USE DEF IInv, CleanupFailedLoad, Goto, environment, requests, lists
<1>a. Current \in todo /\ Current \in Versions
  BY CurrentIsIn DEF TypeOK, Loading
<1>1. TypeOK'
  BY <1>a DEF TypeOK, PCs, Loading
<1>2. DefaultNotRetired'
  BY <1>a DEF DefaultNotRetired, WillEndUnloaded
<1>3. DefaultMovedAway'
  BY <1>a DEF DefaultMovedAway
<1>4. ServedInCall'
  BY DEF ServedInCall
<1>5. RolloutOnTrack'
  BY <1>a DEF RolloutOnTrack, Available, Requested, Registered
<1> QED
  BY <1>1, <1>2, <1>3, <1>4, <1>5

\* The call returns.
LEMMA VersionsCleanedUpStep ==
  ASSUME IInv, VersionsCleanedUp
  PROVE  IInv'
<1> USE DEF IInv, VersionsCleanedUp, Goto, environment, requests, lists
<1>1. TypeOK'
  BY DEF TypeOK, PCs, Loading
<1>2. DefaultNotRetired'
  BY DEF DefaultNotRetired, WillEndUnloaded
<1>3. DefaultMovedAway'
  BY DEF DefaultMovedAway
<1>4. ServedInCall'
  BY DEF ServedInCall
<1>5. RolloutOnTrack'
  BY DEF RolloutOnTrack, Available, Requested, Registered
<1> QED
  BY <1>1, <1>2, <1>3, <1>4, <1>5

\* All versions are to be retired.
LEMMA RemovedFromConfigStep ==
  ASSUME IInv, RemovedFromConfig
  PROVE  IInv'
<1> USE DEF IInv, RemovedFromConfig, Goto, environment, requests, lists
<1>1. TypeOK'
  BY ListsAreVersions DEF TypeOK, PCs, Loading, Registered
<1>2. DefaultNotRetired'
  BY DEF DefaultNotRetired, WillEndUnloaded
<1>3. DefaultMovedAway'
  BY DEF DefaultMovedAway
<1>4. ServedInCall'
  BY DEF ServedInCall
<1>5. RolloutOnTrack'
  BY DEF RolloutOnTrack, Available, Requested, Registered
<1> QED
  BY <1>1, <1>2, <1>3, <1>4, <1>5

\* All versions are to be cleaned up.
LEMMA InvalidConfigStep ==
  ASSUME IInv, InvalidConfig
  PROVE  IInv'
<1> USE DEF IInv, InvalidConfig, Goto, environment, requests, lists
<1>1. TypeOK'
  BY ListsAreVersions DEF TypeOK, PCs, Loading, Registered
<1>2. DefaultNotRetired'
  BY DEF DefaultNotRetired, WillEndUnloaded
<1>3. DefaultMovedAway'
  BY DEF DefaultMovedAway
<1>4. ServedInCall'
  BY DEF ServedInCall
<1>5. RolloutOnTrack'
  BY DEF RolloutOnTrack, Available, Requested, Registered
<1> QED
  BY <1>1, <1>2, <1>3, <1>4, <1>5

\* The default version moves away from a version that has ended.
LEMMA DefaultAfterAllStep ==
  ASSUME IInv, DefaultAfterAll
  PROVE  IInv'
<1> USE DEF IInv, DefaultAfterAll, Goto, environment, requests, lists, UpdateDefaultVersion
<1>a. Current \in todo /\ Current \in Versions
  BY CurrentIsIn DEF TypeOK, Loading
<1>c. defaultVersion' \in (Available \ {None}) \cup {None} /\ Available \subseteq Versions /\ None \notin Versions
  BY HighestIsAvailable DEF UpdateDefaultVersion
<1>1. TypeOK'
  BY <1>a, <1>c DEF TypeOK, PCs, Loading
<1>2. DefaultNotRetired'
  <2>1. defaultVersion' # None => defaultVersion' \in Versions /\ status[defaultVersion'] = "AVAILABLE"
    BY <1>c DEF Available
  <2> QED
    BY <2>1 DEF DefaultNotRetired, WillEndUnloaded
<1>3. DefaultMovedAway'
  BY <1>a, <1>c DEF DefaultMovedAway
<1>4. ServedInCall'
  BY DEF ServedInCall
<1>5. RolloutOnTrack'
  BY <1>a, <1>c DEF RolloutOnTrack, Available, Requested, Registered
<1> QED
  BY <1>1, <1>2, <1>3, <1>4, <1>5

\* The call returns.
LEMMA AllVersionsDoneStep ==
  ASSUME IInv, AllVersionsDone
  PROVE  IInv'
<1> USE DEF IInv, AllVersionsDone, Goto, environment, requests, lists
<1>1. TypeOK'
  BY DEF TypeOK, PCs, Loading
<1>2. DefaultNotRetired'
  BY DEF DefaultNotRetired, WillEndUnloaded
<1>3. DefaultMovedAway'
  BY DEF DefaultMovedAway
<1>4. ServedInCall'
  BY DEF ServedInCall
<1>5. RolloutOnTrack'
  BY DEF RolloutOnTrack, Available, Requested, Registered
<1> QED
  BY <1>1, <1>2, <1>3, <1>4, <1>5

\* A request decides to reload a version.
LEMMA DecideToReloadStep ==
  ASSUME IInv, NEW v \in Versions, DecideToReload(v)
  PROVE  IInv'
<1> USE DEF IInv, DecideToReload, Goto, environment, requests, lists
<1>b. Current' = Current
  BY DEF Current
<1>1. TypeOK'
  BY <1>b DEF TypeOK
<1>2. DefaultNotRetired'
  BY <1>b DEF DefaultNotRetired, WillEndUnloaded
<1>3. DefaultMovedAway'
  BY <1>b DEF DefaultMovedAway
<1>4. ServedInCall'
  BY DEF ServedInCall
<1>5. RolloutOnTrack'
  BY <1>b DEF RolloutOnTrack, Available, Requested, Registered
<1> QED
  BY <1>1, <1>2, <1>3, <1>4, <1>5

\* A request reloads a version.
LEMMA RequestReloadsStep ==
  ASSUME IInv, NEW v \in Versions, RequestReloads(v)
  PROVE  IInv'
<1> USE DEF IInv, RequestReloads, Goto, environment, requests, lists
<1>b. Current' = Current
  BY DEF Current
<1>1. TypeOK'
  BY <1>b DEF TypeOK
<1>2. DefaultNotRetired'
  BY <1>b DEF DefaultNotRetired, WillEndUnloaded
<1>3. DefaultMovedAway'
  BY <1>b DEF DefaultMovedAway
<1>4. ServedInCall'
  BY DEF ServedInCall
<1>5. RolloutOnTrack'
  BY <1>b DEF RolloutOnTrack, Available, Requested, Registered
<1> QED
  BY <1>1, <1>2, <1>3, <1>4, <1>5

\* The reload of a request ends.
LEMMA RequestReloadedStep ==
  ASSUME IInv, NEW v \in Versions, RequestReloaded(v)
  PROVE  IInv'
<1> USE DEF IInv, RequestReloaded, Goto, environment, requests, lists
<1>b. Current' = Current
  BY DEF Current
<1>1. TypeOK'
  BY <1>b DEF TypeOK
<1>2. DefaultNotRetired'
  BY <1>b DEF DefaultNotRetired, WillEndUnloaded
<1>3. DefaultMovedAway'
  BY <1>b DEF DefaultMovedAway
<1>4. ServedInCall'
  BY DEF ServedInCall
<1>5. RolloutOnTrack'
  BY <1>b DEF RolloutOnTrack, Available, Requested, Registered
<1> QED
  BY <1>1, <1>2, <1>3, <1>4, <1>5

\* The directories change.
LEMMA DirectoryChangesStep ==
  ASSUME IInv, DirectoryChanges
  PROVE  IInv'
<1> USE DEF IInv, DirectoryChanges, Goto, environment, requests, lists
<1>b. Current' = Current
  BY DEF Current
<1>1. TypeOK'
  BY <1>b DEF TypeOK
<1>2. DefaultNotRetired'
  BY <1>b DEF DefaultNotRetired, WillEndUnloaded
<1>3. DefaultMovedAway'
  BY <1>b DEF DefaultMovedAway
<1>4. ServedInCall'
  BY DEF ServedInCall
<1>5. RolloutOnTrack'
  BY <1>b DEF RolloutOnTrack, Available, Requested, Registered
<1> QED
  BY <1>1, <1>2, <1>3, <1>4, <1>5

\* The blacklist changes.
LEMMA BlacklistChangesStep ==
  ASSUME IInv, BlacklistChanges
  PROVE  IInv'
<1> USE DEF IInv, BlacklistChanges, Goto, environment, requests, lists
<1>b. Current' = Current
  BY DEF Current
<1>1. TypeOK'
  BY <1>b, ListsAreVersions DEF TypeOK, PCs, Loading, Registered
<1>2. DefaultNotRetired'
  BY <1>b DEF DefaultNotRetired, WillEndUnloaded
<1>3. DefaultMovedAway'
  BY <1>b DEF DefaultMovedAway
<1>4. ServedInCall'
  BY DEF ServedInCall
<1>5. RolloutOnTrack'
  BY <1>b DEF RolloutOnTrack, Available, Requested, Registered
<1> QED
  BY <1>1, <1>2, <1>3, <1>4, <1>5

\* No step.
LEMMA StutterInvariant ==
  ASSUME IInv, UNCHANGED vars
  PROVE  IInv'
<1> USE DEF IInv, vars, environment, requests, lists
<1>1. TypeOK' /\ ServedInCall'
  BY DEF TypeOK, ServedInCall
<1>2. Current' = Current
  BY DEF Current
<1>3. DefaultNotRetired' /\ DefaultMovedAway'
  BY <1>2 DEF DefaultNotRetired, DefaultMovedAway, WillEndUnloaded
<1>4. RolloutOnTrack'
  BY <1>2 DEF RolloutOnTrack, Available, Requested, Registered
<1> QED
  BY <1>1, <1>3, <1>4

\* Initially there are no versions and no call.
LEMMA InitInvariant == Init => IInv
<1> SUFFICES ASSUME Init PROVE IInv
  OBVIOUS
<1>0. <<>> \in Seq(Versions)
  OBVIOUS
<1>1. TypeOK
  BY <1>0 DEF Init, TypeOK, PCs, Loading
<1>2. DefaultNotRetired /\ DefaultMovedAway /\ ServedInCall
  BY DEF Init, DefaultNotRetired, DefaultMovedAway, ServedInCall
<1>3. RolloutOnTrack
  BY DEF Init, RolloutOnTrack
<1> QED
  BY <1>1, <1>2, <1>3 DEF IInv

\* Every step keeps the invariant.
LEMMA NextInvariant ==
  ASSUME IInv, Next
  PROVE  IInv'
<1>1. CASE WatcherCycle
  <2>1. served \in Configs
    BY <1>1 DEF WatcherCycle, IInv, TypeOK
  <2> QED
    BY <1>1, <2>1, ReloadModelWithVersionsStep DEF WatcherCycle
<1>2. CASE ManagerStep
  BY <1>2, AddVersionStep, ReloadVersionStep, LoadSucceedsStep, LoadFailsStep, DefaultAfterLoadStep,
     VersionsAddedStep, VersionsReloadedStep, DefaultBeforeRetireStep, RetireModelStep, SetEndStep,
     VersionsRetiredStep, DefaultBeforeCleanupStep, CleanupFailedLoadStep, VersionsCleanedUpStep,
     DefaultAfterAllStep, AllVersionsDoneStep
     DEF ManagerStep
<1>3. CASE Disturbance
  BY <1>3, ReloadModelWithVersionsStep, ReadAvailableVersionsFailsStep, RemovedFromConfigStep,
     InvalidConfigStep, DirectoryChangesStep, BlacklistChangesStep, DecideToReloadStep
     DEF Disturbance, ConfigChanges
<1>4. CASE \E v \in Versions : RequestReloads(v) \/ RequestReloaded(v)
  BY <1>4, RequestReloadsStep, RequestReloadedStep
<1> QED
  BY <1>1, <1>2, <1>3, <1>4 DEF Next

\* The inductive invariant of the versions of a model.
THEOREM InvariantHolds == Spec => []IInv
<1>1. IInv /\ [Next]_vars => IInv'
  BY NextInvariant, StutterInvariant
<1> QED
  BY InitInvariant, <1>1, PTL DEF Spec

\* Requests that name no version are never sent to a version that retireVersions is
\* retiring: for any versions and configurations, however requests that reload a
\* version and changes of the directories interleave with the manager's call.
THEOREM DefaultStays == Spec => []DefaultNotRetired
<1>1. IInv => DefaultNotRetired
  BY DEF IInv
<1> QED
  BY InvariantHolds, <1>1, PTL

\* A rollout keeps serving: reloadModelWithVersions starts to retire versions only when
\* every version that the policy asks for is AVAILABLE, if nothing failed, there is no
\* custom loader and no request has reloaded a version.
THEOREM RolloutServes == Spec => RolloutKeepsServing
<1> DEFINE Keeps == pc = "retiring" /\ pc' = "ending" /\ allFailed = {} /\ served.loader = "none" /\ ~ reshaped
                      => Requested(served, available) \subseteq Available
<1>1. IInv /\ [Next]_vars => [Keeps]_vars
  <2> SUFFICES ASSUME IInv, pc = "retiring", allFailed = {}, served.loader = "none", ~ reshaped
               PROVE  Requested(served, available) \subseteq Available
    OBVIOUS
  <2> QED
    BY ConfigsAssumption DEF IInv, RolloutOnTrack, ServedInCall
<1> QED
  BY InvariantHolds, <1>1, PTL DEF Spec, RolloutKeepsServing
=============================================================================
