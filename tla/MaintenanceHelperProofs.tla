----------------------- MODULE MaintenanceHelperProofs -----------------------
(***************************************************************************)
(* Proofs about the helm 2 to helm 3 maintenance helper.                   *)
(***************************************************************************)
EXTENDS ReleaseListProofs

USE MaintenanceHelperAssumption

\* Every ordering in which the storage may list a finite set of revisions
\* lists all of them.
LEMMA ListingCovers ==
    ASSUME NEW S, IsFiniteSet(S), NEW f \in Listings(S)
    PROVE  Range(f) = S
<1>1. Cardinality(S) \in Nat
    BY FS_CardinalityType
<1>. DEFINE n == Cardinality(S)
<1>2. f \in Injection(1 .. n, S)
    BY DEF Listings, Injection, IsInjective
<1>3. Cardinality(1 .. n) = n
    <2>1. \A a, b \in Int : Cardinality(a .. b) = IF a > b THEN 0 ELSE b - a + 1
        BY FS_Interval
    <2>2. n \in Int /\ 1 \in Int
        BY <1>1
    <2>3. Cardinality(1 .. n) = IF 1 > n THEN 0 ELSE n - 1 + 1
        BY <2>1, <2>2, Zenon
    <2>. QED
        BY <2>3, <1>1
<1>4. f \in Surjection(1 .. n, S)
    BY <1>1, <1>2, <1>3, FS_Injection
<1>. QED
    BY <1>4 DEF Surjection, Range, Listings

\* The helm 2 storage holds finitely many revisions.
LEMMA RevisionsFinite ==
    IsFiniteSet(Revisions)
<1>1. IsFiniteSet(Versions)
    BY FS_Interval DEF Versions
<1>. QED
    BY <1>1, FS_Product DEF Revisions

\* A listing of a set of revisions is a sequence of revisions whose
\* release names are those of the set.
LEMMA ListingNames ==
    ASSUME NEW S \in SUBSET Revisions, NEW rels \in Listings(S)
    PROVE  /\ rels \in Seq(Revisions)
           /\ NamesUpTo(rels, Len(rels)) = {r[1] : r \in S}
<1>1. IsFiniteSet(S) /\ Cardinality(S) \in Nat
    BY RevisionsFinite, FS_Subset, FS_CardinalityType
<1>2. rels \in Seq(Revisions) /\ Len(rels) = Cardinality(S)
    BY <1>1 DEF Listings
<1>3. Range(rels) = S
    BY <1>1, ListingCovers
<1>. QED
    BY <1>2, <1>3 DEF NamesUpTo, Range, Listings

\* The revision GetHelm2ReleaseData returns is one of the release's
\* revisions, and no revision of the release is newer: the last element
\* of the listing sorted by revision, which the Reverse puts first.
LEMMA NewestRevisionIsNewest ==
    ASSUME NEW S \in SUBSET Revisions, S # {},
           \A r, q \in S : r[1] = q[1]
    PROVE  /\ NewestRevision(S) \in S
           /\ \A r \in S : r[2] <= NewestRevision(S)[2]
<1>1. IsFiniteSet(S) /\ Cardinality(S) \in Nat
    BY RevisionsFinite, FS_Subset, FS_CardinalityType
<1>. DEFINE f == SortByRevisionAsc(S)
            c == Cardinality(S)
<1>2. f \in Listings(S) /\ SortedByRevision(f)
    BY <1>1, SortedListingExists DEF SortByRevisionAsc, SortedByRevision
<1>3. c # 0
    BY <1>1, FS_EmptySet
<1>4. f \in [1 .. c -> S] /\ Len(f) = c
    BY <1>1, <1>2 DEF Listings
<1>5. NewestRevision(S) = f[c]
    BY <1>1, <1>3, <1>4 DEF NewestRevision, Reverse
<1>6. Range(f) = S
    BY <1>1, <1>2, ListingCovers
<1>7. ASSUME NEW r \in S PROVE r[2] <= f[c][2]
    <2>1. PICK i \in 1 .. c : f[i] = r
        BY <1>4, <1>6 DEF Range
    <2>2. f[i] \in Revisions /\ f[c] \in Revisions
        BY <1>1, <1>3, <1>4
    <2>3. f[i][2] \in Nat /\ f[c][2] \in Nat
        BY <2>2 DEF Revisions, Versions
    <2>4. CASE i = c
        BY <2>1, <2>3, <2>4
    <2>5. CASE i < c
        <3>1. f[i][2] < f[c][2]
            BY <1>1, <1>2, <1>3, <1>4, <2>5 DEF SortedByRevision
        <3>. QED
            BY <2>1, <2>3, <3>1
    <2>. QED
        BY <1>1, <2>4, <2>5
<1>. QED
    BY <1>1, <1>3, <1>4, <1>5, <1>7

-----------------------------------------------------------------------------
(* The invariant.                                                          *)

\* The inductive invariant: the type invariant, so that the storages'
\* listings are finite and name every revision, and the three properties.
IInv ==
    /\ TypeOK
    /\ ReleaseListsNameEachReleaseOnce
    /\ ReleaseDataIsNewestRevision
    /\ DeletedReleaseHasNoRevisions

LEMMA InitIInv == Init => IInv
<1> SUFFICES ASSUME Init PROVE IInv
    OBVIOUS
<1>1. TypeOK
    <2>1. storageType \in {"configmap", "secret", "memory"}
        BY Zenon DEF Init, StorageTypeOptions
    <2>2. out \in [op : Ops, ok : BOOLEAN, names : Seq(Releases),
                   rel : (Releases \X (0 .. MaxVersion)) \cup {NoRevision}]
        <3>1. <<>> \in Seq(Releases)
            BY EmptySeq
        <3>2. NoRevision \in (Releases \X (0 .. MaxVersion)) \cup {NoRevision}
            OBVIOUS
        <3>. QED
            BY <3>1, <3>2 DEF Init, Ops
    <2>. QED
        BY <2>1, <2>2 DEF Init, TypeOK
<1>2. out.op = "none"
    BY DEF Init
<1>. QED
    BY <1>1, <1>2 DEF IInv, DeletedReleaseHasNoRevisions,
       ReleaseListsNameEachReleaseOnce, ReleaseDataIsNewestRevision

\* A call that returns a well-typed result, keeps the storage type and
\* keeps both storages to revisions keeps the type invariant.
LEMMA ResultType ==
    ASSUME TypeOK, NEW op \in Ops, NEW ok \in BOOLEAN,
           NEW names \in Seq(Releases),
           NEW rel \in (Releases \X (0 .. MaxVersion)) \cup {NoRevision},
           Result(op, ok, names, rel),
           storageType' = storageType, v2Storage' \in BOOLEAN,
           v2' \subseteq Revisions, v3' \subseteq Revisions
    PROVE  TypeOK'
BY DEF TypeOK, Result

\* Every revision is a well-typed result.
LEMMA RevisionRel ==
    ASSUME NEW r \in Revisions
    PROVE  r \in (Releases \X (0 .. MaxVersion)) \cup {NoRevision}
BY DEF Revisions, Versions

\* The empty list of names and the empty revision are well-typed results.
LEMMA EmptyResult ==
    /\ <<>> \in Seq(Releases)
    /\ NoRevision \in (Releases \X (0 .. MaxVersion)) \cup {NoRevision}
BY EmptySeq

\* A call that neither lists, reads release data nor deletes reports its
\* own operation.
LEMMA OtherCall ==
    ASSUME TypeOK', out'.op \notin {"delete", "list2", "list3", "data"}
    PROVE  IInv'
BY DEF IInv, DeletedReleaseHasNoRevisions, ReleaseListsNameEachReleaseOnce,
   ReleaseDataIsNewestRevision

\* A failed call keeps the invariant when it keeps the storages.
LEMMA FailIInv ==
    ASSUME IInv, NEW op \in Ops, Fail(op),
           storageType' = storageType, v2Storage' \in BOOLEAN,
           UNCHANGED <<v2, v3>>
    PROVE  IInv'
<1>1. TypeOK'
    <2>1. <<>> \in Seq(Releases)
        BY EmptySeq
    <2>2. NoRevision \in (Releases \X (0 .. MaxVersion)) \cup {NoRevision}
        OBVIOUS
    <2>3. TypeOK
        BY DEF IInv
    <2>. QED
        BY <2>1, <2>2, <2>3, ResultType DEF Fail, TypeOK
<1>. QED
    BY <1>1 DEF Fail, Result, IInv, DeletedReleaseHasNoRevisions,
       ReleaseListsNameEachReleaseOnce, ReleaseDataIsNewestRevision

\* A successful listing of the storage store returns a list of its
\* release names, each once.
LEMMA ListResult ==
    ASSUME NEW store \in SUBSET Revisions, NEW rels \in Listings(store)
    PROVE  LET names == AppendUniqReleases(rels)
           IN  /\ names \in Seq(Releases)
               /\ IsInjective(names)
               /\ Range(names) = {r[1] : r \in store}
<1>1. rels \in Seq(Revisions) /\ NamesUpTo(rels, Len(rels)) = {r[1] : r \in store}
    BY ListingNames
<1>. QED
    BY <1>1, AppendUniqReleasesNames DEF UniqNames

\* GetHelm2ReleasesList and GetHelm3ReleasesList: a listing of the storage
\* they read, which no step of theirs changes.
LEMMA ListIInv ==
    ASSUME IInv, NEW op \in {"list2", "list3"},
           storageType' = storageType, v2Storage' \in BOOLEAN,
           LET store == IF op = "list2" THEN v2 ELSE v3
           IN  /\ UNCHANGED <<v2, v3>>
               /\ \/ Fail(op)
                  \/ \E rels \in Listings(store) :
                        Result(op, TRUE, AppendUniqReleases(rels), NoRevision)
    PROVE  IInv'
<1>. DEFINE store == IF op = "list2" THEN v2 ELSE v3
<1>0. UNCHANGED <<v2, v3>>
    OBVIOUS
<1>1. store \subseteq Revisions /\ v2' \subseteq Revisions /\ v3' \subseteq Revisions
    BY <1>0 DEF IInv, TypeOK
<1>2. CASE Fail(op)
    BY <1>2, FailIInv DEF Ops
<1>3. ASSUME NEW rels \in Listings(store),
             Result(op, TRUE, AppendUniqReleases(rels), NoRevision)
      PROVE  IInv'
    <2>1. /\ AppendUniqReleases(rels) \in Seq(Releases)
          /\ IsInjective(AppendUniqReleases(rels))
          /\ Range(AppendUniqReleases(rels)) = {r[1] : r \in store}
        BY <1>1, ListResult
    <2>2. TypeOK'
        <3>1. NoRevision \in (Releases \X (0 .. MaxVersion)) \cup {NoRevision}
            OBVIOUS
        <3>2. TypeOK
            BY DEF IInv
        <3>. QED
            BY <1>1, <1>3, <2>1, <3>1, <3>2, ResultType DEF Ops
    <2>. QED
        BY <1>3, <2>1, <2>2 DEF Result, IInv, DeletedReleaseHasNoRevisions,
           ReleaseListsNameEachReleaseOnce, ReleaseDataIsNewestRevision
<1>. QED
    BY <1>2, <1>3

\* GetHelm2ReleaseData: the newest revision of the release, read from a
\* storage the call does not change.
LEMMA DataIIv ==
    ASSUME IInv, NEW name \in Releases, GetHelm2ReleaseData(name)
    PROVE  IInv'
<1>. DEFINE S == RevisionsOf(v2, name)
<1>0. v2' = v2 /\ v3' = v3 /\ storageType' = storageType /\ v2Storage' \in BOOLEAN
    BY DEF GetHelm2ReleaseData, InitHelm2Storage, IInv, TypeOK
<1>1. CASE Fail("data")
    BY <1>0, <1>1, FailIInv DEF Ops
<1>2. CASE S # {} /\ Result("data", TRUE, <<>>, NewestRevision(S))
    <2>1. S \subseteq Revisions /\ \A r, q \in S : r[1] = q[1]
        BY DEF IInv, TypeOK, RevisionsOf
    <2>2. NewestRevision(S) \in S /\ \A r \in S : r[2] <= NewestRevision(S)[2]
        BY <1>2, <2>1, NewestRevisionIsNewest
    <2>3. NewestRevision(S)[1] = name /\ NewestRevision(S) \in Revisions
        BY <2>1, <2>2 DEF RevisionsOf
    <2>4. TypeOK'
        <3>1. TypeOK /\ v2' \subseteq Revisions /\ v3' \subseteq Revisions
            BY <1>0 DEF IInv, TypeOK
        <3>. QED
            BY <1>0, <1>2, <2>3, <3>1, EmptyResult, RevisionRel, ResultType DEF Ops
    <2>5. ReleaseDataIsNewestRevision'
        BY <1>0, <1>2, <2>2, <2>3 DEF Result, ReleaseDataIsNewestRevision, RevisionsOf
    <2>. QED
        BY <1>2, <2>4, <2>5 DEF Result, IInv, DeletedReleaseHasNoRevisions,
           ReleaseListsNameEachReleaseOnce
<1>. QED
    BY <1>1, <1>2 DEF GetHelm2ReleaseData, InitHelm2Storage

LEMMA DeleteIInv ==
    ASSUME IInv, NEW name \in Releases, DeleteHelm2ReleaseMetadata(name)
    PROVE  IInv'
<1>. DEFINE S == RevisionsOf(v2, name)
<1>0. storageType' = storageType /\ v2Storage' \in BOOLEAN /\ v3' = v3
      /\ v2' \subseteq v2
    BY DEF DeleteHelm2ReleaseMetadata, InitHelm2Storage, IInv, TypeOK
<1>1. IsFiniteSet(S)
    BY RevisionsFinite, FS_Subset DEF RevisionsOf, IInv, TypeOK
<1>2. CASE Fail("delete")
    BY <1>0, <1>2 DEF Fail, Result, IInv, TypeOK, DeletedReleaseHasNoRevisions,
       ReleaseListsNameEachReleaseOnce, ReleaseDataIsNewestRevision, Ops, NoRevision
<1>3. ASSUME NEW ok \in BOOLEAN, Result("delete", ok, <<>>, <<name, 0>>)
      PROVE  TypeOK'
    <2>1. TypeOK /\ v2' \subseteq Revisions /\ v3' \subseteq Revisions
        BY <1>0 DEF IInv, TypeOK
    <2>2. <<name, 0>> \in (Releases \X (0 .. MaxVersion)) \cup {NoRevision}
        BY DEF IInv, TypeOK
    <2>. QED
        BY <1>0, <1>3, <2>1, <2>2, EmptyResult, ResultType DEF Ops
<1>4. ASSUME NEW rels \in Listings(S),
             v2' = v2 \ Range(rels),
             Result("delete", TRUE, <<>>, <<name, 0>>)
      PROVE  IInv'
    <2>1. Range(rels) = S
        BY <1>1, ListingCovers
    <2>2. RevisionsOf(v2', name) = {}
        BY <1>4, <2>1 DEF RevisionsOf
    <2>. QED
        BY <1>3, <1>4, <2>2 DEF Result, IInv, DeletedReleaseHasNoRevisions,
           ReleaseListsNameEachReleaseOnce, ReleaseDataIsNewestRevision
<1>5. ASSUME NEW rels \in Listings(S), NEW k \in 1 .. Len(rels),
             v2' = v2 \ Range(SubSeq(rels, 1, k - 1)),
             Result("delete", FALSE, <<>>, <<name, 0>>)
      PROVE  IInv'
    BY <1>3, <1>5 DEF Result, IInv, DeletedReleaseHasNoRevisions,
       ReleaseListsNameEachReleaseOnce, ReleaseDataIsNewestRevision
<1>. QED
    BY <1>2, <1>4, <1>5 DEF DeleteHelm2ReleaseMetadata, InitHelm2Storage

LEMMA StepIInv == IInv /\ [Next]_vars => IInv'
<1> SUFFICES ASSUME IInv, [Next]_vars PROVE IInv'
    OBVIOUS
<1>0. TypeOK
    BY DEF IInv
<1>1. CASE CheckHelm2StorageAvailable
    <2>1. CASE Fail("check")
        <3>1. storageType' = storageType /\ v2Storage' \in BOOLEAN /\ UNCHANGED <<v2, v3>>
            BY <1>0, <1>1 DEF CheckHelm2StorageAvailable, InitHelm2Storage, TypeOK
        <3>. QED
            BY <2>1, <3>1, FailIInv DEF Ops
    <2>2. CASE Result("check", TRUE, <<>>, NoRevision)
        <3>1. TypeOK'
            <4>1. storageType' = storageType /\ v2Storage' \in BOOLEAN
                  /\ v2' \subseteq Revisions /\ v3' \subseteq Revisions
                BY <1>0, <1>1 DEF CheckHelm2StorageAvailable, InitHelm2Storage, TypeOK
            <4>. QED
                BY <1>0, <2>2, <4>1, EmptyResult, ResultType DEF Ops
        <3>. QED
            BY <2>2, <3>1, OtherCall DEF Result
    <2>. QED
        BY <1>1, <2>1, <2>2 DEF CheckHelm2StorageAvailable, InitHelm2Storage
<1>2. CASE GetHelm3ReleasesList
    BY <1>0, <1>2, ListIInv DEF GetHelm3ReleasesList, TypeOK
<1>3. CASE GetHelm2ReleasesList
    <2>1. storageType' = storageType /\ v2Storage' \in BOOLEAN
        BY <1>0, <1>3 DEF GetHelm2ReleasesList, InitHelm2Storage, TypeOK
    <2>2. CASE ~v2Storage /\ storageType \notin {"configmap", "secret"}
        BY <1>3, <2>1, <2>2, ListIInv DEF GetHelm2ReleasesList, InitHelm2Storage
    <2>3. CASE ~(~v2Storage /\ storageType \notin {"configmap", "secret"})
        BY <1>3, <2>1, <2>3, ListIInv DEF GetHelm2ReleasesList, InitHelm2Storage
    <2>. QED
        BY <2>2, <2>3
<1>4. ASSUME NEW data \in v2, CreateHelm3ReleaseMetadataFromHelm2Release(data)
      PROVE  IInv'
    <2>1. data \in Revisions
        BY <1>0 DEF TypeOK
    <2>2. CASE Fail("create") /\ UNCHANGED v3
        <3>1. storageType' = storageType /\ v2Storage' \in BOOLEAN /\ UNCHANGED <<v2, v3>>
            BY <1>0, <1>4, <2>2 DEF CreateHelm3ReleaseMetadataFromHelm2Release, TypeOK
        <3>. QED
            BY <2>2, <3>1, FailIInv DEF Ops
    <2>3. CASE v3' = v3 \cup {data} /\ Result("create", TRUE, <<>>, data)
        <3>1. TypeOK'
            <4>1. storageType' = storageType /\ v2Storage' \in BOOLEAN
                  /\ v2' \subseteq Revisions /\ v3' \subseteq Revisions
                BY <1>0, <1>4, <2>1, <2>3 DEF CreateHelm3ReleaseMetadataFromHelm2Release, TypeOK
            <4>. QED
                BY <1>0, <2>1, <2>3, <4>1, EmptyResult, RevisionRel, ResultType DEF Ops
        <3>. QED
            BY <2>3, <3>1, OtherCall DEF Result
    <2>. QED
        BY <1>4, <2>2, <2>3 DEF CreateHelm3ReleaseMetadataFromHelm2Release
<1>5. ASSUME NEW name \in Releases, GetHelm2ReleaseData(name)
      PROVE  IInv'
    BY <1>5, DataIIv
<1>6. ASSUME NEW data \in v2, BuildHelm2ResourcesInfos(data)
      PROVE  IInv'
    <2>1. data \in Revisions
        BY <1>0 DEF TypeOK
    <2>2. CASE Fail("infos")
        <3>1. storageType' = storageType /\ v2Storage' \in BOOLEAN /\ UNCHANGED <<v2, v3>>
            BY <1>0, <1>6 DEF BuildHelm2ResourcesInfos, TypeOK
        <3>. QED
            BY <2>2, <3>1, FailIInv DEF Ops
    <2>3. CASE Result("infos", TRUE, <<>>, data)
        <3>1. TypeOK'
            <4>1. storageType' = storageType /\ v2Storage' \in BOOLEAN
                  /\ v2' \subseteq Revisions /\ v3' \subseteq Revisions
                BY <1>0, <1>6, <2>1, <2>3 DEF BuildHelm2ResourcesInfos, TypeOK
            <4>. QED
                BY <1>0, <2>1, <2>3, <4>1, EmptyResult, RevisionRel, ResultType DEF Ops
        <3>. QED
            BY <2>3, <3>1, OtherCall DEF Result
    <2>. QED
        BY <1>6, <2>2, <2>3 DEF BuildHelm2ResourcesInfos
<1>7. ASSUME NEW name \in Releases, DeleteHelm2ReleaseMetadata(name)
      PROVE  IInv'
    BY <1>7, DeleteIInv
<1>8. CASE UNCHANGED vars
    BY <1>8 DEF vars, IInv, TypeOK, DeletedReleaseHasNoRevisions,
       ReleaseListsNameEachReleaseOnce, ReleaseDataIsNewestRevision, RevisionsOf
<1>. QED
    BY <1>1, <1>2, <1>3, <1>4, <1>5, <1>6, <1>7, <1>8 DEF Next

-----------------------------------------------------------------------------
(* Theorems.                                                               *)

\* The strengthening holds in every reachable state.
THEOREM IInvariant == Spec => []IInv
BY InitIInv, StepIInv, PTL DEF Spec

\* Every call of the helper keeps the storage type it was created with
\* (an empty option defaulted to "configmap"), keeps both storages to
\* revisions, and returns names of releases and a revision of a release.
THEOREM TypeCorrect == Spec => []TypeOK
BY IInvariant, PTL DEF IInv

\* The revision GetHelm2ReleaseData returns is the newest revision of the
\* release in the helm 2 storage, for every set of releases and every
\* number of revisions: the Reverse over SortByRevision puts it first.
THEOREM ReleaseDataIsNewestRevisionThm == Spec => []ReleaseDataIsNewestRevision
BY IInvariant, PTL DEF IInv

\* A DeleteHelm2ReleaseMetadata that returned success left no revision of
\* the release in the helm 2 storage, for every set of releases and every
\* number of revisions: the listing it deletes from names every revision.
THEOREM DeletedReleaseHasNoRevisionsThm == Spec => []DeletedReleaseHasNoRevisions
BY IInvariant, PTL DEF IInv

\* Every release list GetHelm2ReleasesList or GetHelm3ReleasesList returns
\* names every release of the storage once, for every set of releases,
\* every number of revisions and every order of the storage's listing:
\* the AppendUniqReleases loop keeps the first occurrence of each name.
THEOREM ReleaseListsNameEachReleaseOnceThm ==
    Spec => []ReleaseListsNameEachReleaseOnce
BY IInvariant, PTL DEF IInv

=============================================================================
