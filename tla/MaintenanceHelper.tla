------------------------- MODULE MaintenanceHelper -------------------------
(***************************************************************************)
(* The helm 2 to helm 3 maintenance helper                                 *)
(* (pkg/deploy/helm/maintenance_helper/maintenance_helper.go).  One        *)
(* caller issues its calls one after another.  The helm 2 release storage  *)
(* and the helm 3 release storage hold release revisions, one record per   *)
(* (name, version); every call to either storage may fail.  The helm 2     *)
(* storage handle is created lazily by initHelm2Storage and kept once it   *)
(* was created.  The output of the last call is kept in "out" so that the  *)
(* properties can relate it to the storages it was computed from.          *)
(***************************************************************************)
EXTENDS Naturals, Sequences, SequencesExt

CONSTANTS
    Releases,       \* release names
    MaxVersion      \* revisions of a release are 1..MaxVersion

\* The cluster holds finitely many releases; revisions count from 1.
ASSUME MaintenanceHelperAssumption ==
    IsFiniteSet(Releases) /\ MaxVersion \in Nat

Versions == 1 .. MaxVersion
Revisions == Releases \X Versions       \* <<rel.Name, rel.Version>>

\* MaintenanceHelperOptions.Helm2ReleaseStorageType values a caller passes.
StorageTypeOptions == {"", "configmap", "secret", "memory"}

NoRevision == <<"none", 0>>

VARIABLES
    storageType,    \* helper.Helm2ReleaseStorageType
    v2Storage,      \* helper.v2Storage # nil
    v2,             \* release revisions in the helm 2 storage
    v3,             \* release revisions in the helm 3 storage
    out             \* what the last call returned

vars == <<storageType, v2Storage, v2, v3, out>>

Ops == {"none", "check", "list2", "list3", "create", "data", "infos", "delete"}

TypeOK ==
    /\ storageType \in {"configmap", "secret", "memory"}
    /\ v2Storage \in BOOLEAN
    /\ v2 \subseteq Revisions
    /\ v3 \subseteq Revisions
    /\ out \in [op : Ops, ok : BOOLEAN, names : Seq(Releases),
                rel : (Releases \X (0 .. MaxVersion)) \cup {NoRevision}]

\* The orders in which a storage listing may return a set of revisions.
Listings(S) == {f \in [1 .. Cardinality(S) -> S] : IsInjective(f)}

\* The AppendUniqReleases loop: the names of rels in order of first
\* appearance, each once.
AppendUniqReleasesNoLabel(rels) ==
    LET res[i \in 0 .. Len(rels)] ==
            IF i = 0 THEN <<>> ELSE Append(res[i - 1], rels[i][1])
    IN  res[Len(rels)]

AppendUniqReleases(rels) ==
    LET res[i \in 0 .. Len(rels)] ==
            IF i = 0 THEN <<>>
            ELSE IF rels[i][1] \in Range(res[i - 1]) THEN res[i - 1]
            ELSE Append(res[i - 1], rels[i][1])
    IN  res[Len(rels)]

\* sort.Sort(SortByRevision): the listing of S in increasing revision order.
SortByRevisionAsc(S) ==
    CHOOSE f \in Listings(S) : \A i, j \in DOMAIN f : i < j => f[i][2] < f[j][2]

\* releases[0] after a sort without the Reverse.
NewestForward(S) == SortByRevisionAsc(S)[1]

\* v2_releaseutil.Reverse(releases, SortByRevision) followed by releases[0].
NewestRevision(S) == Reverse(SortByRevisionAsc(S))[1]

RevisionsOf(S, name) == {r \in S : r[1] = name}

Result(op, ok, names, rel) ==
    out' = [op |-> op, ok |-> ok, names |-> names, rel |-> rel]

Fail(op) == Result(op, FALSE, <<>>, NoRevision)

InitNoDefault ==
    /\ storageType \in StorageTypeOptions
    /\ v2Storage = FALSE
    /\ v2 \in SUBSET Revisions
    /\ v3 \in SUBSET Revisions
    /\ out = [op |-> "none", ok |-> TRUE, names |-> <<>>, rel |-> NoRevision]

\* NewMaintenanceHelper: an empty storage type defaults to "configmap".
Init ==
    /\ \E opt \in StorageTypeOptions :
           storageType = IF opt = "" THEN "configmap" ELSE opt
    /\ v2Storage = FALSE
    /\ v2 \in SUBSET Revisions
    /\ v3 \in SUBSET Revisions
    /\ out = [op |-> "none", ok |-> TRUE, names |-> <<>>, rel |-> NoRevision]

\* initHelm2Storage, as the first step of a call op: Body is the rest of
\* the call, taken once the storage handle exists.
InitHelm2Storage(op, Body) ==
    \/ /\ v2Storage
       /\ Body
       /\ UNCHANGED v2Storage
    \/ /\ ~v2Storage
       /\ storageType \in {"configmap", "secret"}
       /\ v2Storage' = TRUE
       /\ Body
    \/ /\ ~v2Storage
       /\ storageType \notin {"configmap", "secret"}
       /\ Fail(op)
       /\ UNCHANGED <<v2Storage, v2>>

\* CheckHelm2StorageAvailable: whether storage.ListReleases succeeds.
CheckHelm2StorageAvailable ==
    /\ InitHelm2Storage("check",
           Result("check", TRUE, <<>>, NoRevision))
    /\ UNCHANGED <<storageType, v2, v3>>

\* GetHelm3ReleasesList: ListReleases of the helm 3 storage, deduplicated.
GetHelm3ReleasesList ==
    /\ \/ Fail("list3")
       \/ \E rels \in Listings(v3) :
              Result("list3", TRUE, AppendUniqReleases(rels), NoRevision)
    /\ UNCHANGED <<storageType, v2Storage, v2, v3>>

\* GetHelm2ReleasesList: ListReleases of the helm 2 storage, deduplicated.
GetHelm2ReleasesList ==
    /\ InitHelm2Storage("list2",
           \/ Fail("list2")
           \/ \E rels \in Listings(v2) :
                  Result("list2", TRUE, AppendUniqReleases(rels), NoRevision))
    /\ UNCHANGED <<storageType, v2, v3>>

\* CreateHelm3ReleaseMetadataFromHelm2Release: helm2to3 CreateRelease keeps
\* name and version; Releases.Create refuses an existing revision or fails.
CreateHelm3ReleaseMetadataFromHelm2Release(data) ==
    /\ \/ /\ data \notin v3
          /\ v3' = v3 \cup {data}
          /\ Result("create", TRUE, <<>>, data)
       \/ /\ Fail("create")
          /\ UNCHANGED v3
    /\ UNCHANGED <<storageType, v2Storage, v2>>

\* GetHelm2ReleaseData: the newest revision of the release.
GetHelm2ReleaseData(name) ==
    /\ InitHelm2Storage("data",
           \/ Fail("data")
           \/ /\ RevisionsOf(v2, name) = {}
              /\ Fail("data")
           \/ /\ RevisionsOf(v2, name) # {}
              /\ Result("data", TRUE, <<>>, NewestRevision(RevisionsOf(v2, name))))
    /\ UNCHANGED <<storageType, v2, v3>>

\* BuildHelm2ResourcesInfos with getResourcesFactory and newBuilder: the
\* manifest of the release data is parsed into resource infos through the
\* kube client factory; creating the config getter, the schema validator
\* or the parse may fail.  Neither storage is read or written.
BuildHelm2ResourcesInfos(data) ==
    /\ \/ Fail("infos")
       \/ Result("infos", TRUE, <<>>, data)
    /\ UNCHANGED <<storageType, v2Storage, v2, v3>>

\* DeleteHelm2ReleaseMetadata: storage.Delete of every revision of the
\* release in the order ListFilterAll returned them; the first failing
\* Delete returns an error and leaves the remaining revisions in place.
DeleteHelm2ReleaseMetadataFirstOnly(name) ==
    /\ InitHelm2Storage("delete",
           \E rels \in Listings(RevisionsOf(v2, name)) :
               /\ v2' = v2 \ {rels[i] : i \in DOMAIN rels \cap {1}}
               /\ Result("delete", TRUE, <<>>, <<name, 0>>))
    /\ UNCHANGED <<storageType, v3>>

DeleteHelm2ReleaseMetadata(name) ==
    /\ InitHelm2Storage("delete",
           \/ /\ Fail("delete")
              /\ UNCHANGED v2
           \/ \E rels \in Listings(RevisionsOf(v2, name)) :
                  \/ /\ v2' = v2 \ Range(rels)
                     /\ Result("delete", TRUE, <<>>, <<name, 0>>)
                  \/ \E k \in 1 .. Len(rels) :
                         /\ v2' = v2 \ Range(SubSeq(rels, 1, k - 1))
                         /\ Result("delete", FALSE, <<>>, <<name, 0>>))
    /\ UNCHANGED <<storageType, v3>>

Next ==
    \/ CheckHelm2StorageAvailable
    \/ GetHelm3ReleasesList
    \/ GetHelm2ReleasesList
    \/ \E data \in v2 : CreateHelm3ReleaseMetadataFromHelm2Release(data)
    \/ \E name \in Releases : GetHelm2ReleaseData(name)
    \/ \E data \in v2 : BuildHelm2ResourcesInfos(data)
    \/ \E name \in Releases : DeleteHelm2ReleaseMetadata(name)

Spec == Init /\ [][Next]_vars

-----------------------------------------------------------------------------
(* Properties.                                                             *)

\* A release list returned by GetHelm2ReleasesList or GetHelm3ReleasesList
\* names every release the storage holds a revision of, and names each once
\* although the storage listing returns one record per revision in any
\* order (the labelled continue of AppendUniqReleases, lines 112-120 and
\* 139-147).
ReleaseListsNameEachReleaseOnce ==
    out.op \in {"list2", "list3"} /\ out.ok =>
        LET store == IF out.op = "list2" THEN v2 ELSE v3
        IN  /\ IsInjective(out.names)
            /\ Range(out.names) = {r[1] : r \in store}

\* GetHelm2ReleaseData returns the newest revision of the release, the one
\* the helm 3 metadata is created from (Reverse over SortByRevision,
\* line 184, then releases[0]).
ReleaseDataIsNewestRevision ==
    out.op = "data" /\ out.ok =>
        \A r \in RevisionsOf(v2, out.rel[1]) : r[2] <= out.rel[2]

\* A DeleteHelm2ReleaseMetadata that returned success left no revision of
\* the release in the helm 2 storage.
DeletedReleaseHasNoRevisions ==
    out.op = "delete" /\ out.ok => RevisionsOf(v2, out.rel[1]) = {}

=============================================================================
