---------------------------- MODULE StageResolver ----------------------------
(***************************************************************************)
(* The stage descriptor resolver (getStageDescription) of the werf        *)
(* StorageManager: given a stage ID it consults the local manifest cache   *)
(* for the target storage, then every cache storage in order (manifest     *)
(* cache first, then the storage itself), then the target storage, and     *)
(* rejects a broken image there when a stages storage cache reset is       *)
(* allowed.                                                                *)
(*                                                                         *)
(* The stages of one digest are the model values of IDs; a description is *)
(* abstracted to whether one is found.  Every backend and manifest-cache   *)
(* call may fail, so "error" is always a possible outcome.                 *)
(***************************************************************************)
EXTENDS Naturals

CONSTANTS
    IDs,                    \* unique IDs of the stages of one digest
    NCache,                 \* length of CacheStagesStorageList
    WithLocalManifestCache  \* getWithLocalManifestCacheOption()

ASSUME ResolverAssumption ==
    /\ NCache \in Nat
    /\ WithLocalManifestCache \in BOOLEAN

\* Tier 0 is the stages storage the description is asked of; 1..NCache the
\* cache stages storages in the order of CacheStagesStorageList.
Primary == 0
Caches == 1..NCache
Tiers == {Primary} \cup Caches

\* What GetStageDescription of a storage can see of a stage.  A rejected
\* stage is never returned again.
PrimaryStatus == {"ok", "broken", "none", "rejected"}
CacheStatus == {"ok", "none"}

\* The results of getStageDescription: a description, (nil, nil),
\* ErrShouldResetStagesStorageCache, or another error.
Outcomes == {"found", "absent", "reset", "error"}

VARIABLES
    primary,   \* primary[id]: the stage in the stages storage
    cache,     \* cache[c][id]: the stage in cache stages storage c
    manifest   \* image.CommonManifestCache: set of <<tier, id>> entries

resolverVars == <<primary, cache, manifest>>

ResolverTypeOK ==
    /\ primary \in [IDs -> PrimaryStatus]
    /\ cache \in [Caches -> [IDs -> CacheStatus]]
    /\ manifest \subseteq Tiers \X IDs

\* getStageDescriptionFromLocalManifestCache returns an entry.
ManifestHit(t, id) == WithLocalManifestCache /\ <<t, id>> \in manifest

\* storeStageDescriptionIntoLocalManifestCache, when the option is on.
StoreManifest(t, id) ==
    manifest' = IF WithLocalManifestCache THEN manifest \cup {<<t, id>>}
                                          ELSE manifest

\* getStageDescription(stageID = id, stagesStorage = primary) with
\* AllowStagesStorageCacheReset = allowReset, returning o.  An error of a
\* cache storage's GetStageDescription only skips that storage, so the
\* storage that answers is any cache tier k with no manifest hit before it.
getStageDescription(id, allowReset, o) ==
    \/ /\ o = "error"
       /\ UNCHANGED <<primary, manifest>>
    \/ /\ ManifestHit(Primary, id)
       /\ o = "found"
       /\ UNCHANGED <<primary, manifest>>
    \/ /\ ~ManifestHit(Primary, id)
       /\ \E k \in Caches :
            /\ \A c \in 1..(k - 1) : ~ManifestHit(c, id)
            /\ \/ /\ ManifestHit(k, id)
                  /\ UNCHANGED manifest
               \/ /\ ~ManifestHit(k, id)
                  /\ cache[k][id] = "ok"
                  /\ StoreManifest(k, id)
       /\ o = "found"
       /\ UNCHANGED primary
    \/ /\ ~ManifestHit(Primary, id)
       /\ \A c \in Caches : ~ManifestHit(c, id)
       /\ \/ /\ primary[id] = "broken"
             /\ allowReset
             /\ primary' = [primary EXCEPT ![id] = "rejected"]
             /\ o = "reset"
             /\ UNCHANGED manifest
          \/ /\ primary[id] = "ok"
             /\ StoreManifest(Primary, id)
             /\ o = "found"
             /\ UNCHANGED primary
          \/ /\ \/ primary[id] \in {"none", "rejected"}
                \/ primary[id] = "broken" /\ ~allowReset
             /\ o = IF allowReset THEN "reset" ELSE "absent"
             /\ UNCHANGED <<primary, manifest>>

=============================================================================
