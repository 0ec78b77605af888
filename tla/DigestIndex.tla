----------------------------- MODULE DigestIndex -----------------------------
(***************************************************************************)
(* The digest index of the werf StorageManager for one digest: builders   *)
(* calling GetStagesByDigest (read the stages storage cache unlocked,      *)
(* resolve the indexed stages, or refresh the record under the per-digest  *)
(* lock) or AtomicStoreStagesByDigestToCache, a cleanup calling            *)
(* ForEachDeleteStage (unlocked purge of the record, then parallel          *)
(* deletes), and ResetStagesStorageCache after a lookup asked for it.      *)
(***************************************************************************)
EXTENDS StageResolver, FiniteSets

CONSTANTS
    Builders,  \* concurrent callers of the StorageManager
    NoOne      \* the per-digest lock is free

ASSUME DigestIndexAssumption == NoOne \notin Builders

PCs == {"idle", "cached", "lock", "list", "resolve", "store",
        "storeLock", "storeWrite", "done"}

\* Where a call holds the lock taken by LockStageCache.
LockedPCs == {"list", "resolve", "store", "storeWrite"}

Results == {"none", "ok", "reset", "error", "resetDone"}

VARIABLES
    indexed,   \* the stages storage cache has a record for the digest
    index,     \* the stage IDs of that record
    lock,      \* holder of the per-digest lock (LockStageCache)
    pc,        \* where each builder's call is
    todo,      \* stage IDs its loop has still to resolve
    valid,     \* stage IDs resolved so far / the IDs it stores
    result,    \* what the call returned
    dpc,       \* where ForEachDeleteStage is
    dleft      \* stages whose deletion task has not run

indexVars == <<indexed, index, lock>>
builderVars == <<pc, todo, valid, result>>
cleanupVars == <<dpc, dleft>>
vars == <<resolverVars, indexVars, builderVars, cleanupVars>>

TypeOK ==
    /\ ResolverTypeOK
    /\ indexed \in BOOLEAN
    /\ index \subseteq IDs
    /\ lock \in Builders \cup {NoOne}
    /\ pc \in [Builders -> PCs]
    /\ todo \in [Builders -> SUBSET IDs]
    /\ valid \in [Builders -> SUBSET IDs]
    /\ result \in [Builders -> Results]
    /\ dpc \in {"purge", "delete", "done"}
    /\ dleft \subseteq IDs

\* Any stages in the stages storage (intact, broken or missing) and the
\* cache storages and any record in the stages storage cache, on a host
\* with an empty manifest cache; the cleanup is given stages that exist.
Init ==
    /\ primary \in [IDs -> {"ok", "broken", "none"}]
    /\ cache \in [Caches -> [IDs -> CacheStatus]]
    /\ manifest = {}
    /\ indexed \in BOOLEAN
    /\ index \in SUBSET IDs
    /\ lock = NoOne
    /\ pc = [b \in Builders |-> "idle"]
    /\ todo = [b \in Builders |-> {}]
    /\ valid = [b \in Builders |-> {}]
    /\ result = [b \in Builders |-> "none"]
    /\ dpc = "purge"
    /\ dleft \in SUBSET {id \in IDs : primary[id] = "ok"}

Return(b, r) ==
    /\ pc' = [pc EXCEPT ![b] = "done"]
    /\ result' = [result EXCEPT ![b] = r]

\* LockStageCache returns once the per-digest lock is free and taken.
TakeLock(b, next) ==
    /\ lock = NoOne
    /\ lock' = b
    /\ pc' = [pc EXCEPT ![b] = next]
    /\ UNCHANGED result

\* The deferred StorageLockManager.Unlock of a locked section.
Unlock == lock' = NoOne

-----------------------------------------------------------------------------
(* GetStagesByDigest                                                       *)

\* GetStagesByDigest (833-847) and getStagesByDigestFromCache (893-901):
\* read the record without the lock.
GetStagesByDigest(b) ==
    /\ pc[b] = "idle"
    /\ \/ Return(b, "error") /\ UNCHANGED todo
       \/ /\ indexed
          /\ todo' = [todo EXCEPT ![b] = index]
          /\ pc' = [pc EXCEPT ![b] = "cached"]
          /\ UNCHANGED result
       \/ /\ ~indexed
          /\ pc' = [pc EXCEPT ![b] = "lock"]
          /\ UNCHANGED <<todo, result>>
    /\ UNCHANGED <<resolverVars, indexVars, valid, cleanupVars>>

\* One iteration of the loop of getStagesByDigestFromCache (903-915), with
\* AllowStagesStorageCacheReset; the loop ends in a successful return.
ResolveCached(b) ==
    /\ pc[b] = "cached"
    /\ \/ /\ todo[b] = {}
          /\ Return(b, "ok")
          /\ UNCHANGED <<resolverVars, todo, valid>>
       \/ \E id \in todo[b], o \in Outcomes :
            /\ getStageDescription(id, TRUE, o)
            /\ UNCHANGED cache
            /\ todo' = [todo EXCEPT ![b] = @ \ {id}]
            /\ \/ o \in {"reset", "error"} /\ Return(b, o) /\ UNCHANGED valid
               \/ /\ o = "found"
                  /\ valid' = [valid EXCEPT ![b] = @ \cup {id}]
                  /\ UNCHANGED <<pc, result>>
    /\ UNCHANGED <<indexVars, cleanupVars>>

\* Mutant: the deferred Unlock is registered before the error of
\* LockStageCache is checked, so a failed acquisition releases the lock
\* that another call holds.
LockStageCacheUnlockOnError(b) ==
    /\ pc[b] = "lock"
    /\ \/ TakeLock(b, "list")
       \/ Return(b, "error") /\ Unlock
    /\ UNCHANGED <<resolverVars, indexed, index, todo, valid, cleanupVars>>

\* atomicGetStagesByDigestWithStagesStorageCacheStore takes the lock
\* (957-961).
LockStageCache(b) ==
    /\ pc[b] = "lock"
    /\ \/ TakeLock(b, "list")
       \/ Return(b, "error") /\ UNCHANGED lock
    /\ UNCHANGED <<resolverVars, indexed, index, todo, valid, cleanupVars>>

\* Mutant: the error return of the listing forgets the deferred Unlock.
ListStagesIDsByDigestNoUnlock(b) ==
    /\ pc[b] = "list"
    /\ \/ Return(b, "error") /\ UNCHANGED <<todo, lock>>
       \/ /\ todo' = [todo EXCEPT ![b] = {id \in IDs : primary[id] \in {"ok", "broken"}}]
          /\ pc' = [pc EXCEPT ![b] = "resolve"]
          /\ UNCHANGED <<lock, result>>
    /\ UNCHANGED <<resolverVars, indexed, index, valid, cleanupVars>>

\* getStagesIDsByDigestFromStagesStorage (963-966, 920-938): the storage
\* lists the tags of the digest, which a rejected stage no longer has.
ListStagesIDsByDigest(b) ==
    /\ pc[b] = "list"
    /\ \/ Return(b, "error") /\ Unlock /\ UNCHANGED todo
       \/ /\ todo' = [todo EXCEPT ![b] = {id \in IDs : primary[id] \in {"ok", "broken"}}]
          /\ pc' = [pc EXCEPT ![b] = "resolve"]
          /\ UNCHANGED <<lock, result>>
    /\ UNCHANGED <<resolverVars, indexed, index, valid, cleanupVars>>

\* Mutant: the loop over the listed stages never falls through to the
\* store.
ResolveFreshNoStore(b) ==
    /\ pc[b] = "resolve"
    /\ \E id \in todo[b], o \in Outcomes :
         /\ getStageDescription(id, FALSE, o)
         /\ UNCHANGED cache
         /\ todo' = [todo EXCEPT ![b] = @ \ {id}]
         /\ \/ o = "error" /\ Return(b, o) /\ Unlock /\ UNCHANGED valid
            \/ /\ o = "found"
               /\ valid' = [valid EXCEPT ![b] = @ \cup {id}]
               /\ UNCHANGED <<pc, result, lock>>
            \/ o = "absent" /\ UNCHANGED <<pc, result, lock, valid>>
    /\ UNCHANGED <<indexed, index, cleanupVars>>

\* Mutant: a stage with no description aborts the lookup and hands the
\* resolver's "absent" back as the call's result.
ResolveFreshAbortOnAbsent(b) ==
    /\ pc[b] = "resolve"
    /\ \/ /\ todo[b] = {}
          /\ pc' = [pc EXCEPT ![b] = "store"]
          /\ UNCHANGED <<resolverVars, lock, todo, valid, result>>
       \/ \E id \in todo[b], o \in Outcomes :
            /\ getStageDescription(id, FALSE, o)
            /\ UNCHANGED cache
            /\ todo' = [todo EXCEPT ![b] = @ \ {id}]
            /\ \/ o \in {"error", "absent"} /\ Return(b, o) /\ Unlock /\ UNCHANGED valid
               \/ /\ o = "found"
                  /\ valid' = [valid EXCEPT ![b] = @ \cup {id}]
                  /\ UNCHANGED <<pc, result, lock>>
    /\ UNCHANGED <<indexed, index, cleanupVars>>

\* One iteration of getStagesDescriptions (940-954), without reset: a
\* stage with no description is skipped.
ResolveFresh(b) ==
    /\ pc[b] = "resolve"
    /\ \/ /\ todo[b] = {}
          /\ pc' = [pc EXCEPT ![b] = "store"]
          /\ UNCHANGED <<resolverVars, lock, todo, valid, result>>
       \/ \E id \in todo[b], o \in Outcomes :
            /\ getStageDescription(id, FALSE, o)
            /\ UNCHANGED cache
            /\ todo' = [todo EXCEPT ![b] = @ \ {id}]
            /\ \/ o = "error" /\ Return(b, o) /\ Unlock /\ UNCHANGED valid
               \/ /\ o = "found"
                  /\ valid' = [valid EXCEPT ![b] = @ \cup {id}]
                  /\ UNCHANGED <<pc, result, lock>>
               \/ o = "absent" /\ UNCHANGED <<pc, result, lock, valid>>
    /\ UNCHANGED <<indexed, index, cleanupVars>>

\* StoreStagesByDigest of the resolved stages and the deferred unlock
\* (973-993).
StoreFresh(b) ==
    /\ pc[b] = "store"
    /\ Unlock
    /\ \/ Return(b, "error") /\ UNCHANGED <<indexed, index>>
       \/ /\ indexed' = TRUE
          /\ index' = valid[b]
          /\ Return(b, "ok")
    /\ UNCHANGED <<resolverVars, todo, valid, cleanupVars>>

-----------------------------------------------------------------------------
(* AtomicStoreStagesByDigestToCache                                        *)

\* A builder stores the IDs of stages it has in the stages storage.
AtomicStoreStagesByDigestToCache(b) ==
    /\ pc[b] = "idle"
    /\ \E ids \in SUBSET {id \in IDs : primary[id] = "ok"} :
         valid' = [valid EXCEPT ![b] = ids]
    /\ pc' = [pc EXCEPT ![b] = "storeLock"]
    /\ UNCHANGED <<resolverVars, indexVars, todo, result, cleanupVars>>

\* Mutant: AtomicStoreStagesByDigestToCache writes without the lock.
StoreLockSkipped(b) ==
    /\ pc[b] = "storeLock"
    /\ pc' = [pc EXCEPT ![b] = "storeWrite"]
    /\ UNCHANGED <<result, lock>>
    /\ UNCHANGED <<resolverVars, indexed, index, todo, valid, cleanupVars>>

\* LockStageCache (818-822).
StoreLock(b) ==
    /\ pc[b] = "storeLock"
    /\ \/ TakeLock(b, "storeWrite")
       \/ Return(b, "error") /\ UNCHANGED lock
    /\ UNCHANGED <<resolverVars, indexed, index, todo, valid, cleanupVars>>

\* StoreStagesByDigest and the deferred unlock (824-830).
StoreWrite(b) ==
    /\ pc[b] = "storeWrite"
    /\ Unlock
    /\ \/ Return(b, "error") /\ UNCHANGED <<indexed, index>>
       \/ /\ indexed' = TRUE
          /\ index' = valid[b]
          /\ Return(b, "ok")
    /\ UNCHANGED <<resolverVars, todo, valid, cleanupVars>>

\* The build driver answers ErrShouldResetStagesStorageCache with
\* ResetStagesStorageCache (330-335): DeleteAllStages of the project.
ResetStagesStorageCache(b) ==
    /\ pc[b] = "done"
    /\ result[b] = "reset"
    /\ \/ indexed' = FALSE /\ index' = {}
       \/ UNCHANGED <<indexed, index>>
    /\ result' = [result EXCEPT ![b] = "resetDone"]
    /\ UNCHANGED <<resolverVars, lock, pc, todo, valid, cleanupVars>>

-----------------------------------------------------------------------------
(* ForEachDeleteStage                                                      *)

\* DeleteStagesByDigest of every digest, unlocked, before any deletion
\* (438-442).
PurgeIndex ==
    /\ dpc = "purge"
    /\ \/ dpc' = "done" /\ UNCHANGED <<indexed, index>>
       \/ /\ indexed' = FALSE
          /\ index' = {}
          /\ dpc' = "delete"
    /\ UNCHANGED <<resolverVars, lock, builderVars, dleft>>

\* One deletion task of parallel.DoTasks (444-457): DeleteStage in every
\* cache storage (a failure is a warning), then in the stages storage.
DeleteStage ==
    /\ dpc = "delete"
    /\ \/ dleft = {} /\ dpc' = "done" /\ UNCHANGED <<resolverVars, dleft>>
       \/ \E id \in dleft :
            /\ \E kept \in SUBSET Caches :
                 cache' = [c \in Caches |->
                             [cache[c] EXCEPT ![id] = IF c \in kept THEN @ ELSE "none"]]
            /\ \/ primary' = [primary EXCEPT ![id] = "none"]
               \/ UNCHANGED primary
            /\ dleft' = dleft \ {id}
            /\ UNCHANGED <<manifest, dpc>>
    /\ UNCHANGED <<indexVars, builderVars>>

Builder(b) ==
    \/ GetStagesByDigest(b)
    \/ ResolveCached(b)
    \/ LockStageCache(b)
    \/ ListStagesIDsByDigest(b)
    \/ ResolveFresh(b)
    \/ StoreFresh(b)
    \/ AtomicStoreStagesByDigestToCache(b)
    \/ StoreLock(b)
    \/ StoreWrite(b)
    \/ ResetStagesStorageCache(b)

Next ==
    \/ \E b \in Builders : Builder(b)
    \/ PurgeIndex
    \/ DeleteStage

\* Every builder and the cleanup run on goroutines of their own: a backend
\* call eventually returns, with any of its results, and a call waiting in
\* LockStageCache takes the lock once it stays free.  A lock error is not
\* something the scheduler forces on a waiting call.
Waiting(b) == pc[b] \in {"lock", "storeLock"}

LockAcquired(b) ==
    /\ \/ pc[b] = "lock" /\ TakeLock(b, "list")
       \/ pc[b] = "storeLock" /\ TakeLock(b, "storeWrite")
    /\ UNCHANGED <<resolverVars, indexed, index, todo, valid, cleanupVars>>

Fairness ==
    /\ \A b \in Builders : WF_vars(~Waiting(b) /\ Builder(b))
    /\ \A b \in Builders : WF_vars(LockAcquired(b))
    /\ WF_vars(PurgeIndex \/ DeleteStage)

Spec == Init /\ [][Next]_vars /\ Fairness

-----------------------------------------------------------------------------
(* Properties                                                              *)

\* Every path out of a locked section, the error paths included, releases
\* the per-digest lock (the deferred Unlock): only a call inside one holds
\* it.
NoLeakedDigestLock ==
    lock # NoOne => pc[lock] \in LockedPCs

\* Spec invariant 2: writes of a record to the stages storage cache are
\* serialized by the per-digest lock, so none is lost under concurrent
\* refreshes and stores.
IndexWritesLocked ==
    [][indexed' /\ (~indexed \/ index' # index) => lock # NoOne]_vars

\* Every GetStagesByDigest and AtomicStoreStagesByDigestToCache call and
\* the cleanup return: nobody waits forever on the per-digest lock.
DigestCallsTerminate ==
    /\ \A b \in Builders : <>(pc[b] = "done")
    /\ <>(dpc = "done")

\* The abstract per-digest lock and record, on the same variables.
DigestLock == INSTANCE DigestRecordLock

\* The per-digest lock is a mutex for the digest's record: only a free
\* lock is taken, only the call holding it releases it (every deferred
\* Unlock runs in the call that took the lock), and the record is written
\* only by the holder as it releases the lock; only DeleteStagesByDigest
\* and DeleteAllStages change the record without it.
ImplementsDigestRecordLock == DigestLock!Spec

=============================================================================
