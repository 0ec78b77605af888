-------------------------- MODULE DigestIndexProofs --------------------------
(***************************************************************************)
(* Proofs about the digest index: type correctness, that the per-digest   *)
(* lock is held exactly by the call inside a locked section               *)
(* (NoLeakedDigestLock), and that every write of a record holds it        *)
(* (IndexWritesLocked), for every set of builders, stages and cache       *)
(* storages.                                                               *)
(***************************************************************************)
EXTENDS DigestIndex, TLAPS

\* A call inside a locked section is the holder of the lock.
LockOwned == \A b \in Builders : pc[b] \in LockedPCs => lock = b

\* The inductive invariant: mutual exclusion of the locked sections.
IInv ==
    /\ TypeOK
    /\ NoLeakedDigestLock
    /\ LockOwned

USE ResolverAssumption, DigestIndexAssumption

-----------------------------------------------------------------------------
(* Lemmas.                                                                 *)

\* getStageDescription leaves the resolver's state well typed.
LEMMA ResolverTypeStep ==
    ASSUME ResolverTypeOK, NEW id \in IDs, NEW allowReset \in BOOLEAN,
           NEW o \in Outcomes, getStageDescription(id, allowReset, o),
           cache' = cache
    PROVE  ResolverTypeOK'
<1>1. \A t \in Tiers : <<t, id>> \in Tiers \X IDs
    OBVIOUS
<1>2. \A t \in Tiers : StoreManifest(t, id) => manifest' \subseteq Tiers \X IDs
    BY <1>1 DEF StoreManifest, ResolverTypeOK
<1>3. Primary \in Tiers /\ Caches \subseteq Tiers
    BY DEF Tiers
<1>4. manifest' \subseteq Tiers \X IDs
    BY <1>2, <1>3 DEF getStageDescription, ResolverTypeOK
<1>5. primary' \in [IDs -> PrimaryStatus]
    BY DEF getStageDescription, ResolverTypeOK, PrimaryStatus
<1>. QED
    BY <1>4, <1>5 DEF ResolverTypeOK

-----------------------------------------------------------------------------
(* The invariant.                                                          *)

LEMMA InitIInv == Init => IInv
BY DEF Init, IInv, TypeOK, ResolverTypeOK, NoLeakedDigestLock, LockOwned,
       PCs, Results, LockedPCs, PrimaryStatus

LEMMA StepIInv == IInv /\ [Next]_vars => IInv'
<1>. SUFFICES ASSUME IInv, [Next]_vars PROVE IInv'
    OBVIOUS
<1>. USE DEF IInv, TypeOK, ResolverTypeOK, NoLeakedDigestLock, LockOwned, PCs, Results,
             LockedPCs
<1>1. ASSUME NEW b \in Builders, GetStagesByDigest(b) PROVE IInv'
    BY <1>1 DEF GetStagesByDigest, Return, resolverVars, indexVars,
       cleanupVars
<1>2. ASSUME NEW b \in Builders, ResolveCached(b) PROVE IInv'
    <2>1. CASE todo[b] = {} /\ Return(b, "ok")
               /\ UNCHANGED <<resolverVars, todo, valid>>
        BY <1>2, <2>1 DEF ResolveCached, Return, resolverVars, indexVars,
           cleanupVars
    <2>2. CASE \E id \in todo[b], o \in Outcomes :
                 /\ getStageDescription(id, TRUE, o)
                 /\ UNCHANGED cache
                 /\ todo' = [todo EXCEPT ![b] = @ \ {id}]
                 /\ \/ o \in {"reset", "error"} /\ Return(b, o) /\ UNCHANGED valid
                    \/ /\ o = "found"
                       /\ valid' = [valid EXCEPT ![b] = @ \cup {id}]
                       /\ UNCHANGED <<pc, result>>
        <3>1. PICK id \in todo[b], o \in Outcomes :
                 /\ getStageDescription(id, TRUE, o)
                 /\ UNCHANGED cache
                 /\ todo' = [todo EXCEPT ![b] = @ \ {id}]
                 /\ \/ o \in {"reset", "error"} /\ Return(b, o) /\ UNCHANGED valid
                    \/ /\ o = "found"
                       /\ valid' = [valid EXCEPT ![b] = @ \cup {id}]
                       /\ UNCHANGED <<pc, result>>
            BY <2>2
        <3>2. ResolverTypeOK'
            BY <3>1, ResolverTypeStep
        <3>3. pc[b] = "cached" /\ UNCHANGED <<indexVars, cleanupVars>>
            BY <1>2 DEF ResolveCached
        <3>4. CASE o \in {"reset", "error"} /\ Return(b, o) /\ UNCHANGED valid
            BY <3>1, <3>2, <3>3, <3>4 DEF Return, indexVars, cleanupVars
        <3>5. CASE /\ o = "found"
                   /\ valid' = [valid EXCEPT ![b] = @ \cup {id}]
                   /\ UNCHANGED <<pc, result>>
            BY <3>1, <3>2, <3>3, <3>5 DEF indexVars, cleanupVars
        <3>. QED
            BY <3>1, <3>4, <3>5
    <2>. QED
        BY <1>2, <2>1, <2>2 DEF ResolveCached
<1>3. ASSUME NEW b \in Builders, LockStageCache(b) PROVE IInv'
    BY <1>3 DEF LockStageCache, TakeLock, Return, resolverVars, cleanupVars
<1>4. ASSUME NEW b \in Builders, ListStagesIDsByDigest(b) PROVE IInv'
    BY <1>4 DEF ListStagesIDsByDigest, Return, Unlock, resolverVars,
       cleanupVars
<1>5. ASSUME NEW b \in Builders, ResolveFresh(b) PROVE IInv'
    <2>1. CASE todo[b] = {} /\ pc' = [pc EXCEPT ![b] = "store"]
               /\ UNCHANGED <<resolverVars, lock, todo, valid, result>>
        BY <1>5, <2>1 DEF ResolveFresh, resolverVars, indexVars, cleanupVars
    <2>2. CASE \E id \in todo[b], o \in Outcomes :
                 /\ getStageDescription(id, FALSE, o)
                 /\ UNCHANGED cache
                 /\ todo' = [todo EXCEPT ![b] = @ \ {id}]
                 /\ \/ o = "error" /\ Return(b, o) /\ Unlock /\ UNCHANGED valid
                    \/ /\ o = "found"
                       /\ valid' = [valid EXCEPT ![b] = @ \cup {id}]
                       /\ UNCHANGED <<pc, result, lock>>
                    \/ o = "absent" /\ UNCHANGED <<pc, result, lock, valid>>
        <3>1. PICK id \in todo[b], o \in Outcomes :
                 /\ getStageDescription(id, FALSE, o)
                 /\ UNCHANGED cache
                 /\ todo' = [todo EXCEPT ![b] = @ \ {id}]
                 /\ \/ o = "error" /\ Return(b, o) /\ Unlock /\ UNCHANGED valid
                    \/ /\ o = "found"
                       /\ valid' = [valid EXCEPT ![b] = @ \cup {id}]
                       /\ UNCHANGED <<pc, result, lock>>
                    \/ o = "absent" /\ UNCHANGED <<pc, result, lock, valid>>
            BY <2>2
        <3>2. ResolverTypeOK'
            BY <3>1, ResolverTypeStep
        <3>3. pc[b] = "resolve" /\ UNCHANGED <<indexed, index, cleanupVars>>
            BY <1>5 DEF ResolveFresh
        <3>4. CASE o = "error" /\ Return(b, o) /\ Unlock /\ UNCHANGED valid
            BY <3>1, <3>2, <3>3, <3>4 DEF Return, Unlock, cleanupVars
        <3>5. CASE /\ o = "found"
                   /\ valid' = [valid EXCEPT ![b] = @ \cup {id}]
                   /\ UNCHANGED <<pc, result, lock>>
            BY <3>1, <3>2, <3>3, <3>5 DEF cleanupVars
        <3>6. CASE o = "absent" /\ UNCHANGED <<pc, result, lock, valid>>
            BY <3>1, <3>2, <3>3, <3>6 DEF cleanupVars
        <3>. QED
            BY <3>1, <3>4, <3>5, <3>6
    <2>. QED
        BY <1>5, <2>1, <2>2 DEF ResolveFresh
<1>6. ASSUME NEW b \in Builders, StoreFresh(b) PROVE IInv'
    BY <1>6 DEF StoreFresh, Return, Unlock, resolverVars, cleanupVars
<1>7. ASSUME NEW b \in Builders, AtomicStoreStagesByDigestToCache(b)
      PROVE IInv'
    BY <1>7 DEF AtomicStoreStagesByDigestToCache, resolverVars, indexVars,
       cleanupVars
<1>8. ASSUME NEW b \in Builders, StoreLock(b) PROVE IInv'
    BY <1>8 DEF StoreLock, TakeLock, Return, resolverVars, cleanupVars
<1>9. ASSUME NEW b \in Builders, StoreWrite(b) PROVE IInv'
    BY <1>9 DEF StoreWrite, Return, Unlock, resolverVars, cleanupVars
<1>10. ASSUME NEW b \in Builders, ResetStagesStorageCache(b) PROVE IInv'
    BY <1>10 DEF ResetStagesStorageCache, resolverVars, cleanupVars
<1>11. CASE PurgeIndex
    BY <1>11 DEF PurgeIndex, resolverVars, builderVars
<1>12. CASE DeleteStage
    <2>0. UNCHANGED <<indexVars, builderVars>>
        BY <1>12 DEF DeleteStage
    <2>1. CASE dleft = {} /\ dpc' = "done"
               /\ UNCHANGED <<resolverVars, dleft>>
        BY <2>0, <2>1 DEF indexVars, builderVars, resolverVars
    <2>2. CASE \E id \in dleft :
            /\ \E kept \in SUBSET Caches :
                 cache' = [c \in Caches |->
                             [cache[c] EXCEPT ![id] = IF c \in kept THEN @ ELSE "none"]]
            /\ \/ primary' = [primary EXCEPT ![id] = "none"]
               \/ UNCHANGED primary
            /\ dleft' = dleft \ {id}
            /\ UNCHANGED <<manifest, dpc>>
        BY <2>0, <2>2 DEF indexVars, builderVars, PrimaryStatus, CacheStatus
    <2>. QED
        BY <1>12, <2>1, <2>2 DEF DeleteStage
<1>13. CASE UNCHANGED vars
    BY <1>13 DEF vars, resolverVars, indexVars, builderVars, cleanupVars
<1>. QED
    BY <1>1, <1>2, <1>3, <1>4, <1>5, <1>6, <1>7, <1>8, <1>9, <1>10, <1>11,
       <1>12, <1>13 DEF Next, Builder

-----------------------------------------------------------------------------
(* Theorems.                                                               *)

\* The inductive invariant holds in every reachable state.
THEOREM IInvariant == Spec => []IInv
BY InitIInv, StepIInv, PTL DEF Spec

\* The digest index is type-correct for every instance.
THEOREM TypeCorrect == Spec => []TypeOK
BY IInvariant, PTL DEF IInv

\* Every return path of the locked refresh and of the locked store, the
\* error paths included, releases the per-digest lock: only a call inside
\* a locked section holds it.
THEOREM NoLeakedDigestLockThm == Spec => []NoLeakedDigestLock
BY IInvariant, PTL DEF IInv

\* Only StoreFresh and StoreWrite write a record, each from a locked
\* section whose call holds the lock, so no step writes a record while the
\* lock is free (spec invariant 2).
LEMMA WriteStepLocked ==
    IInv /\ [Next]_vars =>
        [indexed' /\ (~indexed \/ index' # index) => lock # NoOne]_vars
<1>. SUFFICES ASSUME IInv, [Next]_vars,
                    indexed', ~indexed \/ index' # index
             PROVE  lock # NoOne
    BY DEF vars, indexVars
<1>. USE DEF IInv, TypeOK, LockOwned, LockedPCs
<1>1. ASSUME NEW b \in Builders, StoreFresh(b) PROVE lock # NoOne
    BY <1>1 DEF StoreFresh
<1>2. ASSUME NEW b \in Builders, StoreWrite(b) PROVE lock # NoOne
    BY <1>2 DEF StoreWrite
<1>3. ASSUME NEW b \in Builders,
             \/ GetStagesByDigest(b) \/ ResolveCached(b) \/ LockStageCache(b)
             \/ ListStagesIDsByDigest(b) \/ ResolveFresh(b)
             \/ AtomicStoreStagesByDigestToCache(b) \/ StoreLock(b)
             \/ ResetStagesStorageCache(b)
      PROVE  FALSE
    BY <1>3 DEF GetStagesByDigest, ResolveCached, LockStageCache,
       ListStagesIDsByDigest, ResolveFresh, AtomicStoreStagesByDigestToCache,
       StoreLock, ResetStagesStorageCache, indexVars
<1>4. ~PurgeIndex /\ ~DeleteStage /\ ~UNCHANGED vars
    BY DEF PurgeIndex, DeleteStage, vars, indexVars
<1>. QED
    BY <1>1, <1>2, <1>3, <1>4 DEF Next, Builder

\* Spec invariant 2: every write of a digest's record to the stages storage
\* cache happens while the per-digest lock is held.
THEOREM IndexWritesLockedThm == Spec => IndexWritesLocked
<1>1. Spec => [][IInv /\ [Next]_vars]_vars
    BY IInvariant, PTL DEF Spec
<1>. QED
    BY <1>1, WriteStepLocked, PTL DEF IndexWritesLocked

-----------------------------------------------------------------------------
(* Refinement of DigestRecordLock.                                         *)

\* The steps of the abstract lock and record, and its stutter.
AbstractStep == [DigestLock!Next]_DigestLock!recordVars

LEMMA InitRefines == Init => DigestLock!Init
BY DEF Init, DigestLock!Init

\* A step that leaves the lock and the record alone is an abstract stutter.
LEMMA RecordKept ==
    ASSUME UNCHANGED indexVars PROVE AbstractStep
BY DEF indexVars, AbstractStep, DigestLock!recordVars

\* A step of the holder b that frees the lock and keeps the record is the
\* abstract Release.
LEMMA HolderReleases ==
    ASSUME NEW b \in Builders, lock = b, lock' = NoOne,
           UNCHANGED <<indexed, index>>
    PROVE  AbstractStep
BY DEF AbstractStep, DigestLock!Next, DigestLock!Release

\* The end of a locked section of b (StoreFresh, StoreWrite): the record
\* write and the deferred Unlock, or the Unlock alone when the store failed.
LEMMA StoreRefines ==
    ASSUME TypeOK, NEW b \in Builders, lock = b, Unlock,
           \/ UNCHANGED <<indexed, index>>
           \/ indexed' = TRUE /\ index' = valid[b]
    PROVE  AbstractStep
<1>1. valid[b] \in SUBSET IDs
    BY DEF TypeOK
<1>2. CASE indexed' = TRUE /\ index' = valid[b]
    <2>1. DigestLock!WriteAndRelease(b, valid[b])
        BY <1>2 DEF DigestLock!WriteAndRelease, Unlock
    <2>. QED
        BY <1>1, <2>1 DEF AbstractStep, DigestLock!Next
<1>. QED
    BY <1>2, HolderReleases DEF Unlock

\* TakeLock is the abstract Acquire.
LEMMA TakeLockRefines ==
    ASSUME NEW b \in Builders, NEW next, TakeLock(b, next),
           UNCHANGED <<indexed, index>>
    PROVE  AbstractStep
BY DEF TakeLock, AbstractStep, DigestLock!Next, DigestLock!Acquire

\* A clear of the record that keeps the lock is the abstract Clear.
LEMMA ClearRefines ==
    ASSUME UNCHANGED lock,
           \/ indexed' = FALSE /\ index' = {}
           \/ UNCHANGED <<indexed, index>>
    PROVE  AbstractStep
BY DEF AbstractStep, DigestLock!Next, DigestLock!Clear, DigestLock!recordVars

LEMMA StepRefines == IInv /\ [Next]_vars => AbstractStep
<1>. SUFFICES ASSUME IInv, [Next]_vars PROVE AbstractStep
    OBVIOUS
<1>. USE DEF IInv, LockOwned, LockedPCs
<1>1. ASSUME NEW b \in Builders,
             \/ GetStagesByDigest(b) \/ ResolveCached(b)
             \/ AtomicStoreStagesByDigestToCache(b)
      PROVE  AbstractStep
    BY <1>1, RecordKept DEF GetStagesByDigest, ResolveCached,
       AtomicStoreStagesByDigestToCache
<1>2. ASSUME NEW b \in Builders, LockStageCache(b) PROVE AbstractStep
    BY <1>2, TakeLockRefines, RecordKept DEF LockStageCache, indexVars
<1>3. ASSUME NEW b \in Builders, StoreLock(b) PROVE AbstractStep
    BY <1>3, TakeLockRefines, RecordKept DEF StoreLock, indexVars
<1>4. ASSUME NEW b \in Builders, ListStagesIDsByDigest(b) PROVE AbstractStep
    <2>1. lock = b
        BY <1>4 DEF ListStagesIDsByDigest
    <2>. QED
        BY <1>4, <2>1, HolderReleases, RecordKept
        DEF ListStagesIDsByDigest, Unlock, indexVars
<1>5. ASSUME NEW b \in Builders, ResolveFresh(b) PROVE AbstractStep
    <2>1. lock = b
        BY <1>5 DEF ResolveFresh
    <2>2. UNCHANGED <<indexed, index>> /\ (lock' = lock \/ lock' = NoOne)
        BY <1>5 DEF ResolveFresh, Unlock
    <2>. QED
        BY <2>1, <2>2, HolderReleases, RecordKept DEF indexVars
<1>6. ASSUME NEW b \in Builders, StoreFresh(b) PROVE AbstractStep
    BY <1>6, StoreRefines DEF StoreFresh, TypeOK
<1>7. ASSUME NEW b \in Builders, StoreWrite(b) PROVE AbstractStep
    BY <1>7, StoreRefines DEF StoreWrite, TypeOK
<1>8. ASSUME NEW b \in Builders, ResetStagesStorageCache(b)
      PROVE AbstractStep
    BY <1>8, ClearRefines DEF ResetStagesStorageCache
<1>9. CASE PurgeIndex
    BY <1>9, ClearRefines DEF PurgeIndex
<1>10. CASE DeleteStage
    BY <1>10, RecordKept DEF DeleteStage
<1>11. CASE UNCHANGED vars
    BY <1>11, RecordKept DEF vars
<1>. QED
    BY <1>1, <1>2, <1>3, <1>4, <1>5, <1>6, <1>7, <1>8, <1>9, <1>10, <1>11
    DEF Next, Builder

\* The per-digest lock is a mutex for the digest's record, for every set of
\* builders and stages: only a free lock is taken, only its holder releases
\* it, and only the holder writes the record, as it releases the lock.
THEOREM RefinesDigestRecordLock == Spec => ImplementsDigestRecordLock
<1>1. Spec => [][IInv /\ [Next]_vars]_vars
    BY IInvariant, PTL DEF Spec
<1>2. [IInv /\ [Next]_vars]_vars => AbstractStep
    BY StepRefines, RecordKept DEF vars
<1>. QED
    BY <1>1, <1>2, InitRefines, PTL
    DEF Spec, ImplementsDigestRecordLock, DigestLock!Spec, AbstractStep

=============================================================================
