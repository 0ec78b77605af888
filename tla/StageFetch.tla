----------------------------- MODULE StageFetch -----------------------------
(***************************************************************************)
(* The fetch pipeline of the werf storage manager (pkg/storage/manager):  *)
(* StorageManager.FetchStage with its helpers LockStageImage,             *)
(* doFetchStage, fetchStageFromCache, prepareCacheStageAsPrimary and      *)
(* copyStageIntoStagesStorage.                                             *)
(*                                                                         *)
(* Several workers of one werf process run FetchStage concurrently, each  *)
(* for one stage.  The environment is the primary stages storage, the     *)
(* ordered cache stages storages, the local docker daemon, the local      *)
(* manifest cache and a host cleanup (GC) of another process that removes *)
(* a local image only when it can take an exclusive host lock on its name.*)
(*                                                                         *)
(* A stage image name is the pair <<tier, stage>> (ConstructStageImageName*)
(* of tier 0 = primary or of a cache tier 1..NCache).  Every backend call *)
(* may fail with a transient error; those outcomes are the disjuncts that *)
(* leave the backend unchanged.                                            *)
(***************************************************************************)
EXTENDS Naturals, Sequences

CONSTANTS
    Workers,   \* concurrent callers of FetchStage (parallel build workers)
    Stages,    \* stage IDs (digest, uniqueID) as model values
    NCache     \* length of CacheStagesStorageList

ASSUME NCacheAssumption == NCache \in Nat

Primary == 0
Caches == 1 .. NCache
Tiers == {Primary} \cup Caches

\* StagesStorage.ConstructStageImageName(project, digest, uniqueID)
ImageName(t, s) == <<t, s>>
Names == Tiers \X Stages

\* What GetStageDescription of a tier returns for a stage: a description
\* ("ok"), nil ("none", or "rejected" in the primary: a rejected stage is
\* never described again) or storage.ErrBrokenImage ("broken").
PrimaryStatus == {"ok", "broken", "none", "rejected"}
CacheStatus == {"ok", "broken", "none"}

PCs == {"lock", "probe", "cache", "prepare", "describe", "pull", "refill",
        "done", "crashed"}
\* "lruError": the error of CommonLRUImagesCache.AccessImage (540).
Results == {"none", "ok", "reset", "error", "lruError"}

VARIABLES
    \* environment and shared process state
    primary,      \* [Stages -> PrimaryStatus]: m.StagesStorage
    cache,        \* [Caches -> [Stages -> CacheStatus]]: m.CacheStagesStorageList
    local,        \* image names present in the local docker daemon
    manifest,     \* image names held by image.CommonManifestCache
    hostLocks,    \* stages whose primary image name this process holds a
                  \* shared host lock on (m.SharedHostImagesLocks)
    \* per-worker state of FetchStage
    pc,
    stg,          \* the stage being fetched
    ci,           \* index of the cache tier being tried (range loop at 620)
    refill,       \* cacheStagesStorageListToRefill
    hit,          \* cache tier the stage was prepared from, 0 if none
    cur,          \* tier whose name fetchedDockerImage currently carries
    result,       \* what FetchStage returned
    \* history
    seen,         \* what the primary's GetStageDescription returned
    refillFailed  \* a copy into a cache tier failed (logged as a warning)

storeVars == <<primary, cache, local, manifest, hostLocks>>
workerVars == <<pc, stg, ci, refill, hit, cur, result, seen, refillFailed>>
vars == <<storeVars, workerVars>>

TypeOK ==
    /\ primary \in [Stages -> PrimaryStatus]
    /\ cache \in [Caches -> [Stages -> CacheStatus]]
    /\ local \subseteq Names
    /\ manifest \subseteq Names
    /\ hostLocks \subseteq Stages
    /\ pc \in [Workers -> PCs]
    /\ stg \in [Workers -> Stages]
    /\ ci \in [Workers -> 1 .. NCache + 1]
    /\ refill \in [Workers -> Seq(Caches)]
    /\ hit \in [Workers -> {0} \cup Caches]
    /\ cur \in [Workers -> Tiers]
    /\ result \in [Workers -> Results]
    /\ seen \in [Workers -> PrimaryStatus \cup {"unknown"}]
    /\ refillFailed \in [Workers -> BOOLEAN]

Init ==
    /\ primary \in [Stages -> PrimaryStatus]
    /\ cache \in [Caches -> [Stages -> CacheStatus]]
    /\ local \in SUBSET Names
    /\ manifest = {}
    /\ hostLocks = {}
    /\ pc = [w \in Workers |-> "lock"]
    /\ stg \in [Workers -> Stages]
    /\ ci = [w \in Workers |-> 1]
    /\ refill = [w \in Workers |-> <<>>]
    /\ hit = [w \in Workers |-> 0]
    /\ cur = [w \in Workers |-> Primary]
    /\ result = [w \in Workers |-> "none"]
    /\ seen = [w \in Workers |-> "unknown"]
    /\ refillFailed = [w \in Workers |-> FALSE]

-----------------------------------------------------------------------------
(* Helpers shared by the steps of one worker w.                            *)

\* FetchStage returns r.
Return(w, r) ==
    /\ pc' = [pc EXCEPT ![w] = "done"]
    /\ result' = [result EXCEPT ![w] = r]

\* Where the range loop over CacheStagesStorageList goes when it reaches
\* index i: the next cache tier, or the fetch from the primary (644).
LoopAt(i) == IF i <= NCache THEN "cache" ELSE "describe"

\* Mutant: a failed tier is skipped without being put on the refill list.
CacheMissNoRefill(w) ==
    /\ refill' = refill
    /\ ci' = [ci EXCEPT ![w] = @ + 1]
    /\ pc' = [pc EXCEPT ![w] = LoopAt(ci[w] + 1)]

\* Mutant: the tier after the one that failed is queued for the refill.
CacheMissNextTier(w) ==
    /\ refill' = [refill EXCEPT ![w] = Append(@, ci[w] + 1)]
    /\ ci' = [ci EXCEPT ![w] = @ + 1]
    /\ pc' = [pc EXCEPT ![w] = LoopAt(ci[w] + 1)]

\* The cache tier ci[w] failed: it is appended to the refill list and the
\* loop continues (622-629, 632-637).
CacheMiss(w) ==
    /\ refill' = [refill EXCEPT ![w] = Append(@, ci[w])]
    /\ ci' = [ci EXCEPT ![w] = @ + 1]
    /\ pc' = [pc EXCEPT ![w] = LoopAt(ci[w] + 1)]

-----------------------------------------------------------------------------
(* The steps of FetchStage (lines 524-692).                                *)

\* Mutant: the host lock is taken but its handle is not kept, so it is
\* released as soon as the lockgate handle is collected.
LockStageImageNoKeep(w) ==
    /\ pc[w] = "lock"
    /\ \/ /\ pc' = [pc EXCEPT ![w] = "probe"]
          /\ UNCHANGED result
       \/ Return(w, "error")
    /\ UNCHANGED <<storeVars, stg, ci, refill, hit, cur, seen, refillFailed>>

\* Mutant: an exclusive lock (AcquireOptions{Shared: false}), whose
\* acquisition does not return while another holder has it; this process
\* never releases its locks.
LockStageImageExclusive(w) ==
    /\ pc[w] = "lock"
    /\ stg[w] \notin hostLocks
    /\ \/ /\ hostLocks' = hostLocks \cup {stg[w]}
          /\ pc' = [pc EXCEPT ![w] = "probe"]
          /\ UNCHANGED result
       \/ /\ Return(w, "error")
          /\ UNCHANGED hostLocks
    /\ UNCHANGED <<primary, cache, local, manifest, stg, ci, refill, hit, cur,
                   seen, refillFailed>>

\* LockStageImage (460-471, called at 527): a shared host lock on the
\* primary image name, remembered until the process exits.
LockStageImage(w) ==
    /\ pc[w] = "lock"
    /\ \/ /\ hostLocks' = hostLocks \cup {stg[w]}
          /\ pc' = [pc EXCEPT ![w] = "probe"]
          /\ UNCHANGED result
       \/ /\ Return(w, "error")
          /\ UNCHANGED hostLocks
    /\ UNCHANGED <<primary, cache, local, manifest, stg, ci, refill, hit, cur,
                   seen, refillFailed>>

\* ShouldFetchImage on the primary (531-545): an image that is already
\* local is only touched in the LRU cache, whose error fails the fetch.
ProbePrimary(w) ==
    /\ pc[w] = "probe"
    /\ \/ Return(w, "error")
       \/ /\ ImageName(Primary, stg[w]) \in local
          /\ Return(w, "ok")
       \/ /\ ImageName(Primary, stg[w]) \in local
          /\ Return(w, "lruError")
       \/ /\ ImageName(Primary, stg[w]) \notin local
          /\ pc' = [pc EXCEPT ![w] = LoopAt(1)]
          /\ UNCHANGED result
    /\ UNCHANGED <<storeVars, stg, ci, refill, hit, cur, seen, refillFailed>>

\* One iteration of the loop at 620 up to fetchStageFromCache's return
\* (550-595): the cache-tier image is used if it is local, pulled if the
\* tier describes it; stage-not-found, a broken image or any error makes
\* the tier a miss.
FetchFromCache(w) ==
    LET s == stg[w]
        c == ci[w]
        n == ImageName(c, s)
    IN
    /\ pc[w] = "cache"
    /\ \/ /\ CacheMiss(w)
          /\ UNCHANGED <<local, manifest>>
       \/ /\ n \in local
          /\ pc' = [pc EXCEPT ![w] = "prepare"]
          /\ UNCHANGED <<local, manifest, refill, ci>>
       \/ /\ n \notin local
          /\ cache[c][s] = "ok"
          /\ local' = local \cup {n}
          /\ \/ /\ manifest' = manifest \cup {n}
                /\ \/ /\ pc' = [pc EXCEPT ![w] = "prepare"]
                      /\ UNCHANGED <<refill, ci>>
                   \/ CacheMiss(w)
             \/ /\ UNCHANGED manifest
                /\ CacheMiss(w)
    /\ UNCHANGED <<primary, cache, hostLocks, stg, hit, cur, result, seen,
                   refillFailed>>

\* prepareCacheStageAsPrimary (597-618, 632-641).  The image is retagged
\* to the primary name, refreshed and recorded in the manifest cache.  A
\* failed rename takes the error path at 602, which dereferences
\* fetchedDockerImage while it is still nil: the process panics, every
\* worker stops and the OS releases the host locks.
PrepareAsPrimary(w) ==
    LET s == stg[w]
        c == ci[w]
        pn == ImageName(Primary, s)
    IN
    /\ pc[w] = "prepare"
    /\ \/ /\ pc' = [v \in Workers |-> IF pc[v] = "done" THEN "done" ELSE "crashed"]
          /\ hostLocks' = {}
          /\ UNCHANGED <<local, manifest, refill, ci, hit, cur>>
       \/ /\ ImageName(c, s) \in local
          /\ local' = local \cup {pn}
          /\ UNCHANGED hostLocks
          /\ \/ /\ CacheMiss(w)
                /\ UNCHANGED <<manifest, hit, cur>>
             \/ /\ manifest' = manifest \cup {pn}
                /\ \/ /\ CacheMiss(w)
                      /\ UNCHANGED <<hit, cur>>
                   \/ /\ hit' = [hit EXCEPT ![w] = c]
                      /\ cur' = [cur EXCEPT ![w] = Primary]
                      /\ pc' = [pc EXCEPT ![w] = "refill"]
                      /\ UNCHANGED <<refill, ci>>
    /\ UNCHANGED <<primary, cache, stg, result, seen, refillFailed>>

\* No cache tier served the stage: doFetchStage on the primary, first its
\* GetStageDescription (475-486).  The error of GetStageDescription is
\* wrapped at 477, so the comparison with storage.ErrBrokenImage at 658
\* never holds and a broken image ends in the generic error at 669.
DescribePrimary(w) ==
    LET s == stg[w] IN
    /\ pc[w] = "describe"
    /\ \/ /\ Return(w, "error")
          /\ UNCHANGED seen
       \/ /\ seen' = [seen EXCEPT ![w] = primary[s]]
          /\ \/ /\ primary[s] = "ok"
                /\ pc' = [pc EXCEPT ![w] = "pull"]
                /\ UNCHANGED result
             \/ /\ primary[s] \in {"none", "rejected"}
                /\ Return(w, "reset")
             \/ /\ primary[s] = "broken"
                /\ Return(w, "error")
    /\ UNCHANGED <<storeVars, stg, ci, refill, hit, cur, refillFailed>>

\* The FetchImage half of doFetchStage (492-499, 669-673).
PullPrimary(w) ==
    /\ pc[w] = "pull"
    /\ \/ /\ Return(w, "error")
          /\ UNCHANGED local
       \/ /\ local' = local \cup {ImageName(Primary, stg[w])}
          /\ pc' = [pc EXCEPT ![w] = "refill"]
          /\ UNCHANGED result
    /\ UNCHANGED <<primary, cache, manifest, hostLocks, stg, ci, refill, hit,
                   cur, seen, refillFailed>>

\* One iteration of the refill loop (676-689): copyStageIntoStagesStorage
\* (502-522) retags fetchedDockerImage from the name it now carries to the
\* cache tier's name, stores it there and records it in the manifest
\* cache; any failure is only a warning.
Refill(w) ==
    LET s == stg[w]
        c == Head(refill[w])
        n == ImageName(c, s)
    IN
    /\ pc[w] = "refill"
    /\ refill[w] # <<>>
    /\ refill' = [refill EXCEPT ![w] = Tail(@)]
    /\ \/ /\ refillFailed' = [refillFailed EXCEPT ![w] = TRUE]
          /\ UNCHANGED <<cache, local, manifest, cur>>
       \/ /\ ImageName(cur[w], s) \in local
          /\ local' = local \cup {n}
          /\ cur' = [cur EXCEPT ![w] = c]
          /\ \/ /\ refillFailed' = [refillFailed EXCEPT ![w] = TRUE]
                /\ UNCHANGED <<cache, manifest>>
             \/ /\ cache' = [cache EXCEPT ![c][s] = "ok"]
                /\ \/ /\ refillFailed' = [refillFailed EXCEPT ![w] = TRUE]
                      /\ UNCHANGED manifest
                   \/ /\ manifest' = manifest \cup {n}
                      /\ refillFailed' \in {refillFailed,
                                [refillFailed EXCEPT ![w] = TRUE]}
    /\ UNCHANGED <<primary, hostLocks, pc, stg, ci, hit, result, seen>>

\* The refill list is exhausted: FetchStage returns nil (691).
FinishFetch(w) ==
    /\ pc[w] = "refill"
    /\ refill[w] = <<>>
    /\ Return(w, "ok")
    /\ UNCHANGED <<storeVars, stg, ci, refill, hit, cur, seen, refillFailed>>

-----------------------------------------------------------------------------
(* The environment.                                                        *)

\* Host cleanup in another werf process removes a local image once it gets
\* the exclusive host lock on its name; the shared locks this process
\* holds on primary image names keep those images.
HostCleanup(n) ==
    /\ n \in local
    /\ n[1] = Primary => n[2] \notin hostLocks
    /\ local' = local \ {n}
    /\ UNCHANGED <<primary, cache, manifest, hostLocks, workerVars>>

Worker(w) ==
    \/ LockStageImage(w)
    \/ ProbePrimary(w)
    \/ FetchFromCache(w)
    \/ PrepareAsPrimary(w)
    \/ DescribePrimary(w)
    \/ PullPrimary(w)
    \/ Refill(w)
    \/ FinishFetch(w)

Next ==
    \/ \E w \in Workers : Worker(w)
    \/ \E n \in Names : HostCleanup(n)

\* Each FetchStage call runs in its own goroutine and keeps running while
\* it can; host cleanup is another process and need not run at all.
Fairness == \A w \in Workers : WF_vars(Worker(w))

Spec == Init /\ [][Next]_vars /\ Fairness

-----------------------------------------------------------------------------
(* Properties.                                                             *)

\* The process is running: no worker has panicked.
Alive == \A w \in Workers : pc[w] # "crashed"

\* A FetchStage that returned success leaves the stage's primary image in
\* the local docker daemon for as long as the process runs, although host
\* cleanup runs concurrently: the shared host lock taken by LockStageImage
\* (463, 468) is what keeps cleanup away from it.
FetchedImageStaysLocal ==
    Alive =>
        \A w \in Workers :
            (pc[w] = "done" /\ result[w] = "ok")
                => ImageName(Primary, stg[w]) \in local

\* When FetchStage went through the cache tiers and returned success with
\* no refill warning, every cache tier it tried before the one that served
\* the stage (or all of them, when the primary served it) now holds the
\* stage: the tiers that missed are written back (spec 4.2 step 5).
CachesRefilled ==
    \A w \in Workers :
        (pc[w] = "done" /\ result[w] = "ok" /\ ~refillFailed[w])
            => \A c \in 1 .. (ci[w] - 1) : cache[c][stg[w]] = "ok"

\* Every FetchStage call returns (or the process ends), even when several
\* workers fetch the same stage and hold its host lock at once.
FetchTerminates ==
    \A w \in Workers : <>(pc[w] \in {"done", "crashed"})

\* Spec 4.2 step 4: when the primary reports the stage image broken,
\* FetchStage rejects it in the primary and returns
\* ErrShouldResetStagesStorageCache (code at 658-667).
BrokenPrimaryRejected ==
    \A w \in Workers :
        (pc[w] = "done" /\ seen[w] = "broken")
            => (result[w] = "reset" /\ primary[stg[w]] = "rejected")

\* Spec 3, invariant 4: a stage is never being fetched into the local
\* docker daemon by two workers at once, "enforced via the shared host
\* lock per image name" (LockStageImage, 463).
NoConcurrentFetchOfSameImage ==
    \A v, w \in Workers :
        (v # w /\ pc[v] = "pull" /\ pc[w] = "pull") => stg[v] # stg[w]

\* Spec 4.2 step 3: a failure to prepare the image fetched from a cache
\* tier as the primary one is logged and the next tier is tried; it never
\* ends the process (the error path at 602).
PrepareFailureIsWarning ==
    \A w \in Workers : pc[w] # "crashed"

\* Spec 9: the LRU access tracker is advisory and "its failures must never
\* fail a build"; so a FetchStage never returns the error of touching the
\* LRU cache for an image that is already local (531-545).
LRUFailureNeverFailsFetch ==
    \A w \in Workers : pc[w] = "done" => result[w] # "lruError"

-----------------------------------------------------------------------------
(* Refinement of StageHostImages.                                          *)

\* The outcome of each FetchStage call, as the host sees it.
HostStatus ==
    [w \in Workers |->
        IF pc[w] = "done" THEN IF result[w] = "ok" THEN "ok" ELSE "failed"
        ELSE IF pc[w] = "crashed" THEN "crashed"
        ELSE "running"]

HostImages == INSTANCE StageHostImages WITH status <- HostStatus

\* The fetch pipeline keeps the promise of StageHostImages: every call
\* brings only images of its own stage into the daemon, returns success
\* only while it holds the shared host lock of its stage (LockStageImage,
\* 460-471) and the stage's primary image is local (531-545, 669-691), a
\* panic at 602 ends every running call, and host cleanup never removes a
\* locked primary image.
ImplementsStageHostImages == HostImages!Spec

=============================================================================
