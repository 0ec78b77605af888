# TLA+ models of the werf storage manager

This directory holds TLA+ models of the stage storage manager of werf. Its
code is the `manager` package, whose copy in this repository sits in
`src/integration/suites/build/dockerfile_image/context_test.go`, after the
test scaffolding that ends near line 150. The directory also has TLC
configurations that model-check the models on small instances, and TLAPS
proofs of their main safety property for every instance. Line numbers below
refer to that file unless another file is named.

## The system

A werf build keeps every built *stage* (a digest plus a unique ID) as an
image in several places:

- the **stages storage** (the *primary*);
- an ordered list of **cache stages storages**;
- the local docker daemon.

The `StorageManager` coordinates them. Its parts and how they interact:

| Part | Code | State | Interacts with |
|---|---|---|---|
| C1 stage descriptor resolver | `getStageDescription` 1046-1128; manifest cache helpers 996-1024 | local manifest cache | C2, C3 |
| C2 fetch pipeline | `FetchStage` 524-692; `LockStageImage` 460-471; `doFetchStage` 473-500; `copyStageIntoStagesStorage` 502-522 | local images; shared host locks (`SharedHostImagesLocks`); cache tiers | host cleanup of other processes, through the host locks |
| C3 digest index | `GetStagesByDigest` 833-847 and 893-993; `AtomicStoreStagesByDigestToCache` 817-831; `ResetStagesStorageCache` 330-335; `ForEachDeleteStage` 427-458 | the stages storage cache (digest → stage IDs); a per-digest lock | C1 (resolution); cleanup |
| C4 final replicator | `CopyStageIntoFinalRepo` 714-781; `ForEachDeleteFinalStage` 378-426 | `FinalStagesListCache` under a mutex | final storage |
| C5 parallel fan-out | `ForEach*` 1152-1200 | none | `parallel.DoTasks` |
| C6 stage selector | `SelectSuitableStage` 783-815 | none | the stage's policy |
| C7 unique IDs | `GenerateStageUniqueID` 1130-1150 | none | stages storage |
| C8 configuration | 205-328 | options, set once | all |

The behaviours that make this code hard are concurrency and partial failure:

- Parallel build workers call `FetchStage` for the same stage at once.
- Another werf process garbage-collects local images whenever it can take an
  exclusive host lock.
- Builders refresh and store the index of a digest while a cleanup purges it
  without the lock.
- Every backend call can fail. The code treats some failures as warnings and
  others as errors.

Separately, `src/pkg/deploy/helm/maintenance_helper/maintenance_helper.go`
holds a helm 2 to 3 migration helper. It is one object used by one caller,
one call after another, over two external stores: the helm 2 release
storage (config maps or secrets) and the helm 3 release storage. Both hold
one record per release revision. It shares no state with the
`StorageManager`.

## Modules

| Module | Models | Kind |
|---|---|---|
| `StageResolver` | C1: `getStageDescription` as the operator `getStageDescription(id, allowReset, o)` | operator library, used by `DigestIndex` |
| `StageFetch` | C2: concurrent `FetchStage` workers plus host cleanup | specification |
| `StageFetchProofs` | TLAPS proofs about `StageFetch` | theorems |
| `StageFetchRefillProofs` | TLAPS proof of `CachesRefilled` | theorems |
| `StageHostImages` | C2: what the `FetchStage` calls promise the host, without the storages | abstract specification |
| `StageFetchHostProofs` | TLAPS proof that `StageFetch` implements `StageHostImages` | theorems |
| `DigestIndex` | C3: builders using one digest's index, cleanup, reset; composes `StageResolver` | specification |
| `FinalReplicator` | C4: concurrent `CopyStageIntoFinalRepo` calls plus `ForEachDeleteFinalStage` | specification |
| `FinalStagesListCache` | C4: what the final stages list cache promises, without the workers | abstract specification |
| `FinalReplicatorProofs` | TLAPS proofs about `FinalReplicator`, with its refinement of `FinalStagesListCache` | theorems |
| `MaintenanceHelper` | the helm 2 to 3 maintenance helper | specification |
| `MaintenanceHelperProofs` | TLAPS proofs about `MaintenanceHelper` | theorems |
| `ReleaseListProofs` | TLAPS proof of what the `AppendUniqReleases` loop returns, for every input | theorems |
| `DigestRecordLock` | C3: what the digest record and its lock promise, without the builders | abstract specification |
| `MC_StageFetch`, `MC_DigestIndex`, `MC_FinalReplicator` | instances for TLC | model values |
| `MC_StageFetchRefillProofs` (with `StageFetchHostProofs` too), `MC_DigestIndexProofs`, `MC_FinalReplicatorProofs`, `MC_MaintenanceHelper` | the same instances, with the proof modules' inductive invariants in scope | model values |
| `DigestIndexProofs` | TLAPS proofs about `DigestIndex` | theorems |

### StageFetch

**State.**

- The environment:
  - `primary`: `GetStageDescription` of the stages storage, which answers ok, broken, none, or rejected once rejected.
  - `cache`: the same for each cache tier.
  - `local`: the image names in the docker daemon.
  - `manifest`: the local manifest cache.
  - `hostLocks`: the primary image names this process holds shared locks on.
- Per worker:
  - `pc`: the step of `FetchStage`.
  - `ci`: the index of the cache-tier loop at 620.
  - `refill`: `cacheStagesStorageListToRefill`.
  - `cur`: the name `fetchedDockerImage` carries now.
  - `result`.
- History, used only by properties:
  - `seen`: what the primary described.
  - `refillFailed`: a warning of the refill loop.

An image name `ConstructStageImageName` is the pair `<<tier, stage>>`.

**Actions.** There is one action per step between two backend calls:

| Action | Code |
|---|---|
| `LockStageImage` | 460-471 |
| `ProbePrimary` | 531-545, which includes the LRU touch |
| `FetchFromCache` | one loop iteration, 550-595 |
| `PrepareAsPrimary` | 597-618 |
| `DescribePrimary` | 644-671, 475-486 |
| `PullPrimary` | 492-500 |
| `Refill` | one iteration of 676-689, through 502-522 |
| `FinishFetch` | 691 |

Every backend failure is a disjunct that leaves the backend unchanged.
`PrepareAsPrimary` has a crash disjunct for the nil dereference at 602:
every worker stops, and the OS drops the host locks. `HostCleanup` models
another process's garbage collection from the spec: it removes a local
image unless this process holds the shared lock on a primary name.

**Abstract specification.** `StageHostImages` keeps only what the host
sees: the local images, the host locks, and the outcome of each call
(running, ok, failed or crashed). Its actions are these:

- a running call may `TakeLock` on its stage;
- it may `Store` an image of its own stage;
- it may `Succeed`, but only while it holds its lock and its primary
  image is local;
- it may `Fail`;
- a `Crash` ends every running call and drops the locks;
- `Cleanup` removes any local image except a locked primary one.

`StageFetch` instantiates it with `HostStatus`, the outcome read off `pc`
and `result`. `ImplementsStageHostImages` is the refinement property.

### StageResolver

`getStageDescription` checks the following in order:

1. The manifest cache of the target storage.
2. Each cache tier. A manifest hit there is used; otherwise the tier itself
   is asked, and a description it returns is stored in the manifest cache.
   An error of a tier only skips it, so the tier that answers is any tier
   with no manifest hit before it.
3. The target storage. It rejects a broken image and asks for a reset when
   `AllowStagesStorageCacheReset` is set.

A description is abstracted to *found*. The name rewriting of
`convertStageDescriptionForStagesStorage` is left out.

### DigestIndex

**State.**

- `indexed` and `index`: the record of the stages storage cache.
- `lock`: the holder of the per-digest lock.
- Per builder: `pc`, `todo` and `valid` (the resolution loop), and `result`.
- The cleanup: `dpc`, and `dleft`, the deletion tasks not yet run.

**Actions.**

| Action | Code |
|---|---|
| `GetStagesByDigest` | the unlocked read at 834-847, 893-901 |
| `ResolveCached` | one stage of the cached loop, 903-915 |
| `LockStageCache` | 956-961 |
| `ListStagesIDsByDigest` | 920-938 |
| `ResolveFresh` | 940-954, without reset |
| `StoreFresh` | 973-993 |
| `AtomicStoreStagesByDigestToCache`, `StoreLock`, `StoreWrite` | 817-831 |
| `ResetStagesStorageCache` | 330-335 |
| `PurgeIndex` | 438-442, no lock |
| `DeleteStage` | one `parallel.DoTasks` task, 444-457 |

The deferred `Unlock` runs on every return path of the locked refresh.

**Abstract specification.** `DigestRecordLock` keeps only the record
(`indexed`, `index`) and the lock. A builder may `Acquire` a free lock,
`Release` a lock it holds, or `WriteAndRelease`: write the record and
release in one step. `Clear` empties the record at any time (the reset).
`DigestIndex` instantiates it with the same variables. The property
`ImplementsDigestRecordLock` says that every record write is made by the
lock holder and ends its section.

### FinalReplicator

**State.**

- `final`: the stages in the final stages storage.
- `created` and `list`: `FinalStagesListCache`, nil or a `StagesList`.
  The list is a sequence, because it is a slice that `AddStageID` keeps
  free of repetition.
- Per worker: `pc`, `stg` and `result`. A result of `skipped` is the nil
  returned at 749, told apart from a copy.
- `dleft`: the cleanup's deletion tasks not yet run.

**Actions.**

| Action | Code |
|---|---|
| `GetOrCreateFinalStagesListCache` | 714-729, atomic under its mutex; `GetStagesIDs` returns any ordering of `final` |
| `CheckFinalList` | the loop at 742-751 |
| `FetchStage` | 753-755; C2 is abstracted to success or an error |
| `CopyIntoFinal` | 757-774; a failure before or after the image is stored |
| `AddStageID` | 242-253, 776 |
| `DeleteFinalStage` | one task of `ForEachDeleteFinalStage`, 415-425; the deleting process may be this one or another |

**Abstract specification.** `FinalStagesListCache` states what the cache
promises, without the workers. Its state is the final storage, `loaded`,
and the set `listed`. Its actions are:

- `Load`: the cache is loaded once, as a snapshot of the final storage.
- `Record(s)`: an existing cache gains a stage.
- `Store(s)` and `Remove(s)`: the final storage changes without the cache
  being told.

`FinalReplicator` instances it with `loaded <- created` and
`listed <- Elems(list)`. The property `ImplementsFinalStagesListCache` is
the abstract `Spec`.

### MaintenanceHelper

- **State.**
  - `storageType`: the storage type after `NewMaintenanceHelper` applied
    its `"configmap"` default.
  - `v2Storage`: whether `initHelm2Storage` has created the storage handle.
  - `v2`, `v3`: the two storages, as sets of `<<name, version>>` revisions.
  - `out`: the result of the last call.
- **Actions.** Each action is one call of the helper.
  - `InitHelm2Storage(op, Body)` wraps the calls that begin with
    `initHelm2Storage` (68-85). An unknown storage type is an error, and
    the handle is created at most once.
  - A storage listing returns its revisions in any order (`Listings`), and
    any storage call may fail.
  - `AppendUniqReleases` translates the labelled loop of 112-120 and
    139-147 as a recursive function over the listing.
  - `NewestRevision` is `Reverse` over `SortByRevision` followed by
    `releases[0]` (184-186). The sort is written as what it does: the
    listing of the revisions in increasing revision order
    (`SortByRevisionAsc`). The revisions of one release are distinct, so
    that listing is unique.
  - `DeleteHelm2ReleaseMetadata` deletes the revisions in listing order. The
    first failed `Delete` stops the loop, with the revisions before it gone.
  - `BuildHelm2ResourcesInfos` (189-207, with `getResourcesFactory` and
    `newBuilder`) touches neither storage. The manifest parse through the
    kube client factory is abstracted to success or failure.

## Runs

The runs and their bounds:

| Run | Config | Instance | Checks | Result |
|---|---|---|---|---|
| fetch | `StageFetch.cfg` | 2 workers, 1 stage, 2 cache tiers | `TypeOK`, `FetchedImageStaysLocal`, `CachesRefilled`, `IInv`, `RInv`, `FetchTerminates`, `ImplementsStageHostImages` | passes, about 236k states |
| fetch_lru_failure | `StageFetch_LRUFailureNeverFailsFetch.cfg` | same | `LRUFailureNeverFailsFetch` | violated (finding 5) |
| fetch_broken_primary | `StageFetch_BrokenPrimaryRejected.cfg` | same | `BrokenPrimaryRejected` | violated (finding 1) |
| fetch_prepare_panic | `StageFetch_PrepareFailureIsWarning.cfg` | same | `PrepareFailureIsWarning` | violated (finding 2) |
| fetch_shared_lock | `StageFetch_NoConcurrentFetchOfSameImage.cfg` | same | `NoConcurrentFetchOfSameImage` | violated (finding 3) |
| digest_index | `DigestIndex.cfg` | 2 builders, 2 stages, 1 cache tier | `TypeOK`, `NoLeakedDigestLock`, `IndexWritesLocked`, `IInv`, `ImplementsDigestRecordLock` | passes, about 602k states |
| digest_termination | `DigestIndex_Termination.cfg` | 2 builders, 1 stage | `DigestCallsTerminate` | passes |
| final_replicator | `FinalReplicator.cfg` | 2 workers, 2 stages | `ListHasNoDuplicates`, `ReplicatedStageListed`, `ImplementsFinalStagesListCache` | passes, about 4k states |
| final_list_over_reports | `FinalReplicator_ReplicationLeavesStageInFinal.cfg` | same | `ReplicationLeavesStageInFinal` | violated (finding 4) |
| maintenance_helper | `MaintenanceHelper.cfg` | 2 releases, 2 revisions each, every initial content of both storages, every storage type option | `TypeOK`, `ReleaseListsNameEachReleaseOnce`, `ReleaseDataIsNewestRevision`, `DeletedReleaseHasNoRevisions` | passes, about 16k states |

**Why the bounds are enough.**

- **Two workers on one stage** are what every shared-lock and cleanup race
  needs.
- **Two cache tiers** give a refill list with more than one element. They
  also let a tier miss before the tier that serves the stage.
- **Two builders** let a refresh race a store and a cleanup, and two
  waiters meet at the lock.
- **Two stages** let a record hold a stage that resolves next to one that is
  broken, missing or deleted by the cleanup.
- **Two replicators** with two stages can replicate the same stage at
  once, which is scenario 6 of the spec, or different ones. Any initial
  content of the final storage and any set of deletions gives the
  deletion-then-skip case.
- **Two releases with two revisions each** are the smallest instance where
  a listing repeats a name and interleaves it with another release. They
  are also the smallest where the oldest revision differs from the newest.
- **Initial states** are every combination of stage statuses in the
  storages, plus any initial record, so every resolution outcome is reached.
- **Coverage.** The passing runs fire every action and every disjunct.

**Deadlock.** Deadlock checking is off because the runs end by design.
FetchStage and every builder call end in `done`, and the cleanup ends in
`done`. Termination is instead checked as the liveness properties
`FetchTerminates` and `DigestCallsTerminate`. The maintenance_helper run
keeps deadlock checking on, because a helper call is always possible.

**Fairness.**

- `StageFetch`: weak fairness per worker. Each `FetchStage` runs in its own
  goroutine. Host cleanup is another process and gets no fairness.
- `DigestIndex`: weak fairness of each builder's steps other than lock
  waits, of the lock acquisition itself, and of the cleanup. Lock waits are
  excluded from the first group. Otherwise the always-enabled error
  disjuncts of a waiting step would be fair, and fairness alone would end
  every wait. Weak fairness of the acquisition is enough, and is what any
  blocking lock gives: each builder makes one call, so once the holder has
  left its locked section the lock stays free, and a waiter whose lock stays
  free takes it. No waiter can be starved by repeated re-acquisition, which
  would need strong fairness.
- `FinalReplicator` and `MaintenanceHelper`: no fairness. Their
  properties are all safety properties.
- `DigestCallsTerminate` runs on one stage, to keep the liveness check
  small.

**Mutants.** Each property of a passing run has a mutant in `PROJECT.json`.
A mutant is a plausible bug in the mapped code, and TLC must find the
property violated by it:

| Mutant | Breaks |
|---|---|
| the lock handle is not kept | `FetchedImageStaysLocal`, `IInv` and `ImplementsStageHostImages` |
| an exclusive host lock | `FetchTerminates` |
| a missed tier is not queued for refill | `CachesRefilled` and `RInv` |
| the final stages list read again on every call | `ImplementsFinalStagesListCache` |
| a missing `Unlock` on a list error | `NoLeakedDigestLock` and the digest index's `IInv` |
| an `Unlock` on a lock error, by a builder that does not hold the lock | `ImplementsDigestRecordLock` |
| a store that skips the lock | `IndexWritesLocked` |
| `AddStageID` without its look-up | `ListHasNoDuplicates` |
| success returned without `AddStageID` | `ReplicatedStageListed` |
| a resolution loop with no exit | `DigestCallsTerminate` |
| no `"configmap"` default for an empty storage type | the helper's `TypeOK` |
| an unlabelled `continue` in `AppendUniqReleases` | `ReleaseListsNameEachReleaseOnce` |
| `releases[0]` taken without the `Reverse` | `ReleaseDataIsNewestRevision` |
| only the first listed revision deleted | `DeletedReleaseHasNoRevisions` |

## Findings

1. **Broken images are never rejected (658).** `doFetchStage` wraps the
   error of `GetStageDescription` (477). So `err == storage.ErrBrokenImage`
   never holds: a broken primary image is never rejected, and FetchStage
   returns a generic error. Spec 4.2 step 4 says the image is rejected and a
   reset requested.
2. **A failed rename crashes the process (602).** When `RenameImage` fails
   in `prepareCacheStageAsPrimary`, the error message dereferences the nil
   `fetchedDockerImage`. A failure the spec calls a warning panics the
   process.
3. **The spec contradicts itself on the host lock (463).** Spec invariant 4
   says a stage is never fetched twice concurrently, "enforced" by the host
   lock. But the lock is shared: spec 4.2 and the code take it
   `Shared: true`, so two workers pull the same image at once.
4. **The final stages list can over-report (422).** `ForEachDeleteFinalStage`
   deletes stages from the final storage but leaves `FinalStagesListCache`
   as it is. A later `CopyStageIntoFinalRepo` of a deleted stage finds it in
   the list and returns nil without copying it. A deletion by another
   process after the list was read has the same effect. Spec invariant 3
   allows the list only to under-report. TLC finds a 4-state trace.
5. **An LRU failure fails the fetch (540).** When the primary image is
   already local, `FetchStage` touches the LRU images cache and returns
   that call's error. Spec 9 says the LRU tracker is advisory and its
   failures must never fail a build. TLC finds a 3-state trace.

Two behaviours look like bugs but are what the spec allows, so no run
reports them:

- **The unlocked purge (438).** A refresh or store that holds the lock and
  read the stages before `ForEachDeleteStage` purged the record can write it
  back after the purge, naming stages that are then deleted. Spec 3 makes
  the index advisory and 4.3 eventually consistent: a reader that resolves
  such a record gets `ErrShouldResetStagesStorageCache` (`ResolveCached`
  resolves with reset allowed), unless the manifest cache still describes
  the deleted stage, which `ForEachDeleteStage` never clears (436). Spec 4.3 rests the safety of the unlocked
  purge on callers deleting only terminal stages, and those callers are
  not in `src/`.
- **The unique ID is the clock reading (1140).** The `continue` continues
  the range loop over the candidates, not the clock loop, so the comparison
  changes nothing. Spec 9 says just that: the generator returns the first
  candidate and leaves uniqueness to the index or the backend.

## Proofs

`StageFetchProofs` proves three theorems with TLAPS, for every set of
workers and stages and every `NCache \in Nat` (the assumption
`NCacheAssumption`):

- `TypeCorrect`: `Spec => []TypeOK`.
- `FetchedImageStaysLocalThm`: `Spec => []FetchedImageStaysLocal`.
- `IInvariant`: `Spec => []IInv`.

`FetchedImageStaysLocal` is not inductive. A step of `HostCleanup` preserves
it only if every worker that returned success still holds the shared lock on
its image, and only if that image was local when the worker returned. The
strengthening `IInv` therefore adds three parts:

- `CiInRange`: the loop index is a cache tier while the loop runs.
- `LockHeld`: every worker past `LockStageImage`, or done with success, has
  its stage in `hostLocks`.
- `LocalHeld`: every worker refilling, or done with success, has its primary
  image local.

The last two hold while the process is `Alive`. The crash disjunct of
`PrepareAsPrimary` drops all locks, but it also ends the process.

The proof has these parts:

- `InitIInv`: the initial states satisfy `IInv`.
- `StepIInv`: `IInv` is preserved, with one step per action and, below it,
  one per conjunct. It rests on `ImageNameInNames` and on the sequence facts
  `AppendProperties` and `HeadTailProperties` for the refill list.
- The `[]` theorems combine the two by PTL.

TLC checks `IInv` too, in the fetch run.

`StageFetchRefillProofs` proves `CachesRefilledThm`
(`Spec => []CachesRefilled`) and `RInvariant`. `CachesRefilled` is not
inductive: it speaks only of workers that are done. The strengthening
`RInv` follows each worker's refill list:

- it is empty until the cache loop starts;
- during the loop and the primary fetch, its tiers are exactly
  `1 .. ci - 1`, the tiers missed so far;
- while refilling, and once done, each missed tier is on the list, holds
  the stage, or a warning was logged;
- a successful return has an empty list.

The step proof uses `IInv` in both states: it needs `CiInRange` and
`TypeOK` there. It rests on three lemmas:

- `MissedAppend` and `MissedTail`: what `Append` adds to the set of
  listed tiers and what `Tail` removes;
- `CacheMissRT`: a missed tier keeps the list tracked;
- `FrameRT`: a step that leaves a worker alone keeps that worker's list
  tracked, because the only writes to `cache` set an entry to `"ok"`.

`CacheMissType` in `StageFetchProofs` gives the types after a miss. TLC
checks `RInv` too, in the fetch run.

`StageFetchHostProofs` proves `RefinesStageHostImages`
(`Spec => ImplementsStageHostImages`) for every number of workers, stages
and cache tiers. A successful return maps to `Succeed` only if the call
holds its lock and has its primary image local. `IInv` gives both, but
only while the process is `Alive`. `HInvariant` therefore adds
`CrashStops`: once a worker has panicked, every call has returned or was
ended. So a call that is still running runs in a live process
(`RunningAlive`). The step proof has one step per action:

- the lock is `TakeLock`;
- an image brought into the daemon is `Store`, of the call's own stage
  (`StoreRefines`);
- a successful return is `Succeed` (`SucceedRefines`);
- any other return is `Fail` (`FailRefines`);
- the panic at 602 is `Crash` (`CrashRefines`);
- host cleanup is `Cleanup`;
- every other step keeps the host's view (`HostKept`).


`FinalReplicatorProofs` proves `NoDuplicatesThm`, `ReplicatedStageListedThm`,
`TypeCorrect` and `IInvariant`. They hold for every set of workers and every
set of stages that satisfies `StagesAssumption` (`IsFiniteSet(Stages)`),
which `Cardinality` needs. The inductive invariant `IInv` adds three facts:

- the list is a sequence;
- the list is empty while `created` is false;
- every worker past `getOrCreateFinalStagesListCache` sees `created`.

The invariant is needed because `AddStageID` on a list that was never
created would break "empty until created". The creation step is then
harmless: a success on the empty list is impossible. The step proof rests on
three lemmas:

- `EnumerationProperties`: what `GetStagesIDs` returns is a sequence without
  repetition.
- `AddStageIDProperties`: appending after the look-up keeps it so and adds
  the stage.
- `SeqDomainForm`: a sequence has the form TypeOK states, through
  `FS_Interval`.

`RefinesCache` proves `Spec => ImplementsFinalStagesListCache`: the
replicator implements the abstract cache. Its steps are:

- `InitRefines`: initial states map to initial states.
- `StepRefines`: under `IInv`, every step maps to a step of the abstract
  cache or to a stutter.
  - Creating the list is `Load`. `EnumerationCovers` shows that an
    injective enumeration of `final` names all of it (`FS_Injection` with
    `FS_Interval`).
  - `AddStageID` is `Record`. `ElemsAddStageID` shows it adds exactly the
    stage.
  - `IInv` gives `created` there.
  - A copy is `Store`, and a successful deletion is `Remove`.

TLC checks the two properties and the refinement, in the final_replicator run.

`DigestIndexProofs` proves four theorems for every set of builders, stages
and cache storages:

- `TypeCorrect`;
- `NoLeakedDigestLockThm`;
- `IInvariant`;
- `IndexWritesLockedThm`: the action property `IndexWritesLocked`.

`NoLeakedDigestLock` is not inductive on its own. A step of `StoreFresh` or
`StoreWrite` releases the lock, and that step keeps the property only if no
other call believes it is inside a locked section. The invariant therefore
adds `LockOwned`: every call inside a locked section is the holder.

Two lemmas carry the proof:

- `ResolverTypeStep` shows that `getStageDescription` keeps the resolver's
  state well typed.
- `WriteStepLocked` shows that only `StoreFresh` and `StoreWrite` can write
  a record. By `LockOwned`, their writer holds the lock.

`IndexWritesLockedThm` follows from `IInvariant` and `WriteStepLocked` by
PTL. TLC checks `IInv` too, in the digest_index run.

`RefinesDigestRecordLock` proves `Spec => ImplementsDigestRecordLock`:
every step of `DigestIndex` is a step of `DigestRecordLock` or leaves the
record and the lock alone. Its steps are:

- `InitRefines`: the lock starts free and the record is any record.
- `TakeLockRefines`: acquiring the lock is `Acquire`.
- `StoreRefines`: `StoreFresh` and `StoreWrite` are `WriteAndRelease`.
- `HolderReleases`: every other `Unlock` is a `Release`. Here `LockOwned`
  is needed again: an `Unlock` is made only by a call inside a locked
  section, so by the holder.
- `ClearRefines`: the reset is `Clear`.
- `RecordKept`: every other step keeps the record and the lock.

`MaintenanceHelperProofs` proves five theorems for every set of releases
and every number of revisions that satisfy `MaintenanceHelperAssumption`
(the releases are finite, `MaxVersion \in Nat`):

- `IInvariant`: `Spec => []IInv`;
- `TypeCorrect`: `Spec => []TypeOK`;
- `DeletedReleaseHasNoRevisionsThm`;
- `ReleaseListsNameEachReleaseOnceThm`;
- `ReleaseDataIsNewestRevisionThm`.

`IInv` is the conjunction of `TypeOK` and the three properties. None of
them is inductive on its own. A listing of a storage is complete only if
the storage is finite, and `TypeOK` keeps both storages to revisions
(`Revisions` is finite by `FS_Product`). Then
`ListingCovers` shows that an injective listing of `Cardinality(S)`
elements names all of `S`, by `FS_Injection` and `FS_Interval`. A
successful delete therefore removes every revision of the release. A call
that neither lists nor deletes overwrites `out` with its own operation, so
it keeps the properties (`OtherCall`). A failed call keeps the storages,
so it keeps them too (`FailIInv`).

`NewestRevisionIsNewest` shows that the revision `GetHelm2ReleaseData`
returns is in the set and that no revision of the set is newer. It rests
on `SortedListingExists` in `ReleaseListProofs`: every finite set of
revisions of one release has a listing sorted by revision. Without it the
`CHOOSE` of `SortByRevisionAsc` could pick anything. The proof is by a
least counterexample on the size of the subsets. The oldest revision,
found by `NatLeastElement`, goes in front of a sorted listing of the
others.

`ReleaseListProofs` proves what the `AppendUniqReleases` loop returns, for
every sequence of revisions: `AppendUniqReleasesNames` shows that the
result has no repeated name and names exactly the releases of the input.
The model writes the loop as the recursive function `res[i]`, so no
RECURSIVE operator is involved. The proof has three parts:

- `LoopTableExists` shows that the table of the loop exists, by a least
  counterexample (`NatLeastElement`, from `WFMin` and the well-foundedness
  of `<` on `Nat`).
- `AppendUniqReleasesTable` shows that the result is the table's last
  entry.
- `TableEntries` shows that every entry keeps the names injective and
  names the first `i` releases, again by a least counterexample.
- `SortedListingExists` gives the sort of `GetHelm2ReleaseData` a
  result, as described above.

`UniqStepKeeps` is the step of the loop, from `AppendProperties`.
`ListResult` applies this to a listing of a storage in the step proof of
`GetHelm2ReleasesList` and `GetHelm3ReleasesList`.

**Only model-checked:**

- the liveness properties (`FetchTerminates`, `DigestCallsTerminate`),
  which need fairness and ENABLED, out of the provers' reach;
- the violated properties, whose counterexamples are the findings.

Every safety invariant and action property of a passing run is proved.

## Not modelled

- **`GetFinalStageDescriptionList` of C4 (378-413).** Not modelled yet.
  After a deletion it would resolve a listed stage through the manifest
  cache.
- **`CopyStageIntoCache` (694-712), `CopySuitableByDigestStage` (863-887)
  and `GetStagesByDigestFromStagesStorage` (849-861).** Planned.
- **C7, `GenerateStageUniqueID` (1130-1145).** It returns the clock
  reading whatever the candidates are (see above), so a model of it would
  be one step with nothing a property could tell apart.
- **C5, C6, C8 and the error classification helpers.** They are delegation,
  logging or configuration fixed before any concurrency, so there is no
  state to model.
- **The maintenance helper's error texts.** Two of them are malformed:
  - 161 has two verbs and one argument;
  - 228 drops the `err` argument.

  Wording is not modelled, so no run shows this.
- **What a retry of a half-failed `DeleteHelm2ReleaseMetadata` must
  achieve.** The callers that retry are not in `src/`.
- **The ginkgo test scaffolding.** It is I/O only.
- **The `SharedHostImagesLocks` slice.** It is appended without a mutex
  (468). Nothing reads it, so the model keeps only the set of locked names.
