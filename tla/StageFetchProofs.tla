-------------------------- MODULE StageFetchProofs --------------------------
(***************************************************************************)
(* Proofs about the fetch pipeline: type correctness, and that a stage    *)
(* fetched successfully stays in the local docker daemon while the        *)
(* process runs (FetchedImageStaysLocal), for every number of workers,    *)
(* stages and cache tiers.                                                 *)
(***************************************************************************)
EXTENDS StageFetch, SequenceTheorems, TLAPS

\* The steps between a successful LockStageImage and the return of
\* FetchStage.
Locked == {"probe", "cache", "prepare", "describe", "pull", "refill"}

\* The cache loop starts at the first tier, indexes a cache tier while it
\* runs and never runs past the end of the list.
CiInRange ==
    \A w \in Workers :
        /\ pc[w] \in {"lock", "probe"} => ci[w] = 1
        /\ pc[w] \in {"cache", "prepare"} => ci[w] \in Caches

\* A worker past LockStageImage, or done with success, holds its lock.
LockHeld ==
    \A w \in Workers :
        (pc[w] \in Locked \/ (pc[w] = "done" /\ result[w] = "ok"))
            => stg[w] \in hostLocks

\* A worker refilling, or done with success, has its primary image local.
LocalHeld ==
    \A w \in Workers :
        (pc[w] = "refill" \/ (pc[w] = "done" /\ result[w] = "ok"))
            => ImageName(Primary, stg[w]) \in local

\* The inductive invariant: while the process runs, the locks and the local
\* images of the workers go together.
IInv ==
    /\ TypeOK
    /\ CiInRange
    /\ Alive => (LockHeld /\ LocalHeld)

-----------------------------------------------------------------------------
USE NCacheAssumption

\* Every initial state of the pipeline satisfies the inductive invariant.
LEMMA InitIInv == Init => IInv
  BY DEF Init, IInv, TypeOK, CiInRange, Alive, LockHeld, LocalHeld, Locked,
         PrimaryStatus, CacheStatus, PCs, Results,
         Tiers, Caches, Primary, Names, ImageName

\* The name of an image on any tier is one of the names the model tracks.
LEMMA ImageNameInNames ==
    ASSUME NEW t \in Tiers, NEW s \in Stages
    PROVE  ImageName(t, s) \in Names
BY DEF ImageName, Names

\* A missed cache tier keeps the loop's variables in their types.
LEMMA CacheMissType ==
  ASSUME TypeOK, NEW w \in Workers, ci[w] \in Caches, CacheMiss(w)
  PROVE  /\ refill' \in [Workers -> Seq(Caches)]
         /\ ci' \in [Workers -> 1 .. NCache + 1]
         /\ pc' \in [Workers -> PCs]
<1>1. Append(refill[w], ci[w]) \in Seq(Caches)
  BY AppendProperties DEF TypeOK
<1>2. LoopAt(ci[w] + 1) \in PCs
  BY DEF LoopAt, PCs
<1>. QED
  BY <1>1, <1>2, NCacheAssumption DEF TypeOK, CacheMiss, Caches

\* Every step of a worker or of host cleanup preserves the inductive
\* invariant: one step per action, one case per outcome of the action.
LEMMA StepIInv ==
  ASSUME IInv, [Next]_vars
  PROVE  IInv'
<1> USE DEF IInv, TypeOK, CiInRange, Alive, LockHeld, LocalHeld, Locked,
            PrimaryStatus, CacheStatus, PCs, Results,
            Tiers, Caches, Primary, Names, ImageName, Return, LoopAt
<1>1. ASSUME NEW w \in Workers, LockStageImage(w) PROVE IInv'
  <2>1. CASE hostLocks' = hostLocks \cup {stg[w]}
             /\ pc' = [pc EXCEPT ![w] = "probe"] /\ UNCHANGED result
    <3>1. TypeOK'
      BY <1>1, <2>1 DEF LockStageImage
    <3>2. CiInRange'
      BY <1>1, <2>1 DEF LockStageImage
    <3>3. Alive' => (LockHeld' /\ LocalHeld')
      BY <1>1, <2>1 DEF LockStageImage
    <3>4. QED
      BY <3>1, <3>2, <3>3
  <2>2. CASE Return(w, "error") /\ UNCHANGED hostLocks
    <3>1. TypeOK'
      BY <1>1, <2>2 DEF LockStageImage
    <3>2. CiInRange'
      BY <1>1, <2>2 DEF LockStageImage
    <3>3. Alive' => (LockHeld' /\ LocalHeld')
      BY <1>1, <2>2 DEF LockStageImage
    <3>4. QED
      BY <3>1, <3>2, <3>3
  <2>3. QED
    BY <1>1, <2>1, <2>2 DEF LockStageImage
<1>2. ASSUME NEW w \in Workers, ProbePrimary(w) PROVE IInv'
  <2>1. CASE Return(w, "error")
    <3>1. TypeOK'
      BY <1>2, <2>1 DEF ProbePrimary, storeVars
    <3>2. CiInRange'
      BY <1>2, <2>1 DEF ProbePrimary, storeVars
    <3>3. Alive' => (LockHeld' /\ LocalHeld')
      BY <1>2, <2>1 DEF ProbePrimary, storeVars
    <3>4. QED
      BY <3>1, <3>2, <3>3
  <2>2. CASE ImageName(Primary, stg[w]) \in local /\ Return(w, "ok")
    <3>1. TypeOK'
      BY <1>2, <2>2 DEF ProbePrimary, storeVars
    <3>2. CiInRange'
      BY <1>2, <2>2 DEF ProbePrimary, storeVars
    <3>3. Alive' => (LockHeld' /\ LocalHeld')
      BY <1>2, <2>2 DEF ProbePrimary, storeVars
    <3>4. QED
      BY <3>1, <3>2, <3>3
  <2>3. CASE ImageName(Primary, stg[w]) \notin local /\ pc' = [pc EXCEPT ![w] = LoopAt(1)]
             /\ UNCHANGED result
    <3>1. TypeOK'
      BY <1>2, <2>3 DEF ProbePrimary, storeVars
    <3>2. CiInRange'
      BY <1>2, <2>3 DEF ProbePrimary, storeVars
    <3>3. Alive' => (LockHeld' /\ LocalHeld')
      BY <1>2, <2>3 DEF ProbePrimary, storeVars
    <3>4. QED
      BY <3>1, <3>2, <3>3
  <2>4. CASE ImageName(Primary, stg[w]) \in local /\ Return(w, "lruError")
    <3>1. TypeOK'
      BY <1>2, <2>4 DEF ProbePrimary, storeVars
    <3>2. CiInRange'
      BY <1>2, <2>4 DEF ProbePrimary, storeVars
    <3>3. Alive' => (LockHeld' /\ LocalHeld')
      BY <1>2, <2>4 DEF ProbePrimary, storeVars
    <3>4. QED
      BY <3>1, <3>2, <3>3
  <2>5. QED
    BY <1>2, <2>1, <2>2, <2>3, <2>4 DEF ProbePrimary, storeVars
<1>3. ASSUME NEW w \in Workers, FetchFromCache(w) PROVE IInv'
  <2>1. ci[w] \in Caches
    BY <1>3 DEF FetchFromCache
  <2>2. Append(refill[w], ci[w]) \in Seq(Caches)
    BY <2>1, AppendProperties
  <2>3. ImageName(ci[w], stg[w]) \in Names
    BY <2>1, ImageNameInNames
  <2>4. CASE CacheMiss(w) /\ UNCHANGED <<local, manifest>>
    <3>1. TypeOK'
      BY <1>3, <2>4, <2>1, <2>2, <2>3 DEF FetchFromCache, CacheMiss
    <3>2. CiInRange'
      BY <1>3, <2>4, <2>1, <2>2, <2>3 DEF FetchFromCache, CacheMiss
    <3>3. Alive' => (LockHeld' /\ LocalHeld')
      BY <1>3, <2>4, <2>1, <2>2, <2>3 DEF FetchFromCache, CacheMiss
    <3>4. QED
      BY <3>1, <3>2, <3>3
  <2>5. CASE pc' = [pc EXCEPT ![w] = "prepare"]
             /\ UNCHANGED <<local, manifest, refill, ci>>
    <3>1. TypeOK'
      BY <1>3, <2>5, <2>1, <2>2, <2>3 DEF FetchFromCache, CacheMiss
    <3>2. CiInRange'
      BY <1>3, <2>5, <2>1, <2>2, <2>3 DEF FetchFromCache, CacheMiss
    <3>3. Alive' => (LockHeld' /\ LocalHeld')
      BY <1>3, <2>5, <2>1, <2>2, <2>3 DEF FetchFromCache, CacheMiss
    <3>4. QED
      BY <3>1, <3>2, <3>3
  <2>6. CASE local' = local \cup {ImageName(ci[w], stg[w])} /\ manifest' = manifest \cup {ImageName(ci[w], stg[w])}
             /\ pc' = [pc EXCEPT ![w] = "prepare"] /\ UNCHANGED <<refill, ci>>
    <3>1. TypeOK'
      BY <1>3, <2>6, <2>1, <2>2, <2>3 DEF FetchFromCache, CacheMiss
    <3>2. CiInRange'
      BY <1>3, <2>6, <2>1, <2>2, <2>3 DEF FetchFromCache, CacheMiss
    <3>3. Alive' => (LockHeld' /\ LocalHeld')
      BY <1>3, <2>6, <2>1, <2>2, <2>3 DEF FetchFromCache, CacheMiss
    <3>4. QED
      BY <3>1, <3>2, <3>3
  <2>7. CASE local' = local \cup {ImageName(ci[w], stg[w])} /\ manifest' = manifest \cup {ImageName(ci[w], stg[w])}
             /\ CacheMiss(w)
    <3>1. TypeOK'
      <4>1. /\ refill' \in [Workers -> Seq(Caches)]
            /\ ci' \in [Workers -> 1 .. NCache + 1]
            /\ pc' \in [Workers -> PCs]
        BY <2>7, <2>1, CacheMissType
      <4>2. local' \subseteq Names /\ manifest' \subseteq Names
        BY <2>7, <2>3
      <4>. QED
        BY <1>3, <2>7, <4>1, <4>2 DEF FetchFromCache
    <3>2. CiInRange'
      BY <1>3, <2>7, <2>1, <2>2, <2>3 DEF FetchFromCache, CacheMiss
    <3>3. Alive' => (LockHeld' /\ LocalHeld')
      BY <1>3, <2>7, <2>1, <2>2, <2>3 DEF FetchFromCache, CacheMiss
    <3>4. QED
      BY <3>1, <3>2, <3>3
  <2>8. CASE local' = local \cup {ImageName(ci[w], stg[w])} /\ UNCHANGED manifest /\ CacheMiss(w)
    <3>1. TypeOK'
      <4>1. /\ refill' \in [Workers -> Seq(Caches)]
            /\ ci' \in [Workers -> 1 .. NCache + 1]
            /\ pc' \in [Workers -> PCs]
        BY <2>8, <2>1, CacheMissType
      <4>2. local' \subseteq Names /\ manifest' \subseteq Names
        BY <2>8, <2>3
      <4>. QED
        BY <1>3, <2>8, <4>1, <4>2 DEF FetchFromCache
    <3>2. CiInRange'
      BY <1>3, <2>8, <2>1, <2>2, <2>3 DEF FetchFromCache, CacheMiss
    <3>3. Alive' => (LockHeld' /\ LocalHeld')
      BY <1>3, <2>8, <2>1, <2>2, <2>3 DEF FetchFromCache, CacheMiss
    <3>4. QED
      BY <3>1, <3>2, <3>3
  <2>9. QED
    BY <1>3, <2>4, <2>5, <2>6, <2>7, <2>8 DEF FetchFromCache, CacheMiss
<1>4. ASSUME NEW w \in Workers, PrepareAsPrimary(w) PROVE IInv'
  <2>1. ci[w] \in Caches
    BY <1>4 DEF PrepareAsPrimary
  <2>2. Append(refill[w], ci[w]) \in Seq(Caches)
    BY <2>1, AppendProperties
  <2>3. ImageName(Primary, stg[w]) \in Names
    BY <2>1, ImageNameInNames
  <2>4. CASE pc' = [v \in Workers |-> IF pc[v] = "done" THEN "done" ELSE "crashed"]
             /\ hostLocks' = {}
             /\ UNCHANGED <<local, manifest, refill, ci, hit, cur>>
    <3>1. pc' \in [Workers -> PCs]
      BY <2>4 DEF PCs
    <3>2. ~Alive'
      BY <1>4, <2>4 DEF Alive, PrepareAsPrimary
    <3>3. TypeOK'
      BY <1>4, <2>4, <2>1, <2>2, <2>3, <3>1, <3>2 DEF PrepareAsPrimary, CacheMiss
    <3>4. CiInRange'
      BY <1>4, <2>4, <2>1, <2>2, <2>3, <3>1, <3>2 DEF PrepareAsPrimary, CacheMiss
    <3>5. Alive' => (LockHeld' /\ LocalHeld')
      BY <1>4, <2>4, <2>1, <2>2, <2>3, <3>1, <3>2 DEF PrepareAsPrimary, CacheMiss
    <3>6. QED
      BY <3>3, <3>4, <3>5
  <2>5. CASE local' = local \cup {ImageName(Primary, stg[w])} /\ UNCHANGED <<hostLocks, manifest, hit, cur>>
             /\ CacheMiss(w)
    <3>1. TypeOK'
      BY <1>4, <2>5, <2>1, <2>2, <2>3 DEF PrepareAsPrimary, CacheMiss
    <3>2. CiInRange'
      BY <1>4, <2>5, <2>1, <2>2, <2>3 DEF PrepareAsPrimary, CacheMiss
    <3>3. Alive' => (LockHeld' /\ LocalHeld')
      BY <1>4, <2>5, <2>1, <2>2, <2>3 DEF PrepareAsPrimary, CacheMiss
    <3>4. QED
      BY <3>1, <3>2, <3>3
  <2>6. CASE local' = local \cup {ImageName(Primary, stg[w])} /\ UNCHANGED <<hostLocks, hit, cur>>
             /\ manifest' = manifest \cup {ImageName(Primary, stg[w])} /\ CacheMiss(w)
    <3>1. TypeOK'
      BY <1>4, <2>6, <2>1, <2>2, <2>3 DEF PrepareAsPrimary, CacheMiss
    <3>2. CiInRange'
      BY <1>4, <2>6, <2>1, <2>2, <2>3 DEF PrepareAsPrimary, CacheMiss
    <3>3. Alive' => (LockHeld' /\ LocalHeld')
      BY <1>4, <2>6, <2>1, <2>2, <2>3 DEF PrepareAsPrimary, CacheMiss
    <3>4. QED
      BY <3>1, <3>2, <3>3
  <2>7. CASE local' = local \cup {ImageName(Primary, stg[w])} /\ UNCHANGED <<hostLocks, refill, ci>>
             /\ manifest' = manifest \cup {ImageName(Primary, stg[w])}
             /\ hit' = [hit EXCEPT ![w] = ci[w]]
             /\ cur' = [cur EXCEPT ![w] = Primary]
             /\ pc' = [pc EXCEPT ![w] = "refill"]
    <3>1. TypeOK'
      BY <1>4, <2>7, <2>1, <2>2, <2>3 DEF PrepareAsPrimary, CacheMiss
    <3>2. CiInRange'
      BY <1>4, <2>7, <2>1, <2>2, <2>3 DEF PrepareAsPrimary, CacheMiss
    <3>3. Alive' => (LockHeld' /\ LocalHeld')
      BY <1>4, <2>7, <2>1, <2>2, <2>3 DEF PrepareAsPrimary, CacheMiss
    <3>4. QED
      BY <3>1, <3>2, <3>3
  <2>8. QED
    BY <1>4, <2>4, <2>5, <2>6, <2>7 DEF PrepareAsPrimary, CacheMiss
<1>5. ASSUME NEW w \in Workers, DescribePrimary(w) PROVE IInv'
  <2>1. CASE Return(w, "error") /\ UNCHANGED seen
    <3>1. TypeOK'
      BY <1>5, <2>1 DEF DescribePrimary, storeVars
    <3>2. CiInRange'
      BY <1>5, <2>1 DEF DescribePrimary, storeVars
    <3>3. Alive' => (LockHeld' /\ LocalHeld')
      BY <1>5, <2>1 DEF DescribePrimary, storeVars
    <3>4. QED
      BY <3>1, <3>2, <3>3
  <2>2. CASE seen' = [seen EXCEPT ![w] = primary[stg[w]]] /\ primary[stg[w]] = "ok"
             /\ pc' = [pc EXCEPT ![w] = "pull"] /\ UNCHANGED result
    <3>1. TypeOK'
      BY <1>5, <2>2 DEF DescribePrimary, storeVars
    <3>2. CiInRange'
      BY <1>5, <2>2 DEF DescribePrimary, storeVars
    <3>3. Alive' => (LockHeld' /\ LocalHeld')
      BY <1>5, <2>2 DEF DescribePrimary, storeVars
    <3>4. QED
      BY <3>1, <3>2, <3>3
  <2>3. CASE seen' = [seen EXCEPT ![w] = primary[stg[w]]] /\ Return(w, "reset")
    <3>1. TypeOK'
      BY <1>5, <2>3 DEF DescribePrimary, storeVars
    <3>2. CiInRange'
      BY <1>5, <2>3 DEF DescribePrimary, storeVars
    <3>3. Alive' => (LockHeld' /\ LocalHeld')
      BY <1>5, <2>3 DEF DescribePrimary, storeVars
    <3>4. QED
      BY <3>1, <3>2, <3>3
  <2>4. CASE seen' = [seen EXCEPT ![w] = primary[stg[w]]] /\ Return(w, "error")
    <3>1. TypeOK'
      BY <1>5, <2>4 DEF DescribePrimary, storeVars
    <3>2. CiInRange'
      BY <1>5, <2>4 DEF DescribePrimary, storeVars
    <3>3. Alive' => (LockHeld' /\ LocalHeld')
      BY <1>5, <2>4 DEF DescribePrimary, storeVars
    <3>4. QED
      BY <3>1, <3>2, <3>3
  <2>5. QED
    BY <1>5, <2>1, <2>2, <2>3, <2>4 DEF DescribePrimary, storeVars
<1>6. ASSUME NEW w \in Workers, PullPrimary(w) PROVE IInv'
  <2>1. ImageName(Primary, stg[w]) \in Names
    BY ImageNameInNames
  <2>2. CASE Return(w, "error") /\ UNCHANGED local
    <3>1. TypeOK'
      BY <1>6, <2>2, <2>1 DEF PullPrimary
    <3>2. CiInRange'
      BY <1>6, <2>2, <2>1 DEF PullPrimary
    <3>3. Alive' => (LockHeld' /\ LocalHeld')
      BY <1>6, <2>2, <2>1 DEF PullPrimary
    <3>4. QED
      BY <3>1, <3>2, <3>3
  <2>3. CASE local' = local \cup {ImageName(Primary, stg[w])} /\ pc' = [pc EXCEPT ![w] = "refill"]
             /\ UNCHANGED result
    <3>1. TypeOK'
      BY <1>6, <2>3, <2>1 DEF PullPrimary
    <3>2. CiInRange'
      BY <1>6, <2>3, <2>1 DEF PullPrimary
    <3>3. Alive' => (LockHeld' /\ LocalHeld')
      BY <1>6, <2>3, <2>1 DEF PullPrimary
    <3>4. QED
      BY <3>1, <3>2, <3>3
  <2>4. QED
    BY <1>6, <2>2, <2>3 DEF PullPrimary
<1>7. ASSUME NEW w \in Workers, Refill(w) PROVE IInv'
  <2>1. Head(refill[w]) \in Caches /\ Tail(refill[w]) \in Seq(Caches)
    BY <1>7, HeadTailProperties DEF Refill
  <2>2. ImageName(Head(refill[w]), stg[w]) \in Names
    BY <2>1, ImageNameInNames
  <2>3. refillFailed' \in [Workers -> BOOLEAN]
    BY <1>7 DEF Refill
  <2>4. CASE UNCHANGED <<cache, local, manifest, cur>>
    <3>1. TypeOK'
      BY <1>7, <2>4, <2>1, <2>2, <2>3 DEF Refill
    <3>2. CiInRange'
      BY <1>7, <2>4, <2>1, <2>2, <2>3 DEF Refill
    <3>3. Alive' => (LockHeld' /\ LocalHeld')
      BY <1>7, <2>4, <2>1, <2>2, <2>3 DEF Refill
    <3>4. QED
      BY <3>1, <3>2, <3>3
  <2>5. CASE local' = local \cup {ImageName(Head(refill[w]), stg[w])} /\ UNCHANGED <<cache, manifest>>
             /\ cur' = [cur EXCEPT ![w] = Head(refill[w])]
    <3>1. TypeOK'
      BY <1>7, <2>5, <2>1, <2>2, <2>3 DEF Refill
    <3>2. CiInRange'
      BY <1>7, <2>5, <2>1, <2>2, <2>3 DEF Refill
    <3>3. Alive' => (LockHeld' /\ LocalHeld')
      BY <1>7, <2>5, <2>1, <2>2, <2>3 DEF Refill
    <3>4. QED
      BY <3>1, <3>2, <3>3
  <2>6. CASE local' = local \cup {ImageName(Head(refill[w]), stg[w])} /\ UNCHANGED manifest
             /\ cur' = [cur EXCEPT ![w] = Head(refill[w])]
             /\ cache' = [cache EXCEPT ![Head(refill[w])][stg[w]] = "ok"]
    <3>1. TypeOK'
      BY <1>7, <2>6, <2>1, <2>2, <2>3 DEF Refill
    <3>2. CiInRange'
      BY <1>7, <2>6, <2>1, <2>2, <2>3 DEF Refill
    <3>3. Alive' => (LockHeld' /\ LocalHeld')
      BY <1>7, <2>6, <2>1, <2>2, <2>3 DEF Refill
    <3>4. QED
      BY <3>1, <3>2, <3>3
  <2>7. CASE local' = local \cup {ImageName(Head(refill[w]), stg[w])} /\ manifest' = manifest \cup {ImageName(Head(refill[w]), stg[w])}
             /\ cur' = [cur EXCEPT ![w] = Head(refill[w])]
             /\ cache' = [cache EXCEPT ![Head(refill[w])][stg[w]] = "ok"]
    <3>1. TypeOK'
      BY <1>7, <2>7, <2>1, <2>2, <2>3 DEF Refill
    <3>2. CiInRange'
      BY <1>7, <2>7, <2>1, <2>2, <2>3 DEF Refill
    <3>3. Alive' => (LockHeld' /\ LocalHeld')
      BY <1>7, <2>7, <2>1, <2>2, <2>3 DEF Refill
    <3>4. QED
      BY <3>1, <3>2, <3>3
  <2>8. QED
    BY <1>7, <2>4, <2>5, <2>6, <2>7 DEF Refill
<1>8. ASSUME NEW w \in Workers, FinishFetch(w) PROVE IInv'
  <2>1. TypeOK'
    BY <1>8 DEF FinishFetch, storeVars
  <2>2. CiInRange'
    BY <1>8 DEF FinishFetch, storeVars
  <2>3. Alive' => (LockHeld' /\ LocalHeld')
    BY <1>8 DEF FinishFetch, storeVars
  <2>4. QED
    BY <2>1, <2>2, <2>3
<1>9. ASSUME NEW n \in Names, HostCleanup(n) PROVE IInv'
  <2>1. TypeOK'
    BY <1>9 DEF HostCleanup, workerVars
  <2>2. CiInRange'
    BY <1>9 DEF HostCleanup, workerVars
  <2>3. Alive' => (LockHeld' /\ LocalHeld')
    BY <1>9 DEF HostCleanup, workerVars
  <2>4. QED
    BY <2>1, <2>2, <2>3
<1>10. CASE UNCHANGED vars
  BY <1>10 DEF vars, storeVars, workerVars
<1>11. QED
  BY <1>1, <1>2, <1>3, <1>4, <1>5, <1>6, <1>7, <1>8, <1>9, <1>10
     DEF Next, Worker

\* IInv holds in every state of the fetch pipeline.
THEOREM IInvariant == Spec => []IInv
  BY InitIInv, StepIInv, PTL DEF Spec

\* Type correctness of the fetch pipeline.
THEOREM TypeCorrect == Spec => []TypeOK
  BY IInvariant, PTL DEF IInv

\* While the process runs, the primary image of a stage that FetchStage
\* returned successfully for stays in the local docker daemon, whatever
\* host cleanup does (the shared locks of LockStageImage keep it).
THEOREM FetchedImageStaysLocalThm == Spec => []FetchedImageStaysLocal
  <1>1. IInv => FetchedImageStaysLocal
    BY DEF IInv, LocalHeld, FetchedImageStaysLocal
  <1>2. QED
    BY <1>1, IInvariant, PTL

=============================================================================
