------------------------ MODULE StageFetchHostProofs ------------------------
(***************************************************************************)
(* Proof that the fetch pipeline implements StageHostImages, for every    *)
(* number of workers, stages and cache tiers.                              *)
(*                                                                         *)
(* A successful return is a step of StageHostImages only if the call      *)
(* holds its lock and has its primary image local.  IInv gives both while *)
(* the process runs; CrashStops adds that a running call means a running  *)
(* process, because the panic at 602 ends every call that has not         *)
(* returned.                                                               *)
(***************************************************************************)
EXTENDS StageFetchProofs

USE NCacheAssumption

\* Once a worker has panicked, every call has returned or was ended.
CrashStops ==
    (\E w \in Workers : pc[w] = "crashed")
        => \A w \in Workers : pc[w] \in {"done", "crashed"}

\* The program counters of a call that has not returned.
Running == PCs \ {"done", "crashed"}

LEMMA InitCrashStops == Init => CrashStops
BY DEF Init, CrashStops

\* Every step of a worker other than the panic moves it to a running
\* program counter or returns it; nothing else touches pc.
LEMMA StepCrashStops ==
    ASSUME TypeOK, CrashStops, [Next]_vars
    PROVE  CrashStops'
<1>. USE DEF CrashStops, TypeOK, PCs
<1>1. CASE \E w \in Workers : pc[w] = "crashed"
    <2>1. \A w \in Workers : pc[w] \in {"done", "crashed"}
        BY <1>1
    <2>2. pc' = pc
        BY <2>1 DEF Next, Worker, LockStageImage, ProbePrimary, FetchFromCache,
           PrepareAsPrimary, DescribePrimary, PullPrimary, Refill, FinishFetch,
           HostCleanup, vars, workerVars
    <2>. QED
        BY <2>1, <2>2
<1>2. CASE \A w \in Workers : pc[w] # "crashed"
    <2>1. ASSUME NEW w \in Workers, NEW x, x # "crashed",
                 pc' = [pc EXCEPT ![w] = x]
          PROVE  CrashStops'
        BY <1>2, <2>1
    <2>2. ASSUME NEW w \in Workers, Return(w, "ok") \/ Return(w, "error")
                 \/ Return(w, "reset") \/ Return(w, "lruError")
          PROVE  CrashStops'
        BY <1>2, <2>2, <2>1 DEF Return
    <2>3. ASSUME NEW w \in Workers, CacheMiss(w) PROVE CrashStops'
        BY <2>1, <2>3 DEF CacheMiss, LoopAt
    <2>4. ASSUME NEW w \in Workers, PrepareAsPrimary(w) PROVE CrashStops'
        BY <1>2, <2>1, <2>3, <2>4 DEF PrepareAsPrimary
    <2>5. ASSUME NEW w \in Workers, Worker(w) PROVE CrashStops'
        BY <1>2, <2>1, <2>2, <2>3, <2>4, <2>5
        DEF Worker, LockStageImage, ProbePrimary, FetchFromCache, DescribePrimary,
            PullPrimary, Refill, FinishFetch, LoopAt
    <2>6. CASE pc' = pc
        BY <1>2, <2>6
    <2>. QED
        BY <2>5, <2>6 DEF Next, HostCleanup, vars, workerVars
<1>. QED
    BY <1>1, <1>2

\* The process invariant of the refinement: the pipeline's inductive
\* invariant, and that a panic ends every call.
HInv == IInv /\ CrashStops

THEOREM HInvariant == Spec => []HInv
<1>1. Init => CrashStops
    BY InitCrashStops
<1>2. IInv /\ CrashStops /\ [Next]_vars => CrashStops'
    BY StepCrashStops DEF IInv
<1>. QED
    BY <1>1, <1>2, IInvariant, PTL DEF Spec, HInv

-----------------------------------------------------------------------------
(* Refinement of StageHostImages.                                          *)

AbstractStep == [HostImages!Next]_HostImages!hostVars

LEMMA InitRefines == Init => HostImages!Init
BY DEF Init, HostImages!Init, HostStatus, Names, HostImages!Names, Tiers,
   HostImages!Tiers, Caches, Primary, HostImages!Primary

\* A call that stays running keeps every outcome.
LEMMA StatusKept ==
    ASSUME TypeOK, NEW w \in Workers, pc[w] \in Running,
           NEW x \in Running, pc' = [pc EXCEPT ![w] = x], result' = result
    PROVE  HostStatus' = HostStatus
BY DEF HostStatus, TypeOK, Running

\* A return sets the outcome of the call and of no other.
LEMMA ReturnStatus ==
    ASSUME TypeOK, NEW w \in Workers, pc[w] \in Running,
           NEW r \in Results, Return(w, r)
    PROVE  HostStatus' = [HostStatus EXCEPT ![w] = IF r = "ok" THEN "ok" ELSE "failed"]
BY DEF HostStatus, TypeOK, Running, Return

\* A running call is a running call of StageHostImages.
LEMMA RunningStatus ==
    ASSUME NEW w \in Workers, pc[w] \in Running
    PROVE  HostStatus[w] = "running"
BY DEF HostStatus, Running

\* A running call means a running process, so it holds its lock and
\* the steps that need them have it.
LEMMA RunningAlive ==
    ASSUME HInv, NEW w \in Workers, pc[w] \in Running
    PROVE  Alive /\ LockHeld /\ LocalHeld
BY DEF HInv, IInv, CrashStops, Alive, Running

\* A failed return is Fail.
LEMMA FailRefines ==
    ASSUME TypeOK, NEW w \in Workers, pc[w] \in Running,
           NEW r \in Results \ {"ok"}, Return(w, r),
           UNCHANGED <<stg, local, hostLocks>>
    PROVE  AbstractStep
<1>1. HostStatus' = [HostStatus EXCEPT ![w] = "failed"]
    BY ReturnStatus
<1>2. HostImages!Fail(w)
    BY <1>1, RunningStatus DEF HostImages!Fail
<1>. QED
    BY <1>2 DEF AbstractStep, HostImages!Next

\* A successful return, with the lock held and the image local, is Succeed.
LEMMA SucceedRefines ==
    ASSUME TypeOK, NEW w \in Workers, pc[w] \in Running, Return(w, "ok"),
           stg[w] \in hostLocks, ImageName(Primary, stg[w]) \in local,
           UNCHANGED <<stg, local, hostLocks>>
    PROVE  AbstractStep
<1>1. HostStatus' = [HostStatus EXCEPT ![w] = "ok"]
    BY ReturnStatus DEF Results
<1>2. HostImages!Succeed(w)
    BY <1>1, RunningStatus
    DEF HostImages!Succeed, HostImages!ImageName, ImageName, HostImages!Primary, Primary
<1>. QED
    BY <1>2 DEF AbstractStep, HostImages!Next

\* Bringing an image of the call's own stage into the daemon is Store.
LEMMA StoreRefines ==
    ASSUME TypeOK, NEW w \in Workers, pc[w] \in Running, NEW t \in Tiers,
           local' = local \cup {ImageName(t, stg[w])},
           HostStatus' = HostStatus, UNCHANGED <<stg, hostLocks>>
    PROVE  AbstractStep
<1>1. ImageName(t, stg[w]) \in HostImages!Names
    BY DEF TypeOK, ImageName, HostImages!Names, HostImages!Tiers, Tiers, Caches,
       Primary, HostImages!Primary
<1>2. HostImages!Store(w, ImageName(t, stg[w]))
    BY RunningStatus DEF HostImages!Store, ImageName
<1>. QED
    BY <1>1, <1>2 DEF AbstractStep, HostImages!Next

\* A step that changes none of what the host sees is a stutter.
LEMMA HostKept ==
    ASSUME HostStatus' = HostStatus, UNCHANGED <<stg, local, hostLocks>>
    PROVE  AbstractStep
BY DEF AbstractStep, HostImages!hostVars

\* The panic at 602 is Crash: every call that has not returned is ended
\* and the operating system drops the process's host locks.
LEMMA CrashRefines ==
    ASSUME TypeOK, NEW w \in Workers, pc[w] \in Running,
           pc' = [v \in Workers |-> IF pc[v] = "done" THEN "done" ELSE "crashed"],
           hostLocks' = {}, UNCHANGED <<stg, local, result>>
    PROVE  AbstractStep
<1>1. HostStatus' = [v \in Workers |->
                        IF HostStatus[v] = "running" THEN "crashed" ELSE HostStatus[v]]
    BY DEF HostStatus, TypeOK, PCs
<1>2. HostImages!Crash(w)
    BY <1>1, RunningStatus DEF HostImages!Crash
<1>. QED
    BY <1>2 DEF AbstractStep, HostImages!Next

LEMMA StepRefines == HInv /\ [Next]_vars => AbstractStep
<1> SUFFICES ASSUME HInv, [Next]_vars PROVE AbstractStep
    OBVIOUS
<1>0. TypeOK /\ CiInRange
    BY DEF HInv, IInv
<1>1. ASSUME NEW w \in Workers, LockStageImage(w) PROVE AbstractStep
    <2>1. pc[w] \in Running
        BY <1>1 DEF LockStageImage, Running, PCs
    <2>2. CASE hostLocks' = hostLocks \cup {stg[w]}
               /\ pc' = [pc EXCEPT ![w] = "probe"] /\ UNCHANGED result
        <3>1. HostStatus' = HostStatus
            BY <1>0, <2>1, <2>2, StatusKept DEF Running, PCs
        <3>2. HostImages!TakeLock(w)
            BY <1>1, <2>1, <2>2, <3>1, RunningStatus DEF LockStageImage, HostImages!TakeLock
        <3>. QED
            BY <3>2 DEF AbstractStep, HostImages!Next
    <2>3. CASE Return(w, "error") /\ UNCHANGED hostLocks
        BY <1>0, <1>1, <2>1, <2>3, FailRefines DEF LockStageImage, Results
    <2>. QED
        BY <1>1, <2>2, <2>3 DEF LockStageImage
<1>2. ASSUME NEW w \in Workers, ProbePrimary(w) PROVE AbstractStep
    <2>1. pc[w] \in Running /\ UNCHANGED <<stg, local, hostLocks>>
        BY <1>2 DEF ProbePrimary, Running, PCs, storeVars
    <2>2. CASE Return(w, "error") \/ Return(w, "lruError")
        BY <1>0, <2>1, <2>2, FailRefines DEF Results
    <2>3. CASE ImageName(Primary, stg[w]) \in local /\ Return(w, "ok")
        <3>1. stg[w] \in hostLocks
            BY <1>2, <2>1, RunningAlive DEF LockHeld, Locked, ProbePrimary
        <3>. QED
            BY <1>0, <2>1, <2>3, <3>1, SucceedRefines
    <2>4. CASE pc' = [pc EXCEPT ![w] = LoopAt(1)] /\ UNCHANGED result
        <3>1. HostStatus' = HostStatus
            BY <1>0, <2>1, <2>4, StatusKept DEF Running, PCs, LoopAt
        <3>. QED
            BY <2>1, <3>1, HostKept
    <2>. QED
        BY <1>2, <2>2, <2>3, <2>4 DEF ProbePrimary
<1>3. ASSUME NEW w \in Workers, FetchFromCache(w) PROVE AbstractStep
    <2>1. /\ pc[w] \in Running /\ ci[w] \in Caches
          /\ UNCHANGED <<stg, hostLocks, result>>
          /\ pc' \in {[pc EXCEPT ![w] = "prepare"], [pc EXCEPT ![w] = LoopAt(ci[w] + 1)]}
        BY <1>0, <1>3 DEF FetchFromCache, CacheMiss, Running, PCs, CiInRange
    <2>2. HostStatus' = HostStatus
        BY <1>0, <2>1, StatusKept DEF Running, PCs, LoopAt
    <2>3. CASE UNCHANGED local
        BY <2>1, <2>2, <2>3, HostKept
    <2>4. CASE local' = local \cup {ImageName(ci[w], stg[w])}
        BY <1>0, <2>1, <2>2, <2>4, StoreRefines DEF Tiers
    <2>. QED
        BY <1>3, <2>3, <2>4 DEF FetchFromCache
<1>4. ASSUME NEW w \in Workers, PrepareAsPrimary(w) PROVE AbstractStep
    <2>1. pc[w] \in Running /\ UNCHANGED <<stg, result>>
        BY <1>4 DEF PrepareAsPrimary, Running, PCs
    <2>2. CASE pc' = [v \in Workers |-> IF pc[v] = "done" THEN "done" ELSE "crashed"]
               /\ hostLocks' = {} /\ UNCHANGED local
        BY <1>0, <2>1, <2>2, CrashRefines
    <2>3. CASE /\ local' = local \cup {ImageName(Primary, stg[w])}
               /\ UNCHANGED hostLocks
               /\ pc' \in {[pc EXCEPT ![w] = "refill"],
                           [pc EXCEPT ![w] = LoopAt(ci[w] + 1)]}
        <3>1. HostStatus' = HostStatus
            BY <1>0, <2>1, <2>3, StatusKept DEF Running, PCs, LoopAt
        <3>. QED
            BY <1>0, <2>1, <2>3, <3>1, StoreRefines DEF Tiers
    <2>. QED
        BY <1>4, <2>2, <2>3 DEF PrepareAsPrimary, CacheMiss
<1>5. ASSUME NEW w \in Workers, DescribePrimary(w) PROVE AbstractStep
    <2>1. pc[w] \in Running /\ UNCHANGED <<stg, local, hostLocks>>
        BY <1>5 DEF DescribePrimary, Running, PCs, storeVars
    <2>2. CASE Return(w, "error") \/ Return(w, "reset")
        BY <1>0, <2>1, <2>2, FailRefines DEF Results
    <2>3. CASE pc' = [pc EXCEPT ![w] = "pull"] /\ UNCHANGED result
        <3>1. HostStatus' = HostStatus
            BY <1>0, <2>1, <2>3, StatusKept DEF Running, PCs
        <3>. QED
            BY <2>1, <3>1, HostKept
    <2>. QED
        BY <1>5, <2>2, <2>3 DEF DescribePrimary
<1>6. ASSUME NEW w \in Workers, PullPrimary(w) PROVE AbstractStep
    <2>1. pc[w] \in Running /\ UNCHANGED <<stg, hostLocks>>
        BY <1>6 DEF PullPrimary, Running, PCs
    <2>2. CASE Return(w, "error") /\ UNCHANGED local
        BY <1>0, <2>1, <2>2, FailRefines DEF Results
    <2>3. CASE local' = local \cup {ImageName(Primary, stg[w])}
               /\ pc' = [pc EXCEPT ![w] = "refill"] /\ UNCHANGED result
        <3>1. HostStatus' = HostStatus
            BY <1>0, <2>1, <2>3, StatusKept DEF Running, PCs
        <3>. QED
            BY <1>0, <2>1, <2>3, <3>1, StoreRefines DEF Tiers
    <2>. QED
        BY <1>6, <2>2, <2>3 DEF PullPrimary
<1>7. ASSUME NEW w \in Workers, Refill(w) PROVE AbstractStep
    <2>1. /\ pc[w] \in Running /\ UNCHANGED <<stg, hostLocks, pc, result>>
          /\ Head(refill[w]) \in Caches
        BY <1>0, <1>7 DEF Refill, Running, PCs, TypeOK
    <2>2. HostStatus' = HostStatus
        BY <2>1 DEF HostStatus
    <2>3. CASE UNCHANGED local
        BY <2>1, <2>2, <2>3, HostKept
    <2>4. CASE local' = local \cup {ImageName(Head(refill[w]), stg[w])}
        BY <1>0, <2>1, <2>2, <2>4, StoreRefines DEF Tiers
    <2>. QED
        BY <1>7, <2>3, <2>4 DEF Refill
<1>8. ASSUME NEW w \in Workers, FinishFetch(w) PROVE AbstractStep
    <2>1. pc[w] \in Running /\ UNCHANGED <<stg, local, hostLocks>>
        BY <1>8 DEF FinishFetch, Running, PCs, storeVars
    <2>2. stg[w] \in hostLocks /\ ImageName(Primary, stg[w]) \in local
        BY <1>8, <2>1, RunningAlive DEF LockHeld, LocalHeld, Locked, FinishFetch
    <2>. QED
        BY <1>0, <1>8, <2>1, <2>2, SucceedRefines DEF FinishFetch
<1>9. ASSUME NEW n \in Names, HostCleanup(n) PROVE AbstractStep
    <2>1. HostStatus' = HostStatus
        BY <1>9 DEF HostCleanup, HostStatus, workerVars
    <2>2. n \in HostImages!Names
        BY DEF Names, HostImages!Names, Tiers, HostImages!Tiers, Caches, Primary,
           HostImages!Primary
    <2>3. HostImages!Cleanup(n)
        BY <1>9, <2>1 DEF HostCleanup, HostImages!Cleanup, workerVars, Primary,
           HostImages!Primary
    <2>. QED
        BY <2>2, <2>3 DEF AbstractStep, HostImages!Next
<1>10. CASE UNCHANGED vars
    BY <1>10, HostKept DEF vars, storeVars, workerVars, HostStatus
<1>. QED
    BY <1>1, <1>2, <1>3, <1>4, <1>5, <1>6, <1>7, <1>8, <1>9, <1>10 DEF Next, Worker

\* The fetch pipeline implements StageHostImages: every call brings only
\* images of its own stage into the daemon, returns success only while it
\* holds the shared host lock of its stage and the stage's primary image
\* is local, the panic at 602 ends every running call, and host cleanup
\* never removes a locked primary image.
THEOREM RefinesStageHostImages == Spec => ImplementsStageHostImages
<1>1. Spec => [][HInv /\ [Next]_vars]_vars
    BY HInvariant, PTL DEF Spec
<1>2. [HInv /\ [Next]_vars]_vars => AbstractStep
    BY StepRefines, HostKept DEF vars, storeVars, workerVars, HostStatus
<1>. QED
    BY <1>1, <1>2, InitRefines, PTL
    DEF Spec, ImplementsStageHostImages, HostImages!Spec, AbstractStep

=============================================================================
