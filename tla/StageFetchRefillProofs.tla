----------------------- MODULE StageFetchRefillProofs -----------------------
(***************************************************************************)
(* Proof that FetchStage writes the stage back to every cache tier that   *)
(* missed it (CachesRefilled), for every number of workers, stages and    *)
(* cache tiers.  The argument follows the refill list of each worker: it  *)
(* holds exactly the tiers the loop at 620 has missed so far, and a tier  *)
(* leaves it only when the copy into the tier succeeded or a warning was  *)
(* logged.                                                                 *)
(***************************************************************************)
EXTENDS StageFetchProofs

\* The tiers on the refill list of worker w.
Missed(w) == {refill[w][i] : i \in 1 .. Len(refill[w])}

\* The refill list of w, from LockStageImage to the return of FetchStage.
RefillTracked(w) ==
    /\ pc[w] \in {"lock", "probe"} => refill[w] = <<>>
    /\ pc[w] \in {"cache", "prepare", "describe", "pull"} =>
           Missed(w) = 1 .. (ci[w] - 1)
    /\ pc[w] \in {"refill", "done"} =>
           \A c \in 1 .. (ci[w] - 1) :
               c \in Missed(w) \/ cache[c][stg[w]] = "ok" \/ refillFailed[w]
    /\ (pc[w] = "done" /\ result[w] = "ok") => refill[w] = <<>>

\* The strengthening of CachesRefilled.
RInv == \A w \in Workers : RefillTracked(w)

USE NCacheAssumption

-----------------------------------------------------------------------------
(* Lemmas about the refill list.                                           *)

\* Appending a tier adds exactly that tier (CacheMiss, 629 and 637).
LEMMA MissedAppend ==
    ASSUME NEW S, NEW s \in Seq(S), NEW x \in S
    PROVE  {Append(s, x)[i] : i \in 1 .. Len(Append(s, x))}
               = {s[i] : i \in 1 .. Len(s)} \cup {x}
<1>1. Len(Append(s, x)) = Len(s) + 1
      /\ \A i \in 1 .. Len(s) : Append(s, x)[i] = s[i]
      /\ Append(s, x)[Len(s) + 1] = x
    BY AppendProperties
<1>. QED
    BY <1>1

\* Taking the head off removes at most that tier (the refill loop, 676).
LEMMA MissedTail ==
    ASSUME NEW S, NEW s \in Seq(S), s # <<>>
    PROVE  {s[i] : i \in 1 .. Len(s)}
               \subseteq {Head(s)} \cup {Tail(s)[i] : i \in 1 .. Len(Tail(s))}
<1>1. Len(s) \in Nat /\ Len(s) >= 1
    BY EmptySeq, LenProperties
<1>2. Len(Tail(s)) = Len(s) - 1
      /\ \A i \in 1 .. Len(Tail(s)) : Tail(s)[i] = s[i + 1]
      /\ Head(s) = s[1]
    BY HeadTailProperties
<1>. QED
    <2>. SUFFICES ASSUME NEW i \in 1 .. Len(s)
                  PROVE  s[i] \in {Head(s)} \cup {Tail(s)[j] : j \in 1 .. Len(Tail(s))}
        OBVIOUS
    <2>1. CASE i = 1
        BY <2>1, <1>2
    <2>2. CASE i # 1
        <3>1. i - 1 \in 1 .. Len(Tail(s)) /\ Tail(s)[i - 1] = s[i]
            BY <2>2, <1>1, <1>2
        <3>. QED
            BY <3>1
    <2>. QED
        BY <2>1, <2>2

-----------------------------------------------------------------------------
(* The invariant.                                                          *)

LEMMA InitRInv == Init => RInv
<1>. SUFFICES ASSUME Init, NEW w \in Workers PROVE RefillTracked(w)
    BY DEF RInv
<1>1. pc[w] = "lock" /\ refill[w] = <<>>
    BY DEF Init
<1>. QED
    BY <1>1 DEF RefillTracked

\* A step that leaves worker v's variables alone and only ever sets cache
\* entries to "ok" keeps v's refill list tracked.
LEMMA FrameRT ==
    ASSUME TypeOK, NEW v \in Workers, RefillTracked(v),
           pc'[v] = pc[v], stg'[v] = stg[v], ci'[v] = ci[v],
           refill'[v] = refill[v], result'[v] = result[v],
           refillFailed'[v] = refillFailed[v],
           \A c \in Caches : cache[c][stg[v]] = "ok" => cache'[c][stg[v]] = "ok"
    PROVE  RefillTracked(v)'
<1>1. 1 .. (ci[v] - 1) \subseteq Caches
    BY DEF TypeOK, Caches
<1>. QED
    BY <1>1 DEF RefillTracked, Missed

\* A missed cache tier goes onto the refill list, and the loop moves on.
LEMMA CacheMissRT ==
    ASSUME TypeOK, NEW w \in Workers, ci[w] \in Caches,
           pc[w] \in {"cache", "prepare"}, RefillTracked(w), CacheMiss(w)
    PROVE  RefillTracked(w)'
<1>1. Missed(w) = 1 .. (ci[w] - 1)
    BY DEF RefillTracked
<1>2. refill'[w] = Append(refill[w], ci[w]) /\ ci'[w] = ci[w] + 1
      /\ pc'[w] \in {"cache", "describe"}
    BY DEF CacheMiss, TypeOK, LoopAt
<1>3. Missed(w)' = Missed(w) \cup {ci[w]}
    BY <1>2, MissedAppend DEF Missed, TypeOK
<1>4. Missed(w)' = 1 .. (ci'[w] - 1)
    BY <1>1, <1>3, <1>2 DEF Caches
<1>. QED
    BY <1>2, <1>4 DEF RefillTracked

\* Every step keeps the refill list of every worker tracked.
LEMMA StepRInv ==
    ASSUME IInv, IInv', RInv, [Next]_vars
    PROVE  RInv'
<1>. SUFFICES ASSUME NEW v \in Workers PROVE RefillTracked(v)'
    BY DEF RInv
<1>0. TypeOK /\ TypeOK' /\ RefillTracked(v) /\ CiInRange
    BY DEF IInv, RInv
<1>. DEFINE Kept(w) == cache' = cache /\ refillFailed' = refillFailed
                       /\ stg' = stg
<1>1. ASSUME NEW w \in Workers, LockStageImage(w)
      PROVE  RefillTracked(v)'
    <2>1. Kept(w) /\ UNCHANGED <<ci, refill>>
        BY <1>1 DEF LockStageImage
    <2>2. CASE v # w
        BY <1>0, <1>1, <2>1, <2>2, FrameRT DEF LockStageImage, Return, TypeOK
    <2>3. CASE v = w
        BY <1>0, <1>1, <2>1, <2>3 DEF LockStageImage, Return, RefillTracked,
           CiInRange, TypeOK
    <2>. QED
        BY <2>2, <2>3
<1>2. ASSUME NEW w \in Workers, ProbePrimary(w)
      PROVE  RefillTracked(v)'
    <2>1. Kept(w) /\ UNCHANGED <<ci, refill>>
        BY <1>2 DEF ProbePrimary, storeVars
    <2>2. CASE v # w
        BY <1>0, <1>2, <2>1, <2>2, FrameRT DEF ProbePrimary, Return, TypeOK
    <2>3. CASE v = w
        <3>1. ci[w] = 1 /\ refill[w] = <<>>
            BY <1>0, <1>2, <2>3 DEF ProbePrimary, CiInRange, RefillTracked
        <3>2. Missed(w) = {} /\ 1 .. (ci[w] - 1) = {}
            BY <3>1 DEF Missed
        <3>. QED
            BY <1>0, <1>2, <2>1, <2>3, <3>1, <3>2 DEF ProbePrimary, Return,
               RefillTracked, TypeOK, LoopAt, Missed
    <2>. QED
        BY <2>2, <2>3
<1>3. ASSUME NEW w \in Workers, FetchFromCache(w)
      PROVE  RefillTracked(v)'
    <2>1. cache' = cache /\ refillFailed' = refillFailed /\ stg' = stg
          /\ result' = result
        BY <1>3 DEF FetchFromCache
    <2>2. \/ CacheMiss(w)
          \/ pc' = [pc EXCEPT ![w] = "prepare"] /\ UNCHANGED <<refill, ci>>
        BY <1>3 DEF FetchFromCache
    <2>3. CASE v # w
        BY <1>0, <1>3, <2>1, <2>2, <2>3, FrameRT DEF CacheMiss, TypeOK
    <2>4. CASE v = w /\ CacheMiss(w)
        <3>1. ci[w] \in Caches /\ pc[w] = "cache"
            BY <1>0, <1>3 DEF FetchFromCache, CiInRange
        <3>. QED
            BY <1>0, <2>1, <2>4, <3>1, CacheMissRT
    <2>5. CASE v = w /\ ~CacheMiss(w)
        BY <1>0, <1>3, <2>1, <2>2, <2>5 DEF FetchFromCache, RefillTracked,
           Missed, TypeOK
    <2>. QED
        BY <2>3, <2>4, <2>5
<1>4. ASSUME NEW w \in Workers, PrepareAsPrimary(w)
      PROVE  RefillTracked(v)'
    <2>1. cache' = cache /\ refillFailed' = refillFailed /\ stg' = stg
          /\ result' = result
        BY <1>4 DEF PrepareAsPrimary
    <2>2. CASE pc' = [u \in Workers |-> IF pc[u] = "done" THEN "done" ELSE "crashed"]
               /\ UNCHANGED <<refill, ci>>
        BY <1>0, <2>1, <2>2 DEF RefillTracked, Missed, TypeOK
    <2>3. CASE ~(pc' = [u \in Workers |-> IF pc[u] = "done" THEN "done" ELSE "crashed"]
                 /\ UNCHANGED <<refill, ci>>)
        <3>1. \/ CacheMiss(w)
              \/ pc' = [pc EXCEPT ![w] = "refill"] /\ UNCHANGED <<refill, ci>>
            BY <1>4, <2>3 DEF PrepareAsPrimary
        <3>2. CASE v # w
            BY <1>0, <1>4, <2>1, <3>1, <3>2, FrameRT DEF CacheMiss, TypeOK
        <3>3. CASE v = w /\ CacheMiss(w)
            <4>1. ci[w] \in Caches /\ pc[w] = "prepare"
                BY <1>0, <1>4 DEF PrepareAsPrimary, CiInRange
            <4>. QED
                BY <1>0, <2>1, <3>3, <4>1, CacheMissRT
        <3>4. CASE v = w /\ ~CacheMiss(w)
            <4>1. pc'[w] = "refill" /\ refill' = refill /\ ci' = ci
                BY <1>0, <3>1, <3>4 DEF TypeOK
            <4>2. Missed(w) = 1 .. (ci[w] - 1) /\ Missed(w)' = Missed(w)
                BY <1>0, <1>4, <3>4, <4>1 DEF PrepareAsPrimary, RefillTracked,
                   Missed
            <4>. QED
                BY <2>1, <3>4, <4>1, <4>2 DEF RefillTracked
        <3>. QED
            BY <3>2, <3>3, <3>4
    <2>. QED
        BY <2>2, <2>3
<1>5. ASSUME NEW w \in Workers, DescribePrimary(w) \/ PullPrimary(w)
      PROVE  RefillTracked(v)'
    <2>1. Kept(w) /\ UNCHANGED <<ci, refill>>
        BY <1>5 DEF DescribePrimary, PullPrimary, storeVars
    <2>2. CASE v # w
        BY <1>0, <1>5, <2>1, <2>2, FrameRT DEF DescribePrimary, PullPrimary,
           Return, TypeOK
    <2>3. CASE v = w
        <3>1. Missed(w) = 1 .. (ci[w] - 1) /\ Missed(w)' = Missed(w)
            BY <1>0, <1>5, <2>1, <2>3 DEF DescribePrimary, PullPrimary,
               RefillTracked, Missed
        <3>2. CASE DescribePrimary(w)
            <4>1. \/ pc'[w] = "done" /\ result'[w] \in {"error", "reset"}
                  \/ pc'[w] = "pull" /\ result' = result
                BY <1>0, <3>2 DEF DescribePrimary, Return, TypeOK
            <4>. QED
                BY <2>1, <2>3, <3>1, <4>1 DEF RefillTracked
        <3>3. CASE PullPrimary(w)
            <4>1. \/ pc'[w] = "done" /\ result'[w] = "error"
                  \/ pc'[w] = "refill" /\ result' = result
                BY <1>0, <3>3 DEF PullPrimary, Return, TypeOK
            <4>. QED
                BY <2>1, <2>3, <3>1, <4>1 DEF RefillTracked
        <3>. QED
            BY <1>5, <3>2, <3>3
    <2>. QED
        BY <2>2, <2>3
<1>6. ASSUME NEW w \in Workers, Refill(w)
      PROVE  RefillTracked(v)'
    <2>. DEFINE c0 == Head(refill[w])
    <2>1. refill[w] # <<>> /\ refill[w] \in Seq(Caches) /\ c0 \in Caches
          /\ stg[w] \in Stages
        BY <1>0, <1>6, HeadTailProperties DEF Refill, TypeOK
    <2>2. \/ cache' = cache
          \/ cache' = [cache EXCEPT ![c0][stg[w]] = "ok"]
        BY <1>6 DEF Refill
    <2>3. \A u \in Workers : \A c \in Caches :
              cache[c][stg[u]] = "ok" => cache'[c][stg[u]] = "ok"
        <3>1. CASE cache' = cache
            BY <3>1
        <3>2. CASE cache' = [cache EXCEPT ![c0][stg[w]] = "ok"]
            <4>. SUFFICES ASSUME NEW u \in Workers, NEW c \in Caches,
                                 cache[c][stg[u]] = "ok"
                          PROVE  cache'[c][stg[u]] = "ok"
                OBVIOUS
            <4>1. stg[u] \in Stages /\ cache \in [Caches -> [Stages -> CacheStatus]]
                BY <1>0 DEF TypeOK
            <4>. QED
                BY <2>1, <3>2, <4>1
        <3>. QED
            BY <2>2, <3>1, <3>2
    <2>4. CASE v # w
        BY <1>0, <1>6, <2>3, <2>4, FrameRT DEF Refill, TypeOK
    <2>5. CASE v = w
        <3>1. refillFailed'[w] \/ cache'[c0][stg[w]] = "ok"
            BY <1>0, <1>6, <2>1 DEF Refill, TypeOK
        <3>2. refillFailed[w] => refillFailed'[w]
            BY <1>0, <1>6 DEF Refill, TypeOK
        <3>3. Missed(w) \subseteq {c0} \cup Missed(w)'
            <4>1. refill'[w] = Tail(refill[w])
                BY <1>0, <1>6 DEF Refill, TypeOK
            <4>2. {refill[w][i] : i \in 1 .. Len(refill[w])}
                    \subseteq {c0} \cup {Tail(refill[w])[i] : i \in 1 .. Len(Tail(refill[w]))}
                BY <2>1, MissedTail
            <4>. QED
                BY <4>1, <4>2 DEF Missed
        <3>4. pc'[w] = "refill" /\ pc[w] = "refill" /\ ci'[w] = ci[w]
              /\ stg'[w] = stg[w]
            BY <1>6 DEF Refill
        <3>5. 1 .. (ci[w] - 1) \subseteq Caches
            BY <1>0 DEF TypeOK, Caches
        <3>. QED
            BY <1>0, <2>3, <2>5, <3>1, <3>2, <3>3, <3>4, <3>5 DEF RefillTracked
    <2>. QED
        BY <2>4, <2>5
<1>7. ASSUME NEW w \in Workers, FinishFetch(w)
      PROVE  RefillTracked(v)'
    <2>1. Kept(w) /\ UNCHANGED <<ci, refill>>
        BY <1>7 DEF FinishFetch, storeVars
    <2>2. CASE v # w
        BY <1>0, <1>7, <2>1, <2>2, FrameRT DEF FinishFetch, Return, TypeOK
    <2>3. CASE v = w
        <3>1. pc'[w] = "done" /\ result'[w] = "ok"
            BY <1>0, <1>7 DEF FinishFetch, Return, TypeOK
        <3>2. pc[w] = "refill" /\ refill[w] = <<>>
            BY <1>7 DEF FinishFetch
        <3>3. Missed(w)' = Missed(w)
            BY <2>1 DEF Missed
        <3>4. \A c \in 1 .. ci[w] - 1 :
                  c \in Missed(w) \/ cache[c][stg[w]] = "ok" \/ refillFailed[w]
            BY <1>0, <3>2 DEF RInv, RefillTracked
        <3>. QED
            BY <2>1, <2>3, <3>1, <3>2, <3>3, <3>4 DEF RefillTracked, Kept
    <2>. QED
        BY <2>2, <2>3
<1>8. ASSUME NEW n \in Names, HostCleanup(n)
      PROVE  RefillTracked(v)'
    BY <1>0, <1>8, FrameRT DEF HostCleanup, workerVars
<1>9. CASE UNCHANGED vars
    BY <1>0, <1>9, FrameRT DEF vars, storeVars, workerVars
<1>. QED
    BY <1>1, <1>2, <1>3, <1>4, <1>5, <1>6, <1>7, <1>8, <1>9 DEF Next, Worker

-----------------------------------------------------------------------------
(* Theorems.                                                               *)

\* The strengthening holds in every reachable state.
THEOREM RInvariant == Spec => []RInv
<1>1. Spec => []IInv
    BY IInvariant
<1>2. IInv /\ IInv' /\ RInv /\ [Next]_vars => RInv'
    BY StepRInv
<1>. QED
    BY <1>1, <1>2, InitRInv, PTL DEF Spec

\* A FetchStage that returned success without a refill warning has written
\* the stage back to every cache tier that missed it before the tier (or
\* the primary) that served it (spec 4.2 step 5; loop at 620, refill at
\* 676-689), for every number of workers, stages and cache tiers.
THEOREM CachesRefilledThm == Spec => []CachesRefilled
<1>1. RInv => CachesRefilled
    BY DEF RInv, RefillTracked, Missed, CachesRefilled
<1>. QED
    BY <1>1, RInvariant, PTL

=============================================================================
