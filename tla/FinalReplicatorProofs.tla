------------------------ MODULE FinalReplicatorProofs ------------------------
(***************************************************************************)
(* Proofs about the final-tier replicator: the final stages list never    *)
(* holds a stage ID twice (ListHasNoDuplicates) and names every stage a   *)
(* CopyStageIntoFinalRepo copied successfully (ReplicatedStageListed),    *)
(* for every set of workers and every finite set of stages.               *)
(***************************************************************************)
EXTENDS FinalReplicator, FiniteSetTheorems, SequenceTheorems, TLAPS

\* The steps of CopyStageIntoFinalRepo after getOrCreateFinalStagesListCache
\* returned the list.
HasList == {"check", "fetch", "copy", "add"}

\* The inductive invariant: the list is a sequence, empty until it is
\* created, and created before any worker uses it.
IInv ==
    /\ list \in Seq(Stages)
    /\ TypeOK
    /\ ~created => list = <<>>
    /\ \A w \in Workers : pc[w] \in HasList => created
    /\ ListHasNoDuplicates
    /\ ReplicatedStageListed

USE StagesAssumption

-----------------------------------------------------------------------------
(* Lemmas about the operators the model is built from.                     *)

\* A sequence satisfies the form of TypeOK's list conjuncts.
LEMMA SeqDomainForm ==
    ASSUME NEW S, NEW s \in Seq(S)
    PROVE  /\ DOMAIN s = 1 .. Cardinality(DOMAIN s)
           /\ \A i \in DOMAIN s : s[i] \in S
<1>1. DOMAIN s = 1 .. Len(s)
    OBVIOUS
<1>2. \A a, b \in Int : Cardinality(a .. b) = IF a > b THEN 0 ELSE b - a + 1
    BY FS_Interval
<1>3. Len(s) \in Nat /\ Len(s) \in Int /\ 1 \in Int
    BY LenProperties
<1>4. Cardinality(1 .. Len(s)) = IF 1 > Len(s) THEN 0 ELSE Len(s) - 1 + 1
    BY <1>2, <1>3, Zenon
<1>5. Cardinality(1 .. Len(s)) = Len(s)
    BY <1>3, <1>4
<1>. QED
    BY <1>1, <1>5

\* Every ordering GetStagesIDs may return is a sequence of stage IDs
\* without repetition.
LEMMA EnumerationProperties ==
    ASSUME NEW S \in SUBSET Stages, NEW f \in Enumerations(S)
    PROVE  /\ f \in Seq(Stages)
           /\ \A i, j \in 1 .. Len(f) : f[i] = f[j] => i = j
<1>1. Cardinality(S) \in Nat
    BY FS_Subset, FS_CardinalityType
<1>2. f \in [1 .. Cardinality(S) -> S]
    BY DEF Enumerations
<1>3. f \in Seq(Stages) /\ Len(f) = Cardinality(S)
    BY <1>1, <1>2
<1>. QED
    BY <1>3 DEF Enumerations

\* AddStageID keeps a list without repetition and adds the stage to it.
LEMMA AddStageIDProperties ==
    ASSUME NEW l \in Seq(Stages), NEW s \in Stages,
           \A i, j \in 1 .. Len(l) : l[i] = l[j] => i = j
    PROVE  LET l2 == IF s \in Elems(l) THEN l ELSE Append(l, s)
           IN  /\ l2 \in Seq(Stages)
               /\ \A i, j \in 1 .. Len(l2) : l2[i] = l2[j] => i = j
               /\ Elems(l) \cup {s} \subseteq Elems(l2)
<1>1. CASE s \in Elems(l)
    BY <1>1 DEF Elems
<1>2. CASE s \notin Elems(l)
    <2>1. Append(l, s) \in Seq(Stages) /\ Len(Append(l, s)) = Len(l) + 1
        BY AppendProperties
    <2>2. \A i \in 1 .. Len(l) : Append(l, s)[i] = l[i]
        BY AppendProperties
    <2>3. Append(l, s)[Len(l) + 1] = s
        BY AppendProperties
    <2>4. \A i \in 1 .. Len(l) : l[i] # s
        BY <1>2 DEF Elems
    <2>. QED
        BY <1>2, <2>1, <2>2, <2>3, <2>4 DEF Elems
<1>. QED
    BY <1>1, <1>2

\* An ordering GetStagesIDs returns names every stage of the storage: an
\* injection from 1 .. Cardinality(S) into S is onto.
LEMMA EnumerationCovers ==
    ASSUME NEW S \in SUBSET Stages, NEW f \in Enumerations(S)
    PROVE  Elems(f) = S
<1>1. IsFiniteSet(S) /\ Cardinality(S) \in Nat
    BY FS_Subset, FS_CardinalityType
<1>. DEFINE n == Cardinality(S)
<1>2. f \in Injection(1 .. n, S)
    BY <1>1 DEF Enumerations, Injection, IsInjective
<1>3. Cardinality(1 .. n) = n
    <2>1. \A a, b \in Int : Cardinality(a .. b) = IF a > b THEN 0 ELSE b - a + 1
        BY FS_Interval
    <2>2. n \in Int /\ 1 \in Int
        BY <1>1
    <2>3. Cardinality(1 .. n) = IF 1 > n THEN 0 ELSE n - 1 + 1
        BY <2>1, <2>2, Zenon
    <2>. QED
        BY <2>3, <1>1
<1>4. f \in Surjection(1 .. n, S)
    BY <1>1, <1>2, <1>3, FS_Injection
<1>5. Len(f) = n
    BY <1>1, EnumerationProperties DEF Enumerations
<1>. QED
    BY <1>4, <1>5 DEF Surjection, Elems, Enumerations

\* AddStageID adds exactly the stage to the elements of the list.
LEMMA ElemsAddStageID ==
    ASSUME NEW l \in Seq(Stages), NEW s \in Stages
    PROVE  Elems(IF s \in Elems(l) THEN l ELSE Append(l, s)) = Elems(l) \cup {s}
<1>1. CASE s \in Elems(l)
    BY <1>1
<1>2. CASE s \notin Elems(l)
    <2>1. Len(Append(l, s)) = Len(l) + 1
          /\ \A i \in 1 .. Len(l) : Append(l, s)[i] = l[i]
          /\ Append(l, s)[Len(l) + 1] = s
        BY AppendProperties
    <2>. QED
        BY <1>2, <2>1 DEF Elems
<1>. QED
    BY <1>1, <1>2

-----------------------------------------------------------------------------
(* The invariant.                                                          *)

LEMMA InitIInv == Init => IInv
<1>. SUFFICES ASSUME Init PROVE IInv
    OBVIOUS
<1>1. list \in Seq(Stages) /\ list = <<>>
    BY DEF Init
<1>2. /\ DOMAIN list = 1 .. Cardinality(DOMAIN list)
      /\ \A i \in DOMAIN list : list[i] \in Stages
    BY <1>1, SeqDomainForm
<1>3. TypeOK
    BY <1>2 DEF Init, TypeOK, PCs, Results
<1>. QED
    BY <1>1, <1>3 DEF Init, IInv, HasList, ListHasNoDuplicates,
                     ReplicatedStageListed, Elems

LEMMA StepIInv == IInv /\ [Next]_vars => IInv'
<1>. SUFFICES ASSUME IInv, [Next]_vars PROVE IInv'
    OBVIOUS
<1>. DEFINE ListPart == /\ list \in Seq(Stages)
                        /\ ~created => list = <<>>
                        /\ ListHasNoDuplicates
                        /\ ReplicatedStageListed
<1>0. ASSUME ListPart', TypeOK!1', TypeOK!2', TypeOK!5', TypeOK!6',
             TypeOK!7', TypeOK!8',
             \A w \in Workers : pc'[w] \in HasList => created'
      PROVE  IInv'
    <2>1. TypeOK!3' /\ TypeOK!4'
        BY <1>0, SeqDomainForm
    <2>. QED
        BY <1>0, <2>1 DEF IInv, TypeOK
<1>1. ASSUME NEW w \in Workers, GetOrCreateFinalStagesListCache(w)
      PROVE  IInv'
    <2>1. CASE created /\ pc' = [pc EXCEPT ![w] = "check"]
               /\ UNCHANGED <<created, list, result>>
        BY <1>1, <2>1, <1>0 DEF IInv, TypeOK, GetOrCreateFinalStagesListCache,
           ListHasNoDuplicates, ReplicatedStageListed, HasList, PCs
    <2>2. CASE ~created /\ created' = TRUE /\ list' \in Enumerations(final)
               /\ pc' = [pc EXCEPT ![w] = "check"] /\ UNCHANGED result
        <3>1. list' \in Seq(Stages) /\ ListHasNoDuplicates'
            BY <2>2, EnumerationProperties DEF IInv, TypeOK, ListHasNoDuplicates
        <3>2. \A v \in Workers : ~(pc[v] = "done" /\ result[v] = "ok")
            BY <2>2 DEF IInv, ReplicatedStageListed, Elems
        <3>3. ReplicatedStageListed'
            BY <1>1, <2>2, <3>2 DEF IInv, TypeOK, ReplicatedStageListed
        <3>. QED
            BY <1>0, <1>1, <2>2, <3>1, <3>3 DEF IInv, TypeOK,
               GetOrCreateFinalStagesListCache, PCs
    <2>3. CASE ~created /\ Return(w, "error") /\ UNCHANGED <<created, list>>
        BY <1>1, <2>3, <1>0 DEF IInv, TypeOK, GetOrCreateFinalStagesListCache,
           Return, ListHasNoDuplicates, ReplicatedStageListed, HasList, PCs,
           Results
    <2>. QED
        BY <1>1, <2>1, <2>2, <2>3 DEF GetOrCreateFinalStagesListCache
<1>2. ASSUME NEW w \in Workers, CheckFinalList(w)
      PROVE  IInv'
    BY <1>2, <1>0 DEF IInv, TypeOK, CheckFinalList, Return,
       ListHasNoDuplicates, ReplicatedStageListed, HasList, PCs, Results
<1>3. ASSUME NEW w \in Workers, FetchStage(w)
      PROVE  IInv'
    BY <1>3, <1>0 DEF IInv, TypeOK, FetchStage, Return,
       ListHasNoDuplicates, ReplicatedStageListed, HasList, PCs, Results
<1>4. ASSUME NEW w \in Workers, CopyIntoFinal(w)
      PROVE  IInv'
    BY <1>4, <1>0 DEF IInv, TypeOK, CopyIntoFinal, Return,
       ListHasNoDuplicates, ReplicatedStageListed, HasList, PCs, Results
<1>5. ASSUME NEW w \in Workers, AddStageID(w)
      PROVE  IInv'
    <2>. DEFINE l2 == IF stg[w] \in Elems(list) THEN list
                      ELSE Append(list, stg[w])
    <2>1. list' = l2 /\ created
        BY <1>5 DEF AddStageID, IInv, HasList
    <2>2. /\ l2 \in Seq(Stages)
          /\ \A i, j \in 1 .. Len(l2) : l2[i] = l2[j] => i = j
          /\ Elems(list) \cup {stg[w]} \subseteq Elems(l2)
        BY AddStageIDProperties DEF IInv, TypeOK, ListHasNoDuplicates
    <2>3. ReplicatedStageListed'
        BY <1>5, <2>1, <2>2 DEF AddStageID, Return, IInv, TypeOK,
           ReplicatedStageListed
    <2>. QED
        BY <1>5, <1>0, <2>1, <2>2, <2>3 DEF IInv, TypeOK, AddStageID, Return,
           ListHasNoDuplicates, HasList, PCs, Results
<1>6. ASSUME NEW s \in Stages, DeleteFinalStage(s)
      PROVE  IInv'
    BY <1>6, <1>0 DEF IInv, TypeOK, DeleteFinalStage,
       ListHasNoDuplicates, ReplicatedStageListed, HasList
<1>7. CASE UNCHANGED vars
    BY <1>7, <1>0 DEF IInv, TypeOK, vars, ListHasNoDuplicates,
       ReplicatedStageListed, HasList, Elems
<1>. QED
    BY <1>1, <1>2, <1>3, <1>4, <1>5, <1>6, <1>7 DEF Next, Worker

-----------------------------------------------------------------------------
(* Refinement of the abstract cache.                                       *)

LEMMA InitRefines == Init => Cache!Init
BY DEF Init, Cache!Init, Elems

LEMMA StepRefines ==
    IInv /\ [Next]_vars => [Cache!Next]_Cache!cacheVars
<1>. SUFFICES ASSUME IInv, [Next]_vars PROVE [Cache!Next]_Cache!cacheVars
    OBVIOUS
<1>. DEFINE Stutter == UNCHANGED <<final, created, list>>
<1>0. Stutter => [Cache!Next]_Cache!cacheVars
    BY DEF Cache!cacheVars
<1>1. ASSUME NEW w \in Workers, GetOrCreateFinalStagesListCache(w)
      PROVE  [Cache!Next]_Cache!cacheVars
    <2>1. CASE ~created /\ created' = TRUE /\ list' \in Enumerations(final)
        <3>1. Elems(list') = final
            BY <2>1, EnumerationCovers DEF IInv, TypeOK
        <3>2. Cache!Load
            BY <1>1, <2>1, <3>1 DEF GetOrCreateFinalStagesListCache, Cache!Load
        <3>. QED
            BY <3>2 DEF Cache!Next
    <2>2. CASE ~(~created /\ created' = TRUE /\ list' \in Enumerations(final))
        BY <1>0, <1>1, <2>2 DEF GetOrCreateFinalStagesListCache, Return
    <2>. QED
        BY <2>1, <2>2
<1>2. ASSUME NEW w \in Workers, CheckFinalList(w) \/ FetchStage(w)
      PROVE  [Cache!Next]_Cache!cacheVars
    BY <1>0, <1>2 DEF CheckFinalList, FetchStage
<1>3. ASSUME NEW w \in Workers, CopyIntoFinal(w)
      PROVE  [Cache!Next]_Cache!cacheVars
    <2>1. CASE final' = final \cup {stg[w]}
        <3>1. Cache!Store(stg[w])
            BY <1>3, <2>1 DEF CopyIntoFinal, Cache!Store
        <3>2. stg[w] \in Stages
            BY DEF IInv, TypeOK
        <3>. QED
            BY <3>1, <3>2 DEF Cache!Next
    <2>2. CASE final' # final \cup {stg[w]}
        BY <1>0, <1>3, <2>2 DEF CopyIntoFinal
    <2>. QED
        BY <2>1, <2>2
<1>4. ASSUME NEW w \in Workers, AddStageID(w)
      PROVE  [Cache!Next]_Cache!cacheVars
    <2>1. created /\ stg[w] \in Stages /\ list \in Seq(Stages)
        BY <1>4 DEF AddStageID, IInv, TypeOK, HasList
    <2>2. Elems(list') = Elems(list) \cup {stg[w]}
        BY <1>4, <2>1, ElemsAddStageID DEF AddStageID
    <2>3. Cache!Record(stg[w])
        BY <1>4, <2>1, <2>2 DEF AddStageID, Cache!Record
    <2>. QED
        BY <2>1, <2>3 DEF Cache!Next
<1>5. ASSUME NEW s \in Stages, DeleteFinalStage(s)
      PROVE  [Cache!Next]_Cache!cacheVars
    <2>1. CASE final' = final \ {s}
        BY <1>5, <2>1 DEF DeleteFinalStage, Cache!Remove, Cache!Next
    <2>2. CASE final' = final
        BY <1>0, <1>5, <2>2 DEF DeleteFinalStage
    <2>. QED
        BY <1>5, <2>1, <2>2 DEF DeleteFinalStage
<1>6. CASE UNCHANGED vars
    BY <1>0, <1>6 DEF vars
<1>. QED
    BY <1>1, <1>2, <1>3, <1>4, <1>5, <1>6 DEF Next, Worker

-----------------------------------------------------------------------------
(* Theorems.                                                               *)

\* The inductive invariant holds in every reachable state.
THEOREM IInvariant == Spec => []IInv
BY InitIInv, StepIInv, PTL DEF Spec

\* Two workers that replicate the same stage concurrently both append it
\* (AddStageID, 242-253), yet the final stages list never names a stage
\* twice.
THEOREM NoDuplicatesThm == Spec => []ListHasNoDuplicates
BY IInvariant, PTL DEF IInv

\* Every CopyStageIntoFinalRepo that copied its stage and returned success
\* leaves the stage in the process's final stages list: the list is created
\* once under FinalStagesListCacheMux and only ever grows.
THEOREM ReplicatedStageListedThm == Spec => []ReplicatedStageListed
BY IInvariant, PTL DEF IInv

\* The replicator is type-correct for every instance.
THEOREM TypeCorrect == Spec => []TypeOK
BY IInvariant, PTL DEF IInv

\* Every behaviour of the workers and the cleanup is a behaviour of the
\* abstract FinalStagesListCache: the list is loaded once from the final
\* storage (714-729) and then only grows by AddStageID (776).
THEOREM RefinesCache == Spec => ImplementsFinalStagesListCache
<1>1. Spec => [][IInv /\ [Next]_vars]_vars
    BY IInvariant, PTL DEF Spec
<1>2. [IInv /\ [Next]_vars]_vars => [Cache!Next]_Cache!cacheVars
    BY StepRefines DEF vars, Cache!cacheVars
<1>3. [][IInv /\ [Next]_vars]_vars => [][Cache!Next]_Cache!cacheVars
    BY <1>2, PTL
<1>. QED
    BY <1>1, <1>3, InitRefines, PTL DEF Spec, ImplementsFinalStagesListCache,
       Cache!Spec

=============================================================================
