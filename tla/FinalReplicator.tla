--------------------------- MODULE FinalReplicator ---------------------------
(***************************************************************************)
(* The final-tier replicator of the werf StorageManager: workers calling  *)
(* CopyStageIntoFinalRepo, which consults the lazily created              *)
(* FinalStagesListCache (getOrCreateFinalStagesListCache, under           *)
(* FinalStagesListCacheMux), fetches the stage (FetchStage, abstracted to *)
(* success or an error), copies it into the final stages storage and      *)
(* appends its ID to the list (StagesList.AddStageID); and a cleanup      *)
(* calling ForEachDeleteFinalStage, whose tasks delete stages from the    *)
(* final stages storage.                                                   *)
(***************************************************************************)
EXTENDS Naturals, Sequences, FiniteSets

CONSTANTS
    Workers,   \* concurrent callers of CopyStageIntoFinalRepo
    Stages     \* stage IDs as model values

\* GetStagesIDs lists finitely many stages.
ASSUME StagesAssumption == IsFiniteSet(Stages)

PCs == {"getList", "check", "fetch", "copy", "add", "done"}
Results == {"none", "ok", "skipped", "error"}

VARIABLES
    final,     \* stage IDs whose image is in the final stages storage
    created,   \* m.FinalStagesListCache # nil
    list,      \* m.FinalStagesListCache.StageIDs
    pc,        \* where each worker's call is
    stg,       \* the stage each worker replicates
    result,    \* what its call returned
    dleft      \* stages whose ForEachDeleteFinalStage task has not run

vars == <<final, created, list, pc, stg, result, dleft>>

\* The elements of a sequence.
Elems(s) == {s[i] : i \in 1 .. Len(s)}

\* The orderings of a finite set without repetition: what GetStagesIDs of
\* the final stages storage may return.
Enumerations(S) ==
    {f \in [1 .. Cardinality(S) -> S] :
        \A i, j \in 1 .. Cardinality(S) : f[i] = f[j] => i = j}

TypeOK ==
    /\ final \subseteq Stages
    /\ created \in BOOLEAN
    \* a sequence of stage IDs: indexed by 1 .. n
    /\ DOMAIN list = 1 .. Cardinality(DOMAIN list)
    /\ \A i \in DOMAIN list : list[i] \in Stages
    /\ pc \in [Workers -> PCs]
    /\ stg \in [Workers -> Stages]
    /\ result \in [Workers -> Results]
    /\ dleft \subseteq Stages

Init ==
    /\ final \in SUBSET Stages
    /\ created = FALSE
    /\ list = <<>>
    /\ pc = [w \in Workers |-> "getList"]
    /\ stg \in [Workers -> Stages]
    /\ result = [w \in Workers |-> "none"]
    /\ dleft \in SUBSET Stages

\* CopyStageIntoFinalRepo returns r.
Return(w, r) ==
    /\ pc' = [pc EXCEPT ![w] = "done"]
    /\ result' = [result EXCEPT ![w] = r]

-----------------------------------------------------------------------------
(* The steps of CopyStageIntoFinalRepo (731-781).                          *)

\* Mutant: the list is read from the final storage again on every call.
GetOrCreateFinalStagesListCacheNoCache(w) ==
    /\ pc[w] = "getList"
    /\ \/ /\ created' = TRUE
          /\ list' \in Enumerations(final)
          /\ pc' = [pc EXCEPT ![w] = "check"]
          /\ UNCHANGED result
       \/ /\ ~created
          /\ Return(w, "error")
          /\ UNCHANGED <<created, list>>
    /\ UNCHANGED <<final, stg, dleft>>

\* getOrCreateFinalStagesListCache (714-729), called at 732: under the
\* mutex, the existing list, or a new one from the final storage's
\* GetStagesIDs; an error of GetStagesIDs leaves the cache nil.
GetOrCreateFinalStagesListCache(w) ==
    /\ pc[w] = "getList"
    /\ \/ /\ created
          /\ pc' = [pc EXCEPT ![w] = "check"]
          /\ UNCHANGED <<created, list, result>>
       \/ /\ ~created
          /\ created' = TRUE
          /\ list' \in Enumerations(final)
          /\ pc' = [pc EXCEPT ![w] = "check"]
          /\ UNCHANGED result
       \/ /\ ~created
          /\ Return(w, "error")
          /\ UNCHANGED <<created, list>>
    /\ UNCHANGED <<final, stg, dleft>>

\* The loop over GetStageIDs (742-751): a stage already in the list is not
\* copied again.
CheckFinalList(w) ==
    /\ pc[w] = "check"
    /\ \/ /\ stg[w] \in Elems(list)
          /\ Return(w, "skipped")
       \/ /\ stg[w] \notin Elems(list)
          /\ pc' = [pc EXCEPT ![w] = "fetch"]
          /\ UNCHANGED result
    /\ UNCHANGED <<final, created, list, stg, dleft>>

\* FetchStage (753-755).
FetchStage(w) ==
    /\ pc[w] = "fetch"
    /\ \/ Return(w, "error")
       \/ /\ pc' = [pc EXCEPT ![w] = "copy"]
          /\ UNCHANGED result
    /\ UNCHANGED <<final, created, list, stg, dleft>>

\* copyStageIntoStagesStorage into the final storage (757-774, 502-522):
\* the rename or the store may fail before the image is stored, and the
\* manifest cache or LRU update may fail after it.
CopyIntoFinal(w) ==
    /\ pc[w] = "copy"
    /\ \/ /\ Return(w, "error")
          /\ UNCHANGED final
       \/ /\ final' = final \cup {stg[w]}
          /\ Return(w, "error")
       \/ /\ final' = final \cup {stg[w]}
          /\ pc' = [pc EXCEPT ![w] = "add"]
          /\ UNCHANGED result
    /\ UNCHANGED <<created, list, stg, dleft>>

\* Mutant: the stage ID is appended without looking for it first.
AddStageIDNoDedup(w) ==
    /\ pc[w] = "add"
    /\ list' = Append(list, stg[w])
    /\ Return(w, "ok")
    /\ UNCHANGED <<final, created, stg, dleft>>

\* Mutant: the call returns success without updating the list.
AddStageIDSkipped(w) ==
    /\ pc[w] = "add"
    /\ Return(w, "ok")
    /\ UNCHANGED <<final, created, list, stg, dleft>>

\* StagesList.AddStageID (242-253), called at 776, under the list's mutex:
\* the ID is appended unless it is already there; the call then succeeds.
AddStageID(w) ==
    /\ pc[w] = "add"
    /\ list' = IF stg[w] \in Elems(list) THEN list ELSE Append(list, stg[w])
    /\ Return(w, "ok")
    /\ UNCHANGED <<final, created, stg, dleft>>

-----------------------------------------------------------------------------
(* The cleanup.                                                            *)

\* One task of ForEachDeleteFinalStage (415-425): FinalStagesStorage.
\* DeleteStage succeeds or fails; FinalStagesListCache is left as it is.
DeleteFinalStage(s) ==
    /\ s \in dleft
    /\ dleft' = dleft \ {s}
    /\ final' \in {final, final \ {s}}
    /\ UNCHANGED <<created, list, pc, stg, result>>

Worker(w) ==
    \/ GetOrCreateFinalStagesListCache(w)
    \/ CheckFinalList(w)
    \/ FetchStage(w)
    \/ CopyIntoFinal(w)
    \/ AddStageID(w)

Next ==
    \/ \E w \in Workers : Worker(w)
    \/ \E s \in Stages : DeleteFinalStage(s)

Spec == Init /\ [][Next]_vars

-----------------------------------------------------------------------------
(* Properties.                                                             *)

\* The abstract cache, seen through the list the workers share.
Cache == INSTANCE FinalStagesListCache WITH loaded <- created,
                                            listed <- Elems(list)

\* The FinalStagesListCache the workers share behaves as the abstract
\* cache: it is loaded once from the final storage (714-729) and then only
\* grows by AddStageID (776), however the workers' calls and the deletions
\* of ForEachDeleteFinalStage interleave.
ImplementsFinalStagesListCache == Cache!Spec

\* Spec 8, scenario 6: when several workers replicate the same stage and
\* all miss it in the list, each appends it, yet the list holds every
\* stage ID at most once (the look-up in AddStageID, 246-250).
ListHasNoDuplicates ==
    \A i, j \in 1 .. Len(list) : list[i] = list[j] => i = j

\* Spec 3, invariant 3: once CopyStageIntoFinalRepo has copied a stage
\* successfully, the final stages list of the process names it, whatever
\* other workers and the cleanup did since.
ReplicatedStageListed ==
    \A w \in Workers :
        (pc[w] = "done" /\ result[w] = "ok") => stg[w] \in Elems(list)

\* Spec 3, invariant 3 says the list may only under-report: a
\* CopyStageIntoFinalRepo that returns success (copied, or skipped because
\* the list names the stage) leaves the stage in the final storage at the
\* moment it returns.
ReplicationLeavesStageInFinal ==
    [][\A w \in Workers :
          (pc[w] # "done" /\ pc'[w] = "done" /\ result'[w] \in {"ok", "skipped"})
              => stg[w] \in final']_vars

=============================================================================
