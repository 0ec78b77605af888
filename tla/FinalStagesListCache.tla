------------------------ MODULE FinalStagesListCache ------------------------
(***************************************************************************)
(* What the FinalStagesListCache of a StorageManager promises, without    *)
(* the workers that use it: the cache is loaded at most once, as a        *)
(* snapshot of the stage IDs in the final stages storage, and from then   *)
(* on only grows by the stage IDs this process records.  The final stages *)
(* storage itself gains and loses stages independently of the cache.      *)
(***************************************************************************)
CONSTANT Stages

VARIABLES
    final,      \* stage IDs whose image is in the final stages storage
    loaded,     \* the cache exists
    listed      \* the stage IDs the cache names

cacheVars == <<final, loaded, listed>>

Init ==
    /\ final \in SUBSET Stages
    /\ loaded = FALSE
    /\ listed = {}

\* getOrCreateFinalStagesListCache (714-729) creating the cache from
\* GetStagesIDs of the final storage.
Load ==
    /\ ~loaded
    /\ loaded' = TRUE
    /\ listed' = final
    /\ UNCHANGED final

\* StagesList.AddStageID (242-253) on the existing cache.
Record(s) ==
    /\ loaded
    /\ listed' = listed \cup {s}
    /\ UNCHANGED <<final, loaded>>

\* A stage image stored into the final storage (757-774).
Store(s) ==
    /\ final' = final \cup {s}
    /\ UNCHANGED <<loaded, listed>>

\* FinalStagesStorage.DeleteStage (415-425); the cache is not told.
Remove(s) ==
    /\ final' = final \ {s}
    /\ UNCHANGED <<loaded, listed>>

Next ==
    \/ Load
    \/ \E s \in Stages : Record(s) \/ Store(s) \/ Remove(s)

Spec == Init /\ [][Next]_cacheVars

=============================================================================
