--------------------------- MODULE DigestRecordLock ---------------------------
(***************************************************************************)
(* What the per-digest lock of the StorageLockManager promises to the      *)
(* record of one digest in the stages storage cache, without the calls     *)
(* that use it: the lock is a mutex, only its holder releases it, the      *)
(* record is written only by the holder as it releases the lock, and the   *)
(* record may be cleared by anybody, lock or no lock.                      *)
(***************************************************************************)
CONSTANTS Builders, NoOne, IDs

VARIABLES
    indexed,   \* the stages storage cache has a record for the digest
    index,     \* the stage IDs of that record
    lock       \* holder of the per-digest lock, NoOne when it is free

recordVars == <<indexed, index, lock>>

Init ==
    /\ indexed \in BOOLEAN
    /\ index \in SUBSET IDs
    /\ lock = NoOne

\* LockStageCache returns the lock to b (818-822, 957-961).
Acquire(b) ==
    /\ lock = NoOne
    /\ lock' = b
    /\ UNCHANGED <<indexed, index>>

\* The deferred Unlock of the holder's locked section.
Release(b) ==
    /\ lock = b
    /\ lock' = NoOne
    /\ UNCHANGED <<indexed, index>>

\* StoreStagesByDigest by the holder, then its deferred Unlock (824-830,
\* 973-993).
WriteAndRelease(b, ids) ==
    /\ lock = b
    /\ indexed' = TRUE
    /\ index' = ids
    /\ lock' = NoOne

\* DeleteStagesByDigest (438-442) or DeleteAllStages (330-335), which take
\* no lock.
Clear ==
    /\ indexed' = FALSE
    /\ index' = {}
    /\ UNCHANGED lock

Next ==
    \/ \E b \in Builders :
          \/ Acquire(b)
          \/ Release(b)
          \/ \E ids \in SUBSET IDs : WriteAndRelease(b, ids)
    \/ Clear

Spec == Init /\ [][Next]_recordVars

=============================================================================
