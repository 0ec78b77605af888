--------------------------- MODULE StageHostImages ---------------------------
(***************************************************************************)
(* What the FetchStage calls of one werf process promise the host they    *)
(* run on, without the storages they fetch from: the local docker daemon *)
(* images, the shared host locks the process holds on primary image names *)
(* and the outcome of each call.                                           *)
(*                                                                         *)
(*  - A running call takes the shared host lock on its stage's primary    *)
(*    image name, and brings images of its own stage into the daemon.     *)
(*  - It returns success only while it holds that lock and the stage's    *)
(*    primary image is local.                                              *)
(*  - A panic of the process ends every running call and drops the locks. *)
(*  - Host cleanup of another process removes a local image, but never a  *)
(*    primary image whose name this process holds locked.                 *)
(***************************************************************************)
EXTENDS Naturals

CONSTANTS
    Workers,   \* concurrent FetchStage calls
    Stages,    \* stage IDs
    NCache     \* number of cache tiers

Primary == 0
Tiers == {Primary} \cup (1 .. NCache)
ImageName(t, s) == <<t, s>>
Names == Tiers \X Stages

Status == {"running", "ok", "failed", "crashed"}

VARIABLES
    stg,        \* the stage each call fetches
    status,     \* the outcome of each call, "running" until it returns
    local,      \* image names present in the local docker daemon
    hostLocks   \* stages whose primary image name the process holds locked

hostVars == <<stg, status, local, hostLocks>>

Init ==
    /\ stg \in [Workers -> Stages]
    /\ status = [w \in Workers |-> "running"]
    /\ local \in SUBSET Names
    /\ hostLocks = {}

TakeLock(w) ==
    /\ status[w] = "running"
    /\ hostLocks' = hostLocks \cup {stg[w]}
    /\ UNCHANGED <<stg, status, local>>

Store(w, n) ==
    /\ status[w] = "running"
    /\ n[2] = stg[w]
    /\ local' = local \cup {n}
    /\ UNCHANGED <<stg, status, hostLocks>>

Succeed(w) ==
    /\ status[w] = "running"
    /\ stg[w] \in hostLocks
    /\ ImageName(Primary, stg[w]) \in local
    /\ status' = [status EXCEPT ![w] = "ok"]
    /\ UNCHANGED <<stg, local, hostLocks>>

Fail(w) ==
    /\ status[w] = "running"
    /\ status' = [status EXCEPT ![w] = "failed"]
    /\ UNCHANGED <<stg, local, hostLocks>>

Crash(w) ==
    /\ status[w] = "running"
    /\ status' = [v \in Workers |->
                     IF status[v] = "running" THEN "crashed" ELSE status[v]]
    /\ hostLocks' = {}
    /\ UNCHANGED <<stg, local>>

Cleanup(n) ==
    /\ n \in local
    /\ n[1] = Primary => n[2] \notin hostLocks
    /\ local' = local \ {n}
    /\ UNCHANGED <<stg, status, hostLocks>>

Next ==
    \/ \E w \in Workers :
          \/ TakeLock(w)
          \/ \E n \in Names : Store(w, n)
          \/ Succeed(w)
          \/ Fail(w)
          \/ Crash(w)
    \/ \E n \in Names : Cleanup(n)

Spec == Init /\ [][Next]_hostVars

=============================================================================
