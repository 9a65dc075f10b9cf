--------------------------- MODULE SessionLifecycle ---------------------------
(***************************************************************************)
(* What the hub promises about a session, without handlers, locks, engine  *)
(* or restarts: it is opened once and closed at most once, its workspace   *)
(* is the one it was opened with for as long as it is active, and after    *)
(* that for as long as the configuration retains it.                       *)
(***************************************************************************)
CONSTANTS Session, DeleteRootfsOnStop

VARIABLES
    phase,      \* "absent", "active" or "stopped"
    owner,      \* does the session have a workspace of the hub's making?
    workspace   \* the sessions whose workspace directory exists

lifecycleVars == <<phase, owner, workspace>>

Init ==
    /\ phase = [s \in Session |-> "absent"]
    /\ owner = [s \in Session |-> FALSE]
    /\ workspace = {}

\* Before the session exists its directory may come and go.
Prepare(s) ==
    /\ phase[s] = "absent"
    /\ workspace' \in {workspace \cup {s}, workspace \ {s}}
    /\ UNCHANGED <<phase, owner>>

\* It owns a workspace exactly if the directory is there when it opens.
Open(s) ==
    /\ phase[s] = "absent"
    /\ phase' = [phase EXCEPT ![s] = "active"]
    /\ owner' = [owner EXCEPT ![s] = s \in workspace]
    /\ UNCHANGED workspace

Close(s) ==
    /\ phase[s] = "active"
    /\ phase' = [phase EXCEPT ![s] = "stopped"]
    /\ UNCHANGED <<owner, workspace>>

\* Deletion follows the end of the session and needs the configuration's leave.
Delete(s) ==
    /\ DeleteRootfsOnStop
    /\ phase[s] = "stopped" /\ owner[s]
    /\ workspace' = workspace \ {s}
    /\ UNCHANGED <<phase, owner>>

Next == \E s \in Session : Prepare(s) \/ Open(s) \/ Close(s) \/ Delete(s)

Spec == Init /\ [][Next]_lifecycleVars
=============================================================================
