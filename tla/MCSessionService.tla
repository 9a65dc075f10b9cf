-------------------------- MODULE MCSessionService --------------------------
(***************************************************************************)
(* SessionService for TLC.  The configurations give the sets as model      *)
(* values; requests, sessions and container IDs are interchangeable, so    *)
(* runs without liveness properties identify their permutations.           *)
(***************************************************************************)
EXTENDS SessionService, TLC

Symmetry ==
    Permutations(Session) \cup Permutations(Request) \cup Permutations(ContainerId)

\* Faults of the configurations, by name.
HubFaults == FaultKind \ {"restart", "replace"}
ReplaceFaults == FaultKind \ {"restart"}
EngineFaults == {"command", "die", "remove"}
=============================================================================
