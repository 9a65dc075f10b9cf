----------------------------- MODULE BuildRecords -----------------------------
(***************************************************************************)
(* What a caller sees of build jobs, without goroutines, maps or channels: *)
(* a job appears, goes forward to its end, and is kept once it is saved.   *)
(* Until then it may vanish, for a job lives in memory while it runs.      *)
(***************************************************************************)
CONSTANT Job

VARIABLES
    visible,  \* the status GetBuildJob reports, "absent" for ErrNotFound
    kept      \* the jobs that survive a restart

recordVars == <<visible, kept>>

Ended == {"succeeded", "failed"}

Init ==
    /\ visible = [j \in Job |-> "absent"]
    /\ kept = {}

Appear(j) ==
    /\ visible[j] = "absent"
    /\ visible' = [visible EXCEPT ![j] = "building"]
    /\ UNCHANGED kept

Advance(j) ==
    /\ \/ visible[j] = "building" /\ visible' = [visible EXCEPT ![j] = "smoke_checking"]
       \/ /\ visible[j] \in {"building", "smoke_checking"}
          /\ \E status \in Ended : visible' = [visible EXCEPT ![j] = status]
    /\ UNCHANGED kept

Keep(j) ==
    /\ visible[j] \in Ended
    /\ kept' = kept \cup {j}
    /\ UNCHANGED visible

\* Jobs not kept may be lost, one by one or all at once.
Vanish(lost) ==
    /\ lost \cap kept = {}
    /\ visible' = [j \in Job |-> IF j \in lost THEN "absent" ELSE visible[j]]
    /\ UNCHANGED kept

Next ==
    \/ \E j \in Job : Appear(j) \/ Advance(j) \/ Keep(j)
    \/ \E lost \in SUBSET Job : Vanish(lost)

Spec == Init /\ [][Next]_recordVars
=============================================================================
