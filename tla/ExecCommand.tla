----------------------------- MODULE ExecCommand -----------------------------
(***************************************************************************)
(* Exec of internal/runtime/cli.go: one command in a session's container,  *)
(* run by the engine's CLI under a deadline.  Killing the CLI does not     *)
(* kill the command, and the CLI's own exit status must not be taken for   *)
(* the command's: so Exec looks at its deadline first, and then looks      *)
(* again at the container, which anyone may pause, stop, restart or remove *)
(* meanwhile.  SessionService has the call as one step: of these answers   *)
(* "notFound" and "notRunning" make it close the session.                  *)
(***************************************************************************)

VARIABLES
    container,    \* "running", "paused", "stopped" or "gone"
    command,      \* in the container: "none" yet, "running", how it ended ("ok" or
                  \* "failing"), or "died" with the container
    cliState,     \* of `docker exec`: "none" yet, "running", its exit status ("ok",
                  \* "failing", "killed" for -1), or "broken" for another error
    requester,    \* is the client of the request there?
    execContext,  \* "live", or what ended it first: "cancelled" or "expired"
    execStep,     \* the call's next engine command, or "answered"
    result,       \* the answer
    troubles      \* during the call: was the container not running, did the engine
                  \* or its CLI fail by itself?

execVars == <<container, command, cliState, requester, execContext, execStep, result, troubles>>

ExecInit ==
    /\ container = "running" /\ command = "none" /\ cliState = "none"
    /\ requester = TRUE /\ execContext = "live"
    /\ execStep = "resolve" /\ result = "none"
    /\ troubles = [down |-> FALSE, fault |-> FALSE]

(***************************************************************************)
(* The world.                                                              *)
(***************************************************************************)

\* A command stands still in a paused container and dies in one that stops; one
\* that is gone does not come back.
ContainerChanges(to) ==
    /\ container # "gone" /\ to # container /\ (to = "paused" => container = "running")
    /\ container' = to
    /\ command' = IF command = "running" /\ to \in {"stopped", "gone"} THEN "died" ELSE command
    /\ troubles' = IF to = "running" THEN troubles ELSE [troubles EXCEPT !.down = TRUE]
    /\ UNCHANGED <<cliState, requester, execContext, execStep, result>>

CommandEnded(how) ==
    /\ command = "running" /\ container = "running"
    /\ command' = how
    /\ UNCHANGED <<container, cliState, requester, execContext, execStep, result, troubles>>

\* The deadline's context is made of the request's: the first to end it names its error.
RequesterLeaves ==
    /\ execStep # "answered" /\ requester
    /\ requester' = FALSE
    /\ execContext' = IF execContext = "live" THEN "cancelled" ELSE execContext
    /\ UNCHANGED <<container, command, cliState, execStep, result, troubles>>

DeadlinePasses ==
    /\ execStep = "exec" /\ execContext = "live"
    /\ execContext' = "expired"
    /\ UNCHANGED <<container, command, cliState, requester, execStep, result, troubles>>

(***************************************************************************)
(* The call.                                                               *)
(***************************************************************************)

Finished(answer) == execStep' = "answered" /\ result' = answer
GoesOn(step) == execStep' = step /\ UNCHANGED result

Unmoved == UNCHANGED <<container, command, requester>>
Faulty == troubles' = [troubles EXCEPT !.fault = TRUE]

\* ValidateEnvMap: a control character in the command ends the call before its
\* first look at the container.
RefuseCommand ==
    /\ execStep = "resolve"
    /\ Finished("invalid")
    /\ Unmoved /\ UNCHANGED <<cliState, execContext, troubles>>

\* What is left to do after each command that only looks.
AfterResolve == [resolve |-> "reresolve", reresolve |-> "inspect", recheckResolve |-> "recheck"]
Looking == DOMAIN AfterResolve \cup {"inspect", "recheck"}

\* It cannot be run, or its output cannot be read.
LookFails ==
    /\ execStep \in Looking
    /\ Finished("error")
    /\ IF requester THEN Faulty ELSE UNCHANGED troubles
    /\ Unmoved /\ UNCHANGED <<cliState, execContext>>

\* `docker ps -a`: once for the reference, then again within every Inspect.
ResolveContainerReference ==
    /\ execStep \in DOMAIN AfterResolve /\ requester
    /\ IF container = "gone" THEN Finished("notFound") ELSE GoesOn(AfterResolve[execStep])
    /\ Unmoved /\ UNCHANGED <<cliState, execContext, troubles>>

\* `docker inspect` of a container that is gone since then is an error like any other.
InspectContainer ==
    /\ execStep \in {"inspect", "recheck"} /\ requester
    /\ CASE container = "gone" -> Finished("error")
         [] container \in {"paused", "stopped"} -> Finished("notRunning")
         [] container = "running" -> IF execStep = "inspect" THEN GoesOn("exec") ELSE Finished(cliState)
    /\ Unmoved /\ UNCHANGED <<cliState, execContext, troubles>>

\* In a container that does not run any more the CLI fails without a command.
StartCLI ==
    /\ execStep = "exec" /\ cliState = "none"
    /\ \/ /\ execContext = "live"
          /\ IF container = "running"
             THEN cliState' = "running" /\ command' = "running"
             ELSE cliState' = "failing" /\ UNCHANGED command
          /\ UNCHANGED troubles
       \/ execContext # "live" /\ cliState' = "broken" /\ UNCHANGED <<command, troubles>>
       \/ execContext = "live" /\ cliState' = "broken" /\ UNCHANGED command /\ Faulty
    /\ UNCHANGED <<container, requester, execContext, execStep, result>>

CLIExits ==
    /\ cliState = "running"
    /\ \/ command \in {"ok", "failing"} /\ cliState' = command /\ UNCHANGED troubles
       \/ command = "died" /\ cliState' = "failing" /\ UNCHANGED troubles
       \/ execContext # "live" /\ cliState' = "killed" /\ UNCHANGED troubles
       \* it loses the engine, or someone else kills it
       \/ cliState' \in {"failing", "killed"} /\ Faulty
    /\ Unmoved /\ UNCHANGED <<execContext, execStep, result>>

\* Mutant: the exit status is looked at before the deadline.
ClassifyExitFirst ==
    /\ execStep = "exec" /\ cliState \notin {"none", "running"}
    /\ CASE cliState = "ok" -> Finished("ok")
         [] cliState \in {"failing", "killed"} -> GoesOn("recheckResolve")
         [] cliState = "broken" -> Finished(IF execContext = "expired" THEN "timedOut" ELSE "error")
    /\ Unmoved /\ UNCHANGED <<cliState, execContext, troubles>>

\* A deadline that passed decides, even over a command that has just ended.
Classify ==
    /\ execStep = "exec" /\ cliState \notin {"none", "running"}
    /\ CASE execContext = "expired" -> Finished("timedOut")
         [] execContext # "expired" /\ cliState = "ok" -> Finished("ok")
         [] execContext # "expired" /\ cliState \in {"failing", "killed"} -> GoesOn("recheckResolve")
         [] execContext # "expired" /\ cliState = "broken" -> Finished("error")
    /\ Unmoved /\ UNCHANGED <<cliState, execContext, troubles>>

\* Another call, of another session.
NextExec ==
    /\ execStep = "answered"
    /\ container' = "running" /\ command' = "none" /\ cliState' = "none"
    /\ requester' = TRUE /\ execContext' = "live"
    /\ execStep' = "resolve" /\ result' = "none"
    /\ troubles' = [down |-> FALSE, fault |-> FALSE]

ExecNext ==
    \/ \E to \in {"running", "paused", "stopped", "gone"} : ContainerChanges(to)
    \/ \E how \in {"ok", "failing"} : CommandEnded(how)
    \/ RequesterLeaves \/ DeadlinePasses
    \/ RefuseCommand \/ LookFails \/ ResolveContainerReference \/ InspectContainer
    \/ StartCLI \/ CLIExits \/ Classify
    \/ NextExec

ExecSpec == ExecInit /\ [][ExecNext]_execVars

(***************************************************************************)
(* Properties                                                              *)
(***************************************************************************)

\* Every variable has its type.
ExecTypeOK ==
    /\ container \in {"running", "paused", "stopped", "gone"}
    /\ command \in {"none", "running", "ok", "failing", "died"}
    /\ cliState \in {"none", "running", "ok", "failing", "killed", "broken"}
    /\ requester \in BOOLEAN /\ execContext \in {"live", "cancelled", "expired"}
    /\ execStep \in Looking \cup {"exec", "answered"}
    /\ result \in {"none", "ok", "failing", "killed", "timedOut", "notFound", "notRunning",
                   "invalid", "error"}
    /\ troubles \in [down : BOOLEAN, fault : BOOLEAN]

\* What Exec answers is so.  An exit code is the one the command ended with, which
\* is over, unless the CLI failed by itself or the container went down and came
\* back; the -1 of a CLI that Exec itself has killed is never reported as one.
\* "Timed out" means that the deadline passed.  A session is closed for its container
\* only if that was not running at some moment of the call; a command that is
\* refused has not run; and any other error means that the client left, the engine
\* failed, or the container was just removed.
ExecAnswersAreTrue ==
    /\ result = "ok" => command = "ok"
    /\ result = "failing" => command = "failing" \/ troubles.fault \/ troubles.down
    /\ result = "killed" => troubles.fault
    /\ result = "timedOut" => execContext = "expired"
    /\ result \in {"notFound", "notRunning"} => troubles.down
    /\ result = "invalid" => command = "none" /\ cliState = "none"
    /\ result = "error" => ~requester \/ troubles.fault \/ container = "gone"
===============================================================================
