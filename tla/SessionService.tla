---------------------------- MODULE SessionService ----------------------------
(***************************************************************************)
(* The session half of agent-container-hub: the Create, Execute and Stop   *)
(* handlers of internal/sandbox/session_service.go, each running in the    *)
(* goroutine of one HTTP request, the start-up Reconcile, and the state    *)
(* they share: the per-session try-lock in memory, the sessions table in   *)
(* SQLite, the rootfs directories, and the containers held by the engine   *)
(* (Docker or Podman, driven through its CLI).                             *)
(*                                                                         *)
(* Every store call, file-system call and engine command is one step, so   *)
(* handlers interleave with each other, with a crash of the hub, and with  *)
(* the engine's own changes at every point where the code leaves the       *)
(* process.  CreatedAt order, mounts, labels, environment variables and    *)
(* resource limits are abstracted away; a network policy is "has rules" or *)
(* not.                                                                    *)
(***************************************************************************)
CONSTANTS
    Session,             \* session IDs; also container names and rootfs directories
    Request,             \* HTTP request goroutines that may run at once
    Main,                \* the main goroutine: start-up, reconcile, then serving
    ContainerId,         \* IDs the engine hands out
    NoId,                \* the empty container ID
    NoSession,           \* no session ID
    DeleteRootfsOnStop,  \* execution.delete_rootfs_on_stop
    EnableExecLogPersist,\* execution.enable_exec_log_persist
    Faults               \* which failures may happen, a subset of FaultKind

(***************************************************************************)
(* command:   an engine command reports an error and has done nothing      *)
(* ambiguous: an engine command reports an error after doing its work (its *)
(*            CLI was killed by the request's context, or lost the daemon) *)
(* cleanup:   a command or deletion that cleans up after a failure fails   *)
(* store, disk: an SQLite statement, a directory operation fails           *)
(* client:    the HTTP client goes away, which cancels the request context *)
(* crash:     the hub process dies; main returning at SIGTERM is the same, *)
(*            for it does not wait for the handlers                        *)
(* die, remove, restart, replace: a container exits, is removed, is        *)
(*            started again, or is replaced under its name, all outside    *)
(*            the hub                                                      *)
(***************************************************************************)
FaultKind == {"command", "ambiguous", "cleanup", "store", "disk", "client",
              "crash", "die", "remove", "restart", "replace"}

ASSUME SessionServiceAssumption ==
    /\ Main \notin Request
    /\ NoId \notin ContainerId
    /\ NoSession \notin Session
    /\ DeleteRootfsOnStop \in BOOLEAN
    /\ EnableExecLogPersist \in BOOLEAN
    /\ Faults \subseteq FaultKind

VARIABLES
    pc,         \* the next step of each goroutine
    sid,        \* the session ID a goroutine works on
    session,    \* its local *model.Session
    gone,       \* requests whose context is cancelled
    locks,      \* namedLock.locks
    todo,       \* sessions the reconcile loop has yet to visit
    row,        \* the sessions table
    rootfs,     \* session IDs whose rootfs directory exists
    executions, \* session IDs with a row in session_executions
    container   \* the engine's container of each name

handlers == <<pc, sid, session, gone, locks, todo>>
stored == <<row, executions>>
vars == <<pc, sid, session, gone, locks, todo, row, rootfs, executions, container>>

Proc == Request \cup {Main}

\* The fields of model.Session the handlers branch on: RootfsPath # "" and
\* a non-empty NetworkPolicy are Booleans; "absent" is a row that is not there.
Row == [status : {"absent", "active", "stopped"}, cid : ContainerId \cup {NoId},
        rootfs : BOOLEAN, policy : BOOLEAN]
NoRow == [status |-> "absent", cid |-> NoId, rootfs |-> FALSE, policy |-> FALSE]

\* policy: created for a session with network rules; policed: the rules are
\* installed in its current network namespace, which ends with the container.
Container == [cid : ContainerId \cup {NoId}, state : {"none", "created", "running", "exited"},
              policy : BOOLEAN, policed : BOOLEAN]
NoContainer == [cid |-> NoId, state |-> "none", policy |-> FALSE, policed |-> FALSE]

CreatePcs == {"createMkdir", "createMounts", "createRuntime", "createStart",
              "createPolicy", "createSave", "abortStop", "abortRemove", "abortRootfs"}
RequestPcs == {"idle", "createGet", "execGet", "stopGet", "exec", "execLog", "execInspect",
               "stopRun", "stopRemove", "markStopped", "deleteRootfs"} \cup CreatePcs
MainPcs == {"down", "list", "reconcile", "saveId", "markStopped", "deleteRootfs", "serving"}

\* The points at which a goroutine works on no session.
Resting == {"idle", "down", "list", "reconcile", "serving"}

HandlersTypeOK ==
    /\ pc \in [Proc -> RequestPcs \cup MainPcs]
    /\ pc[Main] \in MainPcs
    /\ \A r \in Request : pc[r] \in RequestPcs
    /\ sid \in [Proc -> Session \cup {NoSession}]
    /\ \A p \in Proc : sid[p] = NoSession <=> pc[p] \in Resting
    /\ session \in [Proc -> Row]
    /\ gone \subseteq Request
    /\ locks \subseteq Session
    /\ todo \subseteq Session

WorldTypeOK ==
    /\ row \in [Session -> Row]
    /\ rootfs \subseteq Session
    /\ executions \subseteq Session
    /\ container \in [Session -> Container]

\* Every variable has its type, and a goroutine has a session ID exactly while
\* it is inside a handler or a visit of the reconcile loop.
TypeOK == HandlersTypeOK /\ WorldTypeOK

Init ==
    /\ pc = [p \in Proc |-> IF p = Main THEN "down" ELSE "idle"]
    /\ sid = [p \in Proc |-> NoSession]
    /\ session = [p \in Proc |-> NoRow]
    /\ gone = {} /\ locks = {} /\ todo = {}
    /\ row = [s \in Session |-> NoRow]
    /\ rootfs = {} /\ executions = {}
    /\ container = [s \in Session |-> NoContainer]

-----------------------------------------------------------------------------
(***************************************************************************)
(* Control flow of a goroutine.                                            *)
(***************************************************************************)

\* The handler goes on to its next call, its local session now rec.
Continue(p, step, rec) ==
    /\ pc' = [pc EXCEPT ![p] = step]
    /\ session' = [session EXCEPT ![p] = rec]
    /\ UNCHANGED <<sid, gone, locks, todo>>

Goto(p, step) == Continue(p, step, session[p])

\* Mutant: one return path forgets the lock.
ReturnKeepsLock(r) ==
    /\ pc' = [pc EXCEPT ![r] = "idle"]
    /\ sid' = [sid EXCEPT ![r] = NoSession]
    /\ session' = [session EXCEPT ![r] = NoRow]
    /\ gone' = gone \ {r}
    /\ UNCHANGED <<locks, todo>>

\* The handler returns, with or without an error; release() is deferred.
Return(r) ==
    /\ pc' = [pc EXCEPT ![r] = "idle"]
    /\ sid' = [sid EXCEPT ![r] = NoSession]
    /\ session' = [session EXCEPT ![r] = NoRow]
    /\ gone' = gone \ {r}
    /\ locks' = locks \ {sid[r]}
    /\ UNCHANGED todo

\* The main goroutine leaves one session for the next, or leaves Reconcile.
MainGoto(step, rest) ==
    /\ pc' = [pc EXCEPT ![Main] = step]
    /\ sid' = [sid EXCEPT ![Main] = NoSession]
    /\ session' = [session EXCEPT ![Main] = NoRow]
    /\ todo' = rest
    /\ UNCHANGED <<gone, locks>>

\* Mutant: the loop returns where it should continue.
SucceedByReturning(p) == Return(p)

\* What follows the shared calls, in a handler and in the reconcile loop: an
\* error ends either, success ends the handler and lets the loop go on.
Succeed(p) == IF p = Main THEN MainGoto("reconcile", todo) ELSE Return(p)
Fail(p) == IF p = Main THEN MainGoto("serving", {}) ELSE Return(p)

\* Reconcile runs under main's context; a handler's is cancelled with its client.
Connected(p) == p \notin gone
CommandFails(p) == p \in gone \/ "command" \in Faults
Ambiguous(p) == p \notin gone /\ "ambiguous" \in Faults
CleanupFails(p) == p \in gone \/ "cleanup" \in Faults
StoreFails == "store" \in Faults

\* os.RemoveAll of the session's rootfs directory.
RemoveAll(s) == rootfs' = rootfs \ {s}

\* resolveContainerReference found the container the session names by ID.
Present(p) == /\ container[sid[p]].state # "none"
              /\ container[sid[p]].cid = session[p].cid
Running(s) == container[s].state = "running"

SetContainer(s, c) == container' = [container EXCEPT ![s] = c]
Halted(c) == IF c.state = "running" THEN [c EXCEPT !.state = "exited", !.policed = FALSE] ELSE c
Started(c) == [c EXCEPT !.state = "running"]

\* An ID no container, row or goroutine holds: the engine never reuses one.
Fresh(id) ==
    /\ \A s \in Session : row[s].cid # id /\ container[s].cid # id
    /\ \A p \in Proc : session[p].cid # id

-----------------------------------------------------------------------------
(***************************************************************************)
(* Create.                                                                 *)
(***************************************************************************)

\* Mutant: the lock is taken without looking at it.
TryLockBlindly(s) == locks' = locks \cup {s}

\* A held name makes the handler return ErrBusy at once: it never waits.
TryLock(s) == s \notin locks /\ locks' = locks \cup {s}

Begin(r, s, step, rec) ==
    /\ pc[Main] = "serving" /\ pc[r] = "idle"
    /\ TryLock(s)
    /\ pc' = [pc EXCEPT ![r] = step]
    /\ sid' = [sid EXCEPT ![r] = s]
    /\ session' = [session EXCEPT ![r] = rec]
    /\ UNCHANGED <<gone, todo, stored, rootfs, container>>

\* The request's policy is absent, present but empty, or has rules; the
\* environment's is read before the lock is taken.
EffectivePolicy(environment, request) ==
    IF request = "absent" THEN environment ELSE request = "rules"

CreateBegin(r, s) ==
    \E environment \in BOOLEAN, request \in {"absent", "empty", "rules"} :
        Begin(r, s, "createGet", [NoRow EXCEPT !.policy = EffectivePolicy(environment, request)])

\* Mutant: a stopped session's ID may be used again.
CreateGetActiveOnly(r) ==
    /\ pc[r] = "createGet"
    /\ IF row[sid[r]].status = "active" THEN Return(r) ELSE Goto(r, "createMkdir")
    /\ UNCHANGED <<stored, rootfs, container>>

\* Any row under this ID is a conflict, a stopped session's too.
CreateGet(r) ==
    /\ pc[r] = "createGet"
    /\ \/ row[sid[r]].status = "absent" /\ Goto(r, "createMkdir")
       \/ row[sid[r]].status # "absent" /\ Return(r)
       \/ StoreFails /\ Return(r)
    /\ UNCHANGED <<stored, rootfs, container>>

CreateMkdir(r) ==
    /\ pc[r] = "createMkdir"
    /\ \/ /\ rootfs' = rootfs \cup {sid[r]}
          /\ Continue(r, "createMounts", [session[r] EXCEPT !.rootfs = TRUE])
       \/ "disk" \in Faults /\ Return(r) /\ UNCHANGED rootfs
    /\ UNCHANGED <<stored, container>>

\* Mutant: a rootfs the caller replaces is no longer recorded, nor deleted.
CreateMountsKeepUnused(r) ==
    /\ pc[r] = "createMounts"
    /\ \/ Goto(r, "createRuntime") /\ UNCHANGED rootfs
       \/ Continue(r, "createRuntime", [session[r] EXCEPT !.rootfs = FALSE]) /\ UNCHANGED rootfs
    /\ UNCHANGED <<stored, container>>

\* The request's mounts, masked paths and layout are valid and leave
\* /workspace to the hub, or bring a /workspace of their own, which makes the
\* new directory unused; or they are rejected and the directory goes again.
CreateMounts(r) ==
    /\ pc[r] = "createMounts"
    /\ \/ Goto(r, "createRuntime") /\ UNCHANGED rootfs
       \/ /\ RemoveAll(sid[r])
          /\ Continue(r, "createRuntime", [session[r] EXCEPT !.rootfs = FALSE])
       \/ RemoveAll(sid[r]) /\ Return(r)
       \/ "disk" \in Faults /\ UNCHANGED rootfs /\ Return(r)
    /\ UNCHANGED <<stored, container>>

\* Container names are unique: one that exists, the hub's or not, is a conflict.
CreateRuntime(r) ==
    LET s == sid[r]
        create(id) == SetContainer(s, [cid |-> id, state |-> "created",
                                       policy |-> session[r].policy, policed |-> FALSE])
    IN  /\ pc[r] = "createRuntime"
        /\ \/ /\ Connected(r) /\ container[s].state = "none"
              /\ \E id \in ContainerId :
                    /\ Fresh(id)
                    /\ create(id)
                    /\ \/ Continue(r, "createStart", [session[r] EXCEPT !.cid = id])
                       \/ Ambiguous(r) /\ Goto(r, "abortRootfs")
           \/ /\ CommandFails(r) \/ container[s].state # "none"
              /\ Goto(r, "abortRootfs")
              /\ UNCHANGED container
        /\ UNCHANGED <<stored, rootfs>>

CreateStart(r) ==
    LET s == sid[r]
    IN  /\ pc[r] = "createStart"
        /\ \/ /\ Connected(r) /\ Present(r)
              /\ SetContainer(s, Started(container[s]))
              /\ \/ Goto(r, IF session[r].policy THEN "createPolicy" ELSE "createSave")
                 \/ Ambiguous(r) /\ Goto(r, "abortRemove")
           \/ /\ CommandFails(r) \/ ~Present(r)
              /\ Goto(r, "abortRemove")
              /\ UNCHANGED container
        /\ UNCHANGED <<stored, rootfs>>

\* Mutant: a session whose rules could not be installed runs without them.
CreatePolicyDegrades(r) ==
    /\ pc[r] = "createPolicy"
    /\ Goto(r, "createSave")
    /\ UNCHANGED <<stored, rootfs, container>>

\* The helper container joins the network namespace of the running session.
CreatePolicy(r) ==
    LET s == sid[r]
    IN  /\ pc[r] = "createPolicy"
        /\ \/ /\ Connected(r) /\ Present(r) /\ Running(s)
              /\ SetContainer(s, [container[s] EXCEPT !.policed = TRUE])
              /\ \/ Goto(r, "createSave")
                 \/ Ambiguous(r) /\ Goto(r, "abortStop")
           \/ /\ CommandFails(r) \/ ~(Present(r) /\ Running(s))
              /\ Goto(r, "abortStop")
              /\ UNCHANGED container
        /\ UNCHANGED <<stored, rootfs>>

\* A failed save returns with the container running and the rootfs in place.
CreateSave(r) ==
    /\ pc[r] = "createSave"
    /\ \/ row' = [row EXCEPT ![sid[r]] = [session[r] EXCEPT !.status = "active"]]
       \/ StoreFails /\ UNCHANGED row
    /\ Return(r)
    /\ UNCHANGED <<executions, rootfs, container>>

\* Clean-up after a failed start or policy.  Its own failures are logged and
\* change nothing, so each step goes on to the next.
AbortStop(r) ==
    /\ pc[r] = "abortStop"
    /\ \/ Connected(r) /\ Present(r) /\ SetContainer(sid[r], Halted(container[sid[r]]))
       \/ (CleanupFails(r) \/ ~Present(r)) /\ UNCHANGED container
    /\ Goto(r, "abortRemove")
    /\ UNCHANGED <<stored, rootfs>>

\* Mutant: the rootfs is cleaned up and the container is not.
AbortRemoveSkipped(r) ==
    /\ pc[r] = "abortRemove"
    /\ Goto(r, "abortRootfs")
    /\ UNCHANGED <<stored, rootfs, container>>

AbortRemove(r) ==
    /\ pc[r] = "abortRemove"
    /\ \/ Connected(r) /\ Present(r) /\ SetContainer(sid[r], NoContainer)
       \/ (CleanupFails(r) \/ ~Present(r)) /\ UNCHANGED container
    /\ Goto(r, "abortRootfs")
    /\ UNCHANGED <<stored, rootfs>>

\* Deleting the directory needs no context, so it works for a gone client too.
AbortRootfs(r) ==
    /\ pc[r] = "abortRootfs"
    /\ \/ session[r].rootfs /\ RemoveAll(sid[r])
       \/ (~session[r].rootfs \/ "cleanup" \in Faults \/ "disk" \in Faults) /\ UNCHANGED rootfs
    /\ Return(r)
    /\ UNCHANGED <<stored, container>>

-----------------------------------------------------------------------------
(***************************************************************************)
(* Execute.                                                                *)
(***************************************************************************)

ExecBegin(r, s) == Begin(r, s, "execGet", NoRow)

\* GetSession of Execute and of Stop: only an active session goes further.
GetActive(r, step) ==
    /\ \/ row[sid[r]].status = "active" /\ Continue(r, step, row[sid[r]])
       \/ row[sid[r]].status # "active" /\ Return(r)
       \/ StoreFails /\ Return(r)
    /\ UNCHANGED <<stored, rootfs, container>>

ExecGet(r) == pc[r] = "execGet" /\ GetActive(r, "exec")

\* The command runs (and exits, or times out), it is refused or the engine reports
\* an error, or the container the row names is missing or not running.
Exec(r) ==
    /\ pc[r] = "exec"
    /\ \/ /\ Connected(r) /\ Present(r) /\ Running(sid[r])
          /\ IF EnableExecLogPersist THEN Goto(r, "execLog") ELSE Return(r)
       \/ Return(r)
       \/ Connected(r) /\ ~(Present(r) /\ Running(sid[r])) /\ Goto(r, "execInspect")
    /\ UNCHANGED <<stored, rootfs, container>>

ExecLog(r) ==
    /\ pc[r] = "execLog"
    /\ \/ executions' = executions \cup {sid[r]}
       \/ StoreFails /\ UNCHANGED executions
    /\ Return(r)
    /\ UNCHANGED <<row, rootfs, container>>

\* markSessionUnavailable looks the container up by name, then by ID.  One that
\* runs after all keeps the session active; its ID is not saved.
ExecInspect(r) ==
    LET s == sid[r]
    IN  /\ pc[r] = "execInspect"
        /\ \/ CommandFails(r) /\ Return(r)
           \/ Connected(r) /\ Running(s) /\ Return(r)
           \/ /\ Connected(r) /\ container[s].state \in {"created", "exited"}
              /\ Continue(r, "markStopped", [session[r] EXCEPT !.cid = container[s].cid])
           \/ Connected(r) /\ container[s].state = "none" /\ Goto(r, "markStopped")
        /\ UNCHANGED <<stored, rootfs, container>>

-----------------------------------------------------------------------------
(***************************************************************************)
(* Stop, and markSessionStopped, which Execute and Reconcile share with it.*)
(***************************************************************************)

StopBegin(r, s) == Begin(r, s, "stopGet", NoRow)

StopGet(r) == pc[r] = "stopGet" /\ GetActive(r, "stopRun")

\* Mutant: a stop that failed does not keep the session active.
StopRunIgnoringErrors(r) ==
    /\ pc[r] = "stopRun"
    /\ Goto(r, "markStopped")
    /\ UNCHANGED <<stored, rootfs, container>>

\* ErrContainerNotFound is ignored; any other error leaves the row active.
StopRun(r) ==
    LET s == sid[r]
    IN  /\ pc[r] = "stopRun"
        /\ \/ /\ Connected(r) /\ Present(r)
              /\ SetContainer(s, Halted(container[s]))
              /\ Goto(r, "stopRemove") \/ (Ambiguous(r) /\ Return(r))
           \/ Connected(r) /\ ~Present(r) /\ Goto(r, "stopRemove") /\ UNCHANGED container
           \/ CommandFails(r) /\ Return(r) /\ UNCHANGED container
        /\ UNCHANGED <<stored, rootfs>>

StopRemove(r) ==
    LET s == sid[r]
    IN  /\ pc[r] = "stopRemove"
        /\ \/ /\ Connected(r) /\ Present(r)
              /\ SetContainer(s, NoContainer)
              /\ Goto(r, "markStopped") \/ (Ambiguous(r) /\ Return(r))
           \/ Connected(r) /\ ~Present(r) /\ Goto(r, "markStopped") /\ UNCHANGED container
           \/ CommandFails(r) /\ Return(r) /\ UNCHANGED container
        /\ UNCHANGED <<stored, rootfs>>

\* Mutant: the directory is deleted whatever delete_rootfs_on_stop says.
MarkStoppedAlwaysDeletes(p) ==
    /\ pc[p] = "markStopped"
    /\ row' = [row EXCEPT ![sid[p]] = [session[p] EXCEPT !.status = "stopped"]]
    /\ IF session[p].rootfs
       THEN Goto(p, "deleteRootfs")
       ELSE Succeed(p)
    /\ UNCHANGED <<executions, rootfs, container>>

\* Mutant: the directory is never deleted.
MarkStoppedKeepsRootfs(p) ==
    /\ pc[p] = "markStopped"
    /\ row' = [row EXCEPT ![sid[p]] = [session[p] EXCEPT !.status = "stopped"]]
    /\ Succeed(p)
    /\ UNCHANGED <<executions, rootfs, container>>

\* The row first, the directory after it.
MarkStopped(p) ==
    /\ pc[p] = "markStopped"
    /\ \/ /\ row' = [row EXCEPT ![sid[p]] = [session[p] EXCEPT !.status = "stopped"]]
          /\ IF DeleteRootfsOnStop /\ session[p].rootfs
             THEN Goto(p, "deleteRootfs")
             ELSE Succeed(p)
       \/ StoreFails /\ UNCHANGED row /\ Fail(p)
    /\ UNCHANGED <<executions, rootfs, container>>

DeleteRootfs(p) ==
    /\ pc[p] = "deleteRootfs"
    /\ \/ RemoveAll(sid[p]) /\ Succeed(p)
       \/ "disk" \in Faults /\ UNCHANGED rootfs /\ Fail(p)
    /\ UNCHANGED <<stored, container>>

-----------------------------------------------------------------------------
(***************************************************************************)
(* Start-up.  Reconcile takes no lock: it ends before the server listens.  *)
(* It visits the active rows one by one and gives up at the first error,   *)
(* after which main serves all the same.                                   *)
(***************************************************************************)

Boot ==
    /\ pc[Main] = "down"
    /\ MainGoto("list", {})
    /\ UNCHANGED <<stored, rootfs, container>>

ReconcileList ==
    /\ pc[Main] = "list"
    /\ \/ MainGoto("reconcile", {s \in Session : row[s].status = "active"})
       \/ StoreFails /\ MainGoto("serving", {})
    /\ UNCHANGED <<stored, rootfs, container>>

Visit(s, step, rec) ==
    /\ pc' = [pc EXCEPT ![Main] = step]
    /\ sid' = [sid EXCEPT ![Main] = s]
    /\ session' = [session EXCEPT ![Main] = rec]
    /\ todo' = todo \ {s}
    /\ UNCHANGED <<gone, locks>>

\* Mutant: a session whose container is missing ends the loop.
ReconcileInspectGivesUp(s) ==
    /\ pc[Main] = "reconcile" /\ s \in todo
    /\ IF Running(s) THEN MainGoto("reconcile", todo \ {s}) ELSE MainGoto("serving", {})
    /\ UNCHANGED <<stored, rootfs, container>>

\* The container found under the session's name decides.  Any order of the
\* sessions stands for the newest-first order of ListSessions.
ReconcileInspect(s) ==
    /\ pc[Main] = "reconcile" /\ s \in todo
    /\ \/ CommandFails(Main) /\ MainGoto("serving", {})
       \/ ~Running(s) /\ Visit(s, "markStopped", row[s])
       \/ Running(s) /\ container[s].cid = row[s].cid /\ MainGoto("reconcile", todo \ {s})
       \/ /\ Running(s) /\ container[s].cid # row[s].cid
          /\ Visit(s, "saveId", [row[s] EXCEPT !.cid = container[s].cid])
    /\ UNCHANGED <<stored, rootfs, container>>

ReconcileSaveId ==
    /\ pc[Main] = "saveId"
    /\ \/ row' = [row EXCEPT ![sid[Main]] = session[Main]] /\ Succeed(Main)
       \/ StoreFails /\ UNCHANGED row /\ Fail(Main)
    /\ UNCHANGED <<executions, rootfs, container>>

\* The server starts to listen.
ReconcileDone ==
    /\ pc[Main] = "reconcile" /\ todo = {}
    /\ MainGoto("serving", {})
    /\ UNCHANGED <<stored, rootfs, container>>

-----------------------------------------------------------------------------
(***************************************************************************)
(* What happens to the hub.                                                *)
(***************************************************************************)

ClientGone(r) ==
    /\ "client" \in Faults
    /\ pc[r] # "idle" /\ r \notin gone
    /\ gone' = gone \cup {r}
    /\ UNCHANGED <<pc, sid, session, locks, todo, stored, rootfs, container>>

\* Memory is lost; the database, the directories and the containers stay.
Crash ==
    /\ "crash" \in Faults
    /\ pc[Main] # "down"
    /\ pc' = [p \in Proc |-> IF p = Main THEN "down" ELSE "idle"]
    /\ sid' = [p \in Proc |-> NoSession]
    /\ session' = [p \in Proc |-> NoRow]
    /\ gone' = {} /\ locks' = {} /\ todo' = {}
    /\ UNCHANGED <<stored, rootfs, container>>

ContainerDies(s) ==
    /\ "die" \in Faults
    /\ Running(s)
    /\ SetContainer(s, Halted(container[s]))
    /\ UNCHANGED <<handlers, stored, rootfs>>

ContainerRemoved(s) ==
    /\ "remove" \in Faults
    /\ container[s].state # "none"
    /\ SetContainer(s, NoContainer)
    /\ UNCHANGED <<handlers, stored, rootfs>>

ContainerRestarted(s) ==
    /\ "restart" \in Faults
    /\ container[s].state = "exited"
    /\ SetContainer(s, Started(container[s]))
    /\ UNCHANGED <<handlers, stored, rootfs>>

ContainerReplaced(s) ==
    /\ "replace" \in Faults
    /\ container[s].state # "none"
    /\ \E id \in ContainerId :
          Fresh(id) /\ SetContainer(s, Started([NoContainer EXCEPT !.cid = id]))
    /\ UNCHANGED <<handlers, stored, rootfs>>

-----------------------------------------------------------------------------
CreateStep(r) ==
    \/ CreateGet(r) \/ CreateMkdir(r) \/ CreateMounts(r) \/ CreateRuntime(r)
    \/ CreateStart(r) \/ CreatePolicy(r) \/ CreateSave(r)
    \/ AbortStop(r) \/ AbortRemove(r) \/ AbortRootfs(r)

ExecStep(r) == ExecGet(r) \/ Exec(r) \/ ExecLog(r) \/ ExecInspect(r)

StopStep(r) == StopGet(r) \/ StopRun(r) \/ StopRemove(r)

\* The steps of a handler under way.
Step(r) == CreateStep(r) \/ ExecStep(r) \/ StopStep(r) \/ MarkStopped(r) \/ DeleteRootfs(r)

\* The steps of main up to serving.
MainStep ==
    \/ Boot \/ ReconcileList \/ ReconcileSaveId \/ ReconcileDone
    \/ MarkStopped(Main) \/ DeleteRootfs(Main)
    \/ \E s \in Session : ReconcileInspect(s)

Accept(r, s) == CreateBegin(r, s) \/ ExecBegin(r, s) \/ StopBegin(r, s)

External(s) ==
    ContainerDies(s) \/ ContainerRemoved(s) \/ ContainerRestarted(s) \/ ContainerReplaced(s)

Next ==
    \/ MainStep
    \/ \E r \in Request : Step(r) \/ ClientGone(r)
    \/ \E r \in Request, s \in Session : Accept(r, s)
    \/ \E s \in Session : External(s)
    \/ Crash

Spec == Init /\ [][Next]_vars

\* A goroutine that can run does; engine commands and store calls return.
\* Clients owe nothing, and the outside world is not obliged to break anything.
Fairness == WF_vars(MainStep) /\ \A r \in Request : WF_vars(Step(r))

FairSpec == Spec /\ Fairness

-----------------------------------------------------------------------------
(***************************************************************************)
(* Properties.                                                             *)
(***************************************************************************)

\* A goroutine is inside a handler of a session exactly while the session's
\* name is locked, and no two are inside handlers of the same session
\* (namedLock, and the deferred release of every return path).
LockDiscipline ==
    /\ \A r \in Request : pc[r] # "idle" => sid[r] \in locks
    /\ \A s \in locks : \E r \in Request : pc[r] # "idle" /\ sid[r] = s
    /\ \A q, r \in Request : q # r /\ pc[q] # "idle" => sid[q] # sid[r]

\* The rootfs a session records is on disk while the session is active, and
\* for good when stopped sessions keep theirs: no failed, conflicting or
\* repeated Create, and no restart, ever deletes the files of a session.
RowKeepsRootfs ==
    \A s \in Session :
        row[s].rootfs /\ (row[s].status = "active" \/ ~DeleteRootfsOnStop) => s \in rootfs

\* Nobody starts or replaces a container outside the hub.
Undisturbed == Faults \cap {"restart", "replace"} = {}

\* The container that the row of a stopped session names does not run: a stop, and
\* an Execute or Reconcile that finds the session unavailable, are about the
\* container of the row they write, also when another takes its name between
\* their calls, which Stop leaves running; unless somebody starts it again.
NamedContainerDown ==
    "restart" \notin Faults =>
        \A s \in Session :
            row[s].status = "stopped" => ~(Running(s) /\ container[s].cid = row[s].cid)

\* The container an active session with a network policy names never runs
\* without the policy's rules, whatever fails, unless it is restarted outside
\* the hub, which ends the namespace the rules were in, or replaced by one
\* without rules, which Reconcile adopts.
ActiveIsPoliced ==
    Undisturbed =>
        \A s \in Session :
            /\ row[s].status = "active" /\ row[s].policy
            /\ Running(s) /\ container[s].cid = row[s].cid
            => container[s].policed

\* "helper 镜像缺失或规则安装失败时，session 创建会失败并清理，不会降级为放行"
\* (README.md:510): a container created for a session with a policy runs
\* without its rules only while a Create of that session is still under way.
PolicyNeverDegrades ==
    \A s \in Session :
        Running(s) /\ container[s].policy /\ ~container[s].policed =>
            \E r \in Request : sid[r] = s /\ pc[r] \in CreatePcs

\* A Create that failed on an engine command leaves neither a container nor a
\* directory under its ID, so the ID can be used again.
FailedCreateLeavesNothing ==
    \A s \in Session :
        row[s].status = "absent" /\ s \notin locks =>
            container[s].state = "none" /\ s \notin rootfs

\* delete_rootfs_on_stop: "session 停止或被校正为 stopped 时是否删除 rootfs 目录"
\* (README.md:220): the directory of a stopped session is gone once the call
\* or the reconciliation that stopped it is over.
StoppedRootfsDeleted ==
    \A s \in Session :
        /\ DeleteRootfsOnStop
        /\ row[s].status = "stopped" /\ row[s].rootfs
        /\ \A p \in Proc : sid[p] # s
        => s \notin rootfs

\* When only the hub itself can fail, an active session no request is working
\* on has the running container its row names: Reconcile repairs whatever
\* handler the crash interrupted.
ServedSessionsRun ==
    \A s \in Session :
        pc[Main] = "serving" /\ row[s].status = "active" /\ s \notin locks =>
            Running(s) /\ container[s].cid = row[s].cid

\* What a session was created with is never rewritten, a stopped session stays
\* stopped and no row disappears (the snapshot semantics of
\* TestEnvironmentUpdateDoesNotRewriteExistingSessionSnapshot).
SnapshotImmutable ==
    [][\A s \in Session :
          row[s].status # "absent" =>
              /\ row'[s].policy = row[s].policy /\ row'[s].rootfs = row[s].rootfs
              /\ row'[s].status \in {row[s].status, "stopped"}]_vars

\* The execution log of a session is closed with the session: no Execute
\* appends to it once a Stop has marked the row stopped.
ExecutionLogClosed ==
    [][\A s \in executions' \ executions : row[s].status = "active"]_vars

\* A locked session is eventually free again, whatever fails in its handler.
LocksReleased == \A s \in Session : s \in locks ~> s \notin locks

\* A start-up that is not interrupted closes every active session whose
\* container is no longer running, unless somebody starts the container again.
ReconcileCloses ==
    \A s \in Session :
        pc[Main] = "list" /\ row[s].status = "active" /\ ~Running(s)
            ~> row[s].status = "stopped" \/ Running(s) \/ pc[Main] = "down"

\* The handlers, with every crash and failure, implement the lifecycle a
\* caller may rely on.
Lifecycle == INSTANCE SessionLifecycle WITH
    phase <- [s \in Session |-> row[s].status],
    owner <- [s \in Session |-> row[s].rootfs],
    workspace <- rootfs

ImplementsLifecycle == Lifecycle!Spec

-----------------------------------------------------------------------------
(***************************************************************************)
(* The inductive invariant behind LockDiscipline, RowKeepsRootfs and       *)
(* ImplementsLifecycle.                                                    *)
(***************************************************************************)

\* No request is under way before main serves.
MainAlone == pc[Main] # "serving" => \A r \in Request : pc[r] = "idle"

\* The sessions the reconcile loop has still to visit are active ones.
TodoActive ==
    /\ pc[Main] \in {"down", "list", "serving"} => todo = {}
    /\ \A s \in todo : row[s].status = "active" /\ s # sid[Main]

\* A session that was never saved owns nothing; one that was keeps its files.
RowSound(s) ==
    /\ row[s].status = "absent" => ~row[s].rootfs
    /\ row[s].rootfs /\ (row[s].status = "active" \/ ~DeleteRootfsOnStop) => s \in rootfs

SameSession(a, b) == a.status = b.status /\ a.rootfs = b.rootfs /\ a.policy = b.policy

\* What a goroutine may rely on between two calls, because it has the lock or
\* because main is alone: the row it read is still the row in the table, and
\* the directory it made is still there.
LocalSound(p) ==
    /\ pc[p] \in CreatePcs => row[sid[p]].status = "absent"
    /\ pc[p] \in {"createMounts", "createRuntime", "createStart", "createPolicy", "createSave"}
          => (session[p].rootfs <=> sid[p] \in rootfs)
    /\ pc[p] \in {"exec", "execLog", "execInspect", "stopRun", "stopRemove", "markStopped", "saveId"}
          => row[sid[p]].status = "active" /\ SameSession(session[p], row[sid[p]])
    /\ pc[p] = "deleteRootfs"
          => DeleteRootfsOnStop /\ row[sid[p]].status = "stopped" /\ row[sid[p]].rootfs

\* The stored state and every goroutine's view of it agree, in every step of
\* every interleaving.
ServiceInvariant ==
    /\ LockDiscipline /\ MainAlone /\ TodoActive
    /\ \A s \in Session : RowSound(s)
    /\ \A p \in Proc : LocalSound(p)

-----------------------------------------------------------------------------
(***************************************************************************)
(* Its counterpart for the engine, behind ActiveIsPoliced.                 *)
(***************************************************************************)

\* The container of a saved session is the one its row names; it is not running
\* once the session is stopped, and runs with its rules while it is active.
ContainerSound(s) ==
    /\ row[s].status # "absent" /\ container[s].state # "none"
          => container[s].cid = row[s].cid
    /\ row[s].status = "stopped" => ~Running(s)
    /\ row[s].status = "active" /\ row[s].policy /\ Running(s) => container[s].policed

\* What a goroutine may rely on between two engine commands: the container it
\* made has not changed hands, the rules it installed are there if anything
\* runs, and a container it found halted or halted itself stays so.
LocalContainer(p) ==
    /\ pc[p] \in {"createStart", "createPolicy", "createSave"} /\ container[sid[p]].state # "none"
          => container[sid[p]].cid = session[p].cid
    /\ pc[p] = "createSave" /\ session[p].policy /\ Running(sid[p]) => container[sid[p]].policed
    /\ pc[p] \in {"stopRemove", "markStopped"} => ~Running(sid[p])
    /\ pc[p] \in {"exec", "execLog", "execInspect", "stopRun", "stopRemove", "markStopped"}
          => session[p].cid = row[sid[p]].cid
    /\ pc[p] # "saveId"

\* The engine agrees with the stored rows and with what the goroutines know,
\* in every step of every interleaving, as long as only the hub starts containers.
ContainerInvariant ==
    Undisturbed =>
        /\ \A s \in Session : ContainerSound(s)
        /\ \A p \in Proc : LocalContainer(p)
=============================================================================
