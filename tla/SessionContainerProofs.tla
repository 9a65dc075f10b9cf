------------------------ MODULE SessionContainerProofs ------------------------
(***************************************************************************)
(* What holds of the engine's containers for every set of sessions and     *)
(* requests: first, for every failure of the hub, when nobody else starts  *)
(* or replaces a container; then what failures leave behind.  Like the     *)
(* stored state, a container is changed only by the one goroutine that is  *)
(* on its session, or from outside; so a step need only be looked at in    *)
(* its own session.                                                        *)
(***************************************************************************)
EXTENDS SessionServiceProofs

ContainersSound ==
    /\ \A s \in Session : ContainerSound(s)
    /\ \A p \in Proc : LocalContainer(p)

\* A step changes no container but its own session's.
TouchesContainer(s) == \A t \in Session \ {s} : container'[t] = container[t]

\* What replacing one container leaves alone, and what it leaves behind.
LEMMA SetContainerEffect ==
    ASSUME WorldTypeOK, NEW s \in Session, NEW c, SetContainer(s, c)
    PROVE  container'[s] = c /\ TouchesContainer(s)
BY DEF WorldTypeOK, SetContainer, TouchesContainer

\* Halting a container ends its run and its rules, and keeps its ID.
LEMMA HaltedFields ==
    ASSUME NEW c \in Container
    PROVE  /\ Halted(c).state # "running"
           /\ Halted(c).cid = c.cid
           /\ c.state # "none" <=> Halted(c).state # "none"
BY DEF Container, Halted

\* Starting a container keeps its ID.
LEMMA StartedFields ==
    ASSUME NEW c \in Container
    PROVE  Started(c).state = "running" /\ Started(c).cid = c.cid
BY DEF Container, Started

\* A step of a handler reaches only the container of its session.
LEMMA StepTouchesContainer ==
    ASSUME TypeOK, NEW r \in Request, Step(r)
    PROVE  TouchesContainer(sid[r])
<1>1. sid[r] \in Session
  BY StepShape DEF Busy
<1>2. UNCHANGED container \/ \E c : SetContainer(sid[r], c)
  <2>1. CASE CreateGet(r) \/ CreateMkdir(r) \/ CreateMounts(r) \/ CreateSave(r) \/ AbortRootfs(r)
             \/ ExecGet(r) \/ Exec(r) \/ ExecLog(r) \/ ExecInspect(r) \/ StopGet(r)
             \/ MarkStopped(r) \/ DeleteRootfs(r)
    BY <2>1 DEF CreateGet, CreateMkdir, CreateMounts, CreateSave, AbortRootfs, ExecGet, Exec,
                ExecLog, ExecInspect, StopGet, GetActive, MarkStopped, DeleteRootfs
  <2>2. CASE CreateRuntime(r)
    BY <2>2 DEF CreateRuntime
  <2>3. CASE CreateStart(r) \/ CreatePolicy(r) \/ AbortStop(r) \/ AbortRemove(r)
             \/ StopRun(r) \/ StopRemove(r)
    BY <2>3 DEF CreateStart, CreatePolicy, AbortStop, AbortRemove, StopRun, StopRemove
  <2>q. QED
    BY <2>1, <2>2, <2>3 DEF Step, CreateStep, ExecStep, StopStep
<1>q. QED
  BY <1>1, <1>2, SetContainerEffect DEF TypeOK, TouchesContainer

\* What a step keeps of its own view and its own session's container, it keeps
\* of all.
LEMMA ContainerFrame ==
    ASSUME Inv, ContainersSound, NEW p \in Proc, Busy(p), Moves(p),
           NEW s \in Session, s = sid[p], Touches(s), TouchesContainer(s),
           LocalContainer(p)', ContainerSound(s)'
    PROVE  ContainersSound'
<1>1. ASSUME NEW t \in Session PROVE ContainerSound(t)'
  BY <1>1 DEF Touches, TouchesContainer, ContainersSound, ContainerSound, Running
<1>2. ASSUME NEW q \in Proc, q # p PROVE LocalContainer(q)'
  <2>1. pc'[q] = pc[q] /\ sid'[q] = sid[q] /\ session'[q] = session[q]
    BY <1>2, OthersStay DEF Inv
  <2>2. CASE Busy(q)
    <3>1. row'[sid[q]] = row[sid[q]] /\ container'[sid[q]] = container[sid[q]]
      BY <1>2, <2>2, Exclusive DEF Touches, TouchesContainer, Busy
    <3>q. QED
      BY <2>1, <3>1 DEF ContainersSound, LocalContainer, Running
  <2>3. CASE ~Busy(q)
    <3>1. pc[q] \in Resting
      BY <2>3, BusyIsInside DEF Inv
    <3>q. QED
      BY <2>1, <3>1 DEF LocalContainer, Resting
  <2>q. QED
    BY <2>2, <2>3
<1>q. QED
  BY <1>1, <1>2 DEF ContainersSound, Proc

\* The shared calls keep the container they work on sound: the row they write
\* names the container the old row named.
LEMMA SharedOwnContainer ==
    ASSUME Inv, ContainersSound, NEW p \in Proc, MarkStopped(p) \/ DeleteRootfs(p),
           NEW s \in Session, s = sid[p]
    PROVE  LocalContainer(p)' /\ ContainerSound(s)'
<1> USE SessionServiceAssumption
    DEF Inv, TypeOK, HandlersTypeOK, WorldTypeOK, ContainersSound, ContainerSound, LocalContainer,
        Running, Proc, Goto, Continue, Succeed, Fail, Return, MainGoto, stored, Row
<1>1. Busy(p) /\ LocalContainer(p) /\ ContainerSound(s)
  BY SharedShape
<1>2. CASE MarkStopped(p)
  <2>1. /\ container' = container /\ ~Running(s)
        /\ session[p].cid = row[s].cid
        /\ row' \in {row, [row EXCEPT ![s] = [session[p] EXCEPT !.status = "stopped"]]}
    BY <1>1, <1>2 DEF MarkStopped
  <2>2. ContainerSound(s)'
    <3>1. row[s].status = "active"
      BY <1>2 DEF MarkStopped, ServiceInvariant, LocalSound
    <3>2. CASE row' = row
      BY <1>1, <2>1, <3>2
    <3>3. CASE row' = [row EXCEPT ![s] = [session[p] EXCEPT !.status = "stopped"]]
      <4>1. row'[s] = [session[p] EXCEPT !.status = "stopped"]
        BY <3>3
      <4>2. row'[s].status = "stopped" /\ row'[s].cid = session[p].cid
        BY <4>1
      <4>q. QED
        BY <1>1, <2>1, <3>1, <4>2
    <3>q. QED
      BY <2>1, <3>2, <3>3
  <2>3. pc'[p] \in {"deleteRootfs"} \cup Resting
    BY <1>1, <1>2 DEF MarkStopped, Resting
  <2>4. LocalContainer(p)'
    BY <2>3 DEF Resting
  <2>q. QED
    BY <2>2, <2>4
<1>3. CASE DeleteRootfs(p)
  BY <1>1, <1>3 DEF DeleteRootfs, RemoveAll, Busy
<1>q. QED
  BY <1>2, <1>3

\* Every step of a handler keeps its own view and its own container sound.
LEMMA StepOwnContainer ==
    ASSUME Inv, ContainersSound, NEW r \in Request, Step(r), NEW s \in Session, s = sid[r]
    PROVE  LocalContainer(r)' /\ ContainerSound(s)'
<1>a. Busy(r) /\ LocalSound(r) /\ LocalContainer(r) /\ ContainerSound(s)
  BY StepShape DEF Inv, ServiceInvariant, ContainersSound, Busy, Proc
<1>b. /\ r # Main /\ r \in Proc /\ container[s] \in Container
      /\ \A c : SetContainer(s, c) => container'[s] = c
  BY SetContainerEffect, SessionServiceAssumption DEF Inv, TypeOK, WorldTypeOK, Proc
<1> USE <1>a, <1>b
    DEF Inv, TypeOK, HandlersTypeOK, WorldTypeOK, LocalSound, LocalContainer, ContainerSound,
        Running, Present, Busy, CreatePcs, Goto, Continue, Return, RemoveAll, stored, Row
<1>1. CASE CreateGet(r) \/ CreateMkdir(r) \/ CreateMounts(r)
  BY <1>1 DEF CreateGet, CreateMkdir, CreateMounts
<1>2. CASE CreateRuntime(r)
  <2>1. UNCHANGED row /\ row[s].status = "absent"
    BY <1>2 DEF CreateRuntime
  <2>2. CASE Goto(r, "abortRootfs")
    BY <2>1, <2>2
  <2>3. ASSUME NEW id \in ContainerId,
               Continue(r, "createStart", [session[r] EXCEPT !.cid = id]),
               SetContainer(s, [cid |-> id, state |-> "created",
                                policy |-> session[r].policy, policed |-> FALSE])
        PROVE  LocalContainer(r)' /\ ContainerSound(s)'
    BY <2>1, <2>3
  <2>q. QED
    BY <1>2, <2>2, <2>3 DEF CreateRuntime
<1>3. CASE CreateStart(r)
  BY <1>3, StartedFields DEF CreateStart
<1>4. CASE CreatePolicy(r)
  BY <1>4 DEF CreatePolicy, Container
<1>5. CASE CreateSave(r)
  BY <1>5 DEF CreateSave
<1>6. CASE AbortStop(r) \/ AbortRemove(r) \/ AbortRootfs(r)
  BY <1>6 DEF AbortStop, AbortRemove, AbortRootfs
<1>7. CASE ExecGet(r) \/ StopGet(r)
  BY <1>7 DEF ExecGet, StopGet, GetActive
<1>8. CASE Exec(r) \/ ExecLog(r)
  BY <1>8 DEF Exec, ExecLog
<1>9. CASE ExecInspect(r)
  BY <1>9 DEF ExecInspect
<1>10. CASE StopRun(r)
  BY <1>10, HaltedFields DEF StopRun
<1>11. CASE StopRemove(r)
  BY <1>11 DEF StopRemove, NoContainer
<1>12. CASE MarkStopped(r) \/ DeleteRootfs(r)
  BY <1>12, SharedOwnContainer
<1>q. QED
  BY <1>1, <1>2, <1>3, <1>4, <1>5, <1>6, <1>7, <1>8, <1>9, <1>10, <1>11, <1>12
     DEF Step, CreateStep, ExecStep, StopStep

\* So does every step of main: it starts nothing, and never finds a container
\* that runs under an ID its row does not name.
LEMMA MainStepContainers ==
    ASSUME Inv, ContainersSound, MainStep
    PROVE  ContainersSound'
<1>1. CASE MarkStopped(Main) \/ DeleteRootfs(Main)
  <2>1. Busy(Main) /\ Moves(Main) /\ Touches(sid[Main])
    BY <1>1, SharedShape DEF Inv, Proc
  <2>2. PICK s \in Session : s = sid[Main]
    BY <2>1 DEF Busy
  <2>3. TouchesContainer(s)
    BY <1>1 DEF MarkStopped, DeleteRootfs, TouchesContainer
  <2>q. QED
    BY <1>1, <2>1, <2>2, <2>3, SharedOwnContainer, ContainerFrame DEF Proc
<1>2. ~ReconcileSaveId
  BY DEF ReconcileSaveId, ContainersSound, LocalContainer, Proc
<1>3. CASE Boot \/ ReconcileList \/ ReconcileDone \/ \E s \in Session : ReconcileInspect(s)
  <2>1. UNCHANGED <<row, container>>
    BY <1>3 DEF Boot, ReconcileList, ReconcileDone, ReconcileInspect, stored
  <2>2. \A r \in Request : pc'[r] = pc[r] /\ sid'[r] = sid[r] /\ session'[r] = session[r]
    BY <1>3, SessionServiceAssumption
       DEF Boot, ReconcileList, ReconcileDone, ReconcileInspect, MainGoto, Visit,
           Inv, TypeOK, HandlersTypeOK, Proc
  <2>3. \A s \in Session : ContainerSound(s)'
    BY <2>1 DEF ContainersSound, ContainerSound, Running
  <2>4. \A r \in Request : LocalContainer(r)'
    BY <2>1, <2>2 DEF ContainersSound, LocalContainer, Running, Proc
  <2>5. LocalContainer(Main)'
    <3>1. CASE Boot \/ ReconcileList \/ ReconcileDone
      BY <3>1 DEF Boot, ReconcileList, ReconcileDone, MainGoto, LocalContainer,
                  Inv, TypeOK, HandlersTypeOK, Proc
    <3>2. ASSUME NEW s \in Session, ReconcileInspect(s) PROVE LocalContainer(Main)'
      <4>1. Running(s) => container[s].cid = row[s].cid
        BY <3>2 DEF ReconcileInspect, ContainersSound, ContainerSound, Running,
                    Inv, ServiceInvariant, TodoActive
      <4>2. CASE MainGoto("reconcile", todo \ {s}) \/ MainGoto("serving", {})
        BY <4>2 DEF MainGoto, LocalContainer, Inv, TypeOK, HandlersTypeOK, Proc
      <4>3. CASE ~Running(s) /\ Visit(s, "markStopped", row[s])
        BY <2>1, <4>3 DEF Visit, LocalContainer, Running, Inv, TypeOK, HandlersTypeOK, Proc
      <4>q. QED
        BY <3>2, <4>1, <4>2, <4>3 DEF ReconcileInspect
    <3>q. QED
      BY <1>3, <3>1, <3>2
  <2>q. QED
    BY <2>3, <2>4, <2>5 DEF ContainersSound, Proc
<1>q. QED
  BY <1>1, <1>2, <1>3 DEF MainStep

\* A container that dies or disappears disturbs nothing either.
LEMMA ExternalContainers ==
    ASSUME Inv, Undisturbed, ContainersSound, NEW s \in Session, External(s)
    PROVE  ContainersSound'
<1>1. UNCHANGED <<pc, sid, session, row>>
  BY DEF External, ContainerDies, ContainerRemoved, ContainerRestarted, ContainerReplaced,
         handlers, stored
<1>a. container[s] \in Container
  BY DEF Inv, TypeOK, WorldTypeOK
<1>b. \/ SetContainer(s, Halted(container[s]))
      \/ SetContainer(s, NoContainer)
  BY DEF External, ContainerDies, ContainerRemoved, ContainerRestarted, ContainerReplaced,
         Undisturbed
<1>c. \A c \in {Halted(container[s]), NoContainer} :
         /\ c.state # "running"
         /\ c.state # "none" => container[s].state # "none" /\ c.cid = container[s].cid
  BY <1>a, HaltedFields DEF NoContainer
<1>2. PICK c : /\ SetContainer(s, c) /\ c.state # "running"
               /\ c.state # "none" => container[s].state # "none" /\ c.cid = container[s].cid
  BY <1>b, <1>c
<1>3. container'[s] = c /\ TouchesContainer(s)
  BY <1>2, SetContainerEffect DEF Inv, TypeOK
<1>4. ASSUME NEW t \in Session PROVE ContainerSound(t)'
  BY <1>1, <1>2, <1>3 DEF ContainersSound, ContainerSound, Running, TouchesContainer
<1>5. ASSUME NEW q \in Proc PROVE LocalContainer(q)'
  <2>1. CASE sid[q] \in Session
    BY <1>1, <1>2, <1>3, <2>1 DEF ContainersSound, LocalContainer, Running, TouchesContainer
  <2>2. CASE sid[q] \notin Session
    <3>1. pc[q] \in Resting
      BY <2>2 DEF Inv, TypeOK, HandlersTypeOK
    <3>q. QED
      BY <1>1, <3>1 DEF LocalContainer, Resting
  <2>q. QED
    BY <2>1, <2>2
<1>q. QED
  BY <1>4, <1>5 DEF ContainersSound

\* While only the hub starts containers, the engine agrees with the table and
\* with what every goroutine knows of it.
THEOREM ContainerInvariantHolds == Spec => []ContainerInvariant
<1>1. Init => ContainerInvariant
  BY SessionServiceAssumption
     DEF Init, ContainerInvariant, ContainerSound, LocalContainer, Running, NoRow, NoContainer, Proc
<1>2. TypeOK /\ ServiceInvariant /\ ContainerInvariant /\ [Next]_vars => ContainerInvariant'
  <2> SUFFICES ASSUME Inv, Undisturbed, ContainersSound, [Next]_vars PROVE ContainersSound'
    BY DEF Inv, ContainerInvariant, ContainersSound, Undisturbed
  <2>1. CASE MainStep
    BY <2>1, MainStepContainers
  <2>2. ASSUME NEW r \in Request, Step(r) PROVE ContainersSound'
    <3>1. Busy(r) /\ Moves(r) /\ Touches(sid[r])
      BY <2>2, StepShape DEF Inv
    <3>2. PICK s \in Session : s = sid[r]
      BY <3>1 DEF Busy
    <3>3. TouchesContainer(s)
      BY <2>2, <3>2, StepTouchesContainer DEF Inv
    <3>4. LocalContainer(r)' /\ ContainerSound(s)'
      BY <2>2, <3>2, StepOwnContainer
    <3>q. QED
      BY <3>1, <3>2, <3>3, <3>4, ContainerFrame DEF Proc
  <2>3. ASSUME NEW r \in Request, ClientGone(r) PROVE ContainersSound'
    BY <2>3 DEF ClientGone, stored, ContainersSound, ContainerSound, LocalContainer, Running
  <2>4. ASSUME NEW r \in Request, NEW s \in Session, Accept(r, s) PROVE ContainersSound'
    <3>1. \E step \in {"createGet", "execGet", "stopGet"}, rec \in Row : Begin(r, s, step, rec)
      BY <2>4 DEF Accept, CreateBegin, ExecBegin, StopBegin, EffectivePolicy, Row, NoRow
    <3>2. UNCHANGED <<row, container>> /\ pc'[r] \in {"createGet", "execGet", "stopGet"}
      BY <3>1 DEF Begin, stored, Inv, TypeOK, HandlersTypeOK, Proc
    <3>3. \A q \in Proc : q # r => pc'[q] = pc[q] /\ sid'[q] = sid[q] /\ session'[q] = session[q]
      BY <3>1 DEF Begin, Inv, TypeOK, HandlersTypeOK
    <3>4. LocalContainer(r)'
      BY <3>2 DEF LocalContainer
    <3>5. \A q \in Proc : q # r => LocalContainer(q)'
      BY <3>2, <3>3 DEF ContainersSound, LocalContainer, Running
    <3>6. \A t \in Session : ContainerSound(t)'
      BY <3>2 DEF ContainersSound, ContainerSound, Running
    <3>q. QED
      BY <3>4, <3>5, <3>6 DEF ContainersSound
  <2>5. ASSUME NEW s \in Session, External(s) PROVE ContainersSound'
    BY <2>5, ExternalContainers
  <2>6. CASE Crash
    BY <2>6, SessionServiceAssumption
       DEF Crash, stored, ContainersSound, ContainerSound, LocalContainer, Running, Proc
  <2>7. CASE UNCHANGED vars
    BY <2>7 DEF vars, ContainersSound, ContainerSound, LocalContainer, Running
  <2>q. QED
    BY <2>1, <2>2, <2>3, <2>4, <2>5, <2>6, <2>7 DEF Next
<1>q. QED
  BY <1>1, <1>2, TypeCorrect, ServiceInvariantHolds, PTL DEF Spec

\* An active session with a network policy runs with its rules or not at all.
THEOREM PolicyInForce == Spec => []ActiveIsPoliced
<1>1. ContainerInvariant => ActiveIsPoliced
  BY DEF ContainerInvariant, ContainerSound, ActiveIsPoliced
<1>q. QED
  BY <1>1, ContainerInvariantHolds, PTL

-----------------------------------------------------------------------------
(***************************************************************************)
(* A stopped session's own container stays down, whatever else takes its   *)
(* name: the argument holds for every failure but a container started      *)
(* again from outside.                                                     *)
(***************************************************************************)

\* The container s names in a record does not run.
NotRunningAs(s, rec) == ~(Running(s) /\ container[s].cid = rec.cid)

\* Where a session is about to be closed its container is down already.
LocalDown(p) == pc[p] \in {"stopRemove", "markStopped"} => NotRunningAs(sid[p], session[p])

RowDown(s) == row[s].status = "stopped" => NotRunningAs(s, row[s])

AllDown == (\A s \in Session : RowDown(s)) /\ (\A p \in Proc : LocalDown(p))

\* A step of one goroutine leaves the others and their sessions as they are.
LEMMA DownFrame ==
    ASSUME Inv, AllDown, NEW p \in Proc, Busy(p), Moves(p),
           NEW s \in Session, s = sid[p], Touches(s), TouchesContainer(s),
           LocalDown(p)', RowDown(s)'
    PROVE  AllDown'
<1>1. ASSUME NEW t \in Session PROVE RowDown(t)'
  BY <1>1 DEF Touches, TouchesContainer, AllDown, RowDown, NotRunningAs, Running
<1>2. ASSUME NEW q \in Proc, q # p PROVE LocalDown(q)'
  <2>1. pc'[q] = pc[q] /\ sid'[q] = sid[q] /\ session'[q] = session[q]
    BY <1>2, OthersStay DEF Inv
  <2>2. CASE Busy(q)
    <3>1. container'[sid[q]] = container[sid[q]]
      BY <1>2, <2>2, Exclusive DEF TouchesContainer, Busy
    <3>q. QED
      BY <2>1, <3>1 DEF AllDown, LocalDown, NotRunningAs, Running
  <2>3. CASE ~Busy(q)
    <3>1. pc[q] \in Resting
      BY <2>3, BusyIsInside DEF Inv
    <3>q. QED
      BY <2>1, <3>1 DEF LocalDown, Resting
  <2>q. QED
    BY <2>2, <2>3
<1>q. QED
  BY <1>1, <1>2 DEF AllDown, Proc

\* Closing a session writes the record whose container was found down.
LEMMA SharedDown ==
    ASSUME Inv, AllDown, NEW p \in Proc, MarkStopped(p) \/ DeleteRootfs(p),
           NEW s \in Session, s = sid[p]
    PROVE  LocalDown(p)' /\ RowDown(s)'
<1> USE SessionServiceAssumption
    DEF Inv, TypeOK, HandlersTypeOK, WorldTypeOK, AllDown, RowDown, LocalDown, NotRunningAs,
        Running, Proc, Goto, Continue, Succeed, Fail, Return, MainGoto, stored, Row
<1>1. Busy(p) /\ LocalDown(p) /\ RowDown(s)
  BY SharedShape
<1>2. CASE MarkStopped(p)
  <2>1. container' = container /\ NotRunningAs(s, session[p])
    BY <1>1, <1>2 DEF MarkStopped
  <2>2. row' \in {row, [row EXCEPT ![s] = [session[p] EXCEPT !.status = "stopped"]]}
    BY <1>2 DEF MarkStopped
  <2>3. row'[s] = row[s] \/ row'[s].cid = session[p].cid
    BY <1>1, <2>2
  <2>4. pc'[p] \in {"deleteRootfs"} \cup Resting
    BY <1>1, <1>2 DEF MarkStopped, Resting
  <2>q. QED
    BY <1>1, <2>1, <2>3, <2>4 DEF Resting
<1>3. CASE DeleteRootfs(p)
  BY <1>1, <1>3 DEF DeleteRootfs, RemoveAll, Busy
<1>q. QED
  BY <1>2, <1>3

\* A handler that starts a container works on a session without a row, and one
\* that goes on to close a session has its container halted, or not found.
LEMMA StepDown ==
    ASSUME Inv, AllDown, NEW r \in Request, Step(r), NEW s \in Session, s = sid[r]
    PROVE  LocalDown(r)' /\ RowDown(s)'
<1>a. Busy(r) /\ LocalSound(r) /\ LocalDown(r) /\ RowDown(s)
  BY StepShape DEF Inv, ServiceInvariant, AllDown, Busy, Proc
<1>b. /\ r # Main /\ r \in Proc /\ container[s] \in Container
      /\ \A c : SetContainer(s, c) => container'[s] = c
  BY SetContainerEffect, SessionServiceAssumption DEF Inv, TypeOK, WorldTypeOK, Proc
<1> USE <1>a, <1>b
    DEF Inv, TypeOK, HandlersTypeOK, WorldTypeOK, LocalSound, LocalDown, RowDown, NotRunningAs,
        Running, Present, Busy, CreatePcs, Goto, Continue, Return, RemoveAll, stored, Row
<1>1. CASE \/ CreateGet(r) \/ CreateMkdir(r) \/ CreateMounts(r) \/ CreateRuntime(r)
           \/ CreateStart(r) \/ CreatePolicy(r) \/ AbortStop(r) \/ AbortRemove(r) \/ AbortRootfs(r)
  <2>1. row' = row
    BY <1>1 DEF CreateGet, CreateMkdir, CreateMounts, CreateRuntime, CreateStart, CreatePolicy,
                AbortStop, AbortRemove, AbortRootfs
  <2>2. RowDown(s)'
    BY <1>1, <2>1 DEF CreateGet, CreateMkdir, CreateMounts, CreateRuntime, CreateStart, CreatePolicy,
                AbortStop, AbortRemove, AbortRootfs
  <2>3. pc'[r] \in CreatePcs \cup {"idle"}
    BY <1>1 DEF CreateGet, CreateMkdir, CreateMounts, CreateRuntime, CreateStart, CreatePolicy,
                AbortStop, AbortRemove, AbortRootfs
  <2>q. QED
    BY <2>2, <2>3
<1>2. CASE CreateSave(r)
  BY <1>2 DEF CreateSave
<1>3. CASE ExecGet(r) \/ StopGet(r) \/ Exec(r) \/ ExecLog(r)
  BY <1>3 DEF ExecGet, StopGet, GetActive, Exec, ExecLog
<1>4. CASE ExecInspect(r)
  BY <1>4 DEF ExecInspect
<1>5. CASE StopRun(r)
  BY <1>5, HaltedFields DEF StopRun
<1>6. CASE StopRemove(r)
  BY <1>6 DEF StopRemove, NoContainer
<1>7. CASE MarkStopped(r) \/ DeleteRootfs(r)
  BY <1>7, SharedDown
<1>q. QED
  BY <1>1, <1>2, <1>3, <1>4, <1>5, <1>6, <1>7 DEF Step, CreateStep, ExecStep, StopStep

\* The reconcile loop closes what it found down, and only gives an active
\* session the ID of another container.
LEMMA MainDown ==
    ASSUME Inv, AllDown, MainStep
    PROVE  AllDown'
<1>a. Main \in Proc
  BY DEF Proc
<1>1. CASE MarkStopped(Main) \/ DeleteRootfs(Main)
  <2>1. Busy(Main) /\ Moves(Main) /\ Touches(sid[Main])
    BY <1>1, SharedShape DEF Inv, Proc
  <2>2. PICK s \in Session : s = sid[Main]
    BY <2>1 DEF Busy
  <2>3. TouchesContainer(s)
    BY <1>1 DEF MarkStopped, DeleteRootfs, TouchesContainer
  <2>q. QED
    BY <1>1, <2>1, <2>2, <2>3, SharedDown, DownFrame DEF Proc
<1>2. CASE \/ Boot \/ ReconcileList \/ ReconcileDone \/ ReconcileSaveId
           \/ \E s \in Session : ReconcileInspect(s)
  <2>1. container' = container
    BY <1>2 DEF Boot, ReconcileList, ReconcileDone, ReconcileSaveId, ReconcileInspect, stored
  <2>2. \A r \in Request : pc'[r] = pc[r] /\ sid'[r] = sid[r] /\ session'[r] = session[r]
    BY <1>2, SessionServiceAssumption
       DEF Boot, ReconcileList, ReconcileDone, ReconcileSaveId, ReconcileInspect, MainGoto, Visit,
           Succeed, Fail, Inv, TypeOK, HandlersTypeOK, Proc
  <2>3. ASSUME NEW s \in Session PROVE RowDown(s)'
    <3>1. row'[s] = row[s] \/ (row'[s] = session[Main] /\ session[Main].status = "active")
      BY <1>2, SessionServiceAssumption
         DEF Boot, ReconcileList, ReconcileDone, ReconcileSaveId, ReconcileInspect, stored,
             Inv, TypeOK, WorldTypeOK, ServiceInvariant, LocalSound, SameSession, Proc
    <3>q. QED
      BY <2>1, <3>1 DEF AllDown, RowDown, NotRunningAs, Running
  <2>4. \A r \in Request : LocalDown(r)'
    BY <2>1, <2>2 DEF AllDown, LocalDown, NotRunningAs, Running, Proc
  <2>5. LocalDown(Main)'
    <3>1. CASE ~(\E s \in Session : ReconcileInspect(s))
      <4>1. pc'[Main] \in Resting
        BY <1>2, <1>a, <3>1 DEF Boot, ReconcileList, ReconcileDone, ReconcileSaveId, MainGoto,
                         Succeed, Fail, Resting, Inv, TypeOK, HandlersTypeOK
      <4>q. QED
        BY <4>1 DEF LocalDown, Resting
    <3>2. ASSUME NEW s \in Session, ReconcileInspect(s) PROVE LocalDown(Main)'
      <4>1. CASE ~Running(s) /\ Visit(s, "markStopped", row[s])
        BY <2>1, <4>1, <1>a DEF Visit, LocalDown, NotRunningAs, Running, Inv, TypeOK, HandlersTypeOK
      <4>2. CASE \/ MainGoto("reconcile", todo \ {s}) \/ MainGoto("serving", {})
                 \/ Visit(s, "saveId", [row[s] EXCEPT !.cid = container[s].cid])
        BY <4>2, <1>a DEF MainGoto, Visit, LocalDown, Inv, TypeOK, HandlersTypeOK
      <4>q. QED
        BY <3>2, <4>1, <4>2 DEF ReconcileInspect
    <3>q. QED
      BY <3>1, <3>2
  <2>q. QED
    BY <2>3, <2>4, <2>5 DEF AllDown, Proc
<1>q. QED
  BY <1>1, <1>2 DEF MainStep

\* A container that takes another's name has an ID nobody holds.
LEMMA ExternalDown ==
    ASSUME Inv, "restart" \notin Faults, AllDown, NEW s \in Session, External(s)
    PROVE  AllDown'
<1>1. UNCHANGED <<pc, sid, session, row>>
  BY DEF External, ContainerDies, ContainerRemoved, ContainerRestarted, ContainerReplaced,
         handlers, stored
<1>2. PICK c : /\ SetContainer(s, c)
               /\ c.state = "running" => Fresh(c.cid)
  <2>1. container[s] \in Container
    BY DEF Inv, TypeOK, WorldTypeOK
  <2>2. Halted(container[s]).state # "running" /\ NoContainer.state # "running"
    BY <2>1, HaltedFields DEF NoContainer
  <2>3. \A id : Started([NoContainer EXCEPT !.cid = id]).cid = id
    BY DEF Started, NoContainer
  <2>4. CASE ContainerDies(s) \/ ContainerRemoved(s)
    BY <2>2, <2>4 DEF ContainerDies, ContainerRemoved
  <2>5. CASE ContainerReplaced(s)
    BY <2>3, <2>5 DEF ContainerReplaced
  <2>q. QED
    BY <2>4, <2>5 DEF External, ContainerRestarted
<1>3. container'[s] = c /\ TouchesContainer(s)
  BY <1>2, SetContainerEffect DEF Inv, TypeOK
<1>4. ASSUME NEW t \in Session PROVE RowDown(t)'
  BY <1>1, <1>2, <1>3 DEF AllDown, RowDown, NotRunningAs, Running, TouchesContainer, Fresh
<1>5. ASSUME NEW q \in Proc PROVE LocalDown(q)'
  <2>1. CASE sid[q] \in Session
    BY <1>1, <1>2, <1>3, <2>1 DEF AllDown, LocalDown, NotRunningAs, Running, TouchesContainer, Fresh
  <2>2. CASE sid[q] \notin Session
    <3>1. pc[q] \in Resting
      BY <2>2 DEF Inv, TypeOK, HandlersTypeOK
    <3>q. QED
      BY <1>1, <3>1 DEF LocalDown, Resting
  <2>q. QED
    BY <2>1, <2>2
<1>q. QED
  BY <1>4, <1>5 DEF AllDown

\* The container a stopped session's row names does not run, whatever replaces
\* it under its name, dies or fails, unless somebody starts it again.
THEOREM NamedContainerDownHolds == Spec => []NamedContainerDown
<1> DEFINE DownInvariant == "restart" \notin Faults => AllDown
<1>1. Init => DownInvariant
  BY SessionServiceAssumption
     DEF Init, AllDown, RowDown, LocalDown, NotRunningAs, NoRow, Proc
<1>2. TypeOK /\ ServiceInvariant /\ DownInvariant /\ [Next]_vars => DownInvariant'
  <2> SUFFICES ASSUME Inv, "restart" \notin Faults, AllDown, [Next]_vars PROVE AllDown'
    BY DEF Inv
  <2>1. CASE MainStep
    BY <2>1, MainDown
  <2>2. ASSUME NEW r \in Request, Step(r) PROVE AllDown'
    <3>1. Busy(r) /\ Moves(r) /\ Touches(sid[r])
      BY <2>2, StepShape DEF Inv
    <3>2. PICK s \in Session : s = sid[r]
      BY <3>1 DEF Busy
    <3>3. TouchesContainer(s)
      BY <2>2, <3>2, StepTouchesContainer DEF Inv
    <3>4. LocalDown(r)' /\ RowDown(s)'
      BY <2>2, <3>2, StepDown
    <3>q. QED
      BY <3>1, <3>2, <3>3, <3>4, DownFrame DEF Proc
  <2>3. ASSUME NEW r \in Request, ClientGone(r) PROVE AllDown'
    BY <2>3 DEF ClientGone, stored, AllDown, RowDown, LocalDown, NotRunningAs, Running
  <2>4. ASSUME NEW r \in Request, NEW s \in Session, Accept(r, s) PROVE AllDown'
    <3>1. \E step \in {"createGet", "execGet", "stopGet"}, rec \in Row : Begin(r, s, step, rec)
      BY <2>4 DEF Accept, CreateBegin, ExecBegin, StopBegin, EffectivePolicy, Row, NoRow
    <3>2. UNCHANGED <<row, container>> /\ pc'[r] \in {"createGet", "execGet", "stopGet"}
      BY <3>1 DEF Begin, stored, Inv, TypeOK, HandlersTypeOK, Proc
    <3>3. \A q \in Proc : q # r => pc'[q] = pc[q] /\ sid'[q] = sid[q] /\ session'[q] = session[q]
      BY <3>1 DEF Begin, Inv, TypeOK, HandlersTypeOK
    <3>4. LocalDown(r)'
      BY <3>2 DEF LocalDown
    <3>5. \A q \in Proc : q # r => LocalDown(q)'
      BY <3>2, <3>3 DEF AllDown, LocalDown, NotRunningAs, Running
    <3>6. \A t \in Session : RowDown(t)'
      BY <3>2 DEF AllDown, RowDown, NotRunningAs, Running
    <3>q. QED
      BY <3>4, <3>5, <3>6 DEF AllDown
  <2>5. ASSUME NEW s \in Session, External(s) PROVE AllDown'
    BY <2>5, ExternalDown
  <2>6. CASE Crash
    BY <2>6, SessionServiceAssumption
       DEF Crash, stored, AllDown, RowDown, LocalDown, NotRunningAs, Running, Proc
  <2>7. CASE UNCHANGED vars
    BY <2>7 DEF vars, AllDown, RowDown, LocalDown, NotRunningAs, Running
  <2>q. QED
    BY <2>1, <2>2, <2>3, <2>4, <2>5, <2>6, <2>7 DEF Next
<1>3. DownInvariant => NamedContainerDown
  BY DEF AllDown, RowDown, NotRunningAs, NamedContainerDown
<1>q. QED
  BY <1>1, <1>2, <1>3, TypeCorrect, ServiceInvariantHolds, PTL DEF Spec

-----------------------------------------------------------------------------
\* Nothing is appended to the execution log of a session that is not active:
\* the lock a command holds keeps its session open until the log is written.
THEOREM LogClosedWithSession == Spec => ExecutionLogClosed
<1>1. Inv /\ [Next]_vars => [\A s \in executions' \ executions : row[s].status = "active"]_vars
  <2> SUFFICES ASSUME Inv, [Next]_vars, NEW s \in executions' \ executions
               PROVE  row[s].status = "active"
    OBVIOUS
  <2>1. ASSUME NEW r \in Request, ExecLog(r) PROVE row[s].status = "active"
    BY <2>1 DEF ExecLog, Inv, ServiceInvariant, LocalSound, Proc
  <2>2. ASSUME NEW r \in Request, Step(r), ~ExecLog(r) PROVE executions' = executions
    <3>1. CASE CreateStep(r)
      BY <3>1 DEF CreateStep, CreateGet, CreateMkdir, CreateMounts, CreateRuntime, CreateStart,
                  CreatePolicy, CreateSave, AbortStop, AbortRemove, AbortRootfs, stored
    <3>2. CASE ExecStep(r) \/ StopStep(r)
      BY <2>2, <3>2 DEF ExecStep, ExecGet, Exec, ExecInspect, StopStep, StopGet, StopRun,
                        StopRemove, GetActive, stored
    <3>3. CASE MarkStopped(r) \/ DeleteRootfs(r)
      BY <3>3 DEF MarkStopped, DeleteRootfs, stored
    <3>q. QED
      BY <2>2, <3>1, <3>2, <3>3 DEF Step
  <2>3. CASE MainStep
    BY <2>3 DEF MainStep, Boot, ReconcileList, ReconcileSaveId, ReconcileDone, ReconcileInspect,
                MarkStopped, DeleteRootfs, stored
  <2>4. CASE \/ \E r \in Request : ClientGone(r)
             \/ \E r \in Request, t \in Session : Accept(r, t)
             \/ \E t \in Session : External(t)
             \/ Crash
             \/ UNCHANGED vars
    BY <2>4 DEF ClientGone, Accept, CreateBegin, ExecBegin, StopBegin, Begin, External,
                ContainerDies, ContainerRemoved, ContainerRestarted, ContainerReplaced,
                Crash, stored, vars
  <2>q. QED
    BY <2>1, <2>2, <2>3, <2>4 DEF Next
<1>q. QED
  BY <1>1, TypeCorrect, ServiceInvariantHolds, PTL DEF Spec, Inv, ExecutionLogClosed
-----------------------------------------------------------------------------
(***************************************************************************)
(* What holds as long as some failures do not happen: that a failed Create *)
(* leaves nothing and never a container without its rules, that a stopped  *)
(* session loses its directory, and that start-up repairs what a crash     *)
(* interrupted.  Each needs its own class of failures; the argument is the *)
(* same: what is unfinished (Pending) is in the hands of the one goroutine *)
(* on that session, which goes on until it is finished (Settled).          *)
(***************************************************************************)

\* No goroutine works on the session.
Idle(s) == \A p \in Proc : sid[p] # s

\* While no client leaves, contexts stay as they are.
ContextsLive == "client" \notin Faults => gone = {}

(***************************************************************************)
(* No container runs without the rules of its policy.                      *)
(***************************************************************************)

\* Whatever else fails, a clean-up that begins is carried out, and nobody
\* starts an old container again.
CleanUpWorks == Faults \cap {"client", "cleanup", "crash", "restart"} = {}

Unpoliced(s) == Running(s) /\ container[s].policy /\ ~container[s].policed

\* A container that was started for a policy and has no rules yet belongs to
\* the Create that will install them or take the container away.
PolicyPending(p) ==
    CleanUpWorks =>
        /\ pc[p] = "createStart" /\ Present(p) /\ container[sid[p]].policy => session[p].policy
        /\ sid[p] \in Session /\ Unpoliced(sid[p]) =>
              pc[p] \in {"createPolicy", "abortStop", "abortRemove"} /\ Present(p)

PolicySettled(s) == CleanUpWorks /\ Idle(s) => ~Unpoliced(s)

(***************************************************************************)
(* A failed Create leaves nothing.                                         *)
(***************************************************************************)

\* Only engine commands fail, and each that fails has done nothing; containers
\* exit, vanish and are started again.
OnlyCommandsFail == Faults \subseteq {"command", "die", "remove", "restart"}

\* What exists under an ID without a row is what the Create under way has made
\* and knows of.
CreatePending(p) ==
    OnlyCommandsFail /\ sid[p] \in Session /\ row[sid[p]].status = "absent" =>
        /\ container[sid[p]].state # "none" =>
              /\ pc[p] \in {"createStart", "createPolicy", "createSave", "abortStop", "abortRemove"}
              /\ Present(p)
        /\ sid[p] \in rootfs => session[p].rootfs /\ pc[p] \in CreatePcs \ {"createMkdir"}

CreateSettled(s) ==
    OnlyCommandsFail /\ Idle(s) /\ row[s].status = "absent" =>
        container[s].state = "none" /\ s \notin rootfs

(***************************************************************************)
(* The directory of a stopped session is deleted.                          *)
(***************************************************************************)

\* A deletion that begins succeeds.
DeletionsWork == Faults \cap {"crash", "disk"} = {}

\* The session is to lose its directory and has not yet.
Due(s) == DeleteRootfsOnStop /\ row[s].status = "stopped" /\ row[s].rootfs /\ s \in rootfs

DeletePending(p) == DeletionsWork /\ sid[p] \in Session /\ Due(sid[p]) => pc[p] = "deleteRootfs"

DeleteSettled(s) == DeletionsWork /\ Idle(s) => ~Due(s)

(***************************************************************************)
(* An active session has its container.                                    *)
(***************************************************************************)

\* The hub may die at any step, and the clean-up of a Create may fail.
OnlyHubFails == Faults \subseteq {"crash", "cleanup", "restart"}

Healthy(s) == Running(s) /\ container[s].cid = row[s].cid

\* Until a Stop halts it, the container of an active session runs; the one a
\* Create has started is the one it will save.
RunPending(p) ==
    OnlyHubFails =>
        /\ pc[p] \in {"createStart", "createPolicy", "createSave", "saveId"} => Present(p)
        /\ pc[p] \in {"createPolicy", "createSave", "saveId"} => Running(sid[p])
        /\ /\ pc[p] \in {"createGet", "execGet", "stopGet", "exec", "execLog", "execInspect", "stopRun"}
           /\ row[sid[p]].status = "active"
           => Healthy(sid[p])

\* Before main has looked at a session nothing is known of it.
Visited(s) == pc[Main] \notin {"down", "list"} /\ s \notin todo

RunSettled(s) == OnlyHubFails /\ Idle(s) /\ Visited(s) /\ row[s].status = "active" => Healthy(s)

-----------------------------------------------------------------------------
Pending(p) == PolicyPending(p) /\ CreatePending(p) /\ DeletePending(p) /\ RunPending(p)
Settled(s) == PolicySettled(s) /\ CreateSettled(s) /\ DeleteSettled(s) /\ RunSettled(s)

\* What is unfinished is in the hands of a goroutine that will finish it, and
\* what no goroutine works on is settled, each under the failures it bears.
FailureInvariant ==
    /\ ContextsLive
    /\ \A p \in Proc : Pending(p)
    /\ \A s \in Session : Settled(s)

FInv == Inv /\ FailureInvariant

-----------------------------------------------------------------------------
(***************************************************************************)
(* What a step leaves alone.                                               *)
(***************************************************************************)

\* What a step keeps of its own view and its own session, it keeps of all, if
\* it does not make main count another session as visited.
LEMMA FailureFrame ==
    ASSUME FInv, NEW p \in Proc, Busy(p), Moves(p), NEW s \in Session, s = sid[p],
           Touches(s), TouchesContainer(s), Pending(p)', Settled(s)',
           OnlyHubFails => \A t \in Session : Visited(t)' => Visited(t)
    PROVE  /\ \A q \in Proc : Pending(q)'
           /\ \A t \in Session : Settled(t)'
<1>1. ASSUME NEW t \in Session, t # s PROVE Settled(t)'
  <2>1. /\ row'[t] = row[t] /\ container'[t] = container[t]
        /\ t \in rootfs' <=> t \in rootfs
    BY <1>1 DEF Touches, TouchesContainer
  <2>2. Idle(t)' => Idle(t)
    <3>1. \A q \in Proc : q # p => sid'[q] = sid[q]
      BY OthersStay DEF FInv, Inv
    <3>q. QED
      BY <1>1, <3>1 DEF Idle
  <2>3. Settled(t)
    BY DEF FInv, FailureInvariant
  <2>q. QED
    BY <2>1, <2>2, <2>3
       DEF Settled, PolicySettled, CreateSettled, DeleteSettled, RunSettled, Unpoliced, Due,
           Healthy, Running, OnlyHubFails, OnlyCommandsFail, CleanUpWorks, DeletionsWork
<1>2. ASSUME NEW q \in Proc, q # p PROVE Pending(q)'
  <2>1. pc'[q] = pc[q] /\ sid'[q] = sid[q] /\ session'[q] = session[q]
    BY <1>2, OthersStay DEF FInv, Inv
  <2>2. Pending(q)
    BY DEF FInv, FailureInvariant
  <2> USE DEF Pending, PolicyPending, CreatePending, DeletePending, RunPending, Present, Running
  <2>3. CASE Busy(q)
    <3>1. /\ row'[sid[q]] = row[sid[q]] /\ container'[sid[q]] = container[sid[q]]
          /\ sid[q] \in rootfs' <=> sid[q] \in rootfs
      BY <1>2, <2>3, Exclusive DEF FInv, Touches, TouchesContainer, Busy
    <3>q. QED
      BY <2>1, <2>2, <3>1 DEF Unpoliced, Due, Healthy
  <2>4. CASE ~Busy(q)
    <3>1. pc[q] \in Resting
      BY <2>4, BusyIsInside DEF FInv, Inv
    <3>2. sid[q] \notin Session
      BY <3>1, SessionServiceAssumption DEF FInv, Inv, TypeOK, HandlersTypeOK
    <3>q. QED
      BY <2>1, <3>1, <3>2 DEF Resting
  <2>q. QED
    BY <2>3, <2>4
<1>q. QED
  BY <1>1, <1>2

-----------------------------------------------------------------------------
(***************************************************************************)
(* Each part is kept by every step of a handler in its own session.        *)
(***************************************************************************)

\* What every part relies on in a step of r in its session s: types, the view
\* r has of the stored state, and that r is on s until it leaves.
OwnStep(r, s) ==
    /\ r # Main /\ r \in Proc /\ s = sid[r] /\ s \in Session
    /\ container[s] \in Container /\ session[r] \in Row /\ row \in [Session -> Row]
    /\ \A c : SetContainer(s, c) => container'[s] = c
    /\ \A step, rec : Continue(r, step, rec) => pc'[r] = step /\ sid'[r] = s /\ session'[r] = rec
    /\ Return(r) => pc'[r] = "idle" /\ sid'[r] = NoSession
    /\ LocalSound(r) /\ RowSound(s) /\ Pending(r)
    /\ Idle(s)' => sid'[r] # s
    /\ "client" \notin Faults => r \notin gone

\* A step of a request is such a step, for the session it is about.
LEMMA OwnFacts ==
    ASSUME FInv, NEW r \in Request, Step(r), NEW s \in Session, s = sid[r]
    PROVE  OwnStep(r, s)
<1>1. TypeOK /\ ServiceInvariant /\ FailureInvariant
  BY DEF FInv, Inv
<1>2. r # Main /\ r \in Proc /\ Busy(r)
  BY <1>1, StepShape, SessionServiceAssumption DEF Proc
<1>3. /\ container[s] \in Container /\ session[r] \in Row
      /\ row \in [Session -> Row]
  BY <1>1, <1>2 DEF TypeOK, HandlersTypeOK, WorldTypeOK
<1>4. \A c : SetContainer(s, c) => container'[s] = c
  BY <1>1, SetContainerEffect DEF TypeOK
<1>5. LocalSound(r) /\ RowSound(s)
  BY <1>1, <1>2 DEF ServiceInvariant
<1>6. Pending(r) /\ ("client" \notin Faults => r \notin gone)
  BY <1>1, <1>2 DEF FailureInvariant, ContextsLive
<1>7. Idle(s)' => sid'[r] # s
  BY <1>2 DEF Idle
<1>8. /\ \A step, rec : Continue(r, step, rec) => pc'[r] = step /\ sid'[r] = s /\ session'[r] = rec
      /\ Return(r) => pc'[r] = "idle" /\ sid'[r] = NoSession
  BY <1>1, <1>2 DEF TypeOK, HandlersTypeOK, Continue, Return
<1>q. QED
  BY <1>2, <1>3, <1>4, <1>5, <1>6, <1>7, <1>8 DEF OwnStep

\* The engine has created the container of a Create, and told it so or not.
Creates(r, id) ==
    /\ pc[r] = "createRuntime" /\ container[sid[r]].state = "none"
    /\ SetContainer(sid[r], [cid |-> id, state |-> "created",
                             policy |-> session[r].policy, policed |-> FALSE])
    /\ \/ Continue(r, "createStart", [session[r] EXCEPT !.cid = id])
       \/ "ambiguous" \in Faults /\ Goto(r, "abortRootfs")
    /\ UNCHANGED <<stored, rootfs>>

\* The creation of the container has been carried out, or not.
LEMMA CreateRuntimeCases ==
    ASSUME NEW r \in Request, CreateRuntime(r)
    PROVE  \/ /\ pc[r] = "createRuntime"
              /\ Goto(r, "abortRootfs") /\ UNCHANGED <<container, stored, rootfs>>
              /\ CommandFails(r) \/ container[sid[r]].state # "none"
           \/ \E id \in ContainerId : Creates(r, id)
BY DEF CreateRuntime, Creates, Ambiguous

\* A Create installs the rules of what it has started, or halts it and takes
\* it away, and nothing else starts a container.
LEMMA PolicyOwn ==
    ASSUME FInv, CleanUpWorks, NEW r \in Request, Step(r), NEW s \in Session, s = sid[r]
    PROVE  PolicyPending(r)' /\ PolicySettled(s)'
<1>a. OwnStep(r, s)
  BY OwnFacts
<1>b. "client" \notin Faults /\ "cleanup" \notin Faults
  BY DEF CleanUpWorks
<1> USE <1>a, <1>b, SessionServiceAssumption
    DEF OwnStep, Running, Present, Goto, stored, Unpoliced, PolicyPending, PolicySettled,
        Pending, Connected, CommandFails, CleanupFails, Ambiguous
<1>1. CASE CreateGet(r) \/ CreateMkdir(r) \/ CreateMounts(r)
  BY <1>1 DEF CreateGet, CreateMkdir, CreateMounts
<1>2. CASE CreateRuntime(r)
  <2>1. CASE Goto(r, "abortRootfs") /\ UNCHANGED container
    BY <1>2, <2>1 DEF CreateRuntime
  <2>2. ASSUME NEW id \in ContainerId, Creates(r, id) PROVE PolicyPending(r)' /\ PolicySettled(s)'
    BY <2>2 DEF Creates, Row
  <2>q. QED
    BY <1>2, <2>1, <2>2, CreateRuntimeCases
<1>3. CASE CreateStart(r)
  BY <1>3, StartedFields DEF CreateStart, Started, Container
<1>4. CASE CreatePolicy(r)
  BY <1>4 DEF CreatePolicy, Container
<1>5. CASE CreateSave(r) \/ AbortRootfs(r)
  BY <1>5 DEF CreateSave, AbortRootfs
<1>6. CASE AbortStop(r)
  BY <1>6, HaltedFields DEF AbortStop
<1>7. CASE AbortRemove(r)
  BY <1>7 DEF AbortRemove, NoContainer
<1>8. CASE ExecGet(r) \/ StopGet(r)
  BY <1>8 DEF ExecGet, StopGet, GetActive
<1>9. CASE ExecStep(r) /\ ~ExecGet(r)
  BY <1>9 DEF ExecStep, Exec, ExecLog, ExecInspect
<1>10. CASE StopRun(r) \/ StopRemove(r)
  BY <1>10, HaltedFields DEF StopRun, StopRemove, NoContainer
<1>11. CASE MarkStopped(r) \/ DeleteRootfs(r)
  BY <1>11 DEF MarkStopped, DeleteRootfs, Succeed, Fail
<1>q. QED
  BY <1>1, <1>2, <1>3, <1>4, <1>5, <1>6, <1>7, <1>8, <1>9, <1>10, <1>11
     DEF Step, CreateStep, ExecStep, StopStep

\* A Create that is refused takes away what it has made, and knows all of it.
LEMMA CreateOwn ==
    ASSUME FInv, OnlyCommandsFail, NEW r \in Request, Step(r), NEW s \in Session, s = sid[r]
    PROVE  CreatePending(r)' /\ CreateSettled(s)'
<1>a. OwnStep(r, s)
  BY OwnFacts
<1>b. {"client", "cleanup", "disk", "store", "ambiguous"} \cap Faults = {}
  BY DEF OnlyCommandsFail
<1> USE <1>a, <1>b, SessionServiceAssumption
    DEF OwnStep, Present, Goto, stored, CreatePending, CreateSettled, Pending, Connected,
        CommandFails, CleanupFails, Ambiguous, StoreFails, RemoveAll, LocalSound, CreatePcs
<1>1. CASE CreateGet(r) \/ CreateMkdir(r)
  BY <1>1 DEF CreateGet, CreateMkdir, Row
<1>2. CASE CreateMounts(r)
  BY <1>2 DEF CreateMounts, Row
<1>3. CASE CreateRuntime(r)
  <2>1. CASE Goto(r, "abortRootfs") /\ UNCHANGED <<container, stored, rootfs>>
    BY <1>3, <2>1 DEF CreateRuntime
  <2>2. ASSUME NEW id \in ContainerId, Creates(r, id) PROVE CreatePending(r)' /\ CreateSettled(s)'
    BY <2>2 DEF Creates, Row
  <2>q. QED
    BY <1>3, <2>1, <2>2, CreateRuntimeCases
<1>4. CASE CreateStart(r)
  BY <1>4, StartedFields DEF CreateStart
<1>5. CASE CreatePolicy(r)
  BY <1>5 DEF CreatePolicy, Container
<1>6. CASE CreateSave(r)
  BY <1>6 DEF CreateSave, Row
<1>7. CASE AbortStop(r)
  BY <1>7, HaltedFields DEF AbortStop
<1>8. CASE AbortRemove(r)
  BY <1>8 DEF AbortRemove, NoContainer
<1>9. CASE AbortRootfs(r)
  BY <1>9 DEF AbortRootfs
<1>10. CASE ExecGet(r) \/ StopGet(r)
  BY <1>10 DEF ExecGet, StopGet, GetActive
<1>11. CASE ExecStep(r) /\ ~ExecGet(r)
  BY <1>11 DEF ExecStep, Exec, ExecLog, ExecInspect
<1>12. CASE StopRun(r) \/ StopRemove(r)
  BY <1>12 DEF StopRun, StopRemove
<1>13. CASE MarkStopped(r) \/ DeleteRootfs(r)
  BY <1>13 DEF MarkStopped, DeleteRootfs, Succeed, Fail, Row
<1>q. QED
  BY <1>1, <1>2, <1>3, <1>4, <1>5, <1>6, <1>7, <1>8, <1>9, <1>10, <1>11, <1>12, <1>13
     DEF Step, CreateStep, ExecStep, StopStep

\* The shared calls delete the directory of the session they have stopped,
\* for a handler and for the reconcile loop alike.
LEMMA SharedDeletes ==
    ASSUME TypeOK, DeletionsWork, NEW p \in Proc, MarkStopped(p) \/ DeleteRootfs(p),
           LocalSound(p), NEW s \in Session, s = sid[p]
    PROVE  DeletePending(p)' /\ DeleteSettled(s)'
<1> USE SessionServiceAssumption
    DEF TypeOK, HandlersTypeOK, WorldTypeOK, Due, DeletePending, DeleteSettled, DeletionsWork,
        LocalSound, SameSession, Idle, Proc, Goto, Continue, Succeed, Fail, Return, MainGoto,
        StoreFails, stored
<1>1. CASE MarkStopped(p)
  BY <1>1 DEF MarkStopped, Row
<1>2. CASE DeleteRootfs(p)
  BY <1>2 DEF DeleteRootfs, RemoveAll
<1>q. QED
  BY <1>1, <1>2

\* What a handler stops loses its directory before it returns, and nothing
\* else stops a session or gives a stopped one a directory.
LEMMA DeleteOwn ==
    ASSUME FInv, DeletionsWork, NEW r \in Request, Step(r), NEW s \in Session, s = sid[r]
    PROVE  DeletePending(r)' /\ DeleteSettled(s)'
<1>a. OwnStep(r, s)
  BY OwnFacts
<1> USE <1>a, SessionServiceAssumption
    DEF OwnStep, Goto, stored, Due, DeletePending, DeleteSettled, Pending, RemoveAll, LocalSound,
        CreatePcs
<1>1. CASE CreateGet(r) \/ CreateMkdir(r) \/ CreateMounts(r)
  BY <1>1 DEF CreateGet, CreateMkdir, CreateMounts
<1>2. CASE CreateRuntime(r) \/ CreateStart(r) \/ CreatePolicy(r)
  BY <1>2 DEF CreateRuntime, CreateStart, CreatePolicy
<1>3. CASE CreateSave(r)
  BY <1>3 DEF CreateSave, Row
<1>4. CASE AbortStop(r) \/ AbortRemove(r) \/ AbortRootfs(r)
  BY <1>4 DEF AbortStop, AbortRemove, AbortRootfs
<1>5. CASE ExecGet(r) \/ StopGet(r)
  BY <1>5 DEF ExecGet, StopGet, GetActive
<1>6. CASE ExecStep(r) /\ ~ExecGet(r)
  BY <1>6 DEF ExecStep, Exec, ExecLog, ExecInspect
<1>7. CASE StopRun(r) \/ StopRemove(r)
  BY <1>7 DEF StopRun, StopRemove
<1>8. CASE MarkStopped(r) \/ DeleteRootfs(r)
  BY <1>8, SharedDeletes DEF FInv, Inv
<1>q. QED
  BY <1>1, <1>2, <1>3, <1>4, <1>5, <1>6, <1>7, <1>8
     DEF Step, CreateStep, ExecStep, StopStep

\* A handler is given what it asks the engine for, so what it saves runs, and
\* it halts a container only to mark its session stopped in the end.
LEMMA RunOwn ==
    ASSUME FInv, OnlyHubFails, NEW r \in Request, Step(r), NEW s \in Session, s = sid[r]
    PROVE  RunPending(r)' /\ RunSettled(s)'
<1>a. OwnStep(r, s)
  BY OwnFacts
<1>b. {"client", "command", "disk", "store", "ambiguous"} \cap Faults = {}
  BY DEF OnlyHubFails
<1> USE <1>a, <1>b, SessionServiceAssumption
    DEF OwnStep, Present, Running, Goto, stored, Healthy, RunPending, RunSettled, Pending,
        Connected, CommandFails, CleanupFails, Ambiguous, StoreFails, RemoveAll, LocalSound,
        CreatePcs
<1>1. CASE CreateGet(r)
  BY <1>1 DEF CreateGet
<1>2. CASE CreateMkdir(r) \/ CreateMounts(r)
  BY <1>2 DEF CreateMkdir, CreateMounts
<1>3. CASE CreateRuntime(r)
  <2>1. CASE Goto(r, "abortRootfs") /\ UNCHANGED <<container, stored, rootfs>>
    BY <1>3, <2>1 DEF CreateRuntime
  <2>2. ASSUME NEW id \in ContainerId, Creates(r, id) PROVE RunPending(r)' /\ RunSettled(s)'
    BY <2>2 DEF Creates, Row
  <2>q. QED
    BY <1>3, <2>1, <2>2, CreateRuntimeCases
<1>4. CASE CreateStart(r)
  BY <1>4, StartedFields DEF CreateStart
<1>5. CASE CreatePolicy(r)
  BY <1>5 DEF CreatePolicy, Container
<1>6. CASE CreateSave(r)
  BY <1>6 DEF CreateSave, Row
<1>7. CASE AbortStop(r) \/ AbortRemove(r) \/ AbortRootfs(r)
  BY <1>7 DEF AbortStop, AbortRemove, AbortRootfs
<1>8. CASE ExecGet(r) \/ StopGet(r)
  BY <1>8 DEF ExecGet, StopGet, GetActive
<1>9. CASE ExecStep(r) /\ ~ExecGet(r)
  BY <1>9 DEF ExecStep, Exec, ExecLog, ExecInspect
<1>10. CASE StopRun(r) \/ StopRemove(r)
  BY <1>10, HaltedFields DEF StopRun, StopRemove
<1>11. CASE MarkStopped(r) \/ DeleteRootfs(r)
  BY <1>11 DEF MarkStopped, DeleteRootfs, Succeed, Fail, Row
<1>q. QED
  BY <1>1, <1>2, <1>3, <1>4, <1>5, <1>6, <1>7, <1>8, <1>9, <1>10, <1>11
     DEF Step, CreateStep, ExecStep, StopStep

-----------------------------------------------------------------------------
(***************************************************************************)
(* Every step keeps all parts.                                             *)
(***************************************************************************)

\* A step of a handler keeps everything: its own part by the lemmas above, the
\* rest because it reaches no other session.
LEMMA StepKeepsFailure ==
    ASSUME FInv, NEW r \in Request, Step(r)
    PROVE  FailureInvariant'
<1>1. /\ Busy(r) /\ Moves(r) /\ Touches(sid[r]) /\ r \in Proc /\ r # Main
      /\ TypeOK /\ ServiceInvariant
  BY StepShape, SessionServiceAssumption DEF FInv, Inv, Proc
<1>2. PICK s \in Session : s = sid[r]
  BY <1>1 DEF Busy
<1>3. Touches(s) /\ TouchesContainer(s)
  BY <1>1, <1>2, StepTouchesContainer
<1>4. Pending(r)' /\ Settled(s)'
  <2>1. PolicyPending(r)' /\ PolicySettled(s)'
    BY <1>2, PolicyOwn DEF PolicyPending, PolicySettled, CleanUpWorks
  <2>2. CreatePending(r)' /\ CreateSettled(s)'
    BY <1>2, CreateOwn DEF CreatePending, CreateSettled, OnlyCommandsFail
  <2>3. DeletePending(r)' /\ DeleteSettled(s)'
    BY <1>2, DeleteOwn DEF DeletePending, DeleteSettled, DeletionsWork
  <2>4. RunPending(r)' /\ RunSettled(s)'
    BY <1>2, RunOwn DEF RunPending, RunSettled, OnlyHubFails
  <2>q. QED
    BY <2>1, <2>2, <2>3, <2>4 DEF Pending, Settled
<1>5. pc'[Main] = pc[Main] /\ todo' = todo /\ gone' \subseteq gone
  BY <1>1, SessionServiceAssumption
     DEF Moves, Continue, Succeed, Fail, Return, TypeOK, HandlersTypeOK, Proc
<1>6. \A t \in Session : Visited(t)' => Visited(t)
  BY <1>5 DEF Visited
<1>7. (\A q \in Proc : Pending(q)') /\ (\A t \in Session : Settled(t)')
  BY <1>1, <1>2, <1>3, <1>4, <1>6, FailureFrame
<1>8. ContextsLive'
  BY <1>5 DEF ContextsLive, FInv, FailureInvariant
<1>q. QED
  BY <1>7, <1>8 DEF FailureInvariant

\* So do the steps of main on the session it visits: it starts nothing, and
\* what it stops it finishes as a handler does.
LEMMA VisitKeepsFailure ==
    ASSUME FInv, MarkStopped(Main) \/ DeleteRootfs(Main) \/ ReconcileSaveId
    PROVE  FailureInvariant'
<1>a. Main \in Proc /\ TypeOK /\ ServiceInvariant /\ LocalSound(Main) /\ Pending(Main)
  BY DEF FInv, Inv, ServiceInvariant, FailureInvariant, Proc
<1>1. Busy(Main) /\ Moves(Main) /\ Touches(sid[Main])
  <2>1. CASE MarkStopped(Main) \/ DeleteRootfs(Main)
    BY <1>a, <2>1, SharedShape
  <2>2. CASE ReconcileSaveId
    BY <1>a, <2>2, BusyIsInside
       DEF ReconcileSaveId, Moves, Resting, Touches, TypeOK, WorldTypeOK
  <2>q. QED
    BY <2>1, <2>2
<1>2. PICK s \in Session : s = sid[Main]
  BY <1>1 DEF Busy
<1>3. UNCHANGED container /\ row \in [Session -> Row] /\ session[Main] \in Row
  BY <1>a DEF MarkStopped, DeleteRootfs, ReconcileSaveId, stored, TypeOK, HandlersTypeOK,
              WorldTypeOK
<1>4. \/ pc'[Main] = "deleteRootfs" /\ sid'[Main] = s
      \/ pc'[Main] \in {"reconcile", "serving"} /\ sid'[Main] \notin Session
  BY <1>a, <1>2, SessionServiceAssumption
     DEF MarkStopped, DeleteRootfs, ReconcileSaveId, Goto, Continue, Succeed, Fail, MainGoto,
         TypeOK, HandlersTypeOK
<1>5. row'[s].status # "absent"
  <2>1. row[s].status # "absent"
    BY <1>2, <1>a DEF MarkStopped, DeleteRootfs, ReconcileSaveId, LocalSound
  <2>2. session[Main].status # "absent" \/ ~ReconcileSaveId
    BY <1>2, <1>a DEF ReconcileSaveId, LocalSound, SameSession
  <2>q. QED
    BY <1>2, <1>3, <2>1, <2>2 DEF MarkStopped, DeleteRootfs, ReconcileSaveId, stored, Row
<1>6. PolicyPending(Main)' /\ PolicySettled(s)'
  <2>1. CleanUpWorks => ~Unpoliced(s)
    BY <1>2, <1>a DEF Pending, PolicyPending, MarkStopped, DeleteRootfs, ReconcileSaveId
  <2>2. ~Unpoliced(s) => ~Unpoliced(s)'
    BY <1>3 DEF Unpoliced, Running
  <2>q. QED
    BY <1>4, <2>1, <2>2 DEF PolicyPending, PolicySettled, CleanUpWorks
<1>7. CreatePending(Main)' /\ CreateSettled(s)'
  BY <1>4, <1>5 DEF CreatePending, CreateSettled
<1>8. DeletePending(Main)' /\ DeleteSettled(s)'
  <2>1. CASE MarkStopped(Main) \/ DeleteRootfs(Main)
    BY <1>2, <1>a, <2>1, SharedDeletes DEF DeletePending, DeleteSettled, DeletionsWork
  <2>2. CASE ReconcileSaveId
    BY <1>2, <1>a, <1>3, <1>4, <2>2
       DEF ReconcileSaveId, DeletePending, DeleteSettled, Due, LocalSound, SameSession
  <2>q. QED
    BY <2>1, <2>2
<1>9. RunPending(Main)' /\ RunSettled(s)'
  <2>1. RunPending(Main)'
    BY <1>4 DEF RunPending
  <2>2. CASE MarkStopped(Main) \/ DeleteRootfs(Main)
    <3>1. OnlyHubFails => row'[s].status # "active"
      BY <1>2, <1>a, <1>3, <2>2
         DEF MarkStopped, DeleteRootfs, LocalSound, StoreFails, OnlyHubFails, stored, Row
    <3>q. QED
      BY <2>1, <3>1 DEF RunSettled, OnlyHubFails
  <2>3. CASE ReconcileSaveId
    <3>1. OnlyHubFails => Present(Main) /\ Running(s) /\ row'[s] = session[Main]
      BY <1>2, <1>a, <1>3, <2>3
         DEF ReconcileSaveId, Pending, RunPending, StoreFails, OnlyHubFails
    <3>2. OnlyHubFails => Healthy(s)'
      BY <1>2, <1>3, <3>1 DEF Present, Running, Healthy
    <3>q. QED
      BY <2>1, <3>2 DEF RunSettled, OnlyHubFails
  <2>q. QED
    BY <2>2, <2>3
<1>10. TouchesContainer(s)
  BY <1>3 DEF TouchesContainer
<1>11. OnlyHubFails => \A t \in Session : Visited(t)' => Visited(t)
  BY <1>a, <1>2 DEF OnlyHubFails, StoreFails, MarkStopped, DeleteRootfs, ReconcileSaveId, Visited,
                    Goto, Continue, Succeed, Fail, MainGoto, TypeOK, HandlersTypeOK
<1>12. (\A q \in Proc : Pending(q)') /\ (\A t \in Session : Settled(t)')
  BY <1>a, <1>1, <1>2, <1>6, <1>7, <1>8, <1>9, <1>10, <1>11, FailureFrame DEF Pending, Settled
<1>13. ContextsLive'
  BY <1>a DEF MarkStopped, DeleteRootfs, ReconcileSaveId, Goto, Continue, Succeed, Fail, MainGoto,
              ContextsLive, FInv, FailureInvariant
<1>q. QED
  BY <1>12, <1>13 DEF FailureInvariant

\* What a step keeps that changes nothing stored and nothing in the engine, if
\* no goroutine leaves a session by it.
LEMMA QuietFrame ==
    ASSUME FInv, UNCHANGED <<row, rootfs, container>>, NEW t \in Session,
           Idle(t)' => Idle(t), OnlyHubFails /\ Visited(t)' => Visited(t)
    PROVE  Settled(t)'
<1>1. Settled(t)
  BY DEF FInv, FailureInvariant
<1>q. QED
  BY <1>1 DEF Settled, PolicySettled, CreateSettled, DeleteSettled, RunSettled, Unpoliced, Due,
              Healthy, Running, OnlyHubFails, OnlyCommandsFail, CleanUpWorks, DeletionsWork

\* A goroutine that keeps its view keeps what is in its hands.
LEMMA PendingFrame ==
    ASSUME FInv, UNCHANGED <<row, rootfs, container>>, NEW q \in Proc,
           pc'[q] = pc[q], sid'[q] = sid[q], session'[q] = session[q]
    PROVE  Pending(q)'
<1>1. Pending(q)
  BY DEF FInv, FailureInvariant
<1>q. QED
  BY <1>1 DEF Pending, PolicyPending, CreatePending, DeletePending, RunPending, Present, Running,
              Unpoliced, Due, Healthy

\* A goroutine that rests has nothing in its hands.
LEMMA RestingPending ==
    ASSUME NEW q \in Proc, sid'[q] \notin Session, pc'[q] \in Resting
    PROVE  Pending(q)'
BY DEF Pending, PolicyPending, CreatePending, DeletePending, RunPending, Resting

\* Before main serves, no goroutine but main is on a session.
LEMMA IdleBeforeServing ==
    ASSUME Inv, pc[Main] \in {"down", "list", "reconcile"}, NEW t \in Session
    PROVE  Idle(t)
BY SessionServiceAssumption
   DEF Inv, TypeOK, HandlersTypeOK, ServiceInvariant, MainAlone, Idle, Proc, Resting

\* Main finds out what is left of each active session: one whose container runs
\* under its ID needs nothing, the others it takes into its hands.
LEMMA ReconcileKeepsFailure ==
    ASSUME FInv,
           Boot \/ ReconcileList \/ ReconcileDone \/ \E s \in Session : ReconcileInspect(s)
    PROVE  FailureInvariant'
<1>a. Main \in Proc /\ TypeOK /\ ServiceInvariant /\ Inv /\ Main \notin gone
  BY SessionServiceAssumption DEF FInv, Inv, Proc, TypeOK, HandlersTypeOK
<1>1. UNCHANGED <<row, rootfs, container, gone>> /\ pc[Main] \in {"down", "list", "reconcile"}
  BY DEF Boot, ReconcileList, ReconcileDone, ReconcileInspect, MainGoto, Visit, stored
<1>2. \A t \in Session : Idle(t)
  BY <1>a, <1>1, IdleBeforeServing
<1>3. \A r \in Request : Pending(r)'
  <2>1. \A r \in Request : pc'[r] = pc[r] /\ sid'[r] = sid[r] /\ session'[r] = session[r]
    BY <1>a, SessionServiceAssumption
       DEF Boot, ReconcileList, ReconcileDone, ReconcileInspect, MainGoto, Visit,
           TypeOK, HandlersTypeOK, Proc
  <2>q. QED
    BY <1>1, <2>1, PendingFrame DEF Proc
<1>4. ASSUME NEW step \in {"list", "reconcile", "serving"}, NEW rest, MainGoto(step, rest)
      PROVE  Pending(Main)' /\ pc'[Main] = step /\ todo' = rest
  BY <1>a, <1>4, RestingPending, SessionServiceAssumption
     DEF MainGoto, Resting, TypeOK, HandlersTypeOK
<1>5. CASE Boot \/ ReconcileList \/ ReconcileDone
  <2>1. Pending(Main)'
    BY <1>4, <1>5 DEF Boot, ReconcileList, ReconcileDone
  <2>2. ASSUME NEW t \in Session PROVE Settled(t)'
    <3>1. CASE Boot \/ ReconcileDone
      <4>1. Visited(t)' => Visited(t)
        BY <1>4, <3>1 DEF Boot, ReconcileDone, Visited
      <4>q. QED
        BY <1>1, <1>2, <4>1, QuietFrame
    <3>2. CASE ReconcileList
      <4>1. OnlyHubFails /\ Visited(t)' => row[t].status # "active"
        BY <1>4, <3>2 DEF ReconcileList, Visited, OnlyHubFails, StoreFails
      <4>2. PolicySettled(t) /\ CreateSettled(t) /\ DeleteSettled(t)
        BY DEF FInv, FailureInvariant, Settled
      <4>q. QED
        BY <1>1, <1>2, <4>1, <4>2
           DEF Settled, PolicySettled, CreateSettled, DeleteSettled, RunSettled, Unpoliced, Due,
               Running, OnlyHubFails, OnlyCommandsFail, CleanUpWorks, DeletionsWork
    <3>q. QED
      BY <1>5, <3>1, <3>2
  <2>q. QED
    BY <1>1, <1>3, <2>1, <2>2
       DEF FailureInvariant, FInv, ContextsLive, Proc
<1>6. ASSUME NEW s \in Session, ReconcileInspect(s) PROVE FailureInvariant'
  <2>1. row[s].status = "active" /\ s \in todo /\ pc[Main] = "reconcile"
    BY <1>a, <1>6 DEF ReconcileInspect, ServiceInvariant, TodoActive
  <2>2. Pending(Main)'
    <3>1. CASE MainGoto("serving", {}) \/ MainGoto("reconcile", todo \ {s})
      BY <1>4, <3>1
    <3>2. ASSUME NEW step \in {"markStopped", "saveId"}, NEW rec, Visit(s, step, rec),
                 step = "saveId" => Running(s) /\ rec = [row[s] EXCEPT !.cid = container[s].cid]
          PROVE  Pending(Main)'
      <4>1. pc'[Main] = step /\ sid'[Main] = s /\ session'[Main] = rec
        BY <1>a, <3>2 DEF Visit, TypeOK, HandlersTypeOK
      <4>2. (CleanUpWorks => ~Unpoliced(s)) /\ ~Due(s)
        BY <1>2, <2>1 DEF FInv, FailureInvariant, Settled, PolicySettled, Due
      <4>3. step = "saveId" => rec.cid = container[s].cid
        BY <3>2, <1>a DEF TypeOK, WorldTypeOK, Row
      <4>q. QED
        BY <1>1, <2>1, <3>2, <4>1, <4>2, <4>3
           DEF Pending, PolicyPending, CreatePending, DeletePending, RunPending, Present, Running,
               Unpoliced, Due
    <3>q. QED
      BY <1>6, <3>1, <3>2 DEF ReconcileInspect
  <2>3. ASSUME NEW t \in Session PROVE Settled(t)'
    <3>1. CASE t = s
      <4>1. CASE Running(s) /\ container[s].cid = row[s].cid
        BY <1>1, <1>2, <2>1, <3>1, <4>1
           DEF FInv, FailureInvariant, Settled, PolicySettled, CreateSettled, DeleteSettled,
               RunSettled, Unpoliced, Due, Healthy, Running, CleanUpWorks
      <4>2. CASE OnlyHubFails => ~Idle(s)'
        BY <1>1, <1>2, <2>1, <3>1, <4>2
           DEF FInv, FailureInvariant, Settled, PolicySettled, CreateSettled, DeleteSettled,
               RunSettled, Unpoliced, Due, Healthy, Running, CleanUpWorks, OnlyHubFails
      <4>3. OnlyHubFails => Main \notin gone /\ ~CommandFails(Main)
        BY <1>a DEF OnlyHubFails, CommandFails
      <4>4. ASSUME NEW step, NEW rec, Visit(s, step, rec) PROVE ~Idle(s)'
        BY <1>a, <4>4 DEF Visit, Idle, TypeOK, HandlersTypeOK
      <4>q. QED
        BY <1>6, <4>1, <4>2, <4>3, <4>4 DEF ReconcileInspect
    <3>2. CASE t # s
      <4>1. OnlyHubFails /\ Visited(t)' => Visited(t)
        BY <1>a, <1>6, <2>1, <3>2
           DEF ReconcileInspect, Visited, MainGoto, Visit, OnlyHubFails, CommandFails
      <4>q. QED
        BY <1>1, <1>2, <4>1, QuietFrame
    <3>q. QED
      BY <3>1, <3>2
  <2>q. QED
    BY <1>1, <1>3, <2>2, <2>3 DEF FailureInvariant, FInv, ContextsLive, Proc
<1>q. QED
  BY <1>5, <1>6

\* While main serves, nobody is on a session that is not locked; and main never
\* is on a session without a row.
LEMMA UnlockedIsIdle ==
    ASSUME Inv, NEW s \in Session, s \notin locks,
           pc[Main] = "serving" \/ row[s].status = "absent"
    PROVE  Idle(s)
<1> USE SessionServiceAssumption
    DEF Inv, TypeOK, HandlersTypeOK, ServiceInvariant, Proc, Resting
<1>1. \A r \in Request : sid[r] # s
  BY DEF LockDiscipline
<1>2. sid[Main] # s
  BY DEF LocalSound, MainPcs
<1>q. QED
  BY <1>1, <1>2 DEF Idle

\* A request is let in only when nobody is on its session, and so finds it
\* settled.
LEMMA AcceptKeepsFailure ==
    ASSUME FInv, NEW r \in Request, NEW s \in Session, Accept(r, s)
    PROVE  FailureInvariant'
<1>1. \E step \in {"createGet", "execGet", "stopGet"}, rec \in Row : Begin(r, s, step, rec)
  BY DEF Accept, CreateBegin, ExecBegin, StopBegin, EffectivePolicy, Row, NoRow
<1>a. TypeOK /\ ServiceInvariant /\ r \in Proc /\ r # Main
  BY SessionServiceAssumption DEF FInv, Inv, Proc
<1>2. /\ UNCHANGED <<row, rootfs, container, gone, todo>>
      /\ pc[Main] = "serving" /\ pc'[Main] = "serving" /\ s \notin locks
      /\ pc'[r] \in {"createGet", "execGet", "stopGet"} /\ sid'[r] = s /\ pc[r] = "idle"
      /\ \A q \in Proc : q # r => pc'[q] = pc[q] /\ sid'[q] = sid[q] /\ session'[q] = session[q]
  BY <1>1, <1>a DEF Begin, TryLock, stored, TypeOK, HandlersTypeOK
<1>3. Idle(s) /\ todo = {}
  BY <1>2, <1>a, UnlockedIsIdle DEF FInv, ServiceInvariant, TodoActive
<1>4. Settled(s)
  BY DEF FInv, FailureInvariant
<1>5. Pending(r)'
  <2>1. CleanUpWorks => ~Unpoliced(s)
    BY <1>3, <1>4 DEF Settled, PolicySettled
  <2>2. OnlyCommandsFail /\ row[s].status = "absent" => container[s].state = "none" /\ s \notin rootfs
    BY <1>3, <1>4 DEF Settled, CreateSettled
  <2>3. DeletionsWork => ~Due(s)
    BY <1>3, <1>4 DEF Settled, DeleteSettled
  <2>4. OnlyHubFails /\ row[s].status = "active" => Healthy(s)
    BY <1>2, <1>3, <1>4 DEF Settled, RunSettled, Visited
  <2>q. QED
    BY <1>2, <2>1, <2>2, <2>3, <2>4
       DEF Pending, PolicyPending, CreatePending, DeletePending, RunPending, Unpoliced, Due,
           Healthy, Running, CleanUpWorks, OnlyCommandsFail, DeletionsWork, OnlyHubFails
<1>6. \A q \in Proc : q # r => Pending(q)'
  BY <1>2, PendingFrame
<1>7. ASSUME NEW t \in Session PROVE Settled(t)'
  <2>1. sid[r] \notin Session
    BY <1>2, <1>a, SessionServiceAssumption DEF TypeOK, HandlersTypeOK, Resting
  <2>2. Idle(t)' => Idle(t)
    BY <1>2, <2>1 DEF Idle
  <2>3. Visited(t)' => Visited(t)
    BY <1>2 DEF Visited
  <2>q. QED
    BY <1>2, <2>2, <2>3, QuietFrame
<1>q. QED
  BY <1>2, <1>5, <1>6, <1>7 DEF FailureInvariant, FInv, ContextsLive

\* What the world does to a container breaks nothing that its class of failures
\* bears.
LEMMA ExternalKeepsFailure ==
    ASSUME FInv, NEW s \in Session, External(s)
    PROVE  FailureInvariant'
<1>1. UNCHANGED <<pc, sid, session, gone, todo, row, rootfs>>
  BY DEF External, ContainerDies, ContainerRemoved, ContainerRestarted, ContainerReplaced,
         handlers, stored
<1>2. container[s] \in Container /\ TypeOK
  BY DEF FInv, Inv, TypeOK, WorldTypeOK
<1>3. /\ \A t \in Session : t # s => container'[t] = container[t]
      /\ \/ "die" \in Faults /\ Running(s) /\ container'[s] = Halted(container[s])
         \/ "remove" \in Faults /\ container'[s] = NoContainer
         \/ /\ "restart" \in Faults /\ container[s].state = "exited"
            /\ container'[s] = Started(container[s])
         \/ /\ "replace" \in Faults
            /\ \E id \in ContainerId :
                  Fresh(id) /\ container'[s] = Started([NoContainer EXCEPT !.cid = id])
  BY <1>2, SetContainerEffect
     DEF External, ContainerDies, ContainerRemoved, ContainerRestarted, ContainerReplaced,
         TypeOK, TouchesContainer
<1>4. CleanUpWorks => /\ Unpoliced(s)' => FALSE
                      /\ container'[s].state # "none" =>
                            \/ /\ container[s].state # "none"
                               /\ container'[s].cid = container[s].cid
                               /\ container'[s].policy = container[s].policy
                            \/ \A q \in Proc : session[q].cid # container'[s].cid
  <2>1. CASE container'[s] = Halted(container[s]) /\ Running(s)
    BY <1>2, <2>1 DEF Halted, Unpoliced, Running, Container
  <2>2. CASE container'[s] = NoContainer
    BY <2>2 DEF NoContainer, Unpoliced, Running
  <2>3. ASSUME NEW id \in ContainerId, Fresh(id),
               container'[s] = Started([NoContainer EXCEPT !.cid = id])
        PROVE  container'[s].cid = id /\ ~container'[s].policy
    BY <2>3 DEF Started, NoContainer
  <2>q. QED
    BY <1>3, <2>1, <2>2, <2>3 DEF CleanUpWorks, Fresh, Unpoliced
<1>5. OnlyCommandsFail => /\ container'[s].state # "none" => container[s].state # "none"
                          /\ container'[s].state # "none" => container'[s].cid = container[s].cid
  BY <1>2, <1>3, HaltedFields, StartedFields DEF OnlyCommandsFail, NoContainer
<1>6. OnlyHubFails => /\ container[s].state # "none" /\ Running(s)'
                      /\ container'[s].cid = container[s].cid
  BY <1>2, <1>3, StartedFields DEF OnlyHubFails, Running
<1>7. ASSUME NEW q \in Proc PROVE Pending(q)'
  <2>1. Pending(q) /\ (sid[q] \notin Session => pc[q] \in Resting)
    BY <1>2 DEF FInv, FailureInvariant, TypeOK, HandlersTypeOK
  <2>2. CASE sid[q] \notin Session
    BY <1>1, <2>1, <2>2, RestingPending
  <2>3. CASE sid[q] \in Session /\ sid[q] # s
    BY <1>1, <1>3, <2>1, <2>3
       DEF Pending, PolicyPending, CreatePending, DeletePending, RunPending, Present, Running,
           Unpoliced, Due, Healthy
  <2>4. CASE sid[q] = s
    <3>1. PolicyPending(q)'
      <4>1. CleanUpWorks /\ Present(q)' =>
                Present(q) /\ container'[sid[q]].policy = container[sid[q]].policy
        BY <1>1, <1>4, <2>4 DEF Present
      <4>2. CleanUpWorks => ~Unpoliced(sid[q])'
        BY <1>1, <1>4, <2>4
      <4>q. QED
        BY <1>1, <2>1, <4>1, <4>2 DEF Pending, PolicyPending, CleanUpWorks
    <3>2. CreatePending(q)'
      BY <1>1, <1>5, <2>1, <2>4 DEF Pending, CreatePending, Present, OnlyCommandsFail
    <3>3. DeletePending(q)'
      BY <1>1, <2>1 DEF Pending, DeletePending, Due, DeletionsWork
    <3>4. RunPending(q)'
      BY <1>1, <1>6, <2>1, <2>4 DEF Pending, RunPending, Present, Healthy, OnlyHubFails, Running
    <3>q. QED
      BY <3>1, <3>2, <3>3, <3>4 DEF Pending
  <2>q. QED
    BY <2>2, <2>3, <2>4
<1>8. ASSUME NEW t \in Session PROVE Settled(t)'
  <2>1. Settled(t) /\ (Idle(t)' => Idle(t)) /\ (Visited(t)' => Visited(t))
    BY <1>1 DEF FInv, FailureInvariant, Idle, Visited
  <2>2. CASE t # s
    BY <1>1, <1>3, <2>1, <2>2
       DEF Settled, PolicySettled, CreateSettled, DeleteSettled, RunSettled, Unpoliced, Due,
           Healthy, Running, OnlyHubFails, OnlyCommandsFail, CleanUpWorks, DeletionsWork
  <2>3. CASE t = s
    BY <1>1, <1>4, <1>5, <1>6, <2>1, <2>3
       DEF Settled, PolicySettled, CreateSettled, DeleteSettled, RunSettled, Due,
           Healthy, OnlyHubFails, OnlyCommandsFail, CleanUpWorks, DeletionsWork
  <2>q. QED
    BY <2>2, <2>3
<1>q. QED
  BY <1>1, <1>7, <1>8 DEF FailureInvariant, FInv, ContextsLive

\* In every reachable state, whatever is unfinished is in the hands of a
\* goroutine that goes on with it, and everything else is settled: each part
\* under the failures it names.
THEOREM FailureInvariantHolds == Spec => []FailureInvariant
<1>1. Init => FailureInvariant
  BY SessionServiceAssumption
     DEF Init, FailureInvariant, ContextsLive, Pending, PolicyPending, CreatePending, DeletePending,
         RunPending, Settled, PolicySettled, CreateSettled, DeleteSettled, RunSettled, Unpoliced,
         Due, Running, NoRow, NoContainer, Proc
<1>2. TypeOK /\ ServiceInvariant /\ FailureInvariant /\ [Next]_vars => FailureInvariant'
  <2> SUFFICES ASSUME FInv, [Next]_vars PROVE FailureInvariant'
    BY DEF FInv, Inv
  <2>1. CASE MainStep
    BY <2>1, VisitKeepsFailure, ReconcileKeepsFailure DEF MainStep
  <2>2. ASSUME NEW r \in Request, Step(r) PROVE FailureInvariant'
    BY <2>2, StepKeepsFailure
  <2>3. ASSUME NEW r \in Request, ClientGone(r) PROVE FailureInvariant'
    <3>1. UNCHANGED <<pc, sid, session, todo, row, rootfs, container>> /\ "client" \in Faults
      BY <2>3 DEF ClientGone, stored
    <3>2. \A t \in Session : (Idle(t)' => Idle(t)) /\ (Visited(t)' => Visited(t))
      BY <3>1 DEF Idle, Visited
    <3>q. QED
      BY <3>1, <3>2, PendingFrame, QuietFrame DEF FailureInvariant, ContextsLive
  <2>4. ASSUME NEW r \in Request, NEW s \in Session, Accept(r, s) PROVE FailureInvariant'
    BY <2>4, AcceptKeepsFailure
  <2>5. ASSUME NEW s \in Session, External(s) PROVE FailureInvariant'
    BY <2>5, ExternalKeepsFailure
  <2>6. CASE Crash
    <3>1. /\ gone' = {} /\ "crash" \in Faults
          /\ \A q \in Proc : sid'[q] \notin Session /\ pc'[q] \in Resting
          /\ pc'[Main] = "down" /\ UNCHANGED <<row, rootfs, container>>
      BY <2>6, SessionServiceAssumption DEF Crash, Resting, Proc, stored
    <3>2. \A t \in Session : Settled(t)'
      BY <3>1 DEF Settled, PolicySettled, CreateSettled, DeleteSettled, RunSettled, Visited,
                  CleanUpWorks, OnlyCommandsFail, DeletionsWork
    <3>q. QED
      BY <3>1, <3>2, RestingPending DEF FailureInvariant, ContextsLive
  <2>7. CASE UNCHANGED vars
    <3>1. UNCHANGED <<pc, sid, session, gone, todo, row, rootfs, container>>
      BY <2>7 DEF vars
    <3>2. \A t \in Session : (Idle(t)' => Idle(t)) /\ (Visited(t)' => Visited(t))
      BY <3>1 DEF Idle, Visited
    <3>q. QED
      BY <3>1, <3>2, PendingFrame, QuietFrame DEF FailureInvariant, ContextsLive, FInv
  <2>q. QED
    BY <2>1, <2>2, <2>3, <2>4, <2>5, <2>6, <2>7 DEF Next
<1>q. QED
  BY <1>1, <1>2, TypeCorrect, ServiceInvariantHolds, PTL DEF Spec

-----------------------------------------------------------------------------
(***************************************************************************)
(* The properties.                                                         *)
(***************************************************************************)

\* No container made for a policy runs without its rules but in the hands of
\* the Create that made it, as long as the clean-up of a failed policy is
\* carried out: store, directories, engine commands and even their reports may
\* fail, and containers exit, vanish and are replaced.
THEOREM PolicyNeverDegradesHolds ==
    ASSUME CleanUpWorks
    PROVE  Spec => []PolicyNeverDegrades
<1>1. TypeOK /\ ServiceInvariant /\ FailureInvariant => PolicyNeverDegrades
  <2> SUFFICES ASSUME FInv, NEW s \in Session, Unpoliced(s)
               PROVE  \E r \in Request : sid[r] = s /\ pc[r] \in CreatePcs
    BY DEF PolicyNeverDegrades, FInv, Inv, Unpoliced
  <2>1. PICK p \in Proc : sid[p] = s
    BY DEF FInv, FailureInvariant, Settled, PolicySettled, Idle
  <2>2. pc[p] \in {"createPolicy", "abortStop", "abortRemove"}
    BY <2>1 DEF FInv, FailureInvariant, Pending, PolicyPending
  <2>3. p # Main
    BY <2>2 DEF FInv, Inv, TypeOK, HandlersTypeOK, MainPcs
  <2>q. QED
    BY <2>1, <2>2, <2>3 DEF Proc, CreatePcs
<1>q. QED
  BY <1>1, TypeCorrect, ServiceInvariantHolds, FailureInvariantHolds, PTL

\* A Create that failed on an engine command leaves neither a container nor a
\* directory, when every engine command either works or does nothing.
THEOREM FailedCreateLeavesNothingHolds ==
    ASSUME OnlyCommandsFail
    PROVE  Spec => []FailedCreateLeavesNothing
<1>1. TypeOK /\ ServiceInvariant /\ FailureInvariant => FailedCreateLeavesNothing
  <2> SUFFICES ASSUME FInv, NEW s \in Session, row[s].status = "absent", s \notin locks
               PROVE  container[s].state = "none" /\ s \notin rootfs
    BY DEF FailedCreateLeavesNothing, FInv, Inv
  <2>q. QED
    BY UnlockedIsIdle DEF FInv, FailureInvariant, Settled, CreateSettled
<1>q. QED
  BY <1>1, TypeCorrect, ServiceInvariantHolds, FailureInvariantHolds, PTL

\* The directory of a stopped session is gone once the call or the visit that
\* stopped it is over, unless the deletion fails or the hub dies before it.
THEOREM StoppedRootfsDeletedHolds ==
    ASSUME DeletionsWork
    PROVE  Spec => []StoppedRootfsDeleted
<1>1. FailureInvariant => StoppedRootfsDeleted
  BY DEF FailureInvariant, Settled, DeleteSettled, Due, Idle, StoppedRootfsDeleted
<1>q. QED
  BY <1>1, FailureInvariantHolds, PTL

\* However often the hub dies, once it serves again every active session no
\* request works on has its own container, running.
THEOREM ServedSessionsRunHolds ==
    ASSUME OnlyHubFails
    PROVE  Spec => []ServedSessionsRun
<1>1. TypeOK /\ ServiceInvariant /\ FailureInvariant => ServedSessionsRun
  <2> SUFFICES ASSUME FInv, NEW s \in Session, pc[Main] = "serving",
                      row[s].status = "active", s \notin locks
               PROVE  Healthy(s)
    BY DEF ServedSessionsRun, FInv, Inv, Healthy
  <2>1. Idle(s)
    BY UnlockedIsIdle DEF FInv
  <2>2. Visited(s)
    BY DEF FInv, Inv, ServiceInvariant, TodoActive, Visited
  <2>q. QED
    BY <2>1, <2>2 DEF FInv, FailureInvariant, Settled, RunSettled
<1>q. QED
  BY <1>1, TypeCorrect, ServiceInvariantHolds, FailureInvariantHolds, PTL

=============================================================================
