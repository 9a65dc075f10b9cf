------------------------- MODULE SessionServiceProofs -------------------------
(***************************************************************************)
(* What holds of SessionService for every set of sessions and requests,    *)
(* every configuration and every combination of failures.                  *)
(***************************************************************************)
EXTENDS SessionService, FiniteSetTheorems, TLAPS

-----------------------------------------------------------------------------
(***************************************************************************)
(* Type correctness.  The control operators keep the handlers' types; each *)
(* action is one of them beside a change of the world.                     *)
(***************************************************************************)

\* What one step of a goroutine inside a handler does to the handlers: it goes
\* on inside, or leaves.
BusyPcs(p) == (IF p = Main THEN MainPcs ELSE RequestPcs) \ Resting

Busy(p) == sid[p] \in Session /\ pc[p] \in BusyPcs(p)

Moves(p) ==
    \/ \E step \in BusyPcs(p), rec \in Row : Continue(p, step, rec)
    \/ Succeed(p)
    \/ Fail(p)

\* What it does to the stored state: nothing but its own session's.
Touches(s) ==
    \A t \in Session \ {s} : row'[t] = row[t] /\ (t \in rootfs' <=> t \in rootfs)

\* A goroutine inside a handler has a session.
LEMMA BusyIsInside ==
    ASSUME TypeOK, NEW p \in Proc
    PROVE  Busy(p) <=> pc[p] \notin Resting
BY SessionServiceAssumption
   DEF TypeOK, HandlersTypeOK, Busy, BusyPcs, Proc, MainPcs, RequestPcs, CreatePcs, Resting

\* Records stay records of their type when a field changes.
LEMMA RowFields ==
    ASSUME NEW rec \in Row
    PROVE  /\ \A b \in BOOLEAN : [rec EXCEPT !.rootfs = b] \in Row
           /\ \A id \in ContainerId \cup {NoId} : [rec EXCEPT !.cid = id] \in Row
           /\ [rec EXCEPT !.status = "active"] \in Row
           /\ [rec EXCEPT !.status = "stopped"] \in Row
BY DEF Row

\* A container record stays one when its state, its rules or its ID changes.
LEMMA ContainerFields ==
    ASSUME NEW c \in Container
    PROVE  /\ Started(c) \in Container
           /\ Halted(c) \in Container
           /\ [c EXCEPT !.policed = TRUE] \in Container
BY DEF Container, Started, Halted

\* Changing one container keeps the world's types.
LEMMA SetContainerType ==
    ASSUME WorldTypeOK, NEW s \in Session, NEW c \in Container, SetContainer(s, c),
           UNCHANGED <<row, rootfs, executions>>
    PROVE  WorldTypeOK'
BY DEF WorldTypeOK, SetContainer

\* Main keeps the types when it rests.
LEMMA MainGotoType ==
    ASSUME HandlersTypeOK, NEW step \in MainPcs \cap Resting,
           NEW rest \in SUBSET Session, MainGoto(step, rest)
    PROVE  HandlersTypeOK'
BY SessionServiceAssumption
   DEF HandlersTypeOK, MainGoto, Proc, MainPcs, RequestPcs, CreatePcs, Resting, Row, NoRow

\* A step inside a handler keeps the handlers' types.
LEMMA MovesType ==
    ASSUME HandlersTypeOK, NEW p \in Proc, Busy(p), Moves(p)
    PROVE  HandlersTypeOK'
<1> USE SessionServiceAssumption
    DEF HandlersTypeOK, Busy, BusyPcs, Proc, MainPcs, RequestPcs, CreatePcs, Resting
<1>1. ASSUME NEW step \in BusyPcs(p), NEW rec \in Row, Continue(p, step, rec)
      PROVE  HandlersTypeOK'
  BY <1>1 DEF Continue
<1>2. CASE p = Main /\ (MainGoto("reconcile", todo) \/ MainGoto("serving", {}))
  BY <1>2, MainGotoType
<1>3. CASE p \in Request /\ Return(p)
  BY <1>3 DEF Return, Row, NoRow
<1>q. QED
  BY <1>1, <1>2, <1>3 DEF Moves, Succeed, Fail

\* Accepting a request keeps the types.
LEMMA BeginType ==
    ASSUME HandlersTypeOK, NEW r \in Request, NEW s \in Session,
           NEW step \in RequestPcs \ Resting, NEW rec \in Row, Begin(r, s, step, rec)
    PROVE  HandlersTypeOK'
BY SessionServiceAssumption
   DEF HandlersTypeOK, Begin, TryLock, Proc, MainPcs, RequestPcs, CreatePcs, Resting

\* Main keeps the types when it visits a session.
LEMMA VisitType ==
    ASSUME HandlersTypeOK, NEW s \in Session, NEW step \in MainPcs \ Resting,
           NEW rec \in Row, Visit(s, step, rec)
    PROVE  HandlersTypeOK'
BY SessionServiceAssumption
   DEF HandlersTypeOK, Visit, Proc, MainPcs, RequestPcs, CreatePcs, Resting

\* The shape of the two steps that handlers and the reconcile loop share.
LEMMA SharedShape ==
    ASSUME TypeOK, NEW p \in Proc, MarkStopped(p) \/ DeleteRootfs(p)
    PROVE  Busy(p) /\ Moves(p) /\ WorldTypeOK' /\ Touches(sid[p])
<1> USE SessionServiceAssumption
    DEF TypeOK, HandlersTypeOK, WorldTypeOK, Busy, BusyPcs, Moves, Touches, Row, Container,
        Proc, MainPcs, RequestPcs, CreatePcs, Resting, Goto, stored
<1>1. Busy(p) /\ Moves(p)
  BY DEF MarkStopped, DeleteRootfs
<1>2. WorldTypeOK' /\ Touches(sid[p])
  BY <1>1 DEF MarkStopped, DeleteRootfs, RemoveAll
<1>q. QED
  BY <1>1, <1>2

\* Two shapes cover every step of a handler: it changes no row and no
\* directory but its own, and possibly the container of its session.
LEMMA EngineShape ==
    ASSUME WorldTypeOK, NEW r \in Request, Busy(r), UNCHANGED <<row, rootfs, executions>>,
           \/ UNCHANGED container
           \/ \E c \in Container : SetContainer(sid[r], c)
    PROVE  WorldTypeOK' /\ Touches(sid[r])
<1>1. WorldTypeOK'
  BY SetContainerType DEF WorldTypeOK, Busy
<1>q. QED
  BY <1>1 DEF Touches

\* The shape of every step of a handler.
LEMMA StepShape ==
    ASSUME TypeOK, NEW r \in Request, Step(r)
    PROVE  Busy(r) /\ Moves(r) /\ WorldTypeOK' /\ Touches(sid[r])
<1> USE SessionServiceAssumption DEF Goto, stored
<1>1. CASE CreateGet(r)
  <2>1. Busy(r)
    BY <1>1, BusyIsInside DEF CreateGet, Resting, Proc
  <2>2. Moves(r)
    BY <1>1, <2>1, RowFields
       DEF CreateGet, Moves, Succeed, Busy, BusyPcs, TypeOK, HandlersTypeOK, WorldTypeOK,
           Container, Proc, RequestPcs, CreatePcs, Resting
  <2>3. WorldTypeOK' /\ Touches(sid[r])
    BY <1>1, <2>1, EngineShape, ContainerFields
       DEF CreateGet, Busy, TypeOK, HandlersTypeOK, WorldTypeOK, Row, Proc
  <2>q. QED
    BY <2>1, <2>2, <2>3
<1>2. CASE CreateMkdir(r)
  <2>1. Busy(r)
    BY <1>2, BusyIsInside DEF CreateMkdir, Resting, Proc
  <2>2. Moves(r)
    BY <1>2, <2>1, RowFields
       DEF CreateMkdir, Moves, Succeed, Busy, BusyPcs, TypeOK, HandlersTypeOK, WorldTypeOK,
           Container, Proc, RequestPcs, CreatePcs, Resting
  <2>3. WorldTypeOK' /\ Touches(sid[r])
    BY <1>2, <2>1, RowFields
       DEF CreateMkdir, RemoveAll, Busy, Touches, TypeOK, HandlersTypeOK, WorldTypeOK, Proc
  <2>q. QED
    BY <2>1, <2>2, <2>3
<1>3. CASE CreateMounts(r)
  <2>1. Busy(r)
    BY <1>3, BusyIsInside DEF CreateMounts, Resting, Proc
  <2>2. Moves(r)
    BY <1>3, <2>1, RowFields
       DEF CreateMounts, Moves, Succeed, Busy, BusyPcs, TypeOK, HandlersTypeOK, WorldTypeOK,
           Container, Proc, RequestPcs, CreatePcs, Resting
  <2>3. WorldTypeOK' /\ Touches(sid[r])
    BY <1>3, <2>1, RowFields
       DEF CreateMounts, RemoveAll, Busy, Touches, TypeOK, HandlersTypeOK, WorldTypeOK, Proc
  <2>q. QED
    BY <2>1, <2>2, <2>3
<1>4. CASE CreateRuntime(r)
  <2>1. Busy(r)
    BY <1>4, BusyIsInside DEF CreateRuntime, Resting, Proc
  <2>2. Moves(r)
    BY <1>4, <2>1, RowFields
       DEF CreateRuntime, Moves, Succeed, Busy, BusyPcs, TypeOK, HandlersTypeOK, WorldTypeOK,
           Container, Proc, RequestPcs, CreatePcs, Resting
  <2>3. UNCHANGED <<row, rootfs, executions>>
    BY <1>4 DEF CreateRuntime
  <2>4. \A id \in ContainerId : [cid |-> id, state |-> "created", policy |-> session[r].policy,
                                 policed |-> FALSE] \in Container
    BY DEF TypeOK, HandlersTypeOK, Row, Container, Proc
  <2>5. UNCHANGED container \/ \E c \in Container : SetContainer(sid[r], c)
    <3>1. ASSUME NEW id \in ContainerId,
                 SetContainer(sid[r], [cid |-> id, state |-> "created",
                                       policy |-> session[r].policy, policed |-> FALSE])
          PROVE  \E c \in Container : SetContainer(sid[r], c)
      BY <2>4, <3>1
    <3>2. UNCHANGED container \/ \E id \in ContainerId :
            SetContainer(sid[r], [cid |-> id, state |-> "created",
                                  policy |-> session[r].policy, policed |-> FALSE])
      BY <1>4 DEF CreateRuntime
    <3>q. QED
      BY <3>1, <3>2
  <2>6. WorldTypeOK' /\ Touches(sid[r])
    BY <2>1, <2>3, <2>5, EngineShape DEF TypeOK
  <2>q. QED
    BY <2>1, <2>2, <2>6
<1>5. CASE CreateStart(r)
  <2>1. Busy(r)
    BY <1>5, BusyIsInside DEF CreateStart, Resting, Proc
  <2>2. Moves(r)
    BY <1>5, <2>1, RowFields
       DEF CreateStart, Moves, Succeed, Busy, BusyPcs, TypeOK, HandlersTypeOK, WorldTypeOK,
           Container, Proc, RequestPcs, CreatePcs, Resting
  <2>3. WorldTypeOK' /\ Touches(sid[r])
    BY <1>5, <2>1, EngineShape, ContainerFields
       DEF CreateStart, Busy, TypeOK, HandlersTypeOK, WorldTypeOK, Row, Proc
  <2>q. QED
    BY <2>1, <2>2, <2>3
<1>6. CASE CreatePolicy(r)
  <2>1. Busy(r)
    BY <1>6, BusyIsInside DEF CreatePolicy, Resting, Proc
  <2>2. Moves(r)
    BY <1>6, <2>1, RowFields
       DEF CreatePolicy, Moves, Succeed, Busy, BusyPcs, TypeOK, HandlersTypeOK, WorldTypeOK,
           Container, Proc, RequestPcs, CreatePcs, Resting
  <2>3. WorldTypeOK' /\ Touches(sid[r])
    BY <1>6, <2>1, EngineShape, ContainerFields
       DEF CreatePolicy, Busy, TypeOK, HandlersTypeOK, WorldTypeOK, Row, Proc
  <2>q. QED
    BY <2>1, <2>2, <2>3
<1>7. CASE CreateSave(r)
  <2>1. Busy(r)
    BY <1>7, BusyIsInside DEF CreateSave, Resting, Proc
  <2>2. Moves(r)
    BY <1>7, <2>1, RowFields
       DEF CreateSave, Moves, Succeed, Busy, BusyPcs, TypeOK, HandlersTypeOK, WorldTypeOK,
           Container, Proc, RequestPcs, CreatePcs, Resting
  <2>3. [session[r] EXCEPT !.status = "active"] \in Row
    BY RowFields DEF TypeOK, HandlersTypeOK, Proc
  <2>4. WorldTypeOK' /\ Touches(sid[r])
    BY <1>7, <2>1, <2>3 DEF CreateSave, Busy, Touches, TypeOK, WorldTypeOK
  <2>q. QED
    BY <2>1, <2>2, <2>4
<1>8. CASE AbortStop(r)
  <2>1. Busy(r)
    BY <1>8, BusyIsInside DEF AbortStop, Resting, Proc
  <2>2. Moves(r)
    BY <1>8, <2>1, RowFields
       DEF AbortStop, Moves, Succeed, Busy, BusyPcs, TypeOK, HandlersTypeOK, WorldTypeOK,
           Container, Proc, RequestPcs, CreatePcs, Resting
  <2>3. WorldTypeOK' /\ Touches(sid[r])
    BY <1>8, <2>1, EngineShape, ContainerFields
       DEF AbortStop, Busy, TypeOK, HandlersTypeOK, WorldTypeOK, Row, Proc
  <2>q. QED
    BY <2>1, <2>2, <2>3
<1>9. CASE AbortRemove(r)
  <2>1. Busy(r)
    BY <1>9, BusyIsInside DEF AbortRemove, Resting, Proc
  <2>2. Moves(r)
    BY <1>9, <2>1, RowFields
       DEF AbortRemove, Moves, Succeed, Busy, BusyPcs, TypeOK, HandlersTypeOK, WorldTypeOK,
           Container, Proc, RequestPcs, CreatePcs, Resting
  <2>3. WorldTypeOK' /\ Touches(sid[r])
    BY <1>9, <2>1, EngineShape, ContainerFields
       DEF AbortRemove, Busy, TypeOK, HandlersTypeOK, WorldTypeOK, Row, Proc, Container, NoContainer
  <2>q. QED
    BY <2>1, <2>2, <2>3
<1>10. CASE AbortRootfs(r)
  <2>1. Busy(r)
    BY <1>10, BusyIsInside DEF AbortRootfs, Resting, Proc
  <2>2. Moves(r)
    BY <1>10, <2>1, RowFields
       DEF AbortRootfs, Moves, Succeed, Busy, BusyPcs, TypeOK, HandlersTypeOK, WorldTypeOK,
           Container, Proc, RequestPcs, CreatePcs, Resting
  <2>3. WorldTypeOK' /\ Touches(sid[r])
    BY <1>10, <2>1, RowFields
       DEF AbortRootfs, RemoveAll, Busy, Touches, TypeOK, HandlersTypeOK, WorldTypeOK, Proc
  <2>q. QED
    BY <2>1, <2>2, <2>3
<1>11. CASE ExecGet(r)
  <2>1. Busy(r)
    BY <1>11, BusyIsInside DEF ExecGet, Resting, Proc
  <2>2. Moves(r)
    BY <1>11, <2>1, RowFields
       DEF ExecGet, GetActive, Moves, Succeed, Busy, BusyPcs, TypeOK, HandlersTypeOK, WorldTypeOK,
           Container, Proc, RequestPcs, CreatePcs, Resting
  <2>3. WorldTypeOK' /\ Touches(sid[r])
    BY <1>11, <2>1, EngineShape, ContainerFields
       DEF ExecGet, GetActive, Busy, TypeOK, HandlersTypeOK, WorldTypeOK, Row, Proc
  <2>q. QED
    BY <2>1, <2>2, <2>3
<1>12. CASE Exec(r)
  <2>1. Busy(r)
    BY <1>12, BusyIsInside DEF Exec, Resting, Proc
  <2>2. Moves(r)
    BY <1>12, <2>1, RowFields
       DEF Exec, Moves, Succeed, Busy, BusyPcs, TypeOK, HandlersTypeOK, WorldTypeOK,
           Container, Proc, RequestPcs, CreatePcs, Resting
  <2>3. WorldTypeOK' /\ Touches(sid[r])
    BY <1>12, <2>1, EngineShape, ContainerFields
       DEF Exec, Busy, TypeOK, HandlersTypeOK, WorldTypeOK, Row, Proc
  <2>q. QED
    BY <2>1, <2>2, <2>3
<1>13. CASE ExecLog(r)
  <2>1. Busy(r)
    BY <1>13, BusyIsInside DEF ExecLog, Resting, Proc
  <2>2. Moves(r)
    BY <1>13, <2>1, RowFields
       DEF ExecLog, Moves, Succeed, Busy, BusyPcs, TypeOK, HandlersTypeOK, WorldTypeOK,
           Container, Proc, RequestPcs, CreatePcs, Resting
  <2>3. WorldTypeOK' /\ Touches(sid[r])
    BY <1>13, <2>1, RowFields
       DEF ExecLog, RemoveAll, Busy, Touches, TypeOK, HandlersTypeOK, WorldTypeOK, Proc
  <2>q. QED
    BY <2>1, <2>2, <2>3
<1>14. CASE ExecInspect(r)
  <2>1. Busy(r)
    BY <1>14, BusyIsInside DEF ExecInspect, Resting, Proc
  <2>2. Moves(r)
    BY <1>14, <2>1, RowFields
       DEF ExecInspect, Moves, Succeed, Busy, BusyPcs, TypeOK, HandlersTypeOK, WorldTypeOK,
           Container, Proc, RequestPcs, CreatePcs, Resting
  <2>3. WorldTypeOK' /\ Touches(sid[r])
    BY <1>14, <2>1, EngineShape, ContainerFields
       DEF ExecInspect, Busy, TypeOK, HandlersTypeOK, WorldTypeOK, Row, Proc
  <2>q. QED
    BY <2>1, <2>2, <2>3
<1>15. CASE StopGet(r)
  <2>1. Busy(r)
    BY <1>15, BusyIsInside DEF StopGet, Resting, Proc
  <2>2. Moves(r)
    BY <1>15, <2>1, RowFields
       DEF StopGet, GetActive, Moves, Succeed, Busy, BusyPcs, TypeOK, HandlersTypeOK, WorldTypeOK,
           Container, Proc, RequestPcs, CreatePcs, Resting
  <2>3. WorldTypeOK' /\ Touches(sid[r])
    BY <1>15, <2>1, EngineShape, ContainerFields
       DEF StopGet, GetActive, Busy, TypeOK, HandlersTypeOK, WorldTypeOK, Row, Proc
  <2>q. QED
    BY <2>1, <2>2, <2>3
<1>16. CASE StopRun(r)
  <2>1. Busy(r)
    BY <1>16, BusyIsInside DEF StopRun, Resting, Proc
  <2>2. Moves(r)
    BY <1>16, <2>1, RowFields
       DEF StopRun, Moves, Succeed, Busy, BusyPcs, TypeOK, HandlersTypeOK, WorldTypeOK,
           Container, Proc, RequestPcs, CreatePcs, Resting
  <2>3. WorldTypeOK' /\ Touches(sid[r])
    BY <1>16, <2>1, EngineShape, ContainerFields
       DEF StopRun, Busy, TypeOK, HandlersTypeOK, WorldTypeOK, Row, Proc
  <2>q. QED
    BY <2>1, <2>2, <2>3
<1>17. CASE StopRemove(r)
  <2>1. Busy(r)
    BY <1>17, BusyIsInside DEF StopRemove, Resting, Proc
  <2>2. Moves(r)
    BY <1>17, <2>1, RowFields
       DEF StopRemove, Moves, Succeed, Busy, BusyPcs, TypeOK, HandlersTypeOK, WorldTypeOK,
           Container, Proc, RequestPcs, CreatePcs, Resting
  <2>3. WorldTypeOK' /\ Touches(sid[r])
    BY <1>17, <2>1, EngineShape, ContainerFields
       DEF StopRemove, Busy, TypeOK, HandlersTypeOK, WorldTypeOK, Row, Proc, Container, NoContainer
  <2>q. QED
    BY <2>1, <2>2, <2>3
<1>18. CASE MarkStopped(r) \/ DeleteRootfs(r)
  BY <1>18, SharedShape DEF Proc
<1>q. QED
  BY <1>1, <1>2, <1>3, <1>4, <1>5, <1>6, <1>7, <1>8, <1>9, <1>10, <1>11, <1>12, <1>13, <1>14, <1>15, <1>16, <1>17, <1>18
     DEF Step, CreateStep, ExecStep, StopStep

\* The shape of the steps of main: it rests, visits, or takes a shared step.
LEMMA MainShape ==
    ASSUME TypeOK, MainStep
    PROVE  HandlersTypeOK' /\ WorldTypeOK'
<1> USE SessionServiceAssumption DEF stored
<1>1. CASE Boot \/ ReconcileList \/ ReconcileDone
  <2>1. HandlersTypeOK'
    BY <1>1, MainGotoType DEF Boot, ReconcileList, ReconcileDone, MainPcs, Resting, TypeOK
  <2>2. WorldTypeOK'
    BY <1>1 DEF Boot, ReconcileList, ReconcileDone, TypeOK, WorldTypeOK
  <2>q. QED
    BY <2>1, <2>2
<1>2. CASE ReconcileSaveId
  <2>1. Busy(Main)
    BY <1>2, BusyIsInside DEF ReconcileSaveId, Resting, Proc
  <2>2. HandlersTypeOK'
    BY <1>2, <2>1, MovesType DEF ReconcileSaveId, Moves, TypeOK, Proc
  <2>3. WorldTypeOK'
    BY <1>2 DEF ReconcileSaveId, TypeOK, HandlersTypeOK, WorldTypeOK, Proc
  <2>q. QED
    BY <2>2, <2>3
<1>3. CASE MarkStopped(Main) \/ DeleteRootfs(Main)
  BY <1>3, SharedShape, MovesType DEF TypeOK, Proc
<1>4. ASSUME NEW s \in Session, ReconcileInspect(s) PROVE HandlersTypeOK' /\ WorldTypeOK'
  <2>1. WorldTypeOK'
    BY <1>4 DEF ReconcileInspect, TypeOK, WorldTypeOK
  <2>2. row[s] \in Row /\ [row[s] EXCEPT !.cid = container[s].cid] \in Row
    BY RowFields DEF TypeOK, WorldTypeOK, Container
  <2>3. HandlersTypeOK'
    BY <1>4, <2>2, MainGotoType, VisitType
       DEF ReconcileInspect, MainPcs, Resting, TypeOK, HandlersTypeOK
  <2>q. QED
    BY <2>1, <2>3
<1>q. QED
  BY <1>1, <1>2, <1>3, <1>4 DEF MainStep

\* Accepting a request, and everything outside the handlers.
LEMMA AcceptType ==
    ASSUME TypeOK, NEW r \in Request, NEW s \in Session, Accept(r, s)
    PROVE  TypeOK'
<1>1. \E step \in RequestPcs \ Resting, rec \in Row : Begin(r, s, step, rec)
  BY DEF Accept, CreateBegin, ExecBegin, StopBegin, EffectivePolicy, Row, NoRow, RequestPcs, Resting
<1>2. HandlersTypeOK'
  BY <1>1, BeginType DEF TypeOK
<1>3. WorldTypeOK'
  BY <1>1 DEF Begin, TypeOK, WorldTypeOK, stored
<1>q. QED
  BY <1>2, <1>3 DEF TypeOK

\* Clients, crashes and the engine's own changes keep the types.
LEMMA ExternalType ==
    ASSUME TypeOK, NEW s \in Session, External(s)
    PROVE  TypeOK'
<1>1. HandlersTypeOK'
  <2>1. UNCHANGED <<pc, sid, session, gone, locks, todo>>
    BY DEF External, ContainerDies, ContainerRemoved, ContainerRestarted, ContainerReplaced, handlers
  <2>q. QED
    BY <2>1 DEF TypeOK, HandlersTypeOK
<1>2. \E c \in Container : SetContainer(s, c)
  <2>1. container[s] \in Container
    BY DEF TypeOK, WorldTypeOK
  <2>2. NoContainer \in Container /\ \A id \in ContainerId : Started([NoContainer EXCEPT !.cid = id]) \in Container
    BY DEF Container, NoContainer, Started
  <2>q. QED
    BY <2>1, <2>2, ContainerFields
       DEF External, ContainerDies, ContainerRemoved, ContainerRestarted, ContainerReplaced
<1>3. WorldTypeOK'
  BY <1>2, SetContainerType
     DEF External, ContainerDies, ContainerRemoved, ContainerRestarted, ContainerReplaced,
         stored, TypeOK
<1>q. QED
  BY <1>1, <1>3 DEF TypeOK

\* Every step keeps the types.
LEMMA TypeStep ==
    ASSUME TypeOK, [Next]_vars
    PROVE  TypeOK'
<1>1. CASE MainStep
  BY <1>1, MainShape DEF TypeOK
<1>2. ASSUME NEW r \in Request, Step(r) PROVE TypeOK'
  BY <1>2, StepShape, MovesType DEF TypeOK, Proc
<1>3. ASSUME NEW r \in Request, ClientGone(r) PROVE TypeOK'
  BY <1>3 DEF ClientGone, TypeOK, HandlersTypeOK, WorldTypeOK, stored
<1>4. ASSUME NEW r \in Request, NEW s \in Session, Accept(r, s) PROVE TypeOK'
  BY <1>4, AcceptType
<1>5. ASSUME NEW s \in Session, External(s) PROVE TypeOK'
  BY <1>5, ExternalType
<1>6. CASE Crash
  BY <1>6, SessionServiceAssumption
     DEF Crash, TypeOK, HandlersTypeOK, WorldTypeOK, stored, Row, NoRow,
         Proc, MainPcs, RequestPcs, CreatePcs, Resting
<1>7. CASE UNCHANGED vars
  BY <1>7 DEF vars, TypeOK, HandlersTypeOK, WorldTypeOK
<1>q. QED
  BY <1>1, <1>2, <1>3, <1>4, <1>5, <1>6, <1>7 DEF Next

\* Every reachable state is well typed, and a goroutine has a session exactly
\* while it is inside a handler or a visit.
THEOREM TypeCorrect == Spec => []TypeOK
<1>1. Init => TypeOK
  BY SessionServiceAssumption
     DEF Init, TypeOK, HandlersTypeOK, WorldTypeOK, Row, NoRow, Container, NoContainer,
         Proc, MainPcs, RequestPcs, CreatePcs, Resting
<1>2. TypeOK /\ [Next]_vars => TypeOK'
  BY TypeStep
<1>q. QED
  BY <1>1, <1>2, PTL DEF Spec


-----------------------------------------------------------------------------
(***************************************************************************)
(* The service invariant.  A step of a goroutine disturbs only its own     *)
(* session (Touches), and no other goroutine is on that session            *)
(* (Exclusive); so it is enough to look at its own row and its own view.   *)
(***************************************************************************)

Inv == TypeOK /\ ServiceInvariant

\* Two goroutines that are inside a handler or a visit are on different sessions.
LEMMA Exclusive ==
    ASSUME Inv, NEW p \in Proc, NEW q \in Proc, p # q, Busy(p), Busy(q)
    PROVE  sid[p] # sid[q]
<1>1. pc[p] \notin Resting /\ pc[q] \notin Resting
  BY BusyIsInside DEF Inv
<1>q. QED
  BY <1>1 DEF Inv, ServiceInvariant, LockDiscipline, MainAlone, Resting, Proc

\* A step of p leaves every other goroutine where it is.
LEMMA OthersStay ==
    ASSUME TypeOK, NEW p \in Proc, Moves(p), NEW q \in Proc, q # p
    PROVE  pc'[q] = pc[q] /\ sid'[q] = sid[q] /\ session'[q] = session[q]
BY SessionServiceAssumption
   DEF TypeOK, HandlersTypeOK, Moves, Succeed, Fail, Continue, MainGoto, Return, Proc

\* What a step keeps of its own view and its own row, it keeps of all.
LEMMA Frame ==
    ASSUME Inv, NEW p \in Proc, Busy(p), Moves(p), NEW s \in Session, s = sid[p], Touches(s),
           LocalSound(p)', RowSound(s)'
    PROVE  /\ \A t \in Session : RowSound(t)'
           /\ \A q \in Proc : LocalSound(q)'
<1>1. ASSUME NEW t \in Session PROVE RowSound(t)'
  BY <1>1 DEF Touches, Inv, ServiceInvariant, RowSound
<1>2. ASSUME NEW q \in Proc, q # p PROVE LocalSound(q)'
  <2>1. pc'[q] = pc[q] /\ sid'[q] = sid[q] /\ session'[q] = session[q]
    BY <1>2, OthersStay DEF Inv
  <2>2. CASE Busy(q)
    <3>1. /\ row'[sid[q]] = row[sid[q]]
          /\ sid[q] \in rootfs' <=> sid[q] \in rootfs
      BY <1>2, <2>2, Exclusive DEF Touches, Busy
    <3>q. QED
      BY <2>1, <3>1 DEF Inv, ServiceInvariant, LocalSound, SameSession
  <2>3. CASE ~Busy(q)
    <3>1. pc[q] \in Resting
      BY <2>3, BusyIsInside DEF Inv
    <3>q. QED
      BY <2>1, <3>1 DEF LocalSound, Resting, CreatePcs
  <2>q. QED
    BY <2>2, <2>3
<1>q. QED
  BY <1>1, <1>2

\* Going on inside a handler, or leaving it, keeps the locks in order.
LEMMA MovesKeepsLocks ==
    ASSUME Inv, NEW r \in Request, Busy(r), Moves(r)
    PROVE  LockDiscipline' /\ MainAlone' /\ todo' = {} /\ pc'[Main] = "serving"
<1> USE SessionServiceAssumption
    DEF Inv, TypeOK, HandlersTypeOK, ServiceInvariant, LockDiscipline, MainAlone, TodoActive,
        Busy, BusyPcs, Resting, Proc
<1>1. pc[r] # "idle" /\ pc[Main] = "serving" /\ todo = {}
  OBVIOUS
<1>2. ASSUME NEW step \in BusyPcs(r), NEW rec \in Row, Continue(r, step, rec)
      PROVE  LockDiscipline' /\ MainAlone' /\ todo' = {} /\ pc'[Main] = "serving"
  BY <1>1, <1>2 DEF Continue
<1>3. CASE Return(r)
  BY <1>1, <1>3 DEF Return
<1>q. QED
  BY <1>2, <1>3 DEF Moves, Succeed, Fail

\* The shared calls keep the view and the row they work on sound.
LEMMA SharedOwn ==
    ASSUME Inv, NEW p \in Proc, MarkStopped(p) \/ DeleteRootfs(p), NEW s \in Session, s = sid[p]
    PROVE  LocalSound(p)' /\ RowSound(s)'
<1> USE SessionServiceAssumption
    DEF Inv, TypeOK, HandlersTypeOK, WorldTypeOK, ServiceInvariant, RowSound, LocalSound,
        SameSession, Proc, CreatePcs, Goto, Continue, Succeed, Fail, Return, MainGoto, stored, Row
<1>1. Busy(p)
  BY SharedShape
<1>2. CASE MarkStopped(p)
  BY <1>1, <1>2 DEF MarkStopped, Busy
<1>3. CASE DeleteRootfs(p)
  BY <1>1, <1>3 DEF DeleteRootfs, RemoveAll, Busy
<1>q. QED
  BY <1>2, <1>3

\* Every step of a handler keeps its own view and its own row sound.
LEMMA StepOwn ==
    ASSUME Inv, NEW r \in Request, Step(r), NEW s \in Session, s = sid[r]
    PROVE  LocalSound(r)' /\ RowSound(s)'
<1>a. Busy(r) /\ LocalSound(r) /\ RowSound(s)
  BY StepShape DEF Inv, ServiceInvariant, Busy, Proc
<1> USE <1>a, SessionServiceAssumption
    DEF Inv, TypeOK, HandlersTypeOK, WorldTypeOK, RowSound, LocalSound, SameSession,
        Busy, Proc, CreatePcs, Goto, Continue, Return, RemoveAll, stored, Row
<1>1. CASE CreateGet(r)
  BY <1>1 DEF CreateGet
<1>2. CASE CreateMkdir(r)
  BY <1>2 DEF CreateMkdir
<1>3. CASE CreateMounts(r)
  BY <1>3 DEF CreateMounts
<1>4. CASE CreateRuntime(r)
  <2>1. /\ UNCHANGED <<row, rootfs>> /\ pc[r] = "createRuntime"
        /\ \/ Goto(r, "abortRootfs")
           \/ \E id \in ContainerId : Continue(r, "createStart", [session[r] EXCEPT !.cid = id])
    BY <1>4 DEF CreateRuntime
  <2>2. CASE Goto(r, "abortRootfs")
    BY <2>1, <2>2
  <2>3. ASSUME NEW id \in ContainerId, Continue(r, "createStart", [session[r] EXCEPT !.cid = id])
        PROVE  LocalSound(r)' /\ RowSound(s)'
    BY <2>1, <2>3
  <2>q. QED
    BY <2>1, <2>2, <2>3
<1>5. CASE CreateStart(r)
  BY <1>5 DEF CreateStart
<1>6. CASE CreatePolicy(r)
  BY <1>6 DEF CreatePolicy
<1>7. CASE CreateSave(r)
  BY <1>7 DEF CreateSave
<1>8. CASE AbortStop(r)
  BY <1>8 DEF AbortStop
<1>9. CASE AbortRemove(r)
  BY <1>9 DEF AbortRemove
<1>10. CASE AbortRootfs(r)
  BY <1>10 DEF AbortRootfs
<1>11. CASE ExecGet(r)
  BY <1>11 DEF ExecGet, GetActive
<1>12. CASE Exec(r)
  BY <1>12 DEF Exec
<1>13. CASE ExecLog(r)
  BY <1>13 DEF ExecLog
<1>14. CASE ExecInspect(r)
  BY <1>14 DEF ExecInspect
<1>15. CASE StopGet(r)
  BY <1>15 DEF StopGet, GetActive
<1>16. CASE StopRun(r)
  BY <1>16 DEF StopRun
<1>17. CASE StopRemove(r)
  BY <1>17 DEF StopRemove
<1>18. CASE MarkStopped(r) \/ DeleteRootfs(r)
  BY <1>18, SharedOwn DEF Proc
<1>q. QED
  BY <1>1, <1>2, <1>3, <1>4, <1>5, <1>6, <1>7, <1>8, <1>9, <1>10, <1>11, <1>12, <1>13, <1>14, <1>15, <1>16, <1>17, <1>18
     DEF Step, CreateStep, ExecStep, StopStep

\* A step inside a visit of the reconcile loop keeps the locks and the rest of
\* the loop in order.
LEMMA MainMovesKeepsLocks ==
    ASSUME Inv, Busy(Main), Moves(Main), Touches(sid[Main])
    PROVE  LockDiscipline' /\ MainAlone' /\ TodoActive'
<1> USE SessionServiceAssumption
    DEF Inv, TypeOK, HandlersTypeOK, ServiceInvariant, LockDiscipline, MainAlone, TodoActive,
        Busy, BusyPcs, MainPcs, Resting, Proc, Touches
<1>1. ASSUME NEW step \in BusyPcs(Main), NEW rec \in Row, Continue(Main, step, rec)
      PROVE  LockDiscipline' /\ MainAlone' /\ TodoActive'
  BY <1>1 DEF Continue
<1>2. CASE MainGoto("reconcile", todo) \/ MainGoto("serving", {})
  BY <1>2 DEF MainGoto
<1>q. QED
  BY <1>1, <1>2 DEF Moves, Succeed, Fail

\* The service invariant survives every step of main.
LEMMA MainStepSound ==
    ASSUME Inv, MainStep
    PROVE  ServiceInvariant'
<1>1. ASSUME Busy(Main), Moves(Main), Touches(sid[Main]),
             NEW s \in Session, s = sid[Main], LocalSound(Main)', RowSound(s)'
      PROVE  ServiceInvariant'
  <2>1. LockDiscipline' /\ MainAlone' /\ TodoActive'
    BY <1>1, MainMovesKeepsLocks
  <2>2. (\A t \in Session : RowSound(t)') /\ (\A q \in Proc : LocalSound(q)')
    BY <1>1, Frame DEF Proc
  <2>q. QED
    BY <2>1, <2>2 DEF ServiceInvariant, Proc
<1>2. CASE MarkStopped(Main) \/ DeleteRootfs(Main)
  <2>1. Busy(Main) /\ Moves(Main) /\ Touches(sid[Main])
    BY <1>2, SharedShape DEF Inv, Proc
  <2>2. PICK s \in Session : s = sid[Main]
    BY <2>1 DEF Busy
  <2>3. LocalSound(Main)' /\ RowSound(s)'
    BY <1>2, <2>2, SharedOwn DEF Proc
  <2>q. QED
    BY <1>1, <2>1, <2>2, <2>3
<1>3. CASE ReconcileSaveId
  <2> USE DEF ReconcileSaveId
  <2>1. Busy(Main) /\ Moves(Main)
    BY <1>3, BusyIsInside DEF Inv, Moves, Resting, Proc
  <2>2. PICK s \in Session : s = sid[Main]
    BY <2>1 DEF Busy
  <2>3. Touches(sid[Main])
    BY <1>3 DEF Touches, Inv, TypeOK, WorldTypeOK
  <2>4. LocalSound(Main)' /\ RowSound(s)'
    BY <1>3, <2>2, SessionServiceAssumption
       DEF Inv, TypeOK, HandlersTypeOK, WorldTypeOK, ServiceInvariant, LocalSound, RowSound,
           SameSession, Succeed, Fail, MainGoto, CreatePcs, Proc, Row
  <2>q. QED
    BY <1>1, <2>1, <2>2, <2>3, <2>4
<1>4. CASE Boot \/ ReconcileList \/ ReconcileDone \/ \E s \in Session : ReconcileInspect(s)
  <2> USE SessionServiceAssumption
      DEF Inv, TypeOK, HandlersTypeOK, WorldTypeOK, ServiceInvariant, Boot, ReconcileList,
          ReconcileDone, ReconcileInspect, MainGoto, Visit, stored, Proc
  <2>1. UNCHANGED <<row, rootfs, locks>>
    BY <1>4
  <2>2. \A r \in Request : pc'[r] = pc[r] /\ sid'[r] = sid[r] /\ session'[r] = session[r]
    BY <1>4
  <2>3. LockDiscipline'
    BY <2>1, <2>2 DEF LockDiscipline
  <2>4. pc[Main] # "serving"
    BY <1>4
  <2>5. MainAlone'
    BY <2>2, <2>4 DEF MainAlone
  <2>6. TodoActive'
    BY <1>4, <2>1 DEF TodoActive
  <2>7. \A s \in Session : RowSound(s)'
    BY <2>1 DEF RowSound
  <2>8. LocalSound(Main)'
    BY <1>4, <2>1 DEF LocalSound, SameSession, TodoActive, CreatePcs, Row, Container
  <2>9. \A r \in Request : LocalSound(r)'
    BY <2>1, <2>2 DEF LocalSound, SameSession
  <2>q. QED
    BY <2>3, <2>5, <2>6, <2>7, <2>8, <2>9
<1>q. QED
  BY <1>2, <1>3, <1>4 DEF MainStep

\* The service invariant survives the acceptance of a request.
LEMMA AcceptSound ==
    ASSUME Inv, NEW r \in Request, NEW s \in Session, Accept(r, s)
    PROVE  ServiceInvariant'
<1>1. \E step \in {"createGet", "execGet", "stopGet"}, rec \in Row : Begin(r, s, step, rec)
  BY DEF Accept, CreateBegin, ExecBegin, StopBegin, EffectivePolicy, Row, NoRow
<1> USE SessionServiceAssumption
    DEF Inv, TypeOK, HandlersTypeOK, ServiceInvariant, Begin, TryLock, stored, Proc
<1>2. UNCHANGED <<row, rootfs, todo>> /\ pc[Main] = "serving" /\ pc'[Main] = "serving"
  BY <1>1
<1>3. \A q \in Proc : q # r => pc'[q] = pc[q] /\ sid'[q] = sid[q] /\ session'[q] = session[q]
  BY <1>1
<1>4. /\ s \notin locks /\ locks' = locks \cup {s} /\ sid'[r] = s
      /\ pc[r] = "idle" /\ pc'[r] \in {"createGet", "execGet", "stopGet"}
  BY <1>1
<1>5. LockDiscipline'
  <2>1. \A q \in Request : pc[q] # "idle" => q # r /\ pc'[q] # "idle" /\ sid'[q] = sid[q] /\ sid[q] # s
    BY <1>3, <1>4 DEF LockDiscipline
  <2>2. \A q \in Request : pc'[q] # "idle" => q = r \/ (pc[q] # "idle" /\ sid'[q] = sid[q])
    BY <1>3
  <2>3. pc'[r] # "idle"
    BY <1>4
  <2>4. \A q \in Request : pc'[q] # "idle" => sid'[q] \in locks'
    BY <1>4, <2>2 DEF LockDiscipline
  <2>5. \A t \in locks' : \E q \in Request : pc'[q] # "idle" /\ sid'[q] = t
    <3>1. \A t \in locks : \E q \in Request : pc[q] # "idle" /\ sid[q] = t
      BY DEF LockDiscipline
    <3>q. QED
      BY <1>4, <2>1, <2>3, <3>1
  <2>6. \A p, q \in Request : p # q /\ pc'[p] # "idle" => sid'[p] # sid'[q]
    <3>1. \A q \in Request : q # r => sid'[q] # s
      BY <1>3, <2>1 DEF Resting
    <3>2. \A p, q \in Request : p # q /\ pc[p] # "idle" => sid[p] # sid[q]
      BY DEF LockDiscipline
    <3>3. \A q \in Request : q # r => pc'[q] = pc[q] /\ sid'[q] = sid[q]
      BY <1>3
    <3>q. QED
      BY <1>4, <3>1, <3>2, <3>3
  <2>q. QED
    BY <2>4, <2>5, <2>6 DEF LockDiscipline
<1>6. MainAlone' /\ TodoActive'
  BY <1>2 DEF MainAlone, TodoActive
<1>7. \A t \in Session : RowSound(t)'
  BY <1>2 DEF RowSound
<1>8. LocalSound(r)'
  BY <1>4 DEF LocalSound, CreatePcs
<1>9. \A q \in Proc : q # r => LocalSound(q)'
  BY <1>2, <1>3 DEF LocalSound, SameSession
<1>q. QED
  BY <1>5, <1>6, <1>7, <1>8, <1>9

\* Requests only ever work on sessions they have locked, and what they and the
\* reconcile loop know of a session is what is stored of it.
THEOREM ServiceInvariantHolds == Spec => []ServiceInvariant
<1>1. Init => ServiceInvariant
  BY SessionServiceAssumption
     DEF Init, ServiceInvariant, LockDiscipline, MainAlone, TodoActive, RowSound, LocalSound,
         NoRow, Proc, CreatePcs
<1>2. TypeOK /\ ServiceInvariant /\ [Next]_vars => ServiceInvariant'
  <2> SUFFICES ASSUME Inv, [Next]_vars PROVE ServiceInvariant'
    BY DEF Inv
  <2>1. CASE MainStep
    BY <2>1, MainStepSound
  <2>2. ASSUME NEW r \in Request, Step(r) PROVE ServiceInvariant'
    <3>1. Busy(r) /\ Moves(r) /\ Touches(sid[r])
      BY <2>2, StepShape DEF Inv
    <3>2. PICK s \in Session : s = sid[r]
      BY <3>1 DEF Busy
    <3>3. LocalSound(r)' /\ RowSound(s)'
      BY <2>2, <3>2, StepOwn
    <3>4. (\A t \in Session : RowSound(t)') /\ (\A q \in Proc : LocalSound(q)')
      BY <3>1, <3>2, <3>3, Frame DEF Proc
    <3>5. LockDiscipline' /\ MainAlone' /\ todo' = {}
      BY <3>1, MovesKeepsLocks
    <3>6. TodoActive'
      BY <3>5 DEF TodoActive
    <3>q. QED
      BY <3>4, <3>5, <3>6 DEF ServiceInvariant
  <2>3. ASSUME NEW r \in Request, ClientGone(r) PROVE ServiceInvariant'
    BY <2>3 DEF ClientGone, Inv, ServiceInvariant, LockDiscipline, MainAlone, TodoActive,
                RowSound, LocalSound, SameSession, stored
  <2>4. ASSUME NEW r \in Request, NEW s \in Session, Accept(r, s) PROVE ServiceInvariant'
    BY <2>4, AcceptSound
  <2>5. ASSUME NEW s \in Session, External(s) PROVE ServiceInvariant'
    BY <2>5 DEF External, ContainerDies, ContainerRemoved, ContainerRestarted, ContainerReplaced,
                handlers, stored, Inv, ServiceInvariant, LockDiscipline, MainAlone, TodoActive,
                RowSound, LocalSound, SameSession
  <2>6. CASE Crash
    BY <2>6, SessionServiceAssumption
       DEF Crash, stored, Inv, ServiceInvariant, LockDiscipline, MainAlone, TodoActive,
           RowSound, LocalSound, Proc, CreatePcs
  <2>7. CASE UNCHANGED vars
    BY <2>7 DEF vars, Inv, ServiceInvariant, LockDiscipline, MainAlone, TodoActive,
                RowSound, LocalSound, SameSession
  <2>q. QED
    BY <2>1, <2>2, <2>3, <2>4, <2>5, <2>6, <2>7 DEF Next
<1>q. QED
  BY <1>1, <1>2, TypeCorrect, PTL DEF Spec

\* No two handlers are inside the same session, and no lock outlives its handler.
THEOREM LocksDisciplined == Spec => []LockDiscipline
<1>1. ServiceInvariant => LockDiscipline
  BY DEF ServiceInvariant
<1>q. QED
  BY <1>1, ServiceInvariantHolds, PTL

\* No handler, failure or restart deletes files the configuration retains.
THEOREM RootfsKept == Spec => []RowKeepsRootfs
<1>1. ServiceInvariant => RowKeepsRootfs
  BY DEF ServiceInvariant, RowSound, RowKeepsRootfs
<1>q. QED
  BY <1>1, ServiceInvariantHolds, PTL

-----------------------------------------------------------------------------
(***************************************************************************)
(* What one step may do to a session, and from it the action property and  *)
(* the refinement.                                                         *)
(***************************************************************************)

SameFiles(s) == s \in rootfs' <=> s \in rootfs

\* The row and the directory of a session change in one of four ways.
Evolves(s) ==
    \/ row'[s] = row[s] /\ SameFiles(s)
    \/ row'[s] = row[s] /\ row[s].status = "absent"
    \/ /\ row[s].status = "absent" /\ row'[s].status = "active"
       /\ row'[s].rootfs <=> s \in rootfs
       /\ SameFiles(s)
    \/ /\ row[s].status = "active" /\ row'[s].status \in {"active", "stopped"}
       /\ row'[s].rootfs = row[s].rootfs /\ row'[s].policy = row[s].policy
       /\ SameFiles(s)
    \/ /\ row'[s] = row[s] /\ row[s].status = "stopped" /\ row[s].rootfs
       /\ DeleteRootfsOnStop /\ s \notin rootfs'

\* Marking a session stopped and deleting its directory take it along its life.
LEMMA SharedEvolves ==
    ASSUME Inv, NEW p \in Proc, MarkStopped(p) \/ DeleteRootfs(p), NEW s \in Session, s = sid[p]
    PROVE  Evolves(s)
BY DEF MarkStopped, DeleteRootfs, RemoveAll, stored, Inv, TypeOK, HandlersTypeOK, WorldTypeOK,
       ServiceInvariant, LocalSound, SameSession, Evolves, SameFiles, Row

\* So does every step of a handler.
LEMMA StepEvolves ==
    ASSUME Inv, NEW r \in Request, Step(r), NEW s \in Session, s = sid[r]
    PROVE  Evolves(s)
<1>a. LocalSound(r)
  BY DEF Inv, ServiceInvariant, Proc
<1> USE <1>a
    DEF stored, RemoveAll, Inv, TypeOK, HandlersTypeOK, WorldTypeOK, LocalSound, CreatePcs,
        Evolves, SameFiles, Row, Proc
<1>1. CASE CreateMkdir(r)
  BY <1>1 DEF CreateMkdir
<1>2. CASE CreateMounts(r)
  BY <1>2 DEF CreateMounts
<1>3. CASE AbortRootfs(r)
  BY <1>3 DEF AbortRootfs
<1>4. CASE CreateSave(r)
  BY <1>4 DEF CreateSave
<1>5. CASE MarkStopped(r) \/ DeleteRootfs(r)
  BY <1>5, SharedEvolves
<1>6. CASE UNCHANGED <<row, rootfs>>
  BY <1>6
<1>7. CASE CreateGet(r) \/ CreateRuntime(r) \/ CreateStart(r) \/ CreatePolicy(r)
              \/ AbortStop(r) \/ AbortRemove(r) \/ ExecGet(r)
  BY <1>7, <1>6
     DEF CreateGet, CreateRuntime, CreateStart, CreatePolicy, AbortStop, AbortRemove, ExecGet, GetActive
<1>8. CASE Exec(r) \/ ExecLog(r) \/ ExecInspect(r) \/ StopGet(r) \/ StopRun(r) \/ StopRemove(r)
  BY <1>8, <1>6
     DEF Exec, ExecLog, ExecInspect, StopGet, StopRun, StopRemove, GetActive
<1>q. QED
  BY <1>1, <1>2, <1>3, <1>4, <1>5, <1>6, <1>7, <1>8 DEF Step, CreateStep, ExecStep, StopStep

\* Whatever happens, at most one session changes, and it evolves.
LEMMA Evolution ==
    ASSUME Inv, [Next]_vars
    PROVE  UNCHANGED <<row, rootfs>> \/ \E s \in Session : Evolves(s) /\ Touches(s)
<1>1. CASE MainStep
  <2>1. CASE MarkStopped(Main) \/ DeleteRootfs(Main)
    <3>1. Busy(Main) /\ Touches(sid[Main])
      BY <2>1, SharedShape DEF Inv, Proc
    <3>q. QED
      BY <2>1, <3>1, SharedEvolves DEF Busy, Proc
  <2>2. CASE ReconcileSaveId
    <3>1. sid[Main] \in Session
      BY <2>2, BusyIsInside DEF ReconcileSaveId, Inv, Busy, Resting, Proc
    <3>2. Evolves(sid[Main]) /\ Touches(sid[Main])
      BY <2>2, <3>1
         DEF ReconcileSaveId, Inv, TypeOK, HandlersTypeOK, WorldTypeOK, ServiceInvariant,
             LocalSound, SameSession, Evolves, SameFiles, Touches, Proc
    <3>q. QED
      BY <3>1, <3>2
  <2>3. CASE Boot \/ ReconcileList \/ ReconcileDone \/ \E s \in Session : ReconcileInspect(s)
    BY <2>3 DEF Boot, ReconcileList, ReconcileDone, ReconcileInspect, stored
  <2>q. QED
    BY <1>1, <2>1, <2>2, <2>3 DEF MainStep
<1>2. ASSUME NEW r \in Request, Step(r)
      PROVE  \E s \in Session : Evolves(s) /\ Touches(s)
  BY <1>2, StepShape, StepEvolves DEF Inv, Busy
<1>3. CASE \/ \E r \in Request : ClientGone(r)
           \/ \E r \in Request, s \in Session : Accept(r, s)
           \/ \E s \in Session : External(s)
           \/ Crash
  BY <1>3 DEF ClientGone, Accept, CreateBegin, ExecBegin, StopBegin, Begin, External,
              ContainerDies, ContainerRemoved, ContainerRestarted, ContainerReplaced, Crash, stored
<1>q. QED
  BY <1>1, <1>2, <1>3 DEF Next, vars

\* A saved session is never rewritten, reopened or forgotten.
THEOREM SnapshotNeverChanges == Spec => SnapshotImmutable
<1>1. Inv /\ [Next]_vars =>
        [\A s \in Session :
            row[s].status # "absent" =>
                /\ row'[s].policy = row[s].policy /\ row'[s].rootfs = row[s].rootfs
                /\ row'[s].status \in {row[s].status, "stopped"}]_vars
  <2> SUFFICES ASSUME Inv, [Next]_vars, NEW s \in Session, row[s].status # "absent"
               PROVE  /\ row'[s].policy = row[s].policy /\ row'[s].rootfs = row[s].rootfs
                      /\ row'[s].status \in {row[s].status, "stopped"}
    OBVIOUS
  <2>1. CASE UNCHANGED <<row, rootfs>>
    BY <2>1
  <2>2. ASSUME NEW t \in Session, Evolves(t), Touches(t)
        PROVE  /\ row'[s].policy = row[s].policy /\ row'[s].rootfs = row[s].rootfs
               /\ row'[s].status \in {row[s].status, "stopped"}
    BY <2>2 DEF Evolves, Touches
  <2>q. QED
    BY <2>1, <2>2, Evolution
<1>q. QED
  BY <1>1, TypeCorrect, ServiceInvariantHolds, PTL DEF Spec, Inv, SnapshotImmutable

\* The handlers implement the lifecycle: the initial state maps to its initial
\* state, every step to one of its steps or to none.
THEOREM LifecycleImplemented == Spec => ImplementsLifecycle
<1>1. Init => Lifecycle!Init
  BY DEF Init, NoRow, Lifecycle!Init
<1>2. Inv /\ [Next]_vars => [Lifecycle!Next]_Lifecycle!lifecycleVars
  <2> SUFFICES ASSUME Inv, [Next]_vars
               PROVE  [Lifecycle!Next]_Lifecycle!lifecycleVars
    OBVIOUS
  <2>1. CASE UNCHANGED <<row, rootfs>>
    BY <2>1 DEF Lifecycle!lifecycleVars
  <2>2. ASSUME NEW s \in Session, Evolves(s), Touches(s)
        PROVE  [Lifecycle!Next]_Lifecycle!lifecycleVars
    <3> USE DEF Lifecycle!lifecycleVars, Lifecycle!Next, SameFiles
    <3>0. /\ row \in [Session -> Row] /\ row' \in [Session -> Row]
          /\ rootfs \subseteq Session /\ rootfs' \subseteq Session
          /\ \A t \in Session \ {s} : row'[t] = row[t] /\ (t \in rootfs' <=> t \in rootfs)
      BY <2>2, TypeStep DEF Touches, Inv, TypeOK, WorldTypeOK
    <3>1. CASE row'[s] = row[s] /\ SameFiles(s)
      <4>1. row' = row /\ rootfs' = rootfs
        BY <3>0, <3>1
      <4>q. QED
        BY <4>1
    <3>2. CASE row'[s] = row[s] /\ row[s].status = "absent"
      <4>1. row' = row /\ rootfs' \in {rootfs \cup {s}, rootfs \ {s}}
        BY <3>0, <3>2
      <4>q. QED
        BY <3>2, <4>1 DEF Lifecycle!Prepare
    <3>3. CASE /\ row[s].status = "absent" /\ row'[s].status = "active"
               /\ row'[s].rootfs <=> s \in rootfs
               /\ SameFiles(s)
      <4>1. rootfs' = rootfs
        BY <3>0, <3>3
      <4>2. [t \in Session |-> row'[t].status] = [[t \in Session |-> row[t].status] EXCEPT ![s] = "active"]
        BY <3>0, <3>3
      <4>3. row'[s].rootfs = (s \in rootfs)
        BY <3>0, <3>3 DEF Row
      <4>4. [t \in Session |-> row'[t].rootfs] = [[t \in Session |-> row[t].rootfs] EXCEPT ![s] = s \in rootfs]
        BY <3>0, <4>3
      <4>q. QED
        BY <3>3, <4>1, <4>2, <4>4 DEF Lifecycle!Open
    <3>4. CASE /\ row[s].status = "active" /\ row'[s].status \in {"active", "stopped"}
               /\ row'[s].rootfs = row[s].rootfs
               /\ SameFiles(s)
      <4>1. rootfs' = rootfs
        BY <3>0, <3>4
      <4>2. [t \in Session |-> row'[t].rootfs] = [t \in Session |-> row[t].rootfs]
        BY <3>0, <3>4
      <4>3. \/ [t \in Session |-> row'[t].status] = [t \in Session |-> row[t].status]
            \/ [t \in Session |-> row'[t].status]
                  = [[t \in Session |-> row[t].status] EXCEPT ![s] = "stopped"]
        BY <3>0, <3>4
      <4>q. QED
        BY <3>4, <4>1, <4>2, <4>3 DEF Lifecycle!Close
    <3>5. CASE /\ row'[s] = row[s] /\ row[s].status = "stopped" /\ row[s].rootfs
               /\ DeleteRootfsOnStop /\ s \notin rootfs'
      <4>1. row' = row /\ rootfs' = rootfs \ {s}
        BY <3>0, <3>5
      <4>q. QED
        BY <3>5, <4>1 DEF Lifecycle!Delete
    <3>q. QED
      BY <3>1, <3>2, <3>3, <3>4, <3>5, <2>2 DEF Evolves
  <2>q. QED
    BY <2>1, <2>2, Evolution
<1>q. QED
  BY <1>1, <1>2, TypeCorrect, ServiceInvariantHolds, PTL
     DEF Spec, Inv, ImplementsLifecycle, Lifecycle!Spec
-----------------------------------------------------------------------------
(***************************************************************************)
(* Every handler returns, and start-up ends.                               *)
(***************************************************************************)

\* The most calls a goroutine has still to make inside its handler or its visit.
CallsLeft(step) ==
    CASE step = "createGet" -> 9
      [] step = "createMkdir" -> 8
      [] step = "createMounts" -> 7
      [] step = "createRuntime" -> 6
      [] step \in {"createStart", "execGet", "stopGet"} -> 5
      [] step \in {"createPolicy", "exec", "stopRun"} -> 4
      [] step \in {"abortStop", "execInspect", "stopRemove"} -> 3
      [] step \in {"abortRemove", "markStopped"} -> 2
      [] step \in {"createSave", "abortRootfs", "execLog", "deleteRootfs", "saveId"} -> 1
      [] OTHER -> 0

\* The guards of Step: whatever the engine, the store and the client do, one of the
\* outcomes of the call is possible.
HandlerCanGo(r) ==
    LET s == sid[r]
    IN  \/ pc[r] \in {"createGet", "createMkdir", "createMounts", "createSave", "abortRootfs",
                      "execGet", "execLog", "stopGet", "markStopped", "deleteRootfs"}
        \/ /\ pc[r] = "createRuntime"
           /\ \/ Connected(r) /\ container[s].state = "none" /\ \E id \in ContainerId : Fresh(id)
              \/ CommandFails(r)
              \/ container[s].state # "none"
        \/ pc[r] = "createStart" /\ ((Connected(r) /\ Present(r)) \/ CommandFails(r) \/ ~Present(r))
        \/ /\ pc[r] = "createPolicy"
           /\ \/ Connected(r) /\ Present(r) /\ Running(s)
              \/ CommandFails(r)
              \/ ~(Present(r) /\ Running(s))
        \/ /\ pc[r] \in {"abortStop", "abortRemove"}
           /\ (Connected(r) /\ Present(r)) \/ CleanupFails(r) \/ ~Present(r)
        \/ /\ pc[r] = "exec"
           /\ \/ Connected(r) /\ Present(r) /\ Running(s)
              \/ CommandFails(r)
              \/ Connected(r) /\ ~(Present(r) /\ Running(s))
        \/ /\ pc[r] = "execInspect"
           /\ \/ CommandFails(r)
              \/ Connected(r) /\ Running(s)
              \/ Connected(r) /\ container[s].state \in {"created", "exited", "none"}
        \/ /\ pc[r] \in {"stopRun", "stopRemove"}
           /\ \/ Connected(r) /\ Present(r)
              \/ Connected(r) /\ ~Present(r)
              \/ CommandFails(r)

\* The engine always has an ID for one more container.
EngineHasIds == \E id \in ContainerId : Fresh(id)

HandlersGoOn ==
    \A r \in Request :
        pc[r] # "idle" => CallsLeft(pc[r]) \in 1..9 /\ (EngineHasIds => HandlerCanGo(r))

\* A handler's own steps take it towards its return, nobody else's move it; a crash
\* ends it.
HandlersRunDown ==
    [][\A r \in Request :
          /\ Step(r) => CallsLeft(pc'[r]) < CallsLeft(pc[r])
          /\ pc[r] # "idle" /\ ~Step(r) => pc'[r] = pc[r] \/ Crash]_vars

\* Where main is between its start and serving.
Phase(step) ==
    CASE step = "down" -> 3
      [] step = "list" -> 2
      [] step \in {"reconcile", "saveId", "markStopped", "deleteRootfs"} -> 1
      [] OTHER -> 0

\* Main's start-up is a matter of so many visits; every step of it has an outcome
\* that needs nothing, so its guards are where main is.
MainGoesOn ==
    \/ Phase(pc'[Main]) < Phase(pc[Main])
    \/ /\ Phase(pc'[Main]) = Phase(pc[Main])
       /\ \/ Cardinality(todo') < Cardinality(todo)
          \/ todo' = todo /\ CallsLeft(pc'[Main]) < CallsLeft(pc[Main])

\* Nobody else moves it, and a crash sends it back to the start.
StartUpRunsDown ==
    [][/\ MainStep => MainGoesOn
       /\ ~MainStep => UNCHANGED <<pc[Main], todo>> \/ Crash]_vars

\* What the control operators do to where a goroutine is.
LEMMA Lands ==
    ASSUME TypeOK, NEW p \in Proc
    PROVE  /\ \A step, rec : Continue(p, step, rec) => pc'[p] = step /\ todo' = todo
           /\ \A step : Goto(p, step) => pc'[p] = step /\ todo' = todo
           /\ Return(p) => pc'[p] = "idle"
           /\ \A step, rest : MainGoto(step, rest) => pc'[Main] = step /\ todo' = rest
           /\ \A s, step, rec : Visit(s, step, rec) => pc'[Main] = step /\ todo' = todo \ {s}
BY DEF TypeOK, HandlersTypeOK, Continue, Goto, Return, MainGoto, Visit, Proc

\* The calls left, one by one.
LEMMA Calls ==
    /\ CallsLeft("createGet") = 9 /\ CallsLeft("createMkdir") = 8 /\ CallsLeft("createMounts") = 7
    /\ CallsLeft("createRuntime") = 6
    /\ CallsLeft("createStart") = 5 /\ CallsLeft("execGet") = 5 /\ CallsLeft("stopGet") = 5
    /\ CallsLeft("createPolicy") = 4 /\ CallsLeft("exec") = 4 /\ CallsLeft("stopRun") = 4
    /\ CallsLeft("abortStop") = 3 /\ CallsLeft("execInspect") = 3 /\ CallsLeft("stopRemove") = 3
    /\ CallsLeft("abortRemove") = 2 /\ CallsLeft("markStopped") = 2
    /\ CallsLeft("createSave") = 1 /\ CallsLeft("abortRootfs") = 1 /\ CallsLeft("execLog") = 1
    /\ CallsLeft("deleteRootfs") = 1 /\ CallsLeft("saveId") = 1
    /\ CallsLeft("idle") = 0 /\ CallsLeft("reconcile") = 0
BY DEF CallsLeft

\* Every call of a handler leaves it fewer.
LEMMA StepGoesDown ==
    ASSUME TypeOK, NEW r \in Request, Step(r)
    PROVE  CallsLeft(pc'[r]) < CallsLeft(pc[r])
<1>a. r \in Proc /\ r # Main
  BY SessionServiceAssumption DEF Proc
<1> USE <1>a, Lands, Calls DEF Succeed, Fail
<1>1. CASE CreateGet(r) \/ CreateMkdir(r) \/ CreateMounts(r)
  BY <1>1 DEF CreateGet, CreateMkdir, CreateMounts
<1>2. CASE CreateRuntime(r)
  <2>1. /\ pc[r] = "createRuntime"
        /\ Goto(r, "abortRootfs") \/ \E rec : Continue(r, "createStart", rec)
    BY <1>2 DEF CreateRuntime
  <2>q. QED
    BY <2>1
<1>3. CASE CreateStart(r)
  BY <1>3 DEF CreateStart
<1>4. CASE CreatePolicy(r) \/ CreateSave(r)
  BY <1>4 DEF CreatePolicy, CreateSave
<1>5. CASE AbortStop(r) \/ AbortRemove(r) \/ AbortRootfs(r)
  BY <1>5 DEF AbortStop, AbortRemove, AbortRootfs
<1>6. CASE ExecGet(r) \/ StopGet(r)
  BY <1>6 DEF ExecGet, StopGet, GetActive
<1>7. CASE Exec(r) \/ ExecLog(r) \/ ExecInspect(r)
  BY <1>7 DEF Exec, ExecLog, ExecInspect
<1>8. CASE StopRun(r) \/ StopRemove(r)
  BY <1>8 DEF StopRun, StopRemove
<1>9. CASE MarkStopped(r) \/ DeleteRootfs(r)
  BY <1>9 DEF MarkStopped, DeleteRootfs
<1>q. QED
  BY <1>1, <1>2, <1>3, <1>4, <1>5, <1>6, <1>7, <1>8, <1>9 DEF Step, CreateStep, ExecStep, StopStep

\* Nobody but the handler itself, and a crash, moves it.
LEMMA OthersLeaveHandlers ==
    ASSUME TypeOK, [Next]_vars, NEW r \in Request, pc[r] # "idle", ~Step(r), ~Crash
    PROVE  pc'[r] = pc[r]
<1>a. pc \in [Proc -> RequestPcs \cup MainPcs] /\ r \in Proc /\ Main \in Proc /\ r # Main
  BY SessionServiceAssumption DEF TypeOK, HandlersTypeOK, Proc
<1>1. CASE MainStep
  <2>1. \/ Moves(Main)
        \/ \E step, rest : MainGoto(step, rest)
        \/ \E s, step, rec : Visit(s, step, rec)
    <3>1. CASE MarkStopped(Main) \/ DeleteRootfs(Main)
      BY <1>a, <3>1, SharedShape
    <3>2. CASE ReconcileSaveId
      BY <3>2 DEF ReconcileSaveId, Moves
    <3>3. CASE Boot \/ ReconcileList \/ ReconcileDone
      BY <3>3 DEF Boot, ReconcileList, ReconcileDone
    <3>4. ASSUME NEW s \in Session, ReconcileInspect(s)
          PROVE  (\E step, rest : MainGoto(step, rest)) \/ \E t, step, rec : Visit(t, step, rec)
      BY <3>4 DEF ReconcileInspect
    <3>q. QED
      BY <1>1, <3>1, <3>2, <3>3, <3>4 DEF MainStep
  <2>2. Moves(Main) => pc'[r] = pc[r]
    BY <1>a, OthersStay
  <2>q. QED
    BY <1>a, <2>1, <2>2 DEF MainGoto, Visit
<1>2. ASSUME NEW q \in Request, Step(q) PROVE pc'[r] = pc[r]
  <2>1. q # r /\ q \in Proc /\ Moves(q)
    BY <1>2, StepShape DEF Proc
  <2>q. QED
    BY <1>a, <2>1, OthersStay
<1>3. ASSUME NEW q \in Request, NEW s \in Session, Accept(q, s) PROVE pc'[r] = pc[r]
  BY <1>a, <1>3 DEF Accept, CreateBegin, ExecBegin, StopBegin, Begin
<1>4. CASE \/ \E q \in Request : ClientGone(q)
           \/ \E s \in Session : External(s)
           \/ UNCHANGED vars
  BY <1>4 DEF ClientGone, External, ContainerDies, ContainerRemoved, ContainerRestarted,
              ContainerReplaced, handlers, vars
<1>q. QED
  BY <1>1, <1>2, <1>3, <1>4 DEF Next

\* No handler is ever stuck: whatever fails, and whoever else is at work, it makes at
\* most nine more calls, always has an outcome to go on with as long as the engine has
\* an ID for a container, and nothing but its own calls and a crash moves it.  So it
\* returns, and its deferred release with it.
THEOREM HandlersReturn == Spec => []HandlersGoOn /\ HandlersRunDown
<1>1. TypeOK => HandlersGoOn
  <2> SUFFICES ASSUME TypeOK, NEW r \in Request, pc[r] # "idle"
               PROVE  CallsLeft(pc[r]) \in 1..9 /\ (EngineHasIds => HandlerCanGo(r))
    BY DEF HandlersGoOn
  <2>1. pc[r] \in RequestPcs \ {"idle"} /\ sid[r] \in Session
    BY DEF TypeOK, HandlersTypeOK, Resting, RequestPcs, CreatePcs, Proc
  <2>2. CallsLeft(pc[r]) \in 1..9
    BY <2>1, Calls DEF RequestPcs, CreatePcs
  <2>3. container[sid[r]].state \in {"none", "created", "running", "exited"}
    BY <2>1 DEF TypeOK, WorldTypeOK, Container
  <2>4. EngineHasIds => HandlerCanGo(r)
    BY <2>1, <2>3 DEF RequestPcs, CreatePcs, EngineHasIds, HandlerCanGo, Connected, CommandFails,
                      CleanupFails, Running
  <2>q. QED
    BY <2>2, <2>4
<1>2. TypeOK /\ [Next]_vars =>
        [\A r \in Request :
            /\ Step(r) => CallsLeft(pc'[r]) < CallsLeft(pc[r])
            /\ pc[r] # "idle" /\ ~Step(r) => pc'[r] = pc[r] \/ Crash]_vars
  BY StepGoesDown, OthersLeaveHandlers
<1>q. QED
  BY <1>1, <1>2, TypeCorrect, PTL DEF Spec, HandlersRunDown

\* Only so many sessions have ever been saved, and so only so many wait for a visit.
Saved == {s \in Session : row[s].status # "absent"}

LEMMA SavedStayFinite == Spec => [](IsFiniteSet(Saved) /\ IsFiniteSet(todo))
<1>1. Init => IsFiniteSet(Saved)
  <2>1. Init => Saved = {}
    BY DEF Init, NoRow, Saved
  <2>q. QED
    BY <2>1, FS_EmptySet
<1>2. Inv /\ [Next]_vars /\ IsFiniteSet(Saved) => IsFiniteSet(Saved)'
  <2> SUFFICES ASSUME Inv, [Next]_vars, IsFiniteSet(Saved) PROVE IsFiniteSet(Saved')
    OBVIOUS
  <2>1. CASE UNCHANGED <<row, rootfs>>
    BY <2>1 DEF Saved
  <2>2. ASSUME NEW s \in Session, Touches(s) PROVE IsFiniteSet(Saved')
    <3>1. Saved' \subseteq Saved \cup {s}
      BY <2>2 DEF Touches, Saved
    <3>q. QED
      BY <3>1, FS_AddElement, FS_Subset
  <2>q. QED
    BY <2>1, <2>2, Evolution
<1>3. Inv /\ IsFiniteSet(Saved) => IsFiniteSet(todo)
  <2>1. Inv => todo \subseteq Saved
    BY DEF Inv, ServiceInvariant, TodoActive, TypeOK, HandlersTypeOK, Saved
  <2>q. QED
    BY <2>1, FS_Subset
<1>q. QED
  BY <1>1, <1>2, <1>3, TypeCorrect, ServiceInvariantHolds, PTL DEF Spec, Inv

\* A step of main brings it nearer to serving.
LEMMA MainStepGoesOn ==
    ASSUME TypeOK, IsFiniteSet(todo), MainStep
    PROVE  MainGoesOn
<1>a. Main \in Proc
  BY DEF Proc
<1>b. /\ Phase("down") = 3 /\ Phase("list") = 2 /\ Phase("serving") = 0
      /\ Phase("reconcile") = 1 /\ Phase("saveId") = 1
      /\ Phase("markStopped") = 1 /\ Phase("deleteRootfs") = 1
  BY DEF Phase
<1> USE <1>a, <1>b, Lands, Calls DEF Succeed, Fail, MainGoesOn
<1>1. CASE Boot \/ ReconcileList \/ ReconcileDone
  BY <1>1 DEF Boot, ReconcileList, ReconcileDone
<1>2. CASE ReconcileSaveId
  BY <1>2 DEF ReconcileSaveId
<1>3. CASE MarkStopped(Main) \/ DeleteRootfs(Main)
  BY <1>3 DEF MarkStopped, DeleteRootfs
<1>4. ASSUME NEW s \in Session, ReconcileInspect(s) PROVE MainGoesOn
  <2>1. s \in todo /\ pc[Main] = "reconcile"
    BY <1>4 DEF ReconcileInspect
  <2>2. \/ pc'[Main] = "serving"
        \/ pc'[Main] \in {"reconcile", "saveId", "markStopped"} /\ todo' = todo \ {s}
    BY <1>4 DEF ReconcileInspect
  <2>3. Cardinality(todo \ {s}) = Cardinality(todo) - 1 /\ Cardinality(todo) \in Nat
    BY <2>1, FS_RemoveElement, FS_CardinalityType
  <2>4. todo' = todo \ {s} => Cardinality(todo') < Cardinality(todo)
    <3>1. ASSUME todo' = todo \ {s} PROVE Cardinality(todo') = Cardinality(todo \ {s})
      BY <3>1
    <3>q. QED
      BY <2>3, <3>1
  <2>5. Phase(pc[Main]) = 1
    BY <2>1
  <2>6. Phase(pc'[Main]) = 0 \/ (Phase(pc'[Main]) = 1 /\ todo' = todo \ {s})
    BY <2>2
  <2>q. QED
    BY <2>4, <2>5, <2>6
<1>q. QED
  BY <1>1, <1>2, <1>3, <1>4 DEF MainStep

\* Start-up ends: each step of main takes it to a later phase, visits a session that
\* waited for it, or goes on with a visit, and nobody else moves it.
THEOREM StartUpEnds == Spec => StartUpRunsDown
<1>1. ASSUME TypeOK, [Next]_vars, ~MainStep, ~Crash
      PROVE  UNCHANGED <<pc[Main], todo>>
  <2>a. pc \in [Proc -> RequestPcs \cup MainPcs] /\ Main \in Proc /\ Main \notin Request
    BY <1>1, SessionServiceAssumption DEF TypeOK, HandlersTypeOK, Proc
  <2>1. ASSUME NEW r \in Request, Step(r) PROVE UNCHANGED <<pc[Main], todo>>
    <3>1. r \in Proc /\ r # Main /\ Moves(r)
      BY <1>1, <2>a, <2>1, StepShape DEF Proc
    <3>2. pc'[Main] = pc[Main]
      BY <1>1, <2>a, <3>1, OthersStay
    <3>3. todo' = todo
      BY <3>1 DEF Moves, Succeed, Fail, Continue, Return
    <3>q. QED
      BY <3>2, <3>3
  <2>2. ASSUME NEW r \in Request, NEW s \in Session, Accept(r, s) PROVE UNCHANGED <<pc[Main], todo>>
    BY <2>a, <2>2 DEF Accept, CreateBegin, ExecBegin, StopBegin, Begin
  <2>3. CASE \/ \E r \in Request : ClientGone(r)
             \/ \E s \in Session : External(s)
             \/ UNCHANGED vars
    BY <2>3 DEF ClientGone, External, ContainerDies, ContainerRemoved, ContainerRestarted,
                ContainerReplaced, handlers, vars
  <2>q. QED
    BY <1>1, <2>1, <2>2, <2>3 DEF Next
<1>2. TypeOK /\ IsFiniteSet(todo) /\ [Next]_vars =>
        [/\ MainStep => MainGoesOn
         /\ ~MainStep => UNCHANGED <<pc[Main], todo>> \/ Crash]_vars
  BY <1>1, MainStepGoesOn
<1>q. QED
  BY <1>2, TypeCorrect, SavedStayFinite, PTL DEF Spec, StartUpRunsDown
=============================================================================
