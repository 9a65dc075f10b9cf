----------------------------- MODULE BuildService -----------------------------
(***************************************************************************)
(* The build half of agent-container-hub, internal/sandbox/build_service.go*)
(* with the event stream of internal/httpserver/server.go: a build job     *)
(* runs in a goroutine of its own, appends its output to a shared          *)
(* activeBuildJob, and sends every change to the channels of the readers   *)
(* that subscribed to it; when it ends it is saved, announced, removed     *)
(* from the maps of active jobs, and its environment unlocked.             *)
(*                                                                         *)
(* Every critical section, channel operation, store call and engine        *)
(* command is one step.  Of the output only the number of chunks is kept.  *)
(***************************************************************************)
EXTENDS Naturals, Sequences

CONSTANTS
    Environment,
    Job,          \* build job IDs
    Reader,       \* requests that read a job or stream its events
    NoEnvironment,
    NoJob,
    Cap,          \* buildSubscriberBufferSize
    MaxChunks,    \* bound: chunks of output a build writes
    Faults        \* which failures may happen, a subset of FaultKind

(***************************************************************************)
(* engine:     the build or the smoke check fails                          *)
(* ambiguous:  the smoke container is created although the engine's CLI    *)
(*             reports an error                                            *)
(* cleanup:    the smoke container cannot be removed                       *)
(* disk:       the build directory or the Dockerfile cannot be written     *)
(* store:      SaveBuildJob fails                                          *)
(* disconnect: a reader's client goes away                                 *)
(* shutdown:   SIGTERM cancels the lifecycle context and ends main, which  *)
(*             does not wait for the builds                                *)
(* crash:      the process is killed                                       *)
(***************************************************************************)
FaultKind == {"engine", "ambiguous", "cleanup", "disk", "store", "disconnect", "shutdown", "crash"}

ASSUME BuildServiceAssumption ==
    /\ NoEnvironment \notin Environment
    /\ NoJob \notin Job
    /\ Cap \in Nat \ {0}
    /\ MaxChunks \in Nat
    /\ Faults \subseteq FaultKind

VARIABLES
    hub,             \* the process
    job,             \* the goroutine and the activeBuildJob of each job
    locks,           \* namedLock.locks
    activeJobs,      \* the keys of activeJobs
    activeJobsByEnv,
    subscribers,     \* activeBuildJob.subscribers, by reader
    pending,         \* the readers the event under way is still to be sent to
    blocked,         \* readers whose full channel the sender waits for
    reader,          \* the handler of each reader
    channel,         \* its channel's buffer
    closed,          \* readers whose channel is closed
    table,           \* the build_jobs table: the status of the saved jobs
    issued,          \* jobs whose ID was returned to a caller
    smoke            \* jobs whose smoke-check container exists

memory == <<job, locks, activeJobs, activeJobsByEnv, subscribers, pending, blocked, reader, channel, closed>>
maps == <<locks, activeJobs, activeJobsByEnv>>
streams == <<subscribers, pending, blocked, reader, channel, closed>>
world == <<table, issued, smoke>>
vars == <<hub, memory, world>>

Terminal == {"succeeded", "failed"}
Status == {"none", "building", "smoke_checking"} \cup Terminal

JobPcs == {"unused", "prepared", "registered", "abort", "building", "sending", "smoke", "smokeRun",
           "smokePassed", "smokeFailed", "save", "unregister", "unlock", "done"}
JobRecord == [pc : JobPcs, env : Environment \cup {NoEnvironment}, status : Status,
              output : 0..MaxChunks, event : {"none", "log", "status", "complete"}]
NewJob == [pc |-> "unused", env |-> NoEnvironment, status |-> "none", output |-> 0, event |-> "none"]

\* A log event carries its chunk, the others a copy of the job.
Event == [type : {"log", "status", "complete"}, output : 0..MaxChunks, status : Status]

\* seen and status are what the reader has been told of its job so far.
ReaderRecord == [pc : {"idle", "found", "missed", "open", "cancel", "closing", "ended"},
                 job : Job \cup {NoJob}, seen : 0..MaxChunks, status : Status \cup {"absent"}]
NewReader == [pc |-> "idle", job |-> NoJob, seen |-> 0, status |-> "none"]

\* Every variable has its type, and no channel holds more than its buffer.
TypeOK ==
    /\ hub \in {"up", "stopping", "down", "panicked"}
    /\ job \in [Job -> JobRecord]
    /\ locks \subseteq Environment
    /\ activeJobs \subseteq Job
    /\ activeJobsByEnv \in [Environment -> Job \cup {NoJob}]
    /\ subscribers \in [Job -> SUBSET Reader]
    /\ pending \in [Job -> SUBSET Reader]
    /\ blocked \subseteq Reader
    /\ reader \in [Reader -> ReaderRecord]
    /\ channel \in [Reader -> Seq(Event)]
    /\ \A r \in Reader : Len(channel[r]) <= Cap
    /\ closed \subseteq Reader
    /\ table \in [Job -> {"absent"} \cup Terminal]
    /\ issued \subseteq Job
    /\ smoke \subseteq Job

Init ==
    /\ hub = "up"
    /\ job = [j \in Job |-> NewJob]
    /\ locks = {} /\ activeJobs = {}
    /\ activeJobsByEnv = [e \in Environment |-> NoJob]
    /\ subscribers = [j \in Job |-> {}] /\ pending = [j \in Job |-> {}] /\ blocked = {}
    /\ reader = [r \in Reader |-> NewReader]
    /\ channel = [r \in Reader |-> <<>>]
    /\ closed = {}
    /\ table = [j \in Job |-> "absent"]
    /\ issued = {} /\ smoke = {}

Goto(j, step) == job' = [job EXCEPT ![j].pc = step]

-----------------------------------------------------------------------------
(***************************************************************************)
(* StartBuildJob.                                                          *)
(***************************************************************************)

\* Mutant: a build under way does not stand in the way of another.
TryLockBlindly(e) == locks' = locks \cup {e}

\* A locked environment makes the handler return ErrConflict at once.
TryLock(e) == e \notin locks /\ locks' = locks \cup {e}

Prepare(j, e) ==
    /\ hub = "up" /\ job[j].pc = "unused"
    /\ TryLock(e)
    /\ job' = [job EXCEPT ![j].pc = "prepared", ![j].env = e]
    /\ UNCHANGED <<hub, activeJobs, activeJobsByEnv, streams, world>>

\* A build context or target of the request does not exist; no ID is used up.
Reject(j) ==
    /\ job[j].pc = "prepared"
    /\ job' = [job EXCEPT ![j] = NewJob]
    /\ locks' = locks \ {job[j].env}
    /\ UNCHANGED <<hub, activeJobs, activeJobsByEnv, streams, world>>

Register(j) ==
    /\ job[j].pc = "prepared"
    /\ job' = [job EXCEPT ![j].pc = "registered", ![j].status = "building"]
    /\ activeJobs' = activeJobs \cup {j}
    /\ activeJobsByEnv' = [activeJobsByEnv EXCEPT ![job[j].env] = j]
    /\ UNCHANGED <<hub, locks, streams, world>>

\* The goroutine starts and the caller gets the ID.
Launch(j) ==
    /\ job[j].pc = "registered"
    /\ Goto(j, "building")
    /\ issued' = issued \cup {j}
    /\ UNCHANGED <<hub, maps, streams, table, smoke>>

RemoveActive(j) ==
    /\ activeJobs' = activeJobs \ {j}
    /\ activeJobsByEnv' = [e \in Environment |->
          IF activeJobsByEnv[e] = j THEN NoJob ELSE activeJobsByEnv[e]]

\* The build directory could not be written: nothing is saved, and readers that
\* have found the job keep waiting.
AbortStart(j) ==
    /\ "disk" \in Faults
    /\ job[j].pc = "registered"
    /\ Goto(j, "abort")
    /\ RemoveActive(j)
    /\ UNCHANGED <<hub, locks, streams, world>>

\* releaseLock of finishBuildJob, and release of a failed start.
Unlock(j) ==
    /\ job[j].pc \in {"abort", "unlock"}
    /\ Goto(j, "done")
    /\ locks' = locks \ {job[j].env}
    /\ UNCHANGED <<hub, activeJobs, activeJobsByEnv, streams, world>>

-----------------------------------------------------------------------------
(***************************************************************************)
(* The job's goroutine: the build, the smoke check, the end.               *)
(***************************************************************************)

\* One critical section changes the job and copies the list of subscribers.
Announce(j, event, changed) ==
    /\ job' = [job EXCEPT ![j] = [changed EXCEPT !.pc = "sending", !.event = event]]
    /\ pending' = [pending EXCEPT ![j] = subscribers[j]]
    /\ UNCHANGED <<maps, subscribers, blocked, reader, channel, closed>>

\* The build writes a chunk of output.
AppendOutput(j) ==
    /\ job[j].pc = "building" /\ job[j].output < MaxChunks
    /\ Announce(j, "log", [job[j] EXCEPT !.output = @ + 1])
    /\ UNCHANGED <<hub, world>>

\* Mutant: the job leaves the maps before it is saved.
FinishUnregisters(j, status) ==
    /\ job' = [job EXCEPT ![j].pc = "save", ![j].status = status, ![j].event = "complete"]
    /\ pending' = [pending EXCEPT ![j] = subscribers[j]]
    /\ subscribers' = [subscribers EXCEPT ![j] = {}]
    /\ RemoveActive(j)
    /\ UNCHANGED <<locks, blocked, reader, channel, closed>>

\* finish: the last status, the last list of subscribers, and an empty map that
\* later subscribers may still join.
Finish(j, status) ==
    /\ job' = [job EXCEPT ![j].pc = "save", ![j].status = status, ![j].event = "complete"]
    /\ pending' = [pending EXCEPT ![j] = subscribers[j]]
    /\ subscribers' = [subscribers EXCEPT ![j] = {}]
    /\ UNCHANGED <<maps, blocked, reader, channel, closed>>

EngineFails == "engine" \in Faults \/ hub = "stopping"

\* runtime.Build or make returns; its whole output replaces the chunks.
BuildReturns(j) ==
    /\ job[j].pc = "building"
    /\ \/ Finish(j, "succeeded")
       \/ Announce(j, "status", [job[j] EXCEPT !.status = "smoke_checking"])
       \/ EngineFails /\ Finish(j, "failed")
    /\ UNCHANGED <<hub, world>>

SmokeCreate(j) ==
    /\ job[j].pc = "smoke"
    /\ \/ smoke' = smoke \cup {j} /\ Goto(j, "smokeRun") /\ UNCHANGED <<maps, streams>>
       \/ (EngineFails \/ "disk" \in Faults) /\ Finish(j, "failed") /\ UNCHANGED smoke
       \/ "ambiguous" \in Faults /\ smoke' = smoke \cup {j} /\ Finish(j, "failed")
    /\ UNCHANGED <<hub, table, issued>>

\* The container is started and the command runs in it.
SmokeRun(j) ==
    /\ job[j].pc = "smokeRun"
    /\ \/ Goto(j, "smokePassed")
       \/ EngineFails /\ Goto(j, "smokeFailed")
    /\ UNCHANGED <<hub, maps, streams, world>>

\* Mutant: only a passed check removes its container.
SmokeRemoveWhenPassed(j) ==
    /\ job[j].pc \in {"smokePassed", "smokeFailed"}
    /\ smoke' = IF job[j].pc = "smokePassed" THEN smoke \ {j} ELSE smoke
    /\ Finish(j, IF job[j].pc = "smokePassed" THEN "succeeded" ELSE "failed")
    /\ UNCHANGED <<hub, table, issued>>

\* The removal has a context of its own, so a shutdown does not cancel it.
SmokeRemove(j) ==
    /\ job[j].pc \in {"smokePassed", "smokeFailed"}
    /\ smoke' = smoke \ {j} \/ ("cleanup" \in Faults /\ UNCHANGED smoke)
    /\ Finish(j, IF job[j].pc = "smokePassed" THEN "succeeded" ELSE "failed")
    /\ UNCHANGED <<hub, table, issued>>

\* Mutant: the job is announced whatever happens, and saved only if it succeeded.
SaveSucceededOnly(j) ==
    /\ job[j].pc = "save"
    /\ table' = IF job[j].status = "succeeded" THEN [table EXCEPT ![j] = "succeeded"] ELSE table
    /\ Goto(j, "sending")
    /\ UNCHANGED <<hub, maps, streams, issued, smoke>>

\* A failed save is logged and otherwise ignored.
Save(j) ==
    /\ job[j].pc = "save"
    /\ \/ table' = [table EXCEPT ![j] = job[j].status]
       \/ "store" \in Faults /\ UNCHANGED table
    /\ Goto(j, "sending")
    /\ UNCHANGED <<hub, maps, streams, issued, smoke>>

Unregister(j) ==
    /\ job[j].pc = "unregister"
    /\ Goto(j, "unlock")
    /\ RemoveActive(j)
    /\ UNCHANGED <<hub, locks, streams, world>>

-----------------------------------------------------------------------------
(***************************************************************************)
(* The process.                                                            *)
(***************************************************************************)

\* Memory is lost, with every goroutine; jobs once begun cannot begin again.
Die(state) ==
    /\ hub' = state
    /\ job' = [j \in Job |-> IF job[j].pc = "unused" THEN NewJob ELSE [NewJob EXCEPT !.pc = "done"]]
    /\ locks' = {} /\ activeJobs' = {}
    /\ activeJobsByEnv' = [e \in Environment |-> NoJob]
    /\ subscribers' = [j \in Job |-> {}] /\ pending' = [j \in Job |-> {}] /\ blocked' = {}
    /\ reader' = [r \in Reader |-> NewReader]
    /\ channel' = [r \in Reader |-> <<>>]
    /\ closed' = {}
    /\ UNCHANGED world

Terminate ==
    /\ "shutdown" \in Faults
    /\ hub = "up"
    /\ hub' = "stopping"
    /\ UNCHANGED <<memory, world>>

\* ListenAndServe has returned and main with it.
Exit == hub = "stopping" /\ Die("down")

Crash == "crash" \in Faults /\ hub \in {"up", "stopping"} /\ Die("down")

Restart ==
    /\ hub \in {"down", "panicked"}
    /\ hub' = "up"
    /\ UNCHANGED <<memory, world>>

-----------------------------------------------------------------------------
(***************************************************************************)
(* sendBuildEvent, once for each subscriber of the list.                   *)
(***************************************************************************)

\* Mutant: the end of the job is sent but the channel stays open.
SentKeepsOpen(j, r, buffer) ==
    /\ pending' = [pending EXCEPT ![j] = @ \ {r}]
    /\ blocked' = blocked \ {r}
    /\ channel' = [channel EXCEPT ![r] = buffer]
    /\ UNCHANGED <<hub, job, maps, subscribers, reader, closed, world>>

\* The reader is done with; finishBuildJob closes its channel as well.
Sent(j, r, buffer) ==
    /\ pending' = [pending EXCEPT ![j] = @ \ {r}]
    /\ blocked' = blocked \ {r}
    /\ channel' = [channel EXCEPT ![r] = buffer]
    /\ closed' = IF job[j].event = "complete" THEN closed \cup {r} ELSE closed
    /\ UNCHANGED <<hub, job, maps, subscribers, reader, world>>

Message(j) == [type |-> job[j].event, output |-> job[j].output, status |-> job[j].status]

\* The first select: send if there is room, give up a chunk of the log if not.
\* A send to a closed channel panics, and nothing recovers from it yet.
Send(j, r) ==
    /\ job[j].pc = "sending" /\ r \in pending[j] /\ pending[j] \cap blocked = {}
    /\ \/ r \in closed /\ Die("panicked")
       \/ /\ r \notin closed /\ Len(channel[r]) < Cap
          /\ Sent(j, r, Append(channel[r], Message(j)))
       \/ /\ r \notin closed /\ Len(channel[r]) >= Cap
          /\ \/ job[j].event = "log" /\ Sent(j, r, channel[r])
             \/ /\ job[j].event # "log" /\ blocked' = blocked \cup {r}
                /\ UNCHANGED <<hub, job, maps, subscribers, pending, reader, channel, closed, world>>

\* Mutant: no timer, so a slow reader holds the job up.
SendBlockedForever(j, r) ==
    /\ job[j].pc = "sending" /\ r \in pending[j] \cap blocked
    /\ \/ r \in closed /\ Sent(j, r, channel[r])
       \/ r \notin closed /\ Len(channel[r]) < Cap /\ Sent(j, r, Append(channel[r], Message(j)))

\* The second select: room at last, a channel closed meanwhile (recovered), or
\* the timer, which drops the event whatever it is.
SendBlocked(j, r) ==
    /\ job[j].pc = "sending" /\ r \in pending[j] \cap blocked
    /\ \/ Sent(j, r, channel[r])
       \/ r \notin closed /\ Len(channel[r]) < Cap /\ Sent(j, r, Append(channel[r], Message(j)))

\* The list is through.
SendsDone(j) ==
    /\ job[j].pc = "sending" /\ pending[j] = {}
    /\ Goto(j, CASE job[j].event = "log" -> "building"
                 [] job[j].event = "status" -> "smoke"
                 [] job[j].event = "complete" -> "unregister")
    /\ UNCHANGED <<hub, maps, streams, world>>

-----------------------------------------------------------------------------
(***************************************************************************)
(* Readers: GetBuildJob, and SubscribeBuildJob with handleBuildJobEvents.  *)
(***************************************************************************)

\* A reader's slot serves the next request once nothing refers to its channel.
\* The caller has the ID from StartBuildJob, or from LatestBuildJob; it may be
\* that of a start that failed.
Lookup(r, j) ==
    /\ hub = "up"
    /\ reader[r].pc \in {"idle", "ended"} /\ \A i \in Job : r \notin pending[i]
    /\ job[j].pc \notin {"unused", "prepared"}
    /\ reader' = [reader EXCEPT ![r] = [NewReader EXCEPT
          !.pc = IF j \in activeJobs THEN "found" ELSE "missed", !.job = j]]
    /\ channel' = [channel EXCEPT ![r] = <<>>]
    /\ closed' = closed \ {r}
    /\ UNCHANGED <<hub, job, maps, subscribers, pending, blocked, world>>

\* Not active, so in the store: the stored job is sent, as complete, or the
\* request ends with ErrNotFound.
ReadStored(r) ==
    /\ reader[r].pc = "missed"
    /\ reader' = [reader EXCEPT ![r].pc = "ended", ![r].status = table[reader[r].job]]
    /\ UNCHANGED <<hub, job, maps, subscribers, pending, blocked, channel, closed, world>>

\* GetBuildJob of an active job.
Snapshot(r) ==
    LET j == reader[r].job
    IN  /\ reader[r].pc = "found"
        /\ reader' = [reader EXCEPT ![r].pc = "ended", ![r].status = job[j].status, ![r].seen = job[j].output]
        /\ UNCHANGED <<hub, job, maps, subscribers, pending, blocked, channel, closed, world>>

\* Mutant: the copy of the job is older than the subscription.
SubscribeStale(r) ==
    LET j == reader[r].job
    IN  /\ reader[r].pc = "found"
        /\ subscribers' = [subscribers EXCEPT ![j] = @ \cup {r}]
        /\ reader' = [reader EXCEPT ![r].pc = "open", ![r].status = "building"]
        /\ UNCHANGED <<hub, job, maps, pending, blocked, channel, closed, world>>

\* One critical section joins the map and copies the job.
Subscribe(r) ==
    LET j == reader[r].job
    IN  /\ reader[r].pc = "found"
        /\ subscribers' = [subscribers EXCEPT ![j] = @ \cup {r}]
        /\ reader' = [reader EXCEPT ![r].pc = "open", ![r].status = job[j].status, ![r].seen = job[j].output]
        /\ UNCHANGED <<hub, job, maps, pending, blocked, channel, closed, world>>

Receive(r) ==
    LET event == Head(channel[r])
    IN  /\ reader[r].pc = "open" /\ channel[r] # <<>>
        /\ channel' = [channel EXCEPT ![r] = Tail(@)]
        /\ reader' = [reader EXCEPT ![r].seen = event.output,
              ![r].status = IF event.type = "log" THEN @ ELSE event.status]
        /\ UNCHANGED <<hub, job, maps, subscribers, pending, blocked, closed, world>>

\* The stream is kept alive while nothing happens: a late reader's for good.
Heartbeat(r) == reader[r].pc = "open" /\ UNCHANGED vars

\* The channel is closed and empty, or the request's context is done.
EndStream(r) ==
    /\ reader[r].pc = "open"
    /\ (r \in closed /\ channel[r] = <<>>) \/ "disconnect" \in Faults
    /\ reader' = [reader EXCEPT ![r].pc = "cancel"]
    /\ UNCHANGED <<hub, job, maps, subscribers, pending, blocked, channel, closed, world>>

\* The deferred cancel: whoever takes the channel out of the map closes it.
Cancel(r) ==
    LET j == reader[r].job
    IN  /\ reader[r].pc = "cancel"
        /\ subscribers' = [subscribers EXCEPT ![j] = @ \ {r}]
        /\ reader' = [reader EXCEPT ![r].pc = IF r \in subscribers[j] THEN "closing" ELSE "ended"]
        /\ UNCHANGED <<hub, job, maps, pending, blocked, channel, closed, world>>

\* Closing a channel twice would panic: ClosedOnce shows that it never happens.
CloseChannel(r) ==
    /\ reader[r].pc = "closing"
    /\ closed' = closed \cup {r}
    /\ reader' = [reader EXCEPT ![r].pc = "ended"]
    /\ UNCHANGED <<hub, job, maps, subscribers, pending, blocked, channel, world>>

-----------------------------------------------------------------------------
JobStep(j) ==
    \/ Reject(j) \/ Register(j) \/ Launch(j) \/ AbortStart(j) \/ Unlock(j)
    \/ AppendOutput(j) \/ BuildReturns(j)
    \/ SmokeCreate(j) \/ SmokeRun(j) \/ SmokeRemove(j)
    \/ Save(j) \/ SendsDone(j) \/ Unregister(j)
    \/ \E r \in Reader : Send(j, r) \/ SendBlocked(j, r)

\* What a reader's handler does of itself; its client may owe it nothing.
HandlerStep(r) ==
    ReadStored(r) \/ Snapshot(r) \/ Subscribe(r) \/ Receive(r) \/ EndStream(r) \/ Cancel(r) \/ CloseChannel(r)

HubStep == Terminate \/ Exit \/ Crash \/ Restart

Next ==
    \/ \E j \in Job, e \in Environment : Prepare(j, e)
    \/ \E j \in Job : JobStep(j)
    \/ \E r \in Reader, j \in Job : Lookup(r, j)
    \/ \E r \in Reader : HandlerStep(r) \/ Heartbeat(r)
    \/ HubStep

Spec == Init /\ [][Next]_vars

\* A job's goroutine runs on: builds and engine commands end, timers fire.
JobFairness == \A j \in Job : WF_vars(JobStep(j))

\* Nothing is assumed of the readers.
FairSpec == Spec /\ JobFairness

\* Clients read what they are sent.
PatientSpec == FairSpec /\ \A r \in Reader : WF_vars(HandlerStep(r))

-----------------------------------------------------------------------------
(***************************************************************************)
(* Properties.                                                             *)
(***************************************************************************)

InProgress(j) == job[j].pc \notin {"unused", "done"}

\* The process died while it was under way.
Lost(j) == job[j] = [NewJob EXCEPT !.pc = "done"]

Announcing(j) == job[j].event = "complete" /\ job[j].pc \in {"save", "sending"}

\* What a reader that looks for a job now is told: the maps, then the store.
Visible(j) == IF j \in activeJobs THEN job[j].status ELSE table[j]

\* At most one build of an environment is under way, and an environment is
\* locked exactly while one is (TestBuildEnvironmentRejectsConcurrentBuilds-
\* ForSameEnvironment, and every error path of StartBuildJob).
BuildLocks ==
    /\ \A j \in Job : InProgress(j) => job[j].env \in locks
    /\ \A e \in locks : \E j \in Job : InProgress(j) /\ job[j].env = e
    /\ \A i, j \in Job : i # j /\ InProgress(i) /\ InProgress(j) => job[i].env # job[j].env

\* The two maps of active jobs agree, so that LatestBuildJob always finds the
\* build of an environment that is under way, and no other.
ActiveMapsAgree ==
    \A e \in Environment, j \in Job :
        activeJobsByEnv[e] = j <=> j \in activeJobs /\ job[j].env = e

\* A channel is closed once: by finishBuildJob or by the reader's own cancel,
\* whichever takes it out of the map.
ClosedOnce ==
    \A r \in Reader :
        /\ reader[r].pc = "closing" => r \notin closed
        /\ \A j \in Job : r \in pending[j] /\ Announcing(j) => r \notin closed

\* "构建失败不会丢失记录，失败的 `BuildJob` 会保留" (README.md:44): a job whose ID
\* was returned is found ever after, in the maps or in the store, by a reader
\* that looks in one after the other, unless its process died before it ended.
IssuedKept ==
    LET kept(j) == table[j] # "absent" \/ Lost(j)
    IN  /\ \A j \in issued : j \in activeJobs \/ kept(j)
        /\ \A r \in Reader : reader[r].pc = "missed" /\ reader[r].job \in issued => kept(reader[r].job)

\* The end a reader was told of stands: by GetBuildJob, by the copy its stream
\* began with, by the store or by an event, whoever asks after it is told the
\* same. Between finish and the save the maps of active jobs say so, then the
\* store; the complete event is sent only of what is stored already
\* (finishBuildJob: save, announce, unregister). Readers of a process that died
\* are not looked at: one that was told before the save may have been told of a
\* job that is lost.
ToldEndStands ==
    "store" \notin Faults =>
        \A r \in Reader :
            LET j == reader[r].job
            IN  /\ reader[r].status \in Terminal => Visible(j) = reader[r].status
                /\ \A i \in DOMAIN channel[r] :
                       channel[r][i].type = "complete" => table[j] = channel[r][i].status

\* Channels have room for all a build can send: every chunk, a status, the end.
Ample == Cap > MaxChunks + 1

\* How much of the output a reader knows before the i-th event of its channel.
KnownBefore(r, i) == IF i = 1 THEN reader[r].seen ELSE channel[r][i - 1].output

\* The chunk that is new in an event, and the one a sender has for a reader.
Chunk(event) == IF event.type = "log" THEN 1 ELSE 0
Unsent(j, r) == IF job[j].event = "log" /\ r \in pending[j] THEN 1 ELSE 0

\* A reader gets every chunk of the output once, in order, from the one after
\* its snapshot to the last one sent, unless its channel was full; and a copy of
\* the job never shows it less, or more, than it has been sent.
StreamExact ==
    \A r \in Reader :
        reader[r].pc = "open" =>
            LET j == reader[r].job
            IN  /\ \A i \in DOMAIN channel[r] :
                       LET event == channel[r][i]
                           told == KnownBefore(r, i) + Chunk(event)
                       IN  IF Ample THEN event.output = told ELSE event.output >= told
                /\ Ample /\ r \in subscribers[j] =>
                       KnownBefore(r, Len(channel[r]) + 1) + Unsent(j, r) = job[j].output

\* A smoke check leaves no container behind, passed, failed or cancelled by a
\* shutdown, as long as the engine removes what it is told to and tells what it
\* created; only a process that ends during the check loses its container.
SmokeRemoved ==
    Faults \cap {"ambiguous", "cleanup"} = {} =>
        \A j \in smoke : job[j].pc \in {"smokeRun", "smokePassed", "smokeFailed"} \/ Lost(j)

\* A saved job is never changed or lost, and a job that ended never goes back.
RecordsFinal ==
    [][\A j \in Job :
          /\ table[j] # "absent" => table'[j] = table[j]
          /\ job[j].status \in Terminal => job'[j].status \in {job[j].status, "none"}]_vars

\* A build ends by itself and its environment can be built again, however its
\* readers behave.
BuildsEnd == \A e \in Environment : e \in locks ~> e \notin locks

\* A stream that was opened before the build ended is ended after it.
InTimeStreamsEnd ==
    \A r \in Reader :
        reader[r].pc = "open" /\ (\E j \in issued : r \in subscribers[j] /\ job[j].status \notin Terminal)
            ~> reader[r].pc # "open"

\* "timed out waiting for build events" (TestSubscribeBuildJobStreamsLogsAnd-
\* Completion, service_test.go:2708): every stream ends.
StreamsEnd == \A r \in Reader : reader[r].pc = "open" ~> reader[r].pc # "open"

\* "events channel closed before complete event" is a failure (the same test,
\* service_test.go:2696), and a slow subscriber "will resync from the next
\* snapshot or terminal event" (build_service.go:797): no channel is closed
\* under a reader that has not been sent the end of its job.
ClosedAfterComplete ==
    \A r \in Reader :
        reader[r].pc = "open" /\ r \in closed =>
            reader[r].status \in Terminal \/ \E i \in DOMAIN channel[r] : channel[r][i].type = "complete"

\* A channel closed by its reader costs a sender nothing: sendBuildEvent is
\* meant to recover (build_service.go:804).
NeverPanics == hub # "panicked"

\* What callers see of the jobs follows the abstract records.
Records == INSTANCE BuildRecords WITH
    visible <- [j \in Job |-> Visible(j)],
    kept <- {j \in Job : table[j] # "absent"}

ImplementsRecords == Records!Spec

-----------------------------------------------------------------------------
(***************************************************************************)
(* The inductive invariant behind BuildLocks, ActiveMapsAgree, ClosedOnce, *)
(* RecordsFinal and ImplementsRecords.                                     *)
(***************************************************************************)

ActivePcs == JobPcs \ {"unused", "prepared", "abort", "unlock", "done"}
EndedPcs == {"save", "unregister", "unlock"}

\* What a job's goroutine has written so far goes with where it is.
JobSound(j) ==
    LET record == job[j]
    IN  /\ InProgress(j) => record.env \in Environment
        /\ j \in activeJobs <=> record.pc \in ActivePcs
        /\ record.pc \in {"unused", "prepared"} => record.status = "none"
        /\ record.pc \in {"registered", "building"} => record.status = "building"
        /\ record.pc \in {"smoke", "smokeRun", "smokePassed", "smokeFailed"} => record.status = "smoke_checking"
        /\ record.pc \in EndedPcs => record.status \in Terminal
        /\ record.pc = "save" => record.event = "complete"
        /\ record.pc = "sending" =>
               \/ record.event = "log" /\ record.status = "building"
               \/ record.event = "status" /\ record.status = "smoke_checking"
               \/ record.event = "complete" /\ record.status \in Terminal

\* A saved job has announced its end, or is over.
TableSound(j) ==
    table[j] # "absent" =>
        /\ job[j].pc \in {"sending", "unregister", "unlock", "done"}
        /\ job[j].pc = "sending" => job[j].event = "complete"
        /\ job[j].pc # "done" => job[j].status = table[j]
        /\ job[j].pc = "done" => job[j].status \in {table[j], "none"}

\* A reader is in the map of the job it streams only, with an open channel, and
\* a sender's list holds no reader of another request.
ReaderSound(r) ==
    /\ reader[r].pc \notin {"idle", "ended"} => reader[r].job \in Job
    /\ reader[r].pc = "found" => r \notin closed
    /\ \A j \in Job :
        /\ r \in subscribers[j] =>
               reader[r].job = j /\ reader[r].pc \in {"open", "cancel"} /\ r \notin closed
        /\ r \in pending[j] =>
               /\ reader[r].job = j /\ reader[r].pc \in {"open", "cancel", "closing", "ended"}
               /\ job[j].pc \in {"sending", "save"}
        /\ r \in pending[j] /\ Announcing(j) =>
               r \notin subscribers[j] /\ r \notin closed /\ reader[r].pc # "closing"

\* Where every goroutine is, the shared maps, the store and the channels are.
BuildInvariant ==
    /\ TypeOK /\ BuildLocks /\ ActiveMapsAgree /\ ClosedOnce
    /\ \A j \in Job : JobSound(j) /\ TableSound(j)
    /\ \A r \in Reader : ReaderSound(r)
=============================================================================
