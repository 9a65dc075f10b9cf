-------------------------- MODULE BuildServiceProofs --------------------------
(***************************************************************************)
(* What holds of BuildService for every set of environments, jobs and      *)
(* readers, every size of the channels and every combination of failures.  *)
(***************************************************************************)
EXTENDS BuildService, SequenceTheorems, TLAPS

\* The invariant's parts beside the types: what the jobs' goroutines keep true,
\* and what the streams do.
JobsSound ==
    /\ BuildLocks /\ ActiveMapsAgree
    /\ \A j \in Job : JobSound(j) /\ TableSound(j)
StreamsSound == ClosedOnce /\ \A r \in Reader : ReaderSound(r)
Sound == JobsSound /\ StreamsSound

-----------------------------------------------------------------------------
(***************************************************************************)
(* Type correctness.                                                       *)
(***************************************************************************)

\* A job's record keeps its type when a field changes.
LEMMA JobFields ==
    ASSUME NEW record \in JobRecord, NEW step \in JobPcs
    PROVE  /\ [record EXCEPT !.pc = step] \in JobRecord
           /\ \A e \in Environment : [record EXCEPT !.pc = step, !.env = e] \in JobRecord
           /\ \A status \in Status : [record EXCEPT !.pc = step, !.status = status] \in JobRecord
           /\ \A status \in Status :
                 [record EXCEPT !.pc = step, !.status = status, !.event = "complete"] \in JobRecord
           /\ [[record EXCEPT !.status = "smoke_checking"] EXCEPT !.pc = step, !.event = "status"] \in JobRecord
           /\ record.output < MaxChunks =>
                 [[record EXCEPT !.output = @ + 1] EXCEPT !.pc = step, !.event = "log"] \in JobRecord
<1>1. [record EXCEPT !.pc = step] \in JobRecord
  BY DEF JobRecord
<1>2. \A e \in Environment : [record EXCEPT !.pc = step, !.env = e] \in JobRecord
  BY DEF JobRecord
<1>3. \A status \in Status : [record EXCEPT !.pc = step, !.status = status] \in JobRecord
  BY DEF JobRecord
<1>4. \A status \in Status :
         [record EXCEPT !.pc = step, !.status = status, !.event = "complete"] \in JobRecord
  BY DEF JobRecord
<1>5. [[record EXCEPT !.status = "smoke_checking"] EXCEPT !.pc = step, !.event = "status"] \in JobRecord
  BY DEF JobRecord, Status
<1>6. ASSUME record.output < MaxChunks
      PROVE  [[record EXCEPT !.output = @ + 1] EXCEPT !.pc = step, !.event = "log"] \in JobRecord
  <2>1. record.output + 1 \in 0..MaxChunks
    BY <1>6, BuildServiceAssumption DEF JobRecord
  <2>q. QED
    BY <2>1 DEF JobRecord
<1>q. QED
  BY <1>1, <1>2, <1>3, <1>4, <1>5, <1>6

\* So does a reader's.
LEMMA ReaderFields ==
    ASSUME NEW record \in ReaderRecord,
           NEW step \in {"idle", "found", "missed", "open", "cancel", "closing", "ended"}
    PROVE  /\ [record EXCEPT !.pc = step] \in ReaderRecord
           /\ \A status \in Status \cup {"absent"} :
                 [record EXCEPT !.pc = step, !.status = status] \in ReaderRecord
           /\ \A status \in Status, n \in 0..MaxChunks :
                 [record EXCEPT !.pc = step, !.status = status, !.seen = n] \in ReaderRecord
           /\ \A status \in Status \cup {"absent"}, n \in 0..MaxChunks :
                 [record EXCEPT !.seen = n, !.status = status] \in ReaderRecord
           /\ \A j \in Job : [NewReader EXCEPT !.pc = step, !.job = j] \in ReaderRecord
<1>1. [record EXCEPT !.pc = step] \in ReaderRecord
  BY DEF ReaderRecord
<1>2. \A status \in Status \cup {"absent"} :
         [record EXCEPT !.pc = step, !.status = status] \in ReaderRecord
  BY DEF ReaderRecord
<1>3. \A status \in Status, n \in 0..MaxChunks :
         [record EXCEPT !.pc = step, !.status = status, !.seen = n] \in ReaderRecord
  BY DEF ReaderRecord
<1>4. \A status \in Status \cup {"absent"}, n \in 0..MaxChunks :
         [record EXCEPT !.seen = n, !.status = status] \in ReaderRecord
  BY DEF ReaderRecord
<1>5. \A j \in Job : [NewReader EXCEPT !.pc = step, !.job = j] \in ReaderRecord
  <2>1. 0 \in 0..MaxChunks
    BY BuildServiceAssumption
  <2>2. NewReader \in ReaderRecord
    BY <2>1 DEF ReaderRecord, NewReader, Status
  <2>q. QED
    BY <2>2 DEF ReaderRecord
<1>q. QED
  BY <1>1, <1>2, <1>3, <1>4, <1>5

\* The records of a process that starts are of their types.
LEMMA NewRecords == NewJob \in JobRecord /\ [NewJob EXCEPT !.pc = "done"] \in JobRecord /\ NewReader \in ReaderRecord
BY BuildServiceAssumption DEF NewJob, NewReader, JobRecord, JobPcs, ReaderRecord, Status

\* A death of the process keeps the types.
LEMMA DieType ==
    ASSUME TypeOK, NEW state \in {"down", "panicked"}, Die(state)
    PROVE  TypeOK'
<1>1. \A r \in Reader : channel'[r] = <<>> /\ Len(channel'[r]) = 0 /\ channel'[r] \in Seq(Event)
  BY DEF Die
<1>q. QED
  BY <1>1, NewRecords, BuildServiceAssumption DEF TypeOK, Die, world

\* A send keeps the types if what it leaves in the channel fits.
LEMMA SentType ==
    ASSUME TypeOK, NEW j \in Job, NEW r \in Reader, NEW buffer \in Seq(Event), Len(buffer) <= Cap,
           Sent(j, r, buffer)
    PROVE  TypeOK'
BY DEF TypeOK, Sent, maps, world

\* A goroutine that sends has a message.
LEMMA MessageType ==
    ASSUME TypeOK, Sound, NEW j \in Job, job[j].pc = "sending"
    PROVE  Message(j) \in Event
BY DEF TypeOK, Sound, JobsSound, JobSound, Message, Event, JobRecord

\* A goroutine that goes on keeps the types.
LEMMA GotoType ==
    ASSUME TypeOK, NEW j \in Job, NEW step \in JobPcs, Goto(j, step),
           UNCHANGED <<hub, streams>>,
           UNCHANGED locks \/ locks' = locks \ {job[j].env},
           UNCHANGED <<activeJobs, activeJobsByEnv>> \/ RemoveActive(j),
           table' = table \/ \E status \in Terminal : table' = [table EXCEPT ![j] = status],
           issued' \in {issued, issued \cup {j}},
           smoke' \in {smoke, smoke \cup {j}}
    PROVE  TypeOK'
<1>1. [job[j] EXCEPT !.pc = step] \in JobRecord
  BY JobFields DEF TypeOK
<1>2. job' \in [Job -> JobRecord]
  BY <1>1 DEF TypeOK, Goto
<1>q. QED
  BY <1>2 DEF TypeOK, RemoveActive, streams

\* An announcement keeps the types.
LEMMA AnnounceType ==
    ASSUME TypeOK, NEW j \in Job, NEW event, NEW changed,
           [changed EXCEPT !.pc = "sending", !.event = event] \in JobRecord,
           Announce(j, event, changed), UNCHANGED <<hub, world>>
    PROVE  TypeOK'
BY DEF TypeOK, Announce, maps, world

\* So does the end of a job.
LEMMA FinishType ==
    ASSUME TypeOK, NEW j \in Job, NEW status \in Terminal, Finish(j, status),
           UNCHANGED <<hub, table, issued>>, smoke' \subseteq Job
    PROVE  TypeOK'
<1>1. [job[j] EXCEPT !.pc = "save", !.status = status, !.event = "complete"] \in JobRecord
  BY JobFields DEF TypeOK, JobPcs, Status
<1>2. job' \in [Job -> JobRecord]
  BY <1>1 DEF TypeOK, Finish
<1>q. QED
  BY <1>2 DEF TypeOK, Finish, maps

\* Every step of a job's goroutine keeps the types.
LEMMA JobStepType ==
    ASSUME TypeOK, Sound, NEW j \in Job, JobStep(j)
    PROVE  TypeOK'
<1>0. job[j] \in JobRecord
  BY DEF TypeOK
<1>1. CASE Reject(j) \/ Register(j)
  <2>1. [job[j] EXCEPT !.pc = "registered", !.status = "building"] \in JobRecord
    BY <1>0, JobFields DEF JobPcs, Status
  <2>2. job' \in [Job -> JobRecord]
    BY <1>1, <2>1, NewRecords DEF TypeOK, Reject, Register
  <2>3. locks' \subseteq Environment /\ activeJobs' \subseteq Job
    BY <1>1 DEF TypeOK, Reject, Register
  <2>4. activeJobsByEnv' \in [Environment -> Job \cup {NoJob}]
    BY <1>1 DEF TypeOK, Reject, Register
  <2>5. UNCHANGED <<hub, streams, world>>
    BY <1>1 DEF Reject, Register
  <2>q. QED
    BY <2>2, <2>3, <2>4, <2>5 DEF TypeOK, streams, world
<1>2. CASE Launch(j) \/ AbortStart(j) \/ Unlock(j) \/ Unregister(j)
  BY <1>2, GotoType DEF JobPcs, Launch, AbortStart, Unlock, Unregister, maps, world
<1>3. CASE AppendOutput(j)
  BY <1>0, <1>3, JobFields, AnnounceType DEF AppendOutput, JobPcs
<1>4. CASE BuildReturns(j)
  <2>1. CASE Announce(j, "status", [job[j] EXCEPT !.status = "smoke_checking"])
    BY <1>0, <1>4, <2>1, JobFields, AnnounceType DEF BuildReturns, JobPcs
  <2>2. CASE Finish(j, "succeeded") \/ Finish(j, "failed")
    BY <1>4, <2>2, FinishType DEF BuildReturns, Terminal, TypeOK, world
  <2>q. QED
    BY <1>4, <2>1, <2>2 DEF BuildReturns
<1>5. CASE SmokeCreate(j) \/ SmokeRemove(j)
  <2>1. smoke' \subseteq Job /\ UNCHANGED <<hub, table, issued>>
    BY <1>5 DEF SmokeCreate, SmokeRemove, TypeOK
  <2>2. CASE Finish(j, "succeeded") \/ Finish(j, "failed")
    BY <2>1, <2>2, FinishType DEF Terminal
  <2>3. CASE smoke' = smoke \cup {j} /\ Goto(j, "smokeRun") /\ UNCHANGED <<maps, streams>>
    BY <2>1, <2>3, GotoType DEF JobPcs, maps
  <2>q. QED
    BY <1>5, <2>2, <2>3 DEF SmokeCreate, SmokeRemove
<1>6. CASE SmokeRun(j)
  BY <1>6, GotoType DEF SmokeRun, JobPcs, maps, world
<1>7. CASE Save(j)
  <2>1. job[j].status \in Terminal
    BY <1>7 DEF Save, Sound, JobsSound, JobSound, EndedPcs
  <2>q. QED
    BY <1>7, <2>1, GotoType DEF Save, JobPcs, maps
<1>8. CASE SendsDone(j)
  <2>1. \E step \in JobPcs : Goto(j, step)
    BY <1>8 DEF SendsDone, Sound, JobsSound, JobSound, JobPcs
  <2>q. QED
    BY <1>8, <2>1, GotoType DEF SendsDone, maps, world
<1>9. ASSUME NEW r \in Reader, Send(j, r) \/ SendBlocked(j, r)
      PROVE  TypeOK'
  <2>1. channel[r] \in Seq(Event) /\ Len(channel[r]) <= Cap
    BY DEF TypeOK
  <2>2. Message(j) \in Event
    BY <1>9, MessageType DEF Send, SendBlocked
  <2>3. Len(channel[r]) < Cap =>
           Append(channel[r], Message(j)) \in Seq(Event) /\ Len(Append(channel[r], Message(j))) <= Cap
    BY <2>1, <2>2, AppendProperties, BuildServiceAssumption
  <2>4. CASE Die("panicked")
    BY <2>4, DieType
  <2>5. CASE Sent(j, r, channel[r])
    BY <2>1, <2>5, SentType
  <2>6. CASE Len(channel[r]) < Cap /\ Sent(j, r, Append(channel[r], Message(j)))
    BY <2>3, <2>6, SentType
  <2>7. CASE /\ blocked' = blocked \cup {r}
             /\ UNCHANGED <<hub, job, maps, subscribers, pending, reader, channel, closed, world>>
    BY <2>7 DEF TypeOK, maps, world
  <2>q. QED
    BY <1>9, <2>4, <2>5, <2>6, <2>7 DEF Send, SendBlocked
<1>q. QED
  BY <1>1, <1>2, <1>3, <1>4, <1>5, <1>6, <1>7, <1>8, <1>9 DEF JobStep

\* Every step of a reader's handler keeps the types.
LEMMA HandlerStepType ==
    ASSUME TypeOK, Sound, NEW r \in Reader, HandlerStep(r)
    PROVE  TypeOK'
<1>0. reader[r] \in ReaderRecord /\ (reader[r].pc \notin {"idle", "ended"} => reader[r].job \in Job)
  BY DEF TypeOK, Sound, StreamsSound, ReaderSound
<1>1. CASE ReadStored(r)
  BY <1>0, <1>1, ReaderFields DEF TypeOK, ReadStored, maps, world, Status, Terminal
<1>2. CASE Snapshot(r) \/ Subscribe(r)
  <2>1. reader[r].job \in Job /\ job[reader[r].job] \in JobRecord
    BY <1>0, <1>2 DEF TypeOK, Snapshot, Subscribe
  <2>2. job[reader[r].job].status \in Status /\ job[reader[r].job].output \in 0..MaxChunks
    BY <2>1 DEF JobRecord
  <2>3. \A step \in {"ended", "open"} :
           [reader[r] EXCEPT !.pc = step, !.status = job[reader[r].job].status, !.seen = job[reader[r].job].output]
              \in ReaderRecord
    BY <1>0, <2>2, ReaderFields
  <2>4. reader' \in [Reader -> ReaderRecord]
    BY <1>2, <2>3 DEF TypeOK, Snapshot, Subscribe
  <2>q. QED
    BY <1>2, <2>1, <2>4 DEF TypeOK, Snapshot, Subscribe, maps, world
<1>3. CASE Receive(r)
  <2>1. channel[r] \in Seq(Event) /\ channel[r] # <<>> /\ Len(channel[r]) <= Cap
    BY <1>3 DEF TypeOK, Receive
  <2>2. Head(channel[r]) \in Event /\ Tail(channel[r]) \in Seq(Event) /\ Len(Tail(channel[r])) <= Cap
    BY <2>1, HeadTailProperties, BuildServiceAssumption
  <2>3. /\ Head(channel[r]).output \in 0..MaxChunks /\ Head(channel[r]).status \in Status
        /\ reader[r].status \in Status \cup {"absent"}
    BY <1>0, <2>2 DEF Event, ReaderRecord
  <2>4. reader' \in [Reader -> ReaderRecord]
    BY <1>0, <1>3, <2>3, ReaderFields DEF TypeOK, Receive
  <2>q. QED
    BY <1>3, <2>2, <2>4 DEF TypeOK, Receive, maps, world
<1>4. CASE EndStream(r) \/ CloseChannel(r)
  BY <1>0, <1>4, ReaderFields DEF TypeOK, EndStream, CloseChannel, maps, world
<1>5. CASE Cancel(r)
  <2>1. reader' \in [Reader -> ReaderRecord]
    BY <1>0, <1>5, ReaderFields DEF TypeOK, Cancel
  <2>q. QED
    BY <1>0, <1>5, <2>1 DEF TypeOK, Cancel, maps, world
<1>q. QED
  BY <1>1, <1>2, <1>3, <1>4, <1>5 DEF HandlerStep

\* Every step keeps the types, in a sound state.
LEMMA TypeStep ==
    ASSUME TypeOK, Sound, [Next]_vars
    PROVE  TypeOK'
<1>1. CASE UNCHANGED vars
  BY <1>1 DEF TypeOK, vars, memory, world
<1>2. ASSUME NEW j \in Job, NEW e \in Environment, Prepare(j, e)
      PROVE  TypeOK'
  <2>1. [job[j] EXCEPT !.pc = "prepared", !.env = e] \in JobRecord
    BY JobFields DEF TypeOK, JobPcs
  <2>q. QED
    BY <1>2, <2>1 DEF TypeOK, Prepare, TryLock, streams, world
<1>3. ASSUME NEW r \in Reader, NEW j \in Job, Lookup(r, j)
      PROVE  TypeOK'
  <2>1. \A step \in {"found", "missed"} : [NewReader EXCEPT !.pc = step, !.job = j] \in ReaderRecord
    BY NewRecords, ReaderFields
  <2>2. <<>> \in Seq(Event) /\ Len(<<>>) <= Cap
    BY BuildServiceAssumption
  <2>q. QED
    BY <1>3, <2>1, <2>2 DEF TypeOK, Lookup, maps, world
<1>4. CASE HubStep
  BY <1>4, DieType DEF HubStep, Terminate, Exit, Crash, Restart, TypeOK, memory, world
<1>5. CASE \E r \in Reader : Heartbeat(r)
  BY <1>1, <1>5 DEF Heartbeat
<1>q. QED
  BY <1>1, <1>2, <1>3, <1>4, <1>5, JobStepType, HandlerStepType DEF Next
-----------------------------------------------------------------------------
(***************************************************************************)
(* The jobs, the maps and the store.                                       *)
(***************************************************************************)

\* A goroutine that goes on inside its job, with the maps as they are, keeps the
\* jobs sound if it keeps its own sound.
LEMMA GoesOnJobs ==
    ASSUME JobsSound, NEW j \in Job, InProgress(j), InProgress(j)', job'[j].env = job[j].env,
           \A i \in Job \ {j} : job'[i] = job[i] /\ table'[i] = table[i],
           UNCHANGED maps, JobSound(j)', TableSound(j)'
    PROVE  JobsSound'
<1> USE DEF maps
<1>1. BuildLocks'
  BY DEF JobsSound, BuildLocks, InProgress
<1>2. ActiveMapsAgree'
  BY DEF JobsSound, ActiveMapsAgree
<1>3. ASSUME NEW i \in Job \ {j}
      PROVE  JobSound(i)' /\ TableSound(i)'
  BY <1>3 DEF JobsSound, JobSound, TableSound, InProgress
<1>q. QED
  BY <1>1, <1>2, <1>3 DEF JobsSound

\* No two jobs in progress share an environment, so a job leaves with its lock.
LEMMA LeavesJobs ==
    ASSUME TypeOK, JobsSound, NEW j \in Job, InProgress(j), ~InProgress(j)',
           j \notin activeJobs, locks' = locks \ {job[j].env},
           \A i \in Job \ {j} : job'[i] = job[i],
           UNCHANGED <<activeJobs, activeJobsByEnv, table>>, JobSound(j)', TableSound(j)'
    PROVE  JobsSound'
<1>1. BuildLocks'
  <2>1. ASSUME NEW i \in Job, InProgress(i)'
        PROVE  i # j /\ InProgress(i) /\ (job[i].env)' = job[i].env /\ job[i].env # job[j].env
    BY <2>1 DEF JobsSound, BuildLocks, InProgress
  <2>2. \A i \in Job : InProgress(i)' => (job[i].env)' \in locks'
    BY <2>1 DEF JobsSound, BuildLocks
  <2>3. ASSUME NEW e \in locks'
        PROVE  \E i \in Job : InProgress(i)' /\ (job[i].env)' = e
    <3>1. PICK i \in Job : InProgress(i) /\ job[i].env = e
      BY DEF JobsSound, BuildLocks
    <3>2. i # j
      BY <3>1
    <3>q. QED
      BY <3>1, <3>2 DEF InProgress
  <2>4. \A i, k \in Job : i # k /\ InProgress(i)' /\ InProgress(k)' => (job[i].env)' # (job[k].env)'
    BY <2>1 DEF JobsSound, BuildLocks
  <2>q. QED
    BY <2>2, <2>3, <2>4 DEF BuildLocks
<1>2. ActiveMapsAgree'
  BY DEF JobsSound, ActiveMapsAgree
<1>3. ASSUME NEW i \in Job \ {j}
      PROVE  JobSound(i)' /\ TableSound(i)'
  BY <1>3 DEF JobsSound, JobSound, TableSound, InProgress
<1>q. QED
  BY <1>1, <1>2, <1>3 DEF JobsSound

\* A job that leaves the maps of active jobs leaves both.
LEMMA RemoveActiveJobs ==
    ASSUME TypeOK, JobsSound, NEW j \in Job, InProgress(j), InProgress(j)', job'[j].env = job[j].env,
           \A i \in Job \ {j} : job'[i] = job[i],
           RemoveActive(j), UNCHANGED <<locks, table>>, JobSound(j)', TableSound(j)'
    PROVE  JobsSound'
<1>1. BuildLocks'
  BY DEF JobsSound, BuildLocks, InProgress
<1>2. ActiveMapsAgree'
  BY BuildServiceAssumption DEF JobsSound, ActiveMapsAgree, RemoveActive
<1>3. ASSUME NEW i \in Job \ {j}
      PROVE  JobSound(i)' /\ TableSound(i)'
  BY <1>3 DEF JobsSound, JobSound, TableSound, InProgress, RemoveActive
<1>q. QED
  BY <1>1, <1>2, <1>3 DEF JobsSound

\* A death of the process leaves no job in progress.
LEMMA DieJobs ==
    ASSUME TypeOK, JobsSound, NEW state, Die(state)
    PROVE  JobsSound'
<1>1. \A j \in Job : job'[j] \in {NewJob, [NewJob EXCEPT !.pc = "done"]} /\ ~InProgress(j)'
  BY DEF Die, InProgress, NewJob
<1>2. BuildLocks' /\ ActiveMapsAgree'
  BY <1>1, BuildServiceAssumption DEF Die, BuildLocks, ActiveMapsAgree
<1>3. ASSUME NEW j \in Job
      PROVE  JobSound(j)' /\ TableSound(j)'
  <2>1. CASE job[j].pc = "unused"
    BY <1>1, <2>1 DEF Die, JobsSound, JobSound, TableSound, ActivePcs, EndedPcs, JobPcs, NewJob, world
  <2>2. CASE job[j].pc # "unused"
    BY <1>1, <2>2 DEF Die, JobSound, TableSound, ActivePcs, EndedPcs, JobPcs, NewJob, world
  <2>q. QED
    BY <2>1, <2>2
<1>q. QED
  BY <1>2, <1>3 DEF JobsSound

\* A new job takes a free environment.
LEMMA PrepareJobs ==
    ASSUME TypeOK, JobsSound, NEW j \in Job, NEW e \in Environment, Prepare(j, e)
    PROVE  JobsSound'
<1>1. /\ job'[j].pc = "prepared" /\ job'[j].env = e /\ job'[j].status = job[j].status
      /\ job[j].pc = "unused" /\ \A i \in Job \ {j} : job'[i] = job[i]
  BY DEF TypeOK, JobRecord, Prepare
<1>2. locks' = locks \cup {e} /\ e \notin locks /\ UNCHANGED <<activeJobs, activeJobsByEnv, table>>
  BY DEF Prepare, TryLock, world
<1>3. BuildLocks'
  BY <1>1, <1>2 DEF JobsSound, BuildLocks, InProgress
<1>4. j \notin activeJobs
  BY <1>1 DEF JobsSound, JobSound, ActivePcs, JobPcs
<1>5. ActiveMapsAgree'
  BY <1>1, <1>2, <1>4 DEF JobsSound, ActiveMapsAgree
<1>6. JobSound(j)' /\ TableSound(j)'
  BY <1>1, <1>2, <1>4 DEF JobsSound, JobSound, TableSound, ActivePcs, EndedPcs, JobPcs, InProgress
<1>7. ASSUME NEW i \in Job \ {j}
      PROVE  JobSound(i)' /\ TableSound(i)'
  BY <1>1, <1>2, <1>7 DEF JobsSound, JobSound, TableSound, InProgress
<1>q. QED
  BY <1>3, <1>5, <1>6, <1>7 DEF JobsSound

\* A job enters both maps; no other job of its environment is in them.
LEMMA RegisterJobs ==
    ASSUME TypeOK, JobsSound, NEW j \in Job, Register(j)
    PROVE  JobsSound'
<1>1. /\ job'[j].pc = "registered" /\ job'[j].env = job[j].env /\ job'[j].status = "building"
      /\ job[j].pc = "prepared" /\ \A i \in Job \ {j} : job'[i] = job[i]
  BY DEF TypeOK, JobRecord, Register
<1>2. /\ activeJobs' = activeJobs \cup {j}
      /\ activeJobsByEnv' = [activeJobsByEnv EXCEPT ![job[j].env] = j]
      /\ UNCHANGED <<locks, table>>
  BY DEF Register, world
<1>3. j \notin activeJobs /\ InProgress(j) /\ job[j].env \in Environment
  BY <1>1 DEF JobsSound, JobSound, InProgress, ActivePcs, JobPcs
<1>4. \A i \in activeJobs : i \in Job /\ InProgress(i) /\ job[i].env # job[j].env
  BY <1>3 DEF TypeOK, JobsSound, JobSound, BuildLocks, InProgress, ActivePcs, JobPcs
<1>5. BuildLocks'
  BY <1>1, <1>2 DEF JobsSound, BuildLocks, InProgress
<1>6. ActiveMapsAgree'
  BY <1>1, <1>2, <1>3, <1>4 DEF TypeOK, JobsSound, ActiveMapsAgree
<1>7. JobSound(j)' /\ TableSound(j)'
  BY <1>1, <1>2, <1>3 DEF JobsSound, JobSound, TableSound, ActivePcs, EndedPcs, JobPcs, InProgress
<1>8. ASSUME NEW i \in Job \ {j}
      PROVE  JobSound(i)' /\ TableSound(i)'
  BY <1>1, <1>2, <1>8 DEF JobsSound, JobSound, TableSound, InProgress
<1>q. QED
  BY <1>5, <1>6, <1>7, <1>8 DEF JobsSound

\* Where a goroutine stands and what it wrote, in one place.
LEMMA JobFacts ==
    ASSUME TypeOK, JobsSound, NEW j \in Job
    PROVE  JobSound(j) /\ TableSound(j) /\ job[j] \in JobRecord
BY DEF TypeOK, JobsSound

\* The end of a job.
LEMMA FinishJobs ==
    ASSUME TypeOK, JobsSound, NEW j \in Job, NEW status \in Terminal, Finish(j, status), UNCHANGED table,
           job[j].pc \in {"building", "smoke", "smokePassed", "smokeFailed"}
    PROVE  JobsSound'
<1>1. /\ job'[j].pc = "save" /\ job'[j].env = job[j].env /\ job'[j].status = status
      /\ job'[j].event = "complete" /\ \A i \in Job \ {j} : job'[i] = job[i]
  BY DEF TypeOK, JobRecord, Finish
<1>2. JobSound(j)' /\ TableSound(j)'
  BY <1>1, JobFacts DEF JobSound, TableSound, Finish, maps, ActivePcs, EndedPcs, JobPcs, InProgress
<1>q. QED
  BY <1>1, <1>2, GoesOnJobs DEF Finish, InProgress

\* A goroutine that only goes on to its next step.
LEMMA GotoJobs ==
    ASSUME TypeOK, JobsSound, NEW j \in Job, NEW step \in ActivePcs, Goto(j, step), InProgress(j),
           UNCHANGED maps, \A i \in Job \ {j} : table'[i] = table[i], JobSound(j)', TableSound(j)'
    PROVE  JobsSound'
<1>1. /\ job'[j].pc = step /\ job'[j].env = job[j].env /\ \A i \in Job \ {j} : job'[i] = job[i]
  BY DEF TypeOK, JobRecord, Goto
<1>q. QED
  BY <1>1, GoesOnJobs DEF InProgress, ActivePcs

\* Every step of a job's goroutine keeps the jobs sound.
LEMMA JobStepJobs ==
    ASSUME TypeOK, JobsSound, NEW j \in Job, JobStep(j)
    PROVE  JobsSound'
<1>0. JobSound(j) /\ TableSound(j) /\ job[j] \in JobRecord
  BY JobFacts
<1>1. CASE Reject(j) \/ Unlock(j)
  <2>1. /\ InProgress(j) /\ ~InProgress(j)' /\ j \notin activeJobs
        /\ locks' = locks \ {job[j].env} /\ UNCHANGED <<activeJobs, activeJobsByEnv, table>>
        /\ \A i \in Job \ {j} : job'[i] = job[i]
    BY <1>0, <1>1
       DEF TypeOK, Reject, Unlock, Goto, InProgress, NewJob, JobSound, ActivePcs, JobPcs, world, JobRecord
  <2>2. job'[j].pc \in {"unused", "done"} /\ (job'[j].pc = "unused" => job'[j].status = "none" /\ job[j].pc = "prepared")
        /\ (job'[j].pc = "done" => job'[j].status = job[j].status /\ job[j].pc \in {"abort", "unlock"})
    BY <1>0, <1>1 DEF TypeOK, Reject, Unlock, Goto, NewJob, JobRecord
  <2>3. JobSound(j)' /\ TableSound(j)'
    BY <1>0, <2>1, <2>2 DEF JobSound, TableSound, InProgress, ActivePcs, EndedPcs, JobPcs
  <2>q. QED
    BY <2>1, <2>3, LeavesJobs
<1>2. CASE Register(j)
  BY <1>2, RegisterJobs
<1>3. CASE AbortStart(j) \/ Unregister(j)
  <2>1. /\ InProgress(j) /\ InProgress(j)' /\ RemoveActive(j) /\ UNCHANGED <<locks, table>>
        /\ job'[j].env = job[j].env /\ job'[j].status = job[j].status
        /\ \A i \in Job \ {j} : job'[i] = job[i]
        /\ \/ job[j].pc = "registered" /\ job'[j].pc = "abort"
           \/ job[j].pc = "unregister" /\ job'[j].pc = "unlock"
    BY <1>0, <1>3 DEF TypeOK, AbortStart, Unregister, Goto, InProgress, world, JobRecord
  <2>2. JobSound(j)' /\ TableSound(j)'
    BY <1>0, <2>1 DEF JobSound, TableSound, InProgress, ActivePcs, EndedPcs, JobPcs, RemoveActive
  <2>q. QED
    BY <2>1, <2>2, RemoveActiveJobs
<1>4. CASE Launch(j) \/ SmokeRun(j)
  <2>1. /\ UNCHANGED <<maps, table>> /\ InProgress(j)
        /\ job'[j].status = job[j].status /\ job'[j].env = job[j].env
        /\ \/ job[j].pc = "registered" /\ Goto(j, "building") /\ job'[j].pc = "building"
           \/ /\ job[j].pc = "smokeRun"
              /\ \E step \in {"smokePassed", "smokeFailed"} : Goto(j, step) /\ job'[j].pc = step
    BY <1>0, <1>4 DEF TypeOK, Launch, SmokeRun, Goto, InProgress, world, JobRecord
  <2>2. JobSound(j)' /\ TableSound(j)'
    BY <1>0, <2>1 DEF JobSound, TableSound, InProgress, ActivePcs, EndedPcs, JobPcs, maps
  <2>q. QED
    BY <2>1, <2>2, GotoJobs DEF ActivePcs, JobPcs
<1>5. CASE AppendOutput(j)
  <2>1. /\ UNCHANGED <<maps, table>> /\ InProgress(j) /\ job[j].pc = "building"
        /\ job'[j].pc = "sending" /\ job'[j].event = "log"
        /\ job'[j].status = job[j].status /\ job'[j].env = job[j].env
        /\ \A i \in Job \ {j} : job'[i] = job[i]
    BY <1>0, <1>5 DEF TypeOK, AppendOutput, Announce, InProgress, world, JobRecord
  <2>2. JobSound(j)' /\ TableSound(j)'
    BY <1>0, <2>1 DEF JobSound, TableSound, InProgress, ActivePcs, EndedPcs, JobPcs, maps
  <2>q. QED
    BY <2>1, <2>2, GoesOnJobs DEF InProgress
<1>6. CASE BuildReturns(j)
  <2>1. CASE Finish(j, "succeeded") \/ Finish(j, "failed")
    BY <1>6, <2>1, FinishJobs DEF BuildReturns, Terminal, world
  <2>2. CASE Announce(j, "status", [job[j] EXCEPT !.status = "smoke_checking"])
    <3>1. /\ UNCHANGED <<maps, table>> /\ InProgress(j) /\ job[j].pc = "building"
          /\ job'[j].pc = "sending" /\ job'[j].event = "status"
          /\ job'[j].status = "smoke_checking" /\ job'[j].env = job[j].env
          /\ \A i \in Job \ {j} : job'[i] = job[i]
      BY <1>0, <1>6, <2>2 DEF TypeOK, BuildReturns, Announce, InProgress, world, JobRecord
    <3>2. JobSound(j)' /\ TableSound(j)'
      BY <1>0, <3>1 DEF JobSound, TableSound, InProgress, ActivePcs, EndedPcs, JobPcs, maps
    <3>q. QED
      BY <3>1, <3>2, GoesOnJobs DEF InProgress
  <2>q. QED
    BY <1>6, <2>1, <2>2 DEF BuildReturns
<1>7. CASE SmokeCreate(j) \/ SmokeRemove(j)
  <2>1. CASE Finish(j, "succeeded") \/ Finish(j, "failed")
    BY <1>7, <2>1, FinishJobs DEF SmokeCreate, SmokeRemove, Terminal
  <2>2. CASE SmokeCreate(j) /\ Goto(j, "smokeRun") /\ UNCHANGED <<maps, streams>>
    <3>1. /\ UNCHANGED <<maps, table>> /\ InProgress(j) /\ job[j].pc = "smoke"
          /\ job'[j].pc = "smokeRun" /\ job'[j].status = job[j].status /\ job'[j].env = job[j].env
      BY <1>0, <2>2 DEF TypeOK, SmokeCreate, Goto, InProgress, JobRecord
    <3>2. JobSound(j)' /\ TableSound(j)'
      BY <1>0, <3>1 DEF JobSound, TableSound, InProgress, ActivePcs, EndedPcs, JobPcs, maps
    <3>q. QED
      BY <2>2, <3>1, <3>2, GotoJobs DEF ActivePcs, JobPcs
  <2>q. QED
    BY <1>7, <2>1, <2>2 DEF SmokeCreate, SmokeRemove
<1>8. CASE Save(j)
  <2>1. /\ UNCHANGED maps /\ InProgress(j) /\ job[j].pc = "save" /\ job'[j].pc = "sending"
        /\ job'[j].event = job[j].event /\ job'[j].status = job[j].status /\ job'[j].env = job[j].env
        /\ table'[j] \in {table[j], job[j].status} /\ \A i \in Job \ {j} : table'[i] = table[i]
    BY <1>0, <1>8 DEF TypeOK, Save, Goto, InProgress, JobRecord
  <2>2. JobSound(j)' /\ TableSound(j)'
    BY <1>0, <2>1 DEF JobSound, TableSound, InProgress, ActivePcs, EndedPcs, JobPcs, maps
  <2>q. QED
    BY <1>8, <2>1, <2>2, GotoJobs DEF Save, ActivePcs, JobPcs
<1>9. CASE SendsDone(j)
  <2>1. /\ UNCHANGED <<maps, table>> /\ InProgress(j) /\ job[j].pc = "sending"
        /\ job'[j].status = job[j].status /\ job'[j].env = job[j].env
        /\ \/ job[j].event = "log" /\ Goto(j, "building") /\ job'[j].pc = "building"
           \/ job[j].event = "status" /\ Goto(j, "smoke") /\ job'[j].pc = "smoke"
           \/ job[j].event = "complete" /\ Goto(j, "unregister") /\ job'[j].pc = "unregister"
    BY <1>0, <1>9 DEF TypeOK, SendsDone, Goto, InProgress, world, JobRecord, JobSound
  <2>2. JobSound(j)' /\ TableSound(j)'
    BY <1>0, <2>1 DEF JobSound, TableSound, InProgress, ActivePcs, EndedPcs, JobPcs, maps
  <2>q. QED
    BY <2>1, <2>2, GotoJobs DEF ActivePcs, JobPcs
<1>10. ASSUME NEW r \in Reader, Send(j, r) \/ SendBlocked(j, r)
       PROVE  JobsSound'
  <2>1. CASE Die("panicked")
    BY <2>1, DieJobs
  <2>2. CASE UNCHANGED <<job, maps, table>>
    BY <2>2 DEF JobsSound, BuildLocks, ActiveMapsAgree, JobSound, TableSound, InProgress, maps
  <2>q. QED
    BY <1>10, <2>1, <2>2 DEF Send, SendBlocked, Sent, world
<1>q. QED
  BY <1>1, <1>2, <1>3, <1>4, <1>5, <1>6, <1>7, <1>8, <1>9, <1>10 DEF JobStep

\* Every step keeps the jobs sound.
LEMMA JobsStep ==
    ASSUME TypeOK, JobsSound, [Next]_vars
    PROVE  JobsSound'
<1>1. CASE UNCHANGED <<job, maps, table>>
  BY <1>1 DEF JobsSound, BuildLocks, ActiveMapsAgree, JobSound, TableSound, InProgress, maps
<1>2. CASE Exit \/ Crash
  BY <1>2, DieJobs DEF Exit, Crash
<1>3. CASE \/ \E r \in Reader, j \in Job : Lookup(r, j)
           \/ \E r \in Reader : HandlerStep(r) \/ Heartbeat(r)
           \/ Terminate \/ Restart
           \/ UNCHANGED vars
  BY <1>1, <1>3
     DEF Lookup, HandlerStep, ReadStored, Snapshot, Subscribe, Receive, EndStream, Cancel, CloseChannel,
         Heartbeat, Terminate, Restart, vars, memory, maps, world
<1>q. QED
  BY <1>2, <1>3, PrepareJobs, JobStepJobs DEF Next, HubStep

-----------------------------------------------------------------------------
(***************************************************************************)
(* The streams: who is in which map, and whose channel is closed.          *)
(***************************************************************************)

\* A step of a job's goroutine that leaves the streams alone, between two events
\* or before it sends the last one.
LEMMA GoesOnStreams ==
    ASSUME StreamsSound, NEW j \in Job, UNCHANGED streams,
           \A i \in Job \ {j} : job'[i] = job[i],
           \/ pending[j] = {}
           \/ job'[j].pc \in {"sending", "save"} /\ (Announcing(j)' => Announcing(j))
    PROVE  StreamsSound'
<1>1. ASSUME NEW r \in Reader, NEW i \in Job
      PROVE  /\ (r \in pending[i])' => r \in pending[i] /\ job'[i].pc \in {"sending", "save"}
             /\ (r \in pending[i] /\ Announcing(i))' => r \in pending[i] /\ Announcing(i)
  BY DEF StreamsSound, ReaderSound, Announcing, streams
<1>2. ClosedOnce'
  BY <1>1 DEF StreamsSound, ClosedOnce, streams
<1>3. ASSUME NEW r \in Reader
      PROVE  ReaderSound(r)'
  BY <1>1 DEF StreamsSound, ReaderSound, streams
<1>q. QED
  BY <1>2, <1>3 DEF StreamsSound

\* An event that is not the last goes to the readers in the map.
LEMMA AnnounceStreams ==
    ASSUME TypeOK, StreamsSound, NEW j \in Job, NEW event \in {"log", "status"}, NEW changed \in JobRecord,
           Announce(j, event, changed)
    PROVE  StreamsSound'
<1>1. /\ job'[j].pc = "sending" /\ job'[j].event = event /\ \A i \in Job \ {j} : job'[i] = job[i]
      /\ pending'[j] = subscribers[j] /\ \A i \in Job \ {j} : pending'[i] = pending[i]
      /\ UNCHANGED <<subscribers, reader, closed>>
  BY DEF TypeOK, JobRecord, Announce
<1>2. ClosedOnce'
  BY <1>1 DEF StreamsSound, ClosedOnce, Announcing
<1>3. ASSUME NEW r \in Reader
      PROVE  ReaderSound(r)'
  BY <1>1 DEF StreamsSound, ReaderSound, Announcing
<1>q. QED
  BY <1>2, <1>3 DEF StreamsSound

\* The last one as well, and it takes them out of the map.
LEMMA FinishStreams ==
    ASSUME TypeOK, StreamsSound, NEW j \in Job, NEW status \in Terminal, Finish(j, status)
    PROVE  StreamsSound'
<1>1. /\ job'[j].pc = "save" /\ job'[j].event = "complete" /\ \A i \in Job \ {j} : job'[i] = job[i]
      /\ pending'[j] = subscribers[j] /\ \A i \in Job \ {j} : pending'[i] = pending[i]
      /\ subscribers'[j] = {} /\ \A i \in Job \ {j} : subscribers'[i] = subscribers[i]
      /\ UNCHANGED <<reader, closed>>
  BY DEF TypeOK, JobRecord, Finish
<1>2. ASSUME NEW r \in Reader
      PROVE  ReaderSound(r)'
  BY <1>1 DEF StreamsSound, ReaderSound, Announcing
<1>3. ClosedOnce'
  <2>1. \A r \in Reader : reader'[r].pc = "closing" => r \notin closed'
    BY <1>1 DEF StreamsSound, ClosedOnce
  <2>2. \A r \in Reader, i \in Job : (r \in pending[i] /\ Announcing(i))' => r \notin closed'
    BY <1>2 DEF ReaderSound
  <2>q. QED
    BY <2>1, <2>2 DEF ClosedOnce
<1>q. QED
  BY <1>2, <1>3 DEF StreamsSound

\* A send takes the reader off the list; the last one closes its channel, which
\* no map and no other list holds by then.
LEMMA SentStreams ==
    ASSUME TypeOK, StreamsSound, NEW j \in Job, NEW r \in Reader, NEW buffer,
           job[j].pc = "sending", r \in pending[j], Sent(j, r, buffer)
    PROVE  StreamsSound'
<1>1. /\ pending'[j] = pending[j] \ {r} /\ \A i \in Job \ {j} : pending'[i] = pending[i]
      /\ UNCHANGED <<job, subscribers, reader>>
      /\ closed' = IF job[j].event = "complete" THEN closed \cup {r} ELSE closed
  BY DEF TypeOK, Sent
<1>2. reader[r].job = j /\ reader[r].pc \in {"open", "cancel", "closing", "ended"}
  BY DEF StreamsSound, ReaderSound
<1>3. \A i \in Job : r \notin pending'[i] /\ (r \in subscribers[i] => i = j)
  BY <1>1, <1>2 DEF StreamsSound, ReaderSound
<1>4. job[j].event = "complete" => Announcing(j) /\ r \notin subscribers[j] /\ reader[r].pc # "closing"
  BY DEF StreamsSound, ReaderSound, Announcing
<1>5. ASSUME NEW other \in Reader
      PROVE  ReaderSound(other)'
  <2>1. CASE other = r
    BY <1>1, <1>2, <1>3, <1>4, <2>1 DEF StreamsSound, ReaderSound
  <2>2. CASE other # r
    <3>1. \A i \in Job : other \in pending'[i] <=> other \in pending[i]
      BY <1>1, <2>2
    <3>2. other \in closed' <=> other \in closed
      BY <1>1, <2>2
    <3>q. QED
      BY <1>1, <3>1, <3>2 DEF StreamsSound, ReaderSound, Announcing
  <2>q. QED
    BY <2>1, <2>2
<1>6. ClosedOnce'
  <2>1. ASSUME NEW other \in Reader, reader'[other].pc = "closing"
        PROVE  other \notin closed'
    BY <1>1, <1>4, <2>1 DEF StreamsSound, ClosedOnce
  <2>2. \A other \in Reader, i \in Job : (other \in pending[i] /\ Announcing(i))' => other \notin closed'
    BY <1>5 DEF ReaderSound
  <2>q. QED
    BY <2>1, <2>2 DEF ClosedOnce
<1>q. QED
  BY <1>5, <1>6 DEF StreamsSound

\* A death of the process leaves no stream.
LEMMA DieStreams ==
    ASSUME TypeOK, NEW state, Die(state)
    PROVE  StreamsSound'
BY DEF Die, StreamsSound, ClosedOnce, ReaderSound, NewReader

\* Every step of a job's goroutine keeps the streams sound.
LEMMA JobStepStreams ==
    ASSUME TypeOK, Sound, NEW j \in Job, JobStep(j)
    PROVE  StreamsSound'
<1>0. /\ job[j] \in JobRecord /\ StreamsSound
      /\ job[j].pc \notin {"sending", "save"} => pending[j] = {}
  BY DEF TypeOK, Sound, StreamsSound, ReaderSound
<1>1. CASE Reject(j) \/ Register(j) \/ Launch(j) \/ AbortStart(j) \/ Unlock(j) \/ SmokeRun(j)
           \/ SendsDone(j) \/ Unregister(j)
  <2>1. UNCHANGED streams /\ pending[j] = {} /\ \A i \in Job \ {j} : job'[i] = job[i]
    BY <1>0, <1>1
       DEF TypeOK, Reject, Register, Launch, AbortStart, Unlock, SmokeRun, SendsDone, Unregister, Goto
  <2>q. QED
    BY <1>0, <2>1, GoesOnStreams
<1>2. CASE AppendOutput(j)
  <2>1. [job[j] EXCEPT !.output = @ + 1] \in JobRecord
    BY <1>0, <1>2, BuildServiceAssumption DEF AppendOutput, JobRecord
  <2>q. QED
    BY <1>0, <1>2, <2>1, AnnounceStreams DEF AppendOutput
<1>3. CASE BuildReturns(j)
  <2>1. [job[j] EXCEPT !.status = "smoke_checking"] \in JobRecord
    BY <1>0 DEF JobRecord, Status
  <2>q. QED
    BY <1>0, <1>3, <2>1, AnnounceStreams, FinishStreams DEF BuildReturns, Terminal
<1>4. CASE SmokeCreate(j) \/ SmokeRemove(j)
  <2>1. CASE Finish(j, "succeeded") \/ Finish(j, "failed")
    BY <1>0, <2>1, FinishStreams DEF Terminal
  <2>2. CASE SmokeCreate(j) /\ Goto(j, "smokeRun") /\ UNCHANGED <<maps, streams>>
    <3>1. pending[j] = {} /\ \A i \in Job \ {j} : job'[i] = job[i]
      BY <1>0, <2>2 DEF TypeOK, SmokeCreate, Goto
    <3>q. QED
      BY <1>0, <2>2, <3>1, GoesOnStreams
  <2>q. QED
    BY <1>4, <2>1, <2>2 DEF SmokeCreate, SmokeRemove
<1>5. CASE Save(j)
  <2>1. /\ UNCHANGED streams /\ job'[j].pc = "sending" /\ job'[j].event = job[j].event
        /\ job[j].pc = "save" /\ \A i \in Job \ {j} : job'[i] = job[i]
    BY <1>0, <1>5 DEF TypeOK, Save, Goto, JobRecord
  <2>q. QED
    BY <1>0, <2>1, GoesOnStreams DEF Announcing
<1>6. ASSUME NEW r \in Reader, Send(j, r) \/ SendBlocked(j, r)
      PROVE  StreamsSound'
  <2>1. CASE Die("panicked")
    BY <2>1, DieStreams
  <2>2. CASE Sent(j, r, channel[r]) \/ Sent(j, r, Append(channel[r], Message(j)))
    BY <1>0, <1>6, <2>2, SentStreams DEF Send, SendBlocked
  <2>3. CASE UNCHANGED <<job, subscribers, pending, reader, closed>>
    BY <1>0, <2>3 DEF StreamsSound, ClosedOnce, ReaderSound, Announcing
  <2>q. QED
    BY <1>6, <2>1, <2>2, <2>3 DEF Send, SendBlocked
<1>q. QED
  BY <1>1, <1>2, <1>3, <1>4, <1>5, <1>6 DEF JobStep

\* Every step of a reader's handler keeps the streams sound.
LEMMA HandlerStepStreams ==
    ASSUME TypeOK, StreamsSound, NEW r \in Reader, HandlerStep(r)
    PROVE  StreamsSound'
<1> DEFINE Alone == \A other \in Reader \ {r} :
                       /\ reader'[other] = reader[other] /\ (other \in closed' <=> other \in closed)
                       /\ \A j \in Job : other \in subscribers'[j] <=> other \in subscribers[j]
<1>0. /\ reader[r] \in ReaderRecord /\ (reader[r].pc \notin {"idle", "ended"} => reader[r].job \in Job)
      /\ UNCHANGED <<job, pending>>
  BY DEF TypeOK, StreamsSound, ReaderSound, HandlerStep, ReadStored, Snapshot, Subscribe, Receive,
         EndStream, Cancel, CloseChannel
<1>1. Alone
  BY DEF TypeOK, HandlerStep, ReadStored, Snapshot, Subscribe, Receive, EndStream, Cancel, CloseChannel
<1>2. ReaderSound(r)' /\ (reader'[r].pc = "closing" => r \notin closed')
  <2> USE DEF StreamsSound, ReaderSound, ClosedOnce, ReaderRecord, TypeOK, Announcing
  <2>1. CASE ReadStored(r) \/ Snapshot(r)
    BY <1>0, <2>1 DEF ReadStored, Snapshot
  <2>2. CASE Subscribe(r)
    <3>1. /\ reader'[r].pc = "open" /\ reader'[r].job = reader[r].job /\ UNCHANGED closed
          /\ \A j \in Job : r \in subscribers'[j] => r \in subscribers[j] \/ j = reader[r].job
          /\ reader[r].pc = "found"
      BY <2>2 DEF Subscribe
    <3>q. QED
      BY <1>0, <3>1
  <2>3. CASE Receive(r) \/ EndStream(r)
    <3>1. /\ reader'[r].pc \in {"open", "cancel"} /\ reader'[r].job = reader[r].job
          /\ UNCHANGED <<closed, subscribers>> /\ reader[r].pc = "open"
      BY <1>0, <2>3 DEF Receive, EndStream
    <3>q. QED
      BY <1>0, <3>1
  <2>4. CASE Cancel(r)
    BY <1>0, <2>4 DEF Cancel
  <2>5. CASE CloseChannel(r)
    <3>1. /\ reader'[r].pc = "ended" /\ reader'[r].job = reader[r].job
          /\ UNCHANGED subscribers /\ reader[r].pc = "closing"
      BY <1>0, <2>5 DEF CloseChannel
    <3>q. QED
      BY <1>0, <3>1
  <2>q. QED
    BY <2>1, <2>2, <2>3, <2>4, <2>5 DEF HandlerStep
<1>3. ASSUME NEW other \in Reader \ {r}
      PROVE  ReaderSound(other)' /\ (reader'[other].pc = "closing" => other \notin closed')
  BY <1>0, <1>1 DEF StreamsSound, ReaderSound, ClosedOnce, Announcing
<1>4. \A other \in Reader : ReaderSound(other)' /\ (reader'[other].pc = "closing" => other \notin closed')
  BY <1>2, <1>3
<1>q. QED
  BY <1>4 DEF StreamsSound, ReaderSound, ClosedOnce

\* A request takes a slot no map and no list refers to.
LEMMA LookupStreams ==
    ASSUME TypeOK, StreamsSound, NEW r \in Reader, NEW j \in Job, Lookup(r, j)
    PROVE  StreamsSound'
<1>1. /\ reader'[r].pc \in {"found", "missed"} /\ reader'[r].job = j
      /\ \A other \in Reader \ {r} : reader'[other] = reader[other]
      /\ closed' = closed \ {r} /\ UNCHANGED <<job, subscribers, pending>>
      /\ reader[r].pc \in {"idle", "ended"} /\ \A i \in Job : r \notin pending[i]
  BY DEF TypeOK, NewReader, Lookup
<1>2. \A i \in Job : r \notin subscribers[i]
  BY <1>1 DEF StreamsSound, ReaderSound
<1>3. ASSUME NEW other \in Reader
      PROVE  ReaderSound(other)' /\ (reader'[other].pc = "closing" => other \notin closed')
  <2>1. CASE other = r
    BY <1>1, <1>2, <2>1 DEF ReaderSound
  <2>2. CASE other # r
    BY <1>1, <2>2 DEF StreamsSound, ReaderSound, ClosedOnce, Announcing
  <2>q. QED
    BY <2>1, <2>2
<1>q. QED
  BY <1>3 DEF StreamsSound, ReaderSound, ClosedOnce

\* Every step keeps the streams sound.
LEMMA StreamsStep ==
    ASSUME TypeOK, Sound, [Next]_vars
    PROVE  StreamsSound'
<1>0. StreamsSound
  BY DEF Sound
<1>1. CASE UNCHANGED <<job, subscribers, pending, reader, closed>>
  BY <1>0, <1>1 DEF StreamsSound, ClosedOnce, ReaderSound, Announcing
<1>2. CASE Exit \/ Crash
  BY <1>2, DieStreams DEF Exit, Crash
<1>3. ASSUME NEW j \in Job, NEW e \in Environment, Prepare(j, e)
      PROVE  StreamsSound'
  <2>1. UNCHANGED streams /\ pending[j] = {} /\ \A i \in Job \ {j} : job'[i] = job[i]
    BY <1>0, <1>3 DEF TypeOK, Prepare, StreamsSound, ReaderSound
  <2>q. QED
    BY <1>0, <2>1, GoesOnStreams
<1>4. CASE Terminate \/ Restart \/ (\E r \in Reader : Heartbeat(r)) \/ UNCHANGED vars
  BY <1>1, <1>4 DEF Terminate, Restart, Heartbeat, vars, memory
<1>q. QED
  BY <1>0, <1>2, <1>3, <1>4, JobStepStreams, HandlerStepStreams, LookupStreams DEF Next, HubStep

-----------------------------------------------------------------------------
(***************************************************************************)
(* The theorems.                                                           *)
(***************************************************************************)

\* BuildInvariant, taken apart.
LEMMA InvariantParts == BuildInvariant <=> TypeOK /\ Sound
BY DEF BuildInvariant, Sound, JobsSound, StreamsSound

\* A process that starts for the first time satisfies the invariant.
LEMMA InitInvariant == Init => BuildInvariant
<1> SUFFICES ASSUME Init
             PROVE  BuildInvariant
  OBVIOUS
<1>1. TypeOK
  <2>1. \A r \in Reader : channel[r] = <<>> /\ Len(channel[r]) = 0 /\ channel[r] \in Seq(Event)
    BY DEF Init
  <2>q. QED
    BY <2>1, NewRecords, BuildServiceAssumption DEF Init, TypeOK
<1>2. JobsSound
  BY BuildServiceAssumption
     DEF Init, JobsSound, BuildLocks, ActiveMapsAgree, JobSound, TableSound, InProgress, NewJob,
         ActivePcs, EndedPcs, JobPcs
<1>3. StreamsSound
  BY DEF Init, StreamsSound, ClosedOnce, ReaderSound, NewReader
<1>q. QED
  BY <1>1, <1>2, <1>3, InvariantParts DEF Sound

\* Locks, maps, the store, the goroutines and the channels fit together in every
\* state: the inductive invariant of the build service.
THEOREM BuildInvariantHolds == Spec => []BuildInvariant
<1>1. BuildInvariant /\ [Next]_vars => BuildInvariant'
  BY TypeStep, JobsStep, StreamsStep, InvariantParts DEF Sound, BuildInvariant, JobsSound, StreamsSound
<1>q. QED
  BY <1>1, InitInvariant, PTL DEF Spec

\* Every variable keeps its type, and no channel overflows its buffer.
THEOREM TypeCorrect == Spec => []TypeOK
<1>1. BuildInvariant => TypeOK
  BY DEF BuildInvariant
<1>q. QED
  BY <1>1, BuildInvariantHolds, PTL

\* At most one build of an environment is under way, and no lock is leaked or
\* given up early, on any path of StartBuildJob and finishBuildJob.
THEOREM OneBuildPerEnvironment == Spec => []BuildLocks
<1>1. BuildInvariant => BuildLocks
  BY DEF BuildInvariant
<1>q. QED
  BY <1>1, BuildInvariantHolds, PTL

\* The two maps of active jobs never disagree.
THEOREM MapsAgree == Spec => []ActiveMapsAgree
<1>1. BuildInvariant => ActiveMapsAgree
  BY DEF BuildInvariant
<1>q. QED
  BY <1>1, BuildInvariantHolds, PTL

\* No channel is closed twice, by whomever it is closed.
THEOREM ChannelsClosedOnce == Spec => []ClosedOnce
<1>1. BuildInvariant => ClosedOnce
  BY DEF BuildInvariant
<1>q. QED
  BY <1>1, BuildInvariantHolds, PTL

-----------------------------------------------------------------------------
(***************************************************************************)
(* What callers see of the jobs.                                           *)
(***************************************************************************)

\* The kinds of step a job's record takes: none, it appears, it advances, it is
\* saved, or it is lost before that.
Evolves(j) ==
    \/ Visible(j)' = Visible(j) /\ table'[j] = table[j]
    \/ Visible(j) = "absent" /\ Visible(j)' = "building" /\ table'[j] = table[j]
    \/ Visible(j) = "building" /\ Visible(j)' = "smoke_checking" /\ table'[j] = table[j]
    \/ Visible(j) \in {"building", "smoke_checking"} /\ Visible(j)' \in Terminal /\ table'[j] = table[j]
    \/ Visible(j) \in Terminal /\ Visible(j)' = Visible(j) /\ table[j] = "absent" /\ table'[j] = Visible(j)
    \/ table[j] = "absent" /\ Visible(j)' = "absent" /\ table'[j] = table[j]

\* An ended job's status is never another one, in this process or the next.
StaysEnded(j) == job[j].status \in Terminal => job'[j].status \in {job[j].status, "none"}

\* What a step leaves alone of another job's record.
Ignores(j) == Visible(j)' = Visible(j) /\ table'[j] = table[j] /\ StaysEnded(j)

\* A step of one job's goroutine moves its record one step, and no other.
LEMMA JobStepEvolves ==
    ASSUME TypeOK, Sound, NEW j \in Job, JobStep(j), ~Die("panicked")
    PROVE  Evolves(j) /\ StaysEnded(j) /\ \A i \in Job \ {j} : Ignores(i)
<1>0. /\ JobSound(j) /\ TableSound(j) /\ job[j] \in JobRecord
      /\ j \in activeJobs <=> job[j].pc \in ActivePcs
      /\ job \in [Job -> JobRecord] /\ table \in [Job -> {"absent"} \cup Terminal]
  BY DEF TypeOK, Sound, JobsSound, JobSound
<1> USE DEF Evolves, StaysEnded, Ignores, Visible
<1>1. CASE Reject(j) \/ Launch(j) \/ Unlock(j) \/ SmokeRun(j) \/ SendsDone(j)
  <2>1. /\ \A i \in Job \ {j} : job'[i] = job[i]
        /\ UNCHANGED <<activeJobs, table>>
        /\ \/ job'[j].status = job[j].status
           \/ j \notin activeJobs /\ job[j].status = "none"
    BY <1>0, <1>1
       DEF Reject, Launch, Unlock, SmokeRun, SendsDone, Goto, maps, world, JobRecord, ActivePcs, JobPcs,
           JobSound
  <2>q. QED
    BY <2>1 DEF Terminal
<1>2. CASE Register(j)
  <2>1. /\ \A i \in Job \ {j} : job'[i] = job[i] /\ (i \in activeJobs' <=> i \in activeJobs)
        /\ j \in activeJobs' /\ table' = table /\ job'[j].status = "building"
        /\ j \notin activeJobs /\ table[j] = "absent" /\ job[j].status = "none"
    BY <1>0, <1>2 DEF Register, world, JobRecord, ActivePcs, JobPcs, JobSound, TableSound
  <2>q. QED
    BY <2>1 DEF Terminal
<1>3. CASE AbortStart(j) \/ Unregister(j)
  <2>1. /\ \A i \in Job \ {j} : job'[i] = job[i] /\ (i \in activeJobs' <=> i \in activeJobs)
        /\ j \notin activeJobs' /\ table' = table /\ job'[j].status = job[j].status
        /\ j \in activeJobs /\ job[j].pc # "done"
    BY <1>0, <1>3 DEF AbortStart, Unregister, RemoveActive, Goto, world, JobRecord, ActivePcs, JobPcs
  <2>q. QED
    BY <1>0, <2>1 DEF TableSound
<1>4. CASE AppendOutput(j) \/ (SmokeCreate(j) /\ Goto(j, "smokeRun") /\ UNCHANGED <<maps, streams>>)
  <2>1. /\ \A i \in Job \ {j} : job'[i] = job[i]
        /\ UNCHANGED <<activeJobs, table>> /\ job'[j].status = job[j].status
    BY <1>0, <1>4 DEF AppendOutput, SmokeCreate, Announce, Goto, maps, world, JobRecord
  <2>q. QED
    BY <2>1
<1>5. CASE BuildReturns(j) \/ (SmokeCreate(j) /\ Finish(j, "failed")) \/ SmokeRemove(j)
  <2>1. /\ \A i \in Job \ {j} : job'[i] = job[i]
        /\ UNCHANGED <<activeJobs, table>> /\ j \in activeJobs
        /\ \/ job[j].status = "building" /\ job'[j].status = "smoke_checking"
           \/ job[j].status \in {"building", "smoke_checking"} /\ job'[j].status \in Terminal
    <3>1. CASE BuildReturns(j)
      <4>1. job[j].status = "building" /\ j \in activeJobs /\ UNCHANGED world
        BY <1>0, <3>1 DEF BuildReturns, ActivePcs, JobPcs, JobSound
      <4>2. CASE Announce(j, "status", [job[j] EXCEPT !.status = "smoke_checking"])
        BY <1>0, <4>1, <4>2 DEF Announce, maps, world, JobRecord
      <4>3. CASE Finish(j, "succeeded") \/ Finish(j, "failed")
        BY <1>0, <4>1, <4>3 DEF Finish, maps, world, JobRecord, Terminal
      <4>q. QED
        BY <3>1, <4>2, <4>3 DEF BuildReturns
    <3>2. CASE (SmokeCreate(j) /\ Finish(j, "failed")) \/ SmokeRemove(j)
      BY <1>0, <3>2
         DEF SmokeCreate, SmokeRemove, Finish, maps, JobRecord, ActivePcs, JobPcs, JobSound, Terminal
    <3>q. QED
      BY <1>5, <3>1, <3>2
  <2>q. QED
    BY <2>1 DEF Terminal
<1>6. CASE Save(j)
  <2>1. /\ \A i \in Job \ {j} : job'[i] = job[i] /\ table'[i] = table[i]
        /\ UNCHANGED activeJobs /\ j \in activeJobs /\ job'[j].status = job[j].status
        /\ job[j].status \in Terminal /\ table[j] = "absent" /\ table'[j] \in {table[j], job[j].status}
    BY <1>0, <1>6
       DEF Save, Goto, maps, JobRecord, ActivePcs, JobPcs, EndedPcs, JobSound, TableSound
  <2>q. QED
    BY <2>1
<1>7. CASE UNCHANGED <<job, activeJobs, table>>
  BY <1>7
<1>8. ASSUME NEW r \in Reader, Send(j, r) \/ SendBlocked(j, r)
      PROVE  UNCHANGED <<job, activeJobs, table>>
  BY <1>8 DEF Send, SendBlocked, Sent, maps, world
<1>9. CASE SmokeCreate(j)
  BY <1>4, <1>5, <1>9 DEF SmokeCreate
<1>q. QED
  BY <1>1, <1>2, <1>3, <1>4, <1>5, <1>6, <1>7, <1>8, <1>9 DEF JobStep

\* A death of the process loses the jobs that are not saved, and no other.
LEMMA DieLoses ==
    ASSUME TypeOK, Sound, NEW state, Die(state), NEW j \in Job
    PROVE  /\ table'[j] = table[j] /\ StaysEnded(j) /\ Visible(j)' = table[j]
           /\ table[j] # "absent" => Visible(j) = table[j]
<1>1. JobSound(j) /\ TableSound(j)
  BY DEF Sound, JobsSound
<1>2. table' = table /\ activeJobs' = {} /\ job'[j].status = "none"
  BY DEF Die, world, NewJob
<1>3. j \in activeJobs => job[j].pc # "done"
  BY <1>1 DEF JobSound, ActivePcs
<1>q. QED
  BY <1>1, <1>2, <1>3 DEF TableSound, StaysEnded, Visible

\* Every step is one of these or concerns no record at all.
LEMMA Evolution ==
    ASSUME BuildInvariant, [Next]_vars
    PROVE  \/ \A j \in Job : Ignores(j)
           \/ \E j \in Job : Evolves(j) /\ StaysEnded(j) /\ \A i \in Job \ {j} : Ignores(i)
           \/ \E state \in {"down", "panicked"} : Die(state)
<1>1. CASE UNCHANGED <<job, activeJobs, table>>
  BY <1>1 DEF Ignores, StaysEnded, Visible
<1>2. ASSUME NEW j \in Job, NEW e \in Environment, Prepare(j, e)
      PROVE  \A i \in Job : Ignores(i)
  <2>1. UNCHANGED <<activeJobs, table>> /\ \A i \in Job : job'[i].status = job[i].status
    BY <1>2 DEF BuildInvariant, TypeOK, JobRecord, Prepare, world
  <2>q. QED
    BY <2>1 DEF Ignores, StaysEnded, Visible
<1>3. ASSUME \/ \E r \in Reader, j \in Job : Lookup(r, j)
             \/ \E r \in Reader : HandlerStep(r) \/ Heartbeat(r)
             \/ Terminate \/ Restart \/ UNCHANGED vars
      PROVE  UNCHANGED <<job, activeJobs, table>>
  BY <1>3
     DEF Lookup, HandlerStep, ReadStored, Snapshot, Subscribe, Receive, EndStream, Cancel, CloseChannel,
         Heartbeat, Terminate, Restart, vars, memory, maps, world
<1>4. CASE Exit \/ Crash
  BY <1>4 DEF Exit, Crash
<1>q. QED
  BY <1>1, <1>2, <1>3, <1>4, JobStepEvolves, InvariantParts DEF Next, HubStep

\* A record that is saved is never changed or lost, and an ended job never goes
\* back, whatever fails and whenever the process dies.
THEOREM RecordsAreFinal == Spec => RecordsFinal
<1>1. BuildInvariant /\ [Next]_vars =>
        [\A j \in Job :
            /\ table[j] # "absent" => table'[j] = table[j]
            /\ job[j].status \in Terminal => job'[j].status \in {job[j].status, "none"}]_vars
  <2> SUFFICES ASSUME BuildInvariant, [Next]_vars, NEW j \in Job
               PROVE  /\ table[j] # "absent" => table'[j] = table[j]
                      /\ StaysEnded(j)
    BY DEF StaysEnded
  <2>1. CASE Ignores(j)
    BY <2>1 DEF Ignores
  <2>2. CASE Evolves(j) /\ StaysEnded(j)
    BY <2>2 DEF Evolves
  <2>3. CASE \E state \in {"down", "panicked"} : Die(state)
    BY <2>3, DieLoses, InvariantParts
  <2>q. QED
    BY <2>1, <2>2, <2>3, Evolution
<1>q. QED
  BY <1>1, BuildInvariantHolds, PTL DEF Spec, RecordsFinal

\* The service implements the abstract records: the initial state maps to their
\* initial state, every step to one of their steps or to none.
THEOREM RecordsImplemented == Spec => ImplementsRecords
<1> DEFINE visible == [j \in Job |-> Visible(j)]
           kept == {j \in Job : table[j] # "absent"}
<1>1. Init => Records!Init
  BY DEF Init, Visible, Records!Init
<1>2. BuildInvariant /\ [Next]_vars => [Records!Next]_Records!recordVars
  <2> SUFFICES ASSUME BuildInvariant, [Next]_vars
               PROVE  [Records!Next]_Records!recordVars
    OBVIOUS
  <2> USE DEF Records!Next, Records!recordVars, Visible
  <2>1. CASE \A j \in Job : Ignores(j)
    <3>1. visible' = visible /\ kept' = kept
      BY <2>1 DEF Ignores
    <3>q. QED
      BY <3>1
  <2>2. ASSUME NEW j \in Job, Evolves(j), \A i \in Job \ {j} : Ignores(i)
        PROVE  [Records!Next]_Records!recordVars
    <3>1. visible' = [visible EXCEPT ![j] = Visible(j)']
      BY <2>2 DEF Ignores
    <3>2. kept' = IF table'[j] = table[j] THEN kept ELSE kept \cup {j}
      BY <2>2 DEF Ignores, Evolves, Terminal
    <3>3. CASE Visible(j)' = Visible(j) /\ table'[j] = table[j]
      BY <3>1, <3>2, <3>3
    <3>4. CASE Visible(j) = "absent" /\ Visible(j)' = "building" /\ table'[j] = table[j]
      BY <3>1, <3>2, <3>4 DEF Records!Appear
    <3>5. CASE \/ Visible(j) = "building" /\ Visible(j)' = "smoke_checking" /\ table'[j] = table[j]
               \/ Visible(j) \in {"building", "smoke_checking"} /\ Visible(j)' \in Terminal /\ table'[j] = table[j]
      BY <3>1, <3>2, <3>5 DEF Records!Advance, Records!Ended, Terminal
    <3>6. CASE Visible(j) \in Terminal /\ Visible(j)' = Visible(j) /\ table[j] = "absent" /\ table'[j] = Visible(j)
      <4>1. visible' = visible /\ kept' = kept \cup {j}
        BY <3>1, <3>2, <3>6 DEF Terminal
      <4>q. QED
        BY <3>6, <4>1 DEF Records!Keep, Records!Ended, Terminal
    <3>7. CASE table[j] = "absent" /\ Visible(j)' = "absent" /\ table'[j] = table[j]
      <4>1. visible' = [i \in Job |-> IF i \in {j} THEN "absent" ELSE visible[i]] /\ kept' = kept
        BY <3>1, <3>2, <3>7
      <4>2. {j} \cap kept = {} /\ {j} \in SUBSET Job
        BY <3>7
      <4>q. QED
        BY <4>1, <4>2 DEF Records!Vanish
    <3>q. QED
      BY <2>2, <3>3, <3>4, <3>5, <3>6, <3>7 DEF Evolves
  <2>3. CASE \E state \in {"down", "panicked"} : Die(state)
    <3> DEFINE lost == Job \ kept
    <3>1. /\ visible' = [j \in Job |-> IF j \in lost THEN "absent" ELSE visible[j]]
          /\ kept' = kept
      BY <2>3, DieLoses, InvariantParts
    <3>2. lost \cap kept = {} /\ lost \in SUBSET Job
      OBVIOUS
    <3>q. QED
      BY <3>1, <3>2 DEF Records!Vanish
  <2>q. QED
    BY <2>1, <2>2, <2>3, Evolution
<1>q. QED
  BY <1>1, <1>2, BuildInvariantHolds, PTL DEF Spec, ImplementsRecords, Records!Spec
=============================================================================
