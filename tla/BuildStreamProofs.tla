--------------------------- MODULE BuildStreamProofs ---------------------------
(***************************************************************************)
(* What readers of build jobs are told, and what a build leaves behind, for*)
(* every set of environments, jobs and readers and every size of the       *)
(* channels: each property under the failures it bears.                    *)
(***************************************************************************)
EXTENDS BuildServiceProofs, FiniteSetTheorems

\* The engine removes what it is told to, and tells what it created.
CheckCleansUp == Faults \cap {"ambiguous", "cleanup"} = {}

\* What a job has left behind where it is: its record, once it has ended and the
\* save is through; no ID of a start that failed; a smoke container while it
\* checks, or if it was lost in its check.
JobFollows(j) ==
    LET record == job[j]
    IN  /\ "store" \notin Faults /\ record.status \in Terminal /\ record.pc # "save"
              => table[j] = record.status
        /\ j \in issued => record.pc \notin {"unused", "prepared", "registered", "abort"}
        /\ "store" \notin Faults /\ j \in issued /\ record.pc \in {"unregister", "unlock", "done"}
              => table[j] # "absent" \/ Lost(j)
        /\ CheckCleansUp /\ j \in smoke =>
              record.pc \in {"smokeRun", "smokePassed", "smokeFailed"} \/ Lost(j)

\* A reader asks for a job that has been begun, and looks in the store only for
\* one that is over.
ReaderAsks(r) ==
    LET record == job[reader[r].job]
    IN  /\ reader[r].pc # "idle" =>
              reader[r].job \in Job /\ record.pc \notin {"unused", "prepared"}
        /\ reader[r].pc = "missed" => record.pc \in {"abort", "unlock", "done"}

\* The ends in its channel are those in the store.
EndsSaved(r) ==
    "store" \notin Faults =>
        \A i \in DOMAIN channel[r] :
            channel[r][i].type = "complete" => table[reader[r].job] = channel[r][i].status

\* The end it was told is told to others too, and no event but the last tells one.
EndsStand(r) ==
    /\ \A i \in DOMAIN channel[r] : channel[r][i].type = "status" => channel[r][i].status \notin Terminal
    /\ "store" \notin Faults /\ reader[r].status \in Terminal =>
          reader[r].job \in Job /\ Visible(reader[r].job) = reader[r].status

\* The events in its channel follow from what it knows, one by one.
Chain(r) ==
    \A i \in DOMAIN channel[r] :
        LET told == KnownBefore(r, i) + Chunk(channel[r][i])
        IN  IF Ample THEN channel[r][i].output = told ELSE channel[r][i].output >= told

\* What it knows in the end is what has been sent, or less if events were
\* dropped, as long as the job refers to its channel.
Attached(r, j) == r \in subscribers[j] \/ r \in pending[j]

CatchesUp(r, j) ==
    LET told == KnownBefore(r, Len(channel[r]) + 1) + Unsent(j, r)
    IN  IF Ample THEN told = job[j].output ELSE told <= job[j].output

\* The events other than chunks it can have been sent before the end.
Statuses(r, j) ==
    IF job[j].status = "building" \/ (job[j].event = "status" /\ r \in pending[j]) THEN 0 ELSE 1

\* An ample channel holds no more than there have been events.
HasRoom(r, j) == Ample => Len(channel[r]) + Unsent(j, r) <= job[j].output + Statuses(r, j)

ReaderFollows(r) ==
    /\ ReaderAsks(r) /\ EndsSaved(r) /\ EndsStand(r)
    /\ reader[r].pc \in {"idle", "found"} => channel[r] = <<>>
    /\ reader[r].pc = "open" => Chain(r)
    /\ \A j \in Job : Attached(r, j) => HasRoom(r, j) /\ (reader[r].pc = "open" => CatchesUp(r, j))

\* The jobs, the store, the smoke containers and the contents of the channels
\* agree, each under the failures it names.
StreamInvariant ==
    /\ \A j \in Job : JobFollows(j)
    /\ \A r \in Reader : ReaderFollows(r)
    /\ Ample => blocked = {}

SInv == TypeOK /\ Sound /\ StreamInvariant

-----------------------------------------------------------------------------
(***************************************************************************)
(* What a goroutine that announces a change, or its end, has written.      *)
(***************************************************************************)

\* A goroutine that goes on changes where it is and nothing else.
LEMMA GotoFields ==
    ASSUME job \in [Job -> JobRecord], NEW j \in Job, NEW step, Goto(j, step)
    PROVE  /\ job'[j].pc = step /\ job'[j].event = job[j].event
           /\ job'[j].output = job[j].output /\ job'[j].status = job[j].status
           /\ \A i \in Job \ {j} : job'[i] = job[i]
BY DEF Goto, JobRecord

\* An announcement changes one record, and lists the subscribers of its job.
LEMMA AnnounceFields ==
    ASSUME job \in [Job -> JobRecord], pending \in [Job -> SUBSET Reader], NEW j \in Job,
           NEW event, NEW changed \in JobRecord, Announce(j, event, changed)
    PROVE  /\ job'[j].pc = "sending" /\ job'[j].event = event
           /\ job'[j].output = changed.output /\ job'[j].status = changed.status
           /\ pending'[j] = subscribers[j]
           /\ \A i \in Job \ {j} : job'[i] = job[i] /\ pending'[i] = pending[i]
BY DEF Announce, JobRecord

\* So does the end of a job, which leaves its map of subscribers empty.
LEMMA FinishFields ==
    ASSUME job \in [Job -> JobRecord], pending \in [Job -> SUBSET Reader],
           subscribers \in [Job -> SUBSET Reader], NEW j \in Job, NEW status, Finish(j, status)
    PROVE  /\ job'[j].pc = "save" /\ job'[j].event = "complete"
           /\ job'[j].output = job[j].output /\ job'[j].status = status
           /\ pending'[j] = subscribers[j] /\ subscribers'[j] = {}
           /\ \A i \in Job \ {j} : /\ job'[i] = job[i] /\ pending'[i] = pending[i]
                                   /\ subscribers'[i] = subscribers[i]
BY DEF Finish, JobRecord

-----------------------------------------------------------------------------
(***************************************************************************)
(* What a job leaves behind.                                               *)
(***************************************************************************)

\* A step of a job's goroutine leaves behind what belongs to where it goes.
LEMMA JobStepFollows ==
    ASSUME SInv, NEW j \in Job, JobStep(j), ~Die("panicked")
    PROVE  JobFollows(j)'
<1>a. /\ JobFollows(j) /\ JobSound(j) /\ TableSound(j) /\ job[j] \in JobRecord
      /\ job \in [Job -> JobRecord] /\ table \in [Job -> {"absent"} \cup Terminal]
      /\ pending \in [Job -> SUBSET Reader] /\ subscribers \in [Job -> SUBSET Reader]
  BY DEF SInv, StreamInvariant, Sound, JobsSound, TypeOK
<1>b. CheckCleansUp => "ambiguous" \notin Faults /\ "cleanup" \notin Faults
  BY DEF CheckCleansUp
<1> USE <1>a, <1>b DEF JobFollows, JobSound, TableSound, JobRecord, CheckCleansUp, Lost
<1>1. CASE Reject(j) \/ Register(j) \/ Launch(j) \/ AbortStart(j)
  BY <1>1 DEF Reject, Register, Launch, AbortStart, Goto, NewJob, world
<1>2. CASE Unlock(j) \/ Unregister(j)
  BY <1>2 DEF Unlock, Unregister, Goto, world
<1>3. CASE AppendOutput(j)
  BY <1>3 DEF AppendOutput, Announce, world
<1>4. CASE BuildReturns(j)
  <2>1. job'[j].pc = "save" \/ (job'[j].pc = "sending" /\ job'[j].status = "smoke_checking")
    BY <1>4, AnnounceFields, FinishFields DEF BuildReturns, Status, Terminal
  <2>2. UNCHANGED world /\ (CheckCleansUp => j \notin smoke)
    BY <1>4 DEF BuildReturns, NewJob
  <2>q. QED
    BY <2>1, <2>2 DEF world, Terminal
<1>5. CASE SmokeCreate(j)
  BY <1>5 DEF SmokeCreate, Goto, Finish
<1>6. CASE SmokeRun(j) \/ SmokeRemove(j)
  BY <1>6 DEF SmokeRun, SmokeRemove, Goto, Finish, world
<1>7. CASE Save(j)
  BY <1>7 DEF Save, Goto, EndedPcs, Terminal
<1>8. CASE SendsDone(j)
  BY <1>8 DEF SendsDone, Goto, Terminal, world
<1>9. ASSUME NEW r \in Reader, Send(j, r) \/ SendBlocked(j, r) PROVE JobFollows(j)'
  <2>1. UNCHANGED <<job, table, issued, smoke>>
    BY <1>9 DEF Send, SendBlocked, Sent, world
  <2>q. QED
    BY <2>1
<1>q. QED
  BY <1>1, <1>2, <1>3, <1>4, <1>5, <1>6, <1>7, <1>8, <1>9 DEF JobStep

\* Every step keeps what every job leaves behind.
LEMMA FollowsStep ==
    ASSUME SInv, [Next]_vars, NEW i \in Job
    PROVE  JobFollows(i)'
<1>a. JobFollows(i) /\ job \in [Job -> JobRecord] /\ table \in [Job -> {"absent"} \cup Terminal]
  BY DEF SInv, StreamInvariant, TypeOK
<1>1. CASE /\ job'[i] = job[i] /\ table'[i] = table[i]
           /\ (i \in issued' <=> i \in issued) /\ (i \in smoke' <=> i \in smoke)
  BY <1>a, <1>1 DEF JobFollows, Lost
<1>2. ASSUME NEW state \in {"down", "panicked"}, Die(state) PROVE JobFollows(i)'
  <2>1. i \in issued \/ i \in smoke => job'[i] = [NewJob EXCEPT !.pc = "done"] \/ job[i].pc = "unused"
    BY <1>2 DEF Die
  <2>2. job'[i].status \notin Terminal
    BY <1>2 DEF Die, NewJob, Terminal
  <2>3. i \in smoke /\ CheckCleansUp => job'[i] = [NewJob EXCEPT !.pc = "done"]
    BY <1>a, <1>2 DEF JobFollows, Lost, Die, NewJob
  <2>q. QED
    BY <1>a, <1>2, <2>1, <2>2, <2>3 DEF JobFollows, Lost, Die, NewJob, world
<1>3. ASSUME NEW j \in Job, JobStep(j), ~Die("panicked") PROVE JobFollows(i)'
  <2>1. CASE i = j
    BY <1>3, <2>1, JobStepFollows
  <2>2. CASE i # j
    <3>1. /\ job'[i] = job[i] /\ table'[i] = table[i]
          /\ (i \in issued' <=> i \in issued) /\ (i \in smoke' <=> i \in smoke)
      BY <1>a, <1>3, <2>2
         DEF JobStep, Reject, Register, Launch, AbortStart, Unlock, AppendOutput, BuildReturns,
             SmokeCreate, SmokeRun, SmokeRemove, Save, SendsDone, Unregister, Send, SendBlocked,
             Sent, Announce, Finish, Goto, world
    <3>q. QED
      BY <1>1, <3>1
  <2>q. QED
    BY <2>1, <2>2
<1>4. ASSUME NEW j \in Job, NEW e \in Environment, Prepare(j, e) PROVE JobFollows(i)'
  <2>1. CASE i = j
    <3>1. /\ job'[i].pc = "prepared" /\ job'[i].event = job[i].event
          /\ job'[i].output = job[i].output /\ job'[i].status = job[i].status
          /\ job[i].pc = "unused" /\ UNCHANGED world
      BY <1>a, <1>4, <2>1 DEF Prepare, JobRecord
    <3>2. ~Lost(i)
      BY <3>1 DEF Lost, NewJob
    <3>q. QED
      BY <1>a, <3>1, <3>2 DEF JobFollows, world
  <2>2. CASE i # j
    <3>1. job'[i] = job[i] /\ UNCHANGED world
      BY <1>a, <1>4, <2>2 DEF Prepare
    <3>q. QED
      BY <1>1, <3>1 DEF world
  <2>q. QED
    BY <2>1, <2>2
<1>5. CASE \/ \E r \in Reader, j \in Job : Lookup(r, j)
           \/ \E r \in Reader : HandlerStep(r) \/ Heartbeat(r)
           \/ Terminate \/ Restart \/ UNCHANGED vars
  <2>1. UNCHANGED <<job, table, issued, smoke>>
    BY <1>5
       DEF Lookup, HandlerStep, ReadStored, Snapshot, Subscribe, Receive, EndStream, Cancel,
           CloseChannel, Heartbeat, Terminate, Restart, vars, memory, maps, world
  <2>q. QED
    BY <1>1, <2>1
<1>q. QED
  BY <1>2, <1>3, <1>4, <1>5 DEF Next, HubStep, Exit, Crash

-----------------------------------------------------------------------------
(***************************************************************************)
(* What a reader asks for, and the ends it is told.                        *)
(***************************************************************************)

\* A job that has been begun is never new again, and one that is over stays so,
\* while the process lives.
LEMMA JobsGoOn ==
    ASSUME SInv, [Next]_vars, ~Die("down"), ~Die("panicked"), NEW i \in Job
    PROVE  /\ job[i].pc \notin {"unused", "prepared"} => job'[i].pc \notin {"unused", "prepared"}
           /\ job[i].pc \in {"abort", "unlock", "done"} => job'[i].pc \in {"abort", "unlock", "done"}
<1>a. /\ job \in [Job -> JobRecord] /\ pending \in [Job -> SUBSET Reader]
      /\ subscribers \in [Job -> SUBSET Reader]
      /\ \A j \in Job : JobSound(j) /\ job[j] \in JobRecord
  BY DEF SInv, Sound, JobsSound, TypeOK
<1>1. ASSUME NEW j \in Job, JobStep(j), job' # job
      PROVE  /\ \A k \in Job \ {j} : job'[k] = job[k]
             /\ job[j].pc \notin {"unused", "prepared"} => job'[j].pc \notin {"unused", "prepared"}
             /\ job[j].pc \in {"abort", "unlock", "done"} => job'[j].pc \in {"abort", "unlock", "done"}
  <2>1. CASE Reject(j) \/ Register(j) \/ Launch(j) \/ AbortStart(j) \/ Unlock(j)
             \/ SmokeRun(j) \/ Save(j) \/ Unregister(j)
    BY <1>a, <2>1 DEF Reject, Register, Launch, AbortStart, Unlock, SmokeRun, Save, Unregister, Goto,
                      JobRecord
  <2>2. CASE SendsDone(j)
    <3>1. \E step \in {"building", "smoke", "unregister"} : Goto(j, step)
      BY <1>a, <2>2 DEF SendsDone, JobSound
    <3>q. QED
      BY <1>a, <2>2, <3>1, GotoFields DEF SendsDone
  <2>3. CASE AppendOutput(j) \/ BuildReturns(j) \/ SmokeCreate(j) \/ SmokeRemove(j)
    <3>1. job[j].pc \notin {"abort", "unlock", "done"}
      BY <2>3 DEF AppendOutput, BuildReturns, SmokeCreate, SmokeRemove
    <3>2. /\ \A k \in Job \ {j} : job'[k] = job[k]
          /\ job'[j].pc \in {"sending", "save", "smokeRun"}
      <4>1. [job[j] EXCEPT !.status = "smoke_checking"] \in JobRecord
        BY <1>a DEF JobRecord, Status
      <4>2. AppendOutput(j) => [job[j] EXCEPT !.output = @ + 1] \in JobRecord
        BY <1>a, BuildServiceAssumption DEF AppendOutput, JobRecord
      <4>q. QED
        BY <1>a, <2>3, <4>1, <4>2, AnnounceFields, FinishFields, GotoFields
           DEF AppendOutput, BuildReturns, SmokeCreate, SmokeRemove
    <3>q. QED
      BY <3>1, <3>2
  <2>4. ASSUME NEW r \in Reader, Send(j, r) \/ SendBlocked(j, r) PROVE job' = job
    BY <2>4 DEF Send, SendBlocked, Sent
  <2>q. QED
    BY <1>1, <2>1, <2>2, <2>3, <2>4 DEF JobStep
<1>2. ASSUME NEW j \in Job, NEW e \in Environment, Prepare(j, e)
      PROVE  job[j].pc = "unused" /\ \A k \in Job \ {j} : job'[k] = job[k]
  BY <1>a, <1>2 DEF Prepare
<1>3. CASE \/ \E r \in Reader, j \in Job : Lookup(r, j)
           \/ \E r \in Reader : HandlerStep(r) \/ Heartbeat(r)
           \/ Terminate \/ Restart \/ UNCHANGED vars
  BY <1>3
     DEF Lookup, HandlerStep, ReadStored, Snapshot, Subscribe, Receive, EndStream, Cancel,
         CloseChannel, Heartbeat, Terminate, Restart, vars, memory
<1>q. QED
  BY <1>1, <1>2, <1>3 DEF Next, HubStep, Exit, Crash

\* What a step other than a death does to a reader: it is its own step, or it
\* is sent an event, or neither it nor its channel changes.
LEMMA ReaderMoves ==
    ASSUME SInv, [Next]_vars, ~Die("down"), ~Die("panicked"), NEW q \in Reader
    PROVE  \/ reader'[q] = reader[q] /\ channel'[q] = channel[q]
           \/ HandlerStep(q)
           \/ \E j \in Job : Lookup(q, j)
           \/ \E j \in Job : /\ job[j].pc = "sending" /\ q \in pending[j]
                             /\ Sent(j, q, Append(channel[q], Message(j)))
<1>a. reader \in [Reader -> ReaderRecord] /\ channel \in [Reader -> Seq(Event)]
  BY DEF SInv, TypeOK
<1>1. ASSUME NEW j \in Job, JobStep(j)
      PROVE  \/ reader'[q] = reader[q] /\ channel'[q] = channel[q]
             \/ /\ job[j].pc = "sending" /\ q \in pending[j]
                /\ Sent(j, q, Append(channel[q], Message(j)))
  <2>1. ASSUME NEW r \in Reader, Send(j, r) \/ SendBlocked(j, r)
        PROVE  \/ reader'[q] = reader[q] /\ channel'[q] = channel[q]
               \/ /\ job[j].pc = "sending" /\ q \in pending[j]
                  /\ Sent(j, q, Append(channel[q], Message(j)))
    <3>1. \/ UNCHANGED <<reader, channel>>
          \/ Sent(j, r, channel[r])
          \/ Sent(j, r, Append(channel[r], Message(j)))
      BY <2>1 DEF Send, SendBlocked
    <3>2. job[j].pc = "sending" /\ r \in pending[j]
      BY <2>1 DEF Send, SendBlocked
    <3>q. QED
      BY <1>a, <3>1, <3>2 DEF Sent
  <2>2. CASE ~\E r \in Reader : Send(j, r) \/ SendBlocked(j, r)
    BY <1>1, <2>2
       DEF JobStep, Reject, Register, Launch, AbortStart, Unlock, AppendOutput, BuildReturns,
           SmokeCreate, SmokeRun, SmokeRemove, Save, SendsDone, Unregister, Announce, Finish, streams
  <2>q. QED
    BY <2>1, <2>2
<1>2. ASSUME NEW r \in Reader, HandlerStep(r), r # q
      PROVE  reader'[q] = reader[q] /\ channel'[q] = channel[q]
  BY <1>a, <1>2
     DEF HandlerStep, ReadStored, Snapshot, Subscribe, Receive, EndStream, Cancel, CloseChannel
<1>3. ASSUME NEW r \in Reader, NEW j \in Job, Lookup(r, j), r # q
      PROVE  reader'[q] = reader[q] /\ channel'[q] = channel[q]
  BY <1>a, <1>3 DEF Lookup
<1>4. CASE \/ \E j \in Job, e \in Environment : Prepare(j, e)
           \/ \E r \in Reader : Heartbeat(r)
           \/ Terminate \/ Restart \/ UNCHANGED vars
  BY <1>4 DEF Prepare, Heartbeat, Terminate, Restart, streams, vars, memory
<1>q. QED
  BY <1>1, <1>2, <1>3, <1>4 DEF Next, HubStep, Exit, Crash

\* A death leaves no reader anything to follow.
LEMMA DieReader ==
    ASSUME NEW state, Die(state), NEW q \in Reader
    PROVE  ReaderFollows(q)'
<1>1. /\ reader'[q].pc = "idle" /\ channel'[q] = <<>>
      /\ \A j \in Job : q \notin subscribers'[j] /\ q \notin pending'[j]
  BY DEF Die, NewReader
<1>q. QED
  BY <1>1 DEF ReaderFollows, ReaderAsks, EndsSaved, EndsStand, Attached, Die, NewReader, Terminal

\* A reader asks for a job that is there, and finds it in the end where it
\* looks.
LEMMA AsksStep ==
    ASSUME SInv, [Next]_vars, ~Die("down"), ~Die("panicked"), NEW q \in Reader
    PROVE  ReaderAsks(q)' /\ (reader'[q].pc \in {"idle", "found"} => channel'[q] = <<>>)
<1>a. /\ reader \in [Reader -> ReaderRecord] /\ reader[q] \in ReaderRecord
      /\ channel \in [Reader -> Seq(Event)]
      /\ ReaderAsks(q) /\ (reader[q].pc \in {"idle", "found"} => channel[q] = <<>>) /\ ReaderSound(q)
  BY DEF SInv, TypeOK, StreamInvariant, ReaderFollows, Sound, StreamsSound
<1>b. /\ reader[q].pc # "idle" => job'[reader[q].job].pc \notin {"unused", "prepared"}
      /\ reader[q].pc = "missed" => job'[reader[q].job].pc \in {"abort", "unlock", "done"}
  BY <1>a, JobsGoOn DEF ReaderAsks
<1>1. CASE reader'[q] = reader[q] /\ channel'[q] = channel[q]
  BY <1>a, <1>b, <1>1 DEF ReaderAsks
<1>2. CASE HandlerStep(q)
  <2>1. reader'[q].job = reader[q].job /\ reader[q].pc # "idle"
    BY <1>a, <1>2
       DEF HandlerStep, ReadStored, Snapshot, Subscribe, Receive, EndStream, Cancel, CloseChannel,
           ReaderRecord
  <2>2. reader'[q].pc \notin {"idle", "found", "missed"}
    <3>1. CASE Receive(q)
      BY <1>a, <3>1 DEF Receive, ReaderRecord
    <3>2. CASE ~Receive(q)
      BY <1>a, <1>2, <3>2
         DEF HandlerStep, ReadStored, Snapshot, Subscribe, EndStream, Cancel, CloseChannel,
             ReaderRecord
    <3>q. QED
      BY <3>1, <3>2
  <2>q. QED
    BY <1>a, <1>b, <2>1, <2>2 DEF ReaderAsks
<1>3. ASSUME NEW j \in Job, Lookup(q, j)
      PROVE  ReaderAsks(q)' /\ (reader'[q].pc \in {"idle", "found"} => channel'[q] = <<>>)
  <2>1. /\ reader'[q].job = j /\ channel'[q] = <<>> /\ job' = job
        /\ job[j].pc \notin {"unused", "prepared"}
        /\ reader'[q].pc = "missed" => j \notin activeJobs
    BY <1>a, <1>3 DEF Lookup, NewReader
  <2>2. j \notin activeJobs /\ job[j].pc \notin {"unused", "prepared"}
           => job[j].pc \in {"abort", "unlock", "done"}
    BY DEF SInv, Sound, JobsSound, JobSound, ActivePcs, TypeOK, JobRecord
  <2>q. QED
    BY <2>1, <2>2 DEF ReaderAsks
<1>4. ASSUME NEW j \in Job, q \in pending[j], NEW buffer, Sent(j, q, buffer)
      PROVE  ReaderAsks(q)' /\ (reader'[q].pc \in {"idle", "found"} => channel'[q] = <<>>)
  <2>1. reader' = reader /\ reader[q].pc \notin {"idle", "found"}
    BY <1>a, <1>4 DEF Sent, ReaderSound
  <2>q. QED
    BY <1>a, <1>b, <2>1 DEF ReaderAsks
<1>q. QED
  BY <1>1, <1>2, <1>3, <1>4, ReaderMoves

\* An end is sent only once it is saved, and what is saved stays.
LEMMA EndsStep ==
    ASSUME SInv, [Next]_vars, ~Die("down"), ~Die("panicked"), NEW q \in Reader
    PROVE  EndsSaved(q)'
<1> SUFFICES ASSUME "store" \notin Faults PROVE EndsSaved(q)'
  BY DEF EndsSaved
<1>a. /\ reader \in [Reader -> ReaderRecord] /\ reader[q] \in ReaderRecord
      /\ channel \in [Reader -> Seq(Event)] /\ channel[q] \in Seq(Event)
      /\ EndsSaved(q) /\ ReaderAsks(q) /\ (reader[q].pc = "idle" => channel[q] = <<>>)
  BY DEF SInv, TypeOK, StreamInvariant, ReaderFollows
<1>b. \A j \in Job : table[j] # "absent" => table'[j] = table[j]
  <2>1. BuildInvariant
    BY InvariantParts DEF SInv
  <2>q. QED
    BY <2>1, Evolution DEF Ignores, Evolves, Die, world
<1>c. \A i \in DOMAIN channel[q] : channel[q][i] \in Event /\ channel[q][i].status # "absent"
  <2>1. \A event \in Event : event.status # "absent"
    BY DEF Event, Status, Terminal
  <2>q. QED
    BY <1>a, <2>1, ElementOfSeq
<1>1. CASE reader'[q].job = reader[q].job /\ channel'[q] = channel[q] /\ reader[q].pc # "idle"
  BY <1>a, <1>b, <1>c, <1>1 DEF EndsSaved, ReaderAsks
<1>2. CASE reader'[q] = reader[q] /\ channel'[q] = channel[q] /\ reader[q].pc = "idle"
  BY <1>a, <1>b, <1>c, <1>2 DEF EndsSaved
<1>3. CASE Receive(q)
  <2>1. /\ channel'[q] = Tail(channel[q]) /\ reader'[q].job = reader[q].job
        /\ channel[q] # <<>> /\ reader[q].job \in Job
    BY <1>a, <1>3 DEF Receive, ReaderRecord, ReaderAsks
  <2>2. \A i \in DOMAIN Tail(channel[q]) : i + 1 \in DOMAIN channel[q] /\ Tail(channel[q])[i] = channel[q][i + 1]
    BY <1>a, <2>1, HeadTailProperties
  <2>q. QED
    BY <1>a, <1>b, <1>c, <2>1, <2>2 DEF EndsSaved
<1>4. CASE HandlerStep(q) /\ ~Receive(q)
  <2>1. reader'[q].job = reader[q].job /\ channel'[q] = channel[q] /\ reader[q].pc # "idle"
    BY <1>a, <1>4
       DEF HandlerStep, ReadStored, Snapshot, Subscribe, EndStream, Cancel, CloseChannel, ReaderRecord
  <2>q. QED
    BY <1>1, <2>1
<1>5. ASSUME NEW j \in Job, Lookup(q, j) PROVE EndsSaved(q)'
  BY <1>a, <1>5 DEF Lookup, EndsSaved
<1>6. ASSUME NEW j \in Job, job[j].pc = "sending", q \in pending[j],
             Sent(j, q, Append(channel[q], Message(j)))
      PROVE  EndsSaved(q)'
  <2>1. /\ reader[q].job = j /\ job[j].event = "complete" => table[j] = job[j].status
        /\ reader'[q] = reader[q] /\ channel'[q] = Append(channel[q], Message(j)) /\ table' = table
    BY <1>a, <1>6
       DEF SInv, Sound, StreamsSound, ReaderSound, JobsSound, JobSound, StreamInvariant, JobFollows, Sent,
           world, Terminal
  <2>2. Message(j) \in Event
    BY <1>6, MessageType DEF SInv
  <2>3. \A i \in DOMAIN channel'[q] :
           (i \in DOMAIN channel[q] /\ channel'[q][i] = channel[q][i]) \/ channel'[q][i] = Message(j)
    BY <1>a, <2>1, <2>2, AppendProperties
  <2>4. reader[q].job = j
    BY <1>6 DEF SInv, Sound, StreamsSound, ReaderSound
  <2>q. QED
    BY <1>a, <2>1, <2>3, <2>4 DEF EndsSaved, Message
<1>q. QED
  BY <1>1, <1>2, <1>3, <1>4, <1>5, <1>6, ReaderMoves

\* While the store works, what is told of a job that has ended is told for good.
LEMMA EndStands ==
    ASSUME SInv, [Next]_vars, ~Die("down"), ~Die("panicked"), "store" \notin Faults,
           NEW i \in Job, Visible(i) \in Terminal
    PROVE  Visible(i)' = Visible(i)
<1>a. /\ JobSound(i) /\ TableSound(i) /\ JobFollows(i) /\ job[i] \in JobRecord
      /\ BuildInvariant
  BY InvariantParts DEF SInv, StreamInvariant, Sound, JobsSound, TypeOK
<1>1. Visible(i)' = Visible(i) \/ (table[i] = "absent" /\ Visible(i)' = "absent")
  BY <1>a, Evolution DEF Ignores, Evolves, Terminal
<1>2. ASSUME table[i] = "absent", Visible(i)' = "absent"
      PROVE  FALSE
  <2>1. i \in activeJobs /\ job[i].status \in Terminal /\ job[i].pc = "save"
    BY <1>a, <1>2 DEF Visible, JobFollows, Terminal
  <2>2. StaysEnded(i) /\ job'[i].status # "absent"
    <3>1. StaysEnded(i)
      BY <1>a, Evolution DEF Ignores
    <3>q. QED
      BY <2>1, <3>1 DEF StaysEnded, Terminal
  <2>3. i \notin activeJobs'
    BY <1>2, <2>2 DEF Visible
  <2>4. \/ UNCHANGED activeJobs
        \/ \E j \in Job : Unregister(j) \/ AbortStart(j) \/ Register(j)
    BY DEF Next, JobStep, Prepare, Reject, Launch, Unlock, AppendOutput, BuildReturns, SmokeCreate,
           SmokeRun, SmokeRemove, Save, SendsDone, Send, SendBlocked, Sent, Announce, Finish, Lookup,
           HandlerStep, ReadStored, Snapshot, Subscribe, Receive, EndStream, Cancel, CloseChannel,
           Heartbeat, HubStep, Terminate, Exit, Crash, Restart, maps, memory, vars
  <2>q. QED
    BY <2>1, <2>3, <2>4 DEF Unregister, AbortStart, Register, RemoveActive
<1>q. QED
  BY <1>1, <1>2

\* The ends told to a reader stand, whatever it or somebody else does.
LEMMA StandsStep ==
    ASSUME SInv, [Next]_vars, ~Die("down"), ~Die("panicked"), NEW q \in Reader
    PROVE  EndsStand(q)'
<1>a. /\ reader \in [Reader -> ReaderRecord] /\ reader[q] \in ReaderRecord
      /\ channel \in [Reader -> Seq(Event)] /\ channel[q] \in Seq(Event)
      /\ ReaderAsks(q) /\ EndsSaved(q) /\ EndsStand(q)
      /\ \A j \in Job : JobSound(j) /\ TableSound(j) /\ JobFollows(j) /\ job[j] \in JobRecord
  BY DEF SInv, TypeOK, StreamInvariant, ReaderFollows, Sound, JobsSound
<1>b. ASSUME reader'[q].job = reader[q].job, reader'[q].status = reader[q].status, channel'[q] = channel[q]
      PROVE  EndsStand(q)'
  BY <1>a, <1>b, EndStands DEF EndsStand
<1>1. CASE reader'[q] = reader[q] /\ channel'[q] = channel[q]
  BY <1>b, <1>1
<1>2. ASSUME NEW j \in Job, Lookup(q, j) PROVE EndsStand(q)'
  BY <1>a, <1>2 DEF Lookup, NewReader, EndsStand, Terminal
<1>3. ASSUME NEW j \in Job, job[j].pc = "sending", Sent(j, q, Append(channel[q], Message(j)))
      PROVE  EndsStand(q)'
  <2>1. reader'[q] = reader[q] /\ channel'[q] = Append(channel[q], Message(j))
    BY <1>a, <1>3 DEF Sent
  <2>2. Message(j) \in Event /\ (Message(j).type = "status" => Message(j).status \notin Terminal)
    BY <1>a, <1>3, MessageType DEF SInv, Message, JobSound, Terminal
  <2>3. \A i \in DOMAIN channel'[q] :
           (i \in DOMAIN channel[q] /\ channel'[q][i] = channel[q][i]) \/ channel'[q][i] = Message(j)
    BY <1>a, <2>1, <2>2, AppendProperties
  <2>q. QED
    BY <1>a, <2>1, <2>2, <2>3, EndStands DEF EndsStand
<1>4. CASE ReadStored(q) \/ Snapshot(q) \/ Subscribe(q)
  <2>1. /\ reader[q].job \in Job /\ reader'[q].job = reader[q].job /\ UNCHANGED <<job, activeJobs, table, channel>>
        /\ \/ ReadStored(q) /\ reader'[q].status = table[reader[q].job]
           \/ reader'[q].status = job[reader[q].job].status
    BY <1>a, <1>4 DEF ReadStored, Snapshot, Subscribe, ReaderAsks, ReaderRecord, maps, world
  <2>2. ReadStored(q) => Visible(reader[q].job) = table[reader[q].job]
    BY <1>a, <2>1 DEF ReadStored, ReaderAsks, JobSound, ActivePcs, Visible
  <2>3. /\ "store" \notin Faults /\ job[reader[q].job].status \in Terminal
        => Visible(reader[q].job) = job[reader[q].job].status
    BY <1>a, <2>1 DEF JobSound, JobFollows, ActivePcs, JobPcs, Visible
  <2>q. QED
    BY <1>a, <2>1, <2>2, <2>3 DEF EndsStand, Visible
<1>5. CASE Receive(q)
  <2>1. /\ reader[q].job \in Job /\ reader'[q].job = reader[q].job /\ UNCHANGED <<job, activeJobs, table>>
        /\ channel[q] # <<>> /\ channel'[q] = Tail(channel[q])
        /\ reader'[q].status =
              IF Head(channel[q]).type = "log" THEN reader[q].status ELSE Head(channel[q]).status
    BY <1>a, <1>5 DEF Receive, ReaderAsks, ReaderRecord, maps, world
  <2>2. Head(channel[q]) = channel[q][1] /\ 1 \in DOMAIN channel[q] /\ channel[q][1] \in Event
    BY <1>a, <2>1, HeadTailProperties
  <2>3. \A i \in DOMAIN Tail(channel[q]) : i + 1 \in DOMAIN channel[q] /\ Tail(channel[q])[i] = channel[q][i + 1]
    BY <1>a, <2>1, HeadTailProperties
  <2>4. ASSUME "store" \notin Faults, reader'[q].status \in Terminal
        PROVE  Visible(reader[q].job) = reader'[q].status
    <3>1. CASE Head(channel[q]).type = "log"
      BY <1>a, <2>1, <2>4, <3>1 DEF EndsStand
    <3>2. CASE Head(channel[q]).type = "complete"
      <4>1. table[reader[q].job] = reader'[q].status
        BY <1>a, <2>1, <2>2, <2>4, <3>2 DEF EndsSaved
      <4>q. QED
        BY <1>a, <2>1, <2>4, <4>1 DEF TableSound, JobSound, ActivePcs, Visible, Terminal
    <3>3. Head(channel[q]).type # "status"
      BY <1>a, <2>1, <2>2, <2>4 DEF EndsStand
    <3>q. QED
      BY <2>2, <3>1, <3>2, <3>3 DEF Event
  <2>q. QED
    BY <1>a, <2>1, <2>3, <2>4 DEF EndsStand, Visible
<1>6. CASE EndStream(q) \/ Cancel(q) \/ CloseChannel(q)
  BY <1>a, <1>b, <1>6 DEF EndStream, Cancel, CloseChannel, ReaderRecord
<1>q. QED
  BY <1>1, <1>2, <1>3, <1>4, <1>5, <1>6, ReaderMoves DEF HandlerStep

-----------------------------------------------------------------------------
(***************************************************************************)
(* What a reader is told of the output.                                    *)
(***************************************************************************)

\* What a reader knows is a number of chunks.
LEMMA KnownType ==
    ASSUME TypeOK, NEW q \in Reader, NEW i \in 1..(Len(channel[q]) + 1)
    PROVE  KnownBefore(q, i) \in Nat
<1>1. channel[q] \in Seq(Event) /\ reader[q] \in ReaderRecord /\ 0..MaxChunks \subseteq Nat
  BY BuildServiceAssumption DEF TypeOK
<1>2. CASE i = 1
  BY <1>1, <1>2 DEF KnownBefore, ReaderRecord
<1>3. CASE i # 1
  <2>1. i - 1 \in 1..Len(channel[q])
    BY <1>1, <1>3
  <2>2. channel[q][i - 1] \in Event
    BY <1>1, <2>1, ElementOfSeq
  <2>q. QED
    BY <1>1, <1>3, <2>2 DEF KnownBefore, Event
<1>q. QED
  BY <1>2, <1>3

\* What a reader knows after one more event is what that event says.
LEMMA AppendedKnowledge ==
    ASSUME NEW q \in Reader, reader' = reader, channel[q] \in Seq(Event), NEW event \in Event,
           channel'[q] = Append(channel[q], event), NEW n, n = Len(channel[q])
    PROVE  /\ n \in Nat /\ Len(channel'[q]) = n + 1 /\ channel'[q] \in Seq(Event)
           /\ \A i \in 1..n : channel'[q][i] = channel[q][i]
           /\ channel'[q][n + 1] = event
           /\ \A i \in 1..(n + 1) : KnownBefore(q, i)' = KnownBefore(q, i)
           /\ KnownBefore(q, n + 2)' = event.output
<1>1. /\ n \in Nat /\ Len(channel'[q]) = n + 1 /\ channel'[q] \in Seq(Event)
      /\ \A i \in 1..n : channel'[q][i] = channel[q][i]
      /\ channel'[q][n + 1] = event
  BY AppendProperties
<1>2. \A i \in 1..(n + 1) : i # 1 => i - 1 \in 1..n
  BY <1>1
<1>3. \A i \in 1..(n + 1) : KnownBefore(q, i)' = KnownBefore(q, i)
  BY <1>1, <1>2 DEF KnownBefore
<1>4. n + 2 # 1 /\ (n + 2) - 1 = n + 1
  BY <1>1
<1>5. KnownBefore(q, n + 2)' = event.output
  BY <1>1, <1>4 DEF KnownBefore
<1>q. QED
  BY <1>1, <1>3, <1>5

\* What a reader knows after the events it has left is what it would have known
\* before it took the first.
LEMMA ReceivedKnowledge ==
    ASSUME NEW q \in Reader, reader \in [Reader -> ReaderRecord], channel \in [Reader -> Seq(Event)],
           Receive(q)
    PROVE  /\ channel'[q] \in Seq(Event) /\ Len(channel'[q]) = Len(channel[q]) - 1
           /\ Len(channel[q]) > 0
           /\ \A i \in DOMAIN channel'[q] : /\ i + 1 \in DOMAIN channel[q]
                                            /\ channel'[q][i] = channel[q][i + 1]
           /\ \A i \in 1..(Len(channel'[q]) + 1) : KnownBefore(q, i)' = KnownBefore(q, i + 1)
<1>1. /\ channel[q] \in Seq(Event) /\ channel[q] # <<>> /\ channel'[q] = Tail(channel[q])
      /\ reader'[q].seen = Head(channel[q]).output
  BY DEF Receive, ReaderRecord
<1>2. /\ channel'[q] \in Seq(Event) /\ Len(channel'[q]) = Len(channel[q]) - 1
      /\ \A i \in 1..Len(channel'[q]) : channel'[q][i] = channel[q][i + 1]
  BY <1>1, HeadTailProperties
<1>3. Len(channel[q]) \in Nat /\ Len(channel[q]) > 0 /\ Head(channel[q]) = channel[q][1]
  BY <1>1
<1>4. DOMAIN channel'[q] = 1..Len(channel'[q]) /\ DOMAIN channel[q] = 1..Len(channel[q])
  BY <1>1, <1>2
<1>5. \A i \in 1..Len(channel'[q]) : i + 1 \in 1..Len(channel[q])
  BY <1>2, <1>3
<1>6. ASSUME NEW i \in 1..(Len(channel'[q]) + 1)
      PROVE  KnownBefore(q, i)' = KnownBefore(q, i + 1)
  <2>1. i + 1 # 1 /\ (i + 1) - 1 = i
    OBVIOUS
  <2>2. CASE i = 1
    BY <1>1, <1>3, <2>1, <2>2 DEF KnownBefore
  <2>3. CASE i # 1
    <3>1. i - 1 \in 1..Len(channel'[q]) /\ (i - 1) + 1 = i
      BY <1>2, <1>3, <2>3
    <3>q. QED
      BY <1>2, <2>1, <2>3, <3>1 DEF KnownBefore
  <2>q. QED
    BY <2>2, <2>3
<1>q. QED
  BY <1>2, <1>3, <1>4, <1>5, <1>6

\* A job refers to the channel of a reader that asks for it, once it is begun.
LEMMA AttachedFacts ==
    ASSUME SInv, NEW q \in Reader, NEW i \in Job, Attached(q, i)
    PROVE  /\ reader[q].job = i /\ job[i].pc \notin {"unused", "prepared"}
           /\ reader[q].pc \notin {"idle", "found", "missed"}
<1>1. ReaderSound(q) /\ ReaderAsks(q)
  BY DEF SInv, Sound, StreamsSound, StreamInvariant, ReaderFollows
<1>q. QED
  BY <1>1 DEF Attached, ReaderSound, ReaderAsks

\* A send adds one event that says what its job has written so far.
LEMMA AppendedRoom ==
    ASSUME SInv, NEW q \in Reader, NEW i \in Job, job[i].pc = "sending", q \in pending[i],
           Sent(i, q, Append(channel[q], Message(i)))
    PROVE  /\ reader[q].pc = "open" => Chain(q)'
           /\ Attached(q, i)' => HasRoom(q, i)' /\ (reader'[q].pc = "open" => CatchesUp(q, i)')
<1>a. /\ job \in [Job -> JobRecord] /\ job[i] \in JobRecord /\ channel \in [Reader -> Seq(Event)]
      /\ channel[q] \in Seq(Event) /\ pending \in [Job -> SUBSET Reader]
      /\ ReaderFollows(q) /\ ReaderSound(q) /\ JobSound(i)
  BY DEF SInv, TypeOK, StreamInvariant, Sound, JobsSound, StreamsSound
<1>b. /\ HasRoom(q, i) /\ (reader[q].pc = "open" => CatchesUp(q, i) /\ Chain(q))
  BY <1>a DEF ReaderFollows, Attached
<1>c. Message(i) \in Event /\ Message(i).output = job[i].output /\ Message(i).type = job[i].event
  BY MessageType DEF SInv, Message
<1>d. /\ reader' = reader /\ job' = job /\ subscribers' = subscribers
      /\ channel'[q] = Append(channel[q], Message(i)) /\ q \notin pending'[i]
  BY <1>a DEF Sent
<1>e. /\ job[i].output \in Nat /\ Len(channel[q]) \in Nat
  BY <1>a, BuildServiceAssumption DEF JobRecord
<1>0. PICK n \in Nat : n = Len(channel[q])
  BY <1>e
<1>1. /\ Len(channel'[q]) = n + 1 /\ channel'[q] \in Seq(Event)
      /\ \A k \in 1..n : channel'[q][k] = channel[q][k]
      /\ channel'[q][n + 1] = Message(i)
      /\ \A k \in 1..(n + 1) : KnownBefore(q, k)' = KnownBefore(q, k)
      /\ KnownBefore(q, n + 2)' = job[i].output
  <2>1. /\ reader' = reader /\ channel[q] \in Seq(Event) /\ Message(i) \in Event
        /\ channel'[q] = Append(channel[q], Message(i)) /\ n = Len(channel[q])
    BY <1>0, <1>a, <1>c, <1>d
  <2>q. QED
    BY <2>1, <1>c, AppendedKnowledge DEF KnownBefore
<1>2. Chunk(Message(i)) = Unsent(i, q)
  BY <1>c DEF Chunk, Unsent
<1>3. Unsent(i, q)' = 0
  BY <1>d DEF Unsent
<1>4. ASSUME reader[q].pc = "open" PROVE Chain(q)'
  <2>1. DOMAIN channel[q] = 1..n /\ DOMAIN channel'[q] = 1..(n + 1)
    BY <1>0, <1>1, <1>a
  <2>2. KnownBefore(q, n + 1)' + Unsent(i, q) = job[i].output
           \/ (~Ample /\ KnownBefore(q, n + 1)' + Unsent(i, q) <= job[i].output)
    <3>1. KnownBefore(q, n + 1)' = KnownBefore(q, n + 1)
      BY <1>0, <1>1
    <3>q. QED
      BY <1>0, <1>4, <1>b, <3>1 DEF CatchesUp
  <2>3. ASSUME NEW k \in 1..(n + 1)
        PROVE  IF Ample THEN channel'[q][k].output = KnownBefore(q, k)' + Chunk(channel'[q][k])
                        ELSE channel'[q][k].output >= KnownBefore(q, k)' + Chunk(channel'[q][k])
    <3>1. CASE k \in 1..n
      <4>1. KnownBefore(q, k)' = KnownBefore(q, k) /\ channel'[q][k] = channel[q][k]
        BY <1>1, <2>3, <3>1
      <4>q. QED
        BY <1>4, <1>b, <2>1, <3>1, <4>1 DEF Chain
    <3>2. CASE k = n + 1
      BY <1>1, <1>2, <1>c, <1>e, <2>2, <3>2
    <3>q. QED
      BY <3>1, <3>2
  <2>q. QED
    BY <2>1, <2>3 DEF Chain, Chunk, Ample
<1>5. ASSUME reader[q].pc = "open" PROVE CatchesUp(q, i)'
  <2>1. KnownBefore(q, Len(channel[q]) + 1)' = job[i].output
    <3>1. Len(channel'[q]) + 1 = n + 2
      BY <1>1
    <3>q. QED
      BY <1>1, <3>1 DEF KnownBefore
  <2>q. QED
    BY <1>3, <1>d, <1>e, <2>1 DEF CatchesUp, Ample
<1>6. ASSUME Attached(q, i)' PROVE HasRoom(q, i)'
  <2>1. q \in subscribers[i] /\ job[i].event # "complete"
    BY <1>6, <1>a, <1>d DEF Attached, ReaderSound, Announcing
  <2>2. \/ job[i].event = "log" /\ job[i].status = "building"
        \/ job[i].event = "status" /\ job[i].status = "smoke_checking"
    BY <1>a, <2>1 DEF JobSound
  <2>3. Unsent(i, q) + Statuses(q, i)' = 1 + Statuses(q, i)
    BY <1>d, <2>2 DEF Unsent, Statuses
  <2>4. Statuses(q, i) \in {0, 1} /\ Statuses(q, i)' \in {0, 1} /\ Unsent(i, q) \in {0, 1}
    BY DEF Unsent, Statuses
  <2>q. QED
    BY <1>0, <1>1, <1>3, <1>b, <1>d, <1>e, <2>3, <2>4 DEF HasRoom, Ample
<1>q. QED
  BY <1>4, <1>5, <1>6, <1>d

\* A handler that takes an event knows what it said; one that subscribes starts
\* from what its job has written.
LEMMA HandlerRoom ==
    ASSUME SInv, NEW q \in Reader, HandlerStep(q)
    PROVE  /\ reader'[q].pc = "open" => Chain(q)'
           /\ \A i \in Job : Attached(q, i)' =>
                  HasRoom(q, i)' /\ (reader'[q].pc = "open" => CatchesUp(q, i)')
<1>a. /\ job \in [Job -> JobRecord] /\ channel \in [Reader -> Seq(Event)] /\ channel[q] \in Seq(Event)
      /\ reader \in [Reader -> ReaderRecord] /\ reader[q] \in ReaderRecord
      /\ pending \in [Job -> SUBSET Reader] /\ subscribers \in [Job -> SUBSET Reader]
      /\ ReaderFollows(q) /\ ReaderSound(q)
  BY DEF SInv, TypeOK, StreamInvariant, Sound, StreamsSound
<1>b. /\ reader[q].pc = "open" => Chain(q)
      /\ \A i \in Job : Attached(q, i) => HasRoom(q, i) /\ (reader[q].pc = "open" => CatchesUp(q, i))
  BY <1>a DEF ReaderFollows
<1>c. UNCHANGED <<job, pending>>
  BY DEF HandlerStep, ReadStored, Snapshot, Subscribe, Receive, EndStream, Cancel, CloseChannel
<1>d. \A i \in Job : /\ job[i].output \in Nat
                     /\ Statuses(q, i)' = Statuses(q, i) /\ Unsent(i, q)' = Unsent(i, q)
                     /\ Statuses(q, i) \in {0, 1} /\ Unsent(i, q) \in {0, 1}
  BY <1>a, <1>c, BuildServiceAssumption DEF JobRecord, Statuses, Unsent
<1>1. CASE Receive(q)
  <2>0. PICK n \in Nat : n = Len(channel'[q]) /\ Len(channel[q]) = n + 1
    BY <1>1, <1>a, ReceivedKnowledge
  <2>1. /\ channel'[q] \in Seq(Event)
        /\ \A k \in 1..n : k + 1 \in 1..(n + 1) /\ channel'[q][k] = channel[q][k + 1]
        /\ \A k \in 1..(n + 1) : KnownBefore(q, k)' = KnownBefore(q, k + 1)
        /\ DOMAIN channel[q] = 1..(n + 1) /\ DOMAIN channel'[q] = 1..n
    <3>1. /\ channel'[q] \in Seq(Event)
          /\ \A k \in DOMAIN channel'[q] : channel'[q][k] = channel[q][k + 1]
          /\ \A k \in 1..(Len(channel'[q]) + 1) : KnownBefore(q, k)' = KnownBefore(q, k + 1)
      BY <1>1, <1>a, ReceivedKnowledge
    <3>2. DOMAIN channel[q] = 1..(n + 1) /\ DOMAIN channel'[q] = 1..n
      BY <1>a, <2>0, <3>1
    <3>3. \A k \in 1..n : k + 1 \in 1..(n + 1)
      OBVIOUS
    <3>4. \A k \in 1..(n + 1) : KnownBefore(q, k)' = KnownBefore(q, k + 1)
      BY <2>0, <3>1
    <3>q. QED
      BY <3>1, <3>2, <3>3, <3>4
  <2>2. reader[q].pc = "open" /\ subscribers' = subscribers
    BY <1>1 DEF Receive
  <2>3. Chain(q)'
    <3>1. ASSUME NEW k \in 1..n
          PROVE  IF Ample THEN channel'[q][k].output = KnownBefore(q, k)' + Chunk(channel'[q][k])
                          ELSE channel'[q][k].output >= KnownBefore(q, k)' + Chunk(channel'[q][k])
      <4>1. k + 1 \in DOMAIN channel[q] /\ k \in 1..(n + 1)
        BY <2>1
      <4>2. KnownBefore(q, k)' = KnownBefore(q, k + 1) /\ channel'[q][k] = channel[q][k + 1]
        BY <2>1, <4>1
      <4>q. QED
        BY <1>b, <2>2, <4>1, <4>2 DEF Chain
    <3>q. QED
      BY <2>1, <3>1 DEF Chain, Chunk, Ample
  <2>4. ASSUME NEW i \in Job, Attached(q, i)' PROVE HasRoom(q, i)' /\ CatchesUp(q, i)'
    <3>1. Attached(q, i)
      BY <1>c, <2>2, <2>4 DEF Attached
    <3>2. HasRoom(q, i) /\ CatchesUp(q, i)
      BY <1>b, <2>2, <3>1
    <3>3. HasRoom(q, i)'
      BY <1>c, <1>d, <2>0, <3>2 DEF HasRoom, Ample
    <3>4. KnownBefore(q, Len(channel[q]) + 1)' = KnownBefore(q, Len(channel[q]) + 1)
      <4>1. KnownBefore(q, n + 1)' = KnownBefore(q, n + 2)
        BY <2>0, <2>1
      <4>2. Len(channel'[q]) + 1 = n + 1 /\ Len(channel[q]) + 1 = n + 2
        BY <2>0
      <4>q. QED
        BY <4>1, <4>2 DEF KnownBefore
    <3>5. CatchesUp(q, i)'
      BY <1>c, <1>d, <3>2, <3>4 DEF CatchesUp, Ample
    <3>q. QED
      BY <3>3, <3>5
  <2>q. QED
    BY <2>3, <2>4
<1>2. CASE Subscribe(q)
  <2>1. /\ channel' = channel /\ channel[q] = <<>> /\ reader[q].pc = "found"
        /\ reader[q].job \in Job /\ reader'[q].seen = job[reader[q].job].output
        /\ \A i \in Job : i # reader[q].job => subscribers'[i] = subscribers[i]
    BY <1>2, <1>a DEF Subscribe, ReaderFollows, ReaderRecord, ReaderSound
  <2>2. Chain(q)'
    BY <2>1 DEF Chain
  <2>3. ASSUME NEW i \in Job, Attached(q, i)' PROVE HasRoom(q, i)' /\ CatchesUp(q, i)'
    <3>1. q \notin pending[i] /\ q \notin subscribers[i]
      BY <1>a, <2>1 DEF ReaderSound
    <3>2. i = reader[q].job
      BY <1>c, <2>1, <2>3, <3>1 DEF Attached
    <3>3. Unsent(i, q) = 0 /\ Len(channel'[q]) = 0
      BY <2>1, <3>1 DEF Unsent
    <3>4. KnownBefore(q, Len(channel[q]) + 1)' = job[i].output
      BY <2>1, <3>2, <3>3 DEF KnownBefore
    <3>q. QED
      BY <1>c, <1>d, <3>3, <3>4 DEF HasRoom, CatchesUp, Ample
  <2>q. QED
    BY <2>2, <2>3
<1>3. CASE ReadStored(q) \/ Snapshot(q) \/ EndStream(q) \/ Cancel(q) \/ CloseChannel(q)
  <2>1. /\ channel' = channel /\ reader'[q].pc # "open"
        /\ \A i \in Job : subscribers'[i] \subseteq subscribers[i]
    <3>1. channel' = channel /\ reader'[q].pc # "open"
      BY <1>3, <1>a DEF ReadStored, Snapshot, EndStream, Cancel, CloseChannel, ReaderRecord
    <3>2. \A i \in Job : subscribers'[i] \subseteq subscribers[i]
      BY <1>3, <1>a DEF ReadStored, Snapshot, EndStream, Cancel, CloseChannel
    <3>q. QED
      BY <3>1, <3>2
  <2>2. ASSUME NEW i \in Job, Attached(q, i)' PROVE HasRoom(q, i)'
    <3>1. HasRoom(q, i)
      BY <1>b, <1>c, <2>1, <2>2 DEF Attached
    <3>q. QED
      BY <1>c, <1>d, <2>1, <3>1 DEF HasRoom, Ample
  <2>q. QED
    BY <2>1, <2>2
<1>q. QED
  BY <1>1, <1>2, <1>3 DEF HandlerStep

\* A job's goroutine that sends nothing to a reader writes a chunk for all its
\* subscribers, a status, or its end, or says nothing at all.
LEMMA JobRoom ==
    ASSUME SInv, NEW j \in Job, JobStep(j), ~Die("panicked"), NEW q \in Reader, Attached(q, j)',
           channel'[q] = channel[q], reader' = reader
    PROVE  HasRoom(q, j)' /\ (reader[q].pc = "open" => CatchesUp(q, j)')
<1>a. /\ job \in [Job -> JobRecord] /\ job[j] \in JobRecord /\ channel[q] \in Seq(Event)
      /\ pending \in [Job -> SUBSET Reader] /\ subscribers \in [Job -> SUBSET Reader]
      /\ ReaderFollows(q) /\ ReaderSound(q) /\ JobSound(j)
  BY DEF SInv, TypeOK, StreamInvariant, Sound, JobsSound, StreamsSound
<1>b. Attached(q, j)
  BY <1>a DEF Attached, JobStep, Reject, Register, Launch, AbortStart, Unlock, AppendOutput,
              BuildReturns, SmokeCreate, SmokeRun, SmokeRemove, Save, SendsDone, Unregister, Announce,
              Finish, Send, SendBlocked, Sent, streams, Die
<1>c. HasRoom(q, j) /\ (reader[q].pc = "open" => CatchesUp(q, j))
  BY <1>a, <1>b DEF ReaderFollows
<1>d. job[j].output \in Nat /\ Len(channel[q]) \in Nat
  BY <1>a, BuildServiceAssumption DEF JobRecord
<1>e. job[j].pc \notin {"unused", "prepared"}
  BY <1>b, AttachedFacts
<1>f. job[j].pc \notin {"sending", "save"} => Unsent(j, q) = 0 /\ q \notin pending[j]
  BY <1>a DEF ReaderSound, Unsent
<1>g. Statuses(q, j) \in {0, 1} /\ Unsent(j, q) \in {0, 1} /\ Statuses(q, j)' \in {0, 1}
  BY DEF Statuses, Unsent
<1>k. /\ KnownBefore(q, Len(channel[q]) + 1)' = KnownBefore(q, Len(channel[q]) + 1)
      /\ KnownBefore(q, Len(channel[q]) + 1) \in Nat
  <2>1. Len(channel[q]) + 1 \in 1..(Len(channel[q]) + 1)
    BY <1>d
  <2>q. QED
    BY <2>1, KnownType DEF KnownBefore, SInv
<1>1. CASE /\ job'[j].output = job[j].output /\ Statuses(q, j)' >= Statuses(q, j)
           /\ Unsent(j, q)' = Unsent(j, q)
  BY <1>1, <1>c, <1>d, <1>g, <1>k DEF HasRoom, CatchesUp, Ample
<1>2. CASE /\ job'[j].output = job[j].output /\ job'[j].status = job[j].status
           /\ job'[j].event = job[j].event /\ pending' = pending
  <2>1. Statuses(q, j)' = Statuses(q, j) /\ Unsent(j, q)' = Unsent(j, q)
    BY <1>2 DEF Statuses, Unsent
  <2>q. QED
    BY <1>1, <1>2, <1>g, <2>1
<1>3. CASE AppendOutput(j)
  <2>1. /\ job'[j].output = job[j].output + 1 /\ job'[j].status = job[j].status
        /\ job'[j].event = "log" /\ pending'[j] = subscribers[j]
    BY <1>3, <1>a DEF AppendOutput, Announce, JobRecord
  <2>2. q \in pending'[j] /\ job[j].pc = "building" /\ job[j].status = "building"
    BY <1>3, <1>a, <1>b, <1>f, <2>1 DEF AppendOutput, Attached, JobSound
  <2>3. Unsent(j, q)' = 1 /\ Unsent(j, q) = 0 /\ Statuses(q, j)' = 0 /\ Statuses(q, j) = 0
    BY <1>f, <2>1, <2>2 DEF Unsent, Statuses
  <2>q. QED
    BY <1>c, <1>d, <1>k, <2>1, <2>3 DEF HasRoom, CatchesUp, Ample
<1>4. ASSUME NEW status \in Terminal, Finish(j, status), job[j].pc # "save", job[j].pc # "sending"
      PROVE  HasRoom(q, j)' /\ (reader[q].pc = "open" => CatchesUp(q, j)')
  <2>1. /\ job'[j].output = job[j].output /\ job'[j].status = status /\ job'[j].event = "complete"
    BY <1>4, <1>a, FinishFields
  <2>2. Unsent(j, q)' = 0 /\ Unsent(j, q) = 0 /\ Statuses(q, j)' = 1
    BY <1>4, <1>f, <2>1 DEF Unsent, Statuses, Terminal
  <2>q. QED
    BY <1>1, <1>g, <2>1, <2>2
<1>5. CASE job[j].pc = "building" /\ Announce(j, "status", [job[j] EXCEPT !.status = "smoke_checking"])
  <2>1. /\ job'[j].output = job[j].output /\ job'[j].event = "status"
        /\ job'[j].status = "smoke_checking" /\ pending'[j] = subscribers[j]
    BY <1>5, <1>a DEF Announce, JobRecord
  <2>2. q \in pending'[j] /\ job[j].status = "building"
    BY <1>5, <1>a, <1>b, <1>f, <2>1 DEF Attached, JobSound
  <2>3. Unsent(j, q)' = 0 /\ Unsent(j, q) = 0 /\ Statuses(q, j)' = 0 /\ Statuses(q, j) = 0
    BY <1>5, <1>f, <2>1, <2>2 DEF Unsent, Statuses
  <2>q. QED
    BY <1>1, <1>g, <2>1, <2>3
<1>6. CASE BuildReturns(j) \/ SmokeRemove(j)
  BY <1>4, <1>5, <1>6 DEF BuildReturns, SmokeRemove, Terminal
<1>7. CASE SmokeCreate(j)
  <2>1. CASE Goto(j, "smokeRun") /\ UNCHANGED streams
    BY <1>2, <1>a, <2>1, GotoFields DEF streams
  <2>q. QED
    BY <1>4, <1>7, <2>1 DEF SmokeCreate, Terminal
<1>8. CASE Launch(j) \/ AbortStart(j) \/ Unlock(j) \/ SmokeRun(j) \/ Save(j) \/ Unregister(j)
  BY <1>2, <1>8, <1>a, GotoFields
     DEF Launch, AbortStart, Unlock, SmokeRun, Save, Unregister, streams
<1>9. CASE SendsDone(j)
  BY <1>2, <1>9, <1>a, GotoFields DEF SendsDone, streams
<1>10. ASSUME NEW r \in Reader, Send(j, r) \/ SendBlocked(j, r)
       PROVE  HasRoom(q, j)' /\ (reader[q].pc = "open" => CatchesUp(q, j)')
  <2>1. UNCHANGED <<job, subscribers>> /\ (pending' = pending \/ pending' = [pending EXCEPT ![j] = @ \ {r}])
    BY <1>10 DEF Send, SendBlocked, Sent
  <2>2. CASE r # q \/ pending' = pending
    <3>1. q \in pending'[j] <=> q \in pending[j]
      BY <1>a, <2>1, <2>2
    <3>2. Statuses(q, j)' = Statuses(q, j) /\ Unsent(j, q)' = Unsent(j, q)
      BY <2>1, <3>1 DEF Statuses, Unsent
    <3>q. QED
      BY <1>1, <1>g, <2>1, <3>2
  <2>3. CASE r = q /\ pending' # pending
    <3>1. Unsent(j, q)' = 0 /\ Statuses(q, j)' >= Statuses(q, j)
      BY <1>a, <2>1, <2>3 DEF Unsent, Statuses
    <3>2. CASE Unsent(j, q) = 0
      BY <1>1, <2>1, <3>1, <3>2
    <3>3. CASE Unsent(j, q) = 1 /\ ~Ample
      BY <1>c, <1>d, <1>k, <2>1, <3>1, <3>3 DEF HasRoom, CatchesUp, Ample
    <3>4. CASE Unsent(j, q) = 1 /\ Ample
      \* The event would have been dropped, although there is room.
      <4>1. Len(channel[q]) < Cap /\ blocked = {}
        <5>1. Len(channel[q]) <= MaxChunks + 1
          BY <1>a, <1>c, <1>d, <1>g, <3>4, BuildServiceAssumption DEF HasRoom, JobRecord
        <5>q. QED
          BY <1>d, <3>4, <5>1, BuildServiceAssumption DEF Ample, SInv, StreamInvariant
      <4>2. Sent(j, q, Append(channel[q], Message(j)))
        BY <1>10, <1>a, <1>d, <2>3, <4>1, BuildServiceAssumption DEF Send, SendBlocked
      <4>3. channel \in [Reader -> Seq(Event)] /\ Message(j) \in Event
        BY <1>10, MessageType DEF SInv, TypeOK, Send, SendBlocked
      <4>4. channel'[q] = Append(channel[q], Message(j))
        BY <4>2, <4>3 DEF Sent
      <4>q. QED
        BY <1>a, <1>d, <4>3, <4>4, AppendProperties
    <3>q. QED
      BY <1>g, <3>2, <3>3, <3>4
  <2>q. QED
    BY <2>2, <2>3
<1>11. ~Reject(j) /\ ~Register(j)
  BY <1>e DEF Reject, Register
<1>q. QED
  BY <1>3, <1>6, <1>7, <1>8, <1>9, <1>10, <1>11 DEF JobStep

\* Every reader that stays on the stream of a job follows it.
LEMMA RoomStep ==
    ASSUME SInv, [Next]_vars, ~Die("down"), ~Die("panicked"), NEW q \in Reader
    PROVE  /\ reader'[q].pc = "open" => Chain(q)'
           /\ \A i \in Job : Attached(q, i)' =>
                  HasRoom(q, i)' /\ (reader'[q].pc = "open" => CatchesUp(q, i)')
<1>a. /\ job \in [Job -> JobRecord] /\ reader \in [Reader -> ReaderRecord]
      /\ channel \in [Reader -> Seq(Event)] /\ pending \in [Job -> SUBSET Reader]
      /\ subscribers \in [Job -> SUBSET Reader] /\ ReaderFollows(q) /\ ReaderSound(q)
  BY DEF SInv, TypeOK, StreamInvariant, Sound, StreamsSound
<1>b. /\ reader[q].pc = "open" => Chain(q)
      /\ \A i \in Job : Attached(q, i) => HasRoom(q, i) /\ (reader[q].pc = "open" => CatchesUp(q, i))
  BY <1>a DEF ReaderFollows
<1>0. CASE reader'[q] = reader[q] /\ channel'[q] = channel[q]
  <2>1. reader'[q].pc = "open" => Chain(q)'
    BY <1>0, <1>b DEF Chain, KnownBefore, Chunk, Ample
  <2>2. ASSUME NEW i \in Job, Attached(q, i)', job'[i] = job[i], pending'[i] = pending[i],
               Attached(q, i)
        PROVE  HasRoom(q, i)' /\ (reader'[q].pc = "open" => CatchesUp(q, i)')
    BY <1>0, <1>b, <2>2 DEF HasRoom, CatchesUp, KnownBefore, Unsent, Statuses, Ample
  <2>3. ASSUME NEW i \in Job, Attached(q, i)', UNCHANGED <<job, pending, subscribers>>
        PROVE  HasRoom(q, i)' /\ (reader'[q].pc = "open" => CatchesUp(q, i)')
    BY <2>2, <2>3 DEF Attached
  <2>4. ASSUME NEW i \in Job, Attached(q, i)', NEW j \in Job, JobStep(j)
        PROVE  HasRoom(q, i)' /\ (reader'[q].pc = "open" => CatchesUp(q, i)')
    <3>1. CASE i = j
      <4>1. CASE reader' = reader
        BY <1>0, <2>4, <3>1, <4>1, JobRoom
      <4>2. reader' = reader
        BY <2>4 DEF JobStep, Reject, Register, Launch, AbortStart, Unlock, AppendOutput, BuildReturns,
              SmokeCreate, SmokeRun, SmokeRemove, Save, SendsDone, Unregister, Announce, Finish,
              Send, SendBlocked, Sent, streams
      <4>q. QED
        BY <4>1, <4>2
    <3>2. CASE i # j
      <4>1. job'[i] = job[i] /\ pending'[i] = pending[i] /\ subscribers'[i] = subscribers[i]
        BY <1>a, <2>4, <3>2
           DEF JobStep, Reject, Register, Launch, AbortStart, Unlock, AppendOutput, BuildReturns,
               SmokeCreate, SmokeRun, SmokeRemove, Save, SendsDone, Unregister, Announce, Finish,
               Send, SendBlocked, Sent, Goto, streams
      <4>q. QED
        BY <2>2, <2>4, <4>1 DEF Attached
    <3>q. QED
      BY <3>1, <3>2
  <2>5. ASSUME NEW i \in Job, Attached(q, i)', NEW j \in Job, NEW e \in Environment, Prepare(j, e)
        PROVE  HasRoom(q, i)' /\ (reader'[q].pc = "open" => CatchesUp(q, i)')
    <3>1. Attached(q, i)
      BY <2>5 DEF Prepare, streams, Attached
    <3>2. job[i].pc # "unused"
      BY <3>1, AttachedFacts
    <3>3. job'[i] = job[i] /\ pending'[i] = pending[i]
      BY <1>a, <2>5, <3>2 DEF Prepare, streams
    <3>q. QED
      BY <2>2, <2>5, <3>1, <3>3
  <2>6. ASSUME NEW i \in Job, Attached(q, i)', NEW r \in Reader, HandlerStep(r)
        PROVE  HasRoom(q, i)' /\ (reader'[q].pc = "open" => CatchesUp(q, i)')
    <3>1. CASE r = q
      BY <2>6, <3>1, HandlerRoom
    <3>2. CASE r # q
      <4>1. UNCHANGED <<job, pending>>
        BY <2>6 DEF HandlerStep, ReadStored, Snapshot, Subscribe, Receive, EndStream, Cancel, CloseChannel
      <4>2. Attached(q, i)
        BY <1>a, <2>6, <3>2
           DEF HandlerStep, ReadStored, Snapshot, Subscribe, Receive, EndStream, Cancel, CloseChannel,
               Attached
      <4>q. QED
        BY <2>2, <2>6, <4>1, <4>2
    <3>q. QED
      BY <3>1, <3>2
  <2>7. CASE \/ \E r \in Reader, j \in Job : Lookup(r, j)
             \/ \E r \in Reader : Heartbeat(r)
             \/ Terminate \/ Restart \/ UNCHANGED vars
    <3>1. UNCHANGED <<job, pending, subscribers>>
      BY <2>7 DEF Lookup, Heartbeat, Terminate, Restart, vars, memory
    <3>q. QED
      BY <2>1, <2>3, <3>1
  <2>q. QED
    BY <2>1, <2>4, <2>5, <2>6, <2>7 DEF Next, HubStep, Exit, Crash
<1>1. CASE HandlerStep(q)
  BY <1>1, HandlerRoom
<1>2. ASSUME NEW j \in Job, Lookup(q, j)
      PROVE  /\ reader'[q].pc # "open"
             /\ \A i \in Job : ~Attached(q, i)'
  <2>1. reader'[q].pc # "open"
    BY <1>2, <1>a DEF Lookup, NewReader
  <2>2. \A i \in Job : ~Attached(q, i)'
    BY <1>2, <1>a DEF Lookup, Attached, ReaderSound
  <2>q. QED
    BY <2>1, <2>2
<1>3. ASSUME NEW j \in Job, job[j].pc = "sending", q \in pending[j],
             Sent(j, q, Append(channel[q], Message(j)))
      PROVE  /\ reader'[q].pc = "open" => Chain(q)'
             /\ \A i \in Job : Attached(q, i)' =>
                    HasRoom(q, i)' /\ (reader'[q].pc = "open" => CatchesUp(q, i)')
  <2>1. reader' = reader
    BY <1>3 DEF Sent
  <2>2. ASSUME NEW i \in Job, Attached(q, i)' PROVE i = j
    <3>1. Attached(q, i) /\ Attached(q, j)
      BY <1>a, <1>3, <2>2 DEF Sent, Attached
    <3>q. QED
      BY <3>1, AttachedFacts
  <2>q. QED
    BY <1>3, <2>1, <2>2, AppendedRoom
<1>q. QED
  BY <1>0, <1>1, <1>2, <1>3, ReaderMoves

\* With ample channels no sender waits.
LEMMA NobodyBlocked ==
    ASSUME SInv, [Next]_vars, Ample
    PROVE  blocked' = {}
<1>a. /\ blocked = {} /\ pending \in [Job -> SUBSET Reader] /\ subscribers \in [Job -> SUBSET Reader]
      /\ job \in [Job -> JobRecord] /\ channel \in [Reader -> Seq(Event)]
      /\ \A r \in Reader : ReaderFollows(r)
  BY DEF SInv, TypeOK, StreamInvariant
<1>1. ASSUME NEW j \in Job, NEW r \in Reader, Send(j, r) PROVE blocked' = {}
  <2>1. HasRoom(r, j)
    BY <1>a, <1>1 DEF Send, ReaderFollows, Attached
  <2>2. Len(channel[r]) < Cap
    <3>1. /\ Len(channel[r]) \in Nat /\ job[j].output \in 0..MaxChunks
          /\ Unsent(j, r) \in {0, 1} /\ Statuses(r, j) \in {0, 1}
      BY <1>a DEF JobRecord, Unsent, Statuses
    <3>q. QED
      BY <2>1, <3>1, BuildServiceAssumption DEF HasRoom, Ample
  <2>q. QED
    BY <1>a, <1>1, <2>2, BuildServiceAssumption DEF Send, Sent, Die
<1>2. CASE \E j \in Job, r \in Reader : SendBlocked(j, r)
  BY <1>a, <1>2 DEF SendBlocked
<1>3. CASE \E j \in Job : JobStep(j)
  <2>1. CASE ~\E j \in Job, r \in Reader : Send(j, r) \/ SendBlocked(j, r)
    BY <1>a, <1>3, <2>1
       DEF JobStep, Reject, Register, Launch, AbortStart, Unlock, AppendOutput, BuildReturns,
           SmokeCreate, SmokeRun, SmokeRemove, Save, SendsDone, Unregister, Announce, Finish, streams
  <2>q. QED
    BY <1>1, <1>2, <2>1
<1>4. CASE \/ \E j \in Job, e \in Environment : Prepare(j, e)
           \/ \E r \in Reader, j \in Job : Lookup(r, j)
           \/ \E r \in Reader : HandlerStep(r) \/ Heartbeat(r)
           \/ HubStep \/ UNCHANGED vars
  BY <1>a, <1>4
     DEF Prepare, Lookup, HandlerStep, ReadStored, Snapshot, Subscribe, Receive, EndStream, Cancel,
         CloseChannel, Heartbeat, HubStep, Terminate, Exit, Crash, Restart, Die, streams, vars, memory
<1>q. QED
  BY <1>3, <1>4 DEF Next

-----------------------------------------------------------------------------
(***************************************************************************)
(* The theorems.                                                           *)
(***************************************************************************)

\* Each step keeps what jobs leave behind and what readers are told.
LEMMA StreamStep ==
    ASSUME SInv, [Next]_vars
    PROVE  StreamInvariant'
<1>2. \A j \in Job : JobFollows(j)'
  BY FollowsStep
<1>3. Ample => blocked' = {}
  BY NobodyBlocked
<1>4. ASSUME NEW q \in Reader PROVE ReaderFollows(q)'
  <2>1. CASE Die("down") \/ Die("panicked")
    BY <2>1, DieReader
  <2>2. CASE ~Die("down") /\ ~Die("panicked")
    <3>1. ReaderAsks(q)' /\ (reader'[q].pc \in {"idle", "found"} => channel'[q] = <<>>)
      BY <2>2, AsksStep
    <3>2. EndsSaved(q)' /\ EndsStand(q)'
      BY <2>2, EndsStep, StandsStep
    <3>3. /\ reader'[q].pc = "open" => Chain(q)'
          /\ \A i \in Job : Attached(q, i)' =>
                 HasRoom(q, i)' /\ (reader'[q].pc = "open" => CatchesUp(q, i)')
      BY <2>2, RoomStep
    <3>q. QED
      BY <3>1, <3>2, <3>3 DEF ReaderFollows
  <2>q. QED
    BY <2>1, <2>2
<1>q. QED
  BY <1>2, <1>3, <1>4 DEF StreamInvariant, Ample

\* The jobs, the store, the smoke containers and the contents of the channels
\* agree, whatever fails, each under the failures it bears.
THEOREM StreamInvariantHolds == Spec => []StreamInvariant
<1>1. Init => StreamInvariant
  BY DEF Init, NewJob, NewReader, StreamInvariant, JobFollows, ReaderFollows, ReaderAsks,
         EndsSaved, EndsStand, Attached, Terminal
<1>2. BuildInvariant /\ StreamInvariant /\ [Next]_vars => StreamInvariant'
  BY StreamStep, InvariantParts DEF SInv
<1>q. QED
  BY <1>1, <1>2, BuildInvariantHolds, PTL DEF Spec

\* As long as the store works, a job whose ID was returned is in the maps or in
\* the store (finishBuildJob saves it before it removes it), and a reader that has
\* missed it in the first finds it in the second; only the death of the process
\* loses a build, and only one that is under way.
THEOREM IssuedKeptHolds ==
    ASSUME "store" \notin Faults
    PROVE  Spec => []IssuedKept
<1>1. BuildInvariant /\ StreamInvariant => IssuedKept
  <2> SUFFICES ASSUME BuildInvariant, StreamInvariant PROVE IssuedKept
    OBVIOUS
  <2>1. /\ TypeOK /\ \A j \in Job : JobFollows(j) /\ JobSound(j)
        /\ \A r \in Reader : ReaderAsks(r)
    BY DEF BuildInvariant, StreamInvariant, ReaderFollows
  <2>2. ASSUME NEW j \in issued PROVE j \in activeJobs \/ table[j] # "absent" \/ Lost(j)
    BY <2>1 DEF TypeOK, JobFollows, JobSound, ActivePcs, JobRecord
  <2>3. ASSUME NEW r \in Reader, reader[r].pc = "missed", reader[r].job \in issued
        PROVE  table[reader[r].job] # "absent" \/ Lost(reader[r].job)
    BY <2>1, <2>3 DEF TypeOK, ReaderAsks, JobFollows
  <2>q. QED
    BY <2>2, <2>3 DEF IssuedKept
<1>q. QED
  BY <1>1, BuildInvariantHolds, StreamInvariantHolds, PTL

\* The end that a reader was told of, by GetBuildJob, SubscribeBuildJob's copy,
\* the store or sendBuildEvent, is what GetBuildJob tells from then on, and a
\* complete event is of what is stored, whatever fails but the store.
THEOREM ToldEndStandsHolds == Spec => []ToldEndStands
<1>1. StreamInvariant => ToldEndStands
  BY DEF StreamInvariant, ReaderFollows, EndsSaved, EndsStand, ToldEndStands
<1>q. QED
  BY <1>1, StreamInvariantHolds, PTL

\* A reader gets every chunk once and in order, from the one after the copy
\* subscribeActiveBuildJob gave it to the last one sent, unless its channel was
\* full; no failure of the build, of other readers or of the process alters it.
THEOREM StreamExactHolds == Spec => []StreamExact
<1>1. BuildInvariant /\ StreamInvariant => StreamExact
  <2> SUFFICES ASSUME BuildInvariant, StreamInvariant, NEW r \in Reader, reader[r].pc = "open"
               PROVE  LET j == reader[r].job
                      IN  /\ \A i \in DOMAIN channel[r] :
                                LET event == channel[r][i]
                                    told == KnownBefore(r, i) + Chunk(event)
                                IN  IF Ample THEN event.output = told ELSE event.output >= told
                          /\ Ample /\ r \in subscribers[j] =>
                                KnownBefore(r, Len(channel[r]) + 1) + Unsent(j, r) = job[j].output
    BY DEF StreamExact
  <2>1. reader[r].job \in Job
    BY DEF BuildInvariant, ReaderSound
  <2>2. Chain(r)
    BY DEF StreamInvariant, ReaderFollows
  <2>3. r \in subscribers[reader[r].job] => CatchesUp(r, reader[r].job)
    BY <2>1 DEF StreamInvariant, ReaderFollows, Attached
  <2>q. QED
    BY <2>2, <2>3 DEF Chain, CatchesUp
<1>q. QED
  BY <1>1, BuildInvariantHolds, StreamInvariantHolds, PTL

\* runSmokeCheck leaves no container behind, whether the check passes, fails, is
\* cancelled or cannot start, as long as the engine removes what it is told to and
\* tells what it created; what is left is of a process that ended in a check.
THEOREM SmokeRemovedHolds == Spec => []SmokeRemoved
<1>1. BuildInvariant /\ StreamInvariant => SmokeRemoved
  BY DEF BuildInvariant, TypeOK, StreamInvariant, JobFollows, CheckCleansUp, SmokeRemoved, Lost
<1>q. QED
  BY <1>1, BuildInvariantHolds, StreamInvariantHolds, PTL

-----------------------------------------------------------------------------
(***************************************************************************)
(* A build runs down.  What BuildsEnd says with fairness, without it: a    *)
(* build under way can always go on, and each of its steps leaves it less  *)
(* to do, whatever readers, other builds and failures come between.        *)
(***************************************************************************)

\* How far a job's goroutine is from its end, but for the sends of one event: every
\* chunk still to come is a step to write it and one to be through with its sends.
Stage(record) ==
    LET chunks == MaxChunks - record.output
    IN  CASE record.pc = "prepared" -> 2 * MaxChunks + 11
          [] record.pc = "registered" -> 2 * MaxChunks + 10
          [] record.pc = "sending" /\ record.event = "log" -> 2 * chunks + 10
          [] record.pc = "building" -> 2 * chunks + 9
          [] record.pc = "sending" /\ record.event = "status" -> 8
          [] record.pc = "smoke" -> 7
          [] record.pc = "smokeRun" -> 6
          [] record.pc \in {"smokePassed", "smokeFailed"} -> 5
          [] record.pc = "save" -> 4
          [] record.pc = "sending" /\ record.event = "complete" -> 3
          [] record.pc = "unregister" -> 2
          [] record.pc \in {"abort", "unlock"} -> 1
          [] OTHER -> 0

\* Each subscriber on the list costs at most two steps of sendBuildEvent, one if its
\* full channel is waited for already.
Sends(j) == Cardinality(pending[j]) + Cardinality(pending[j] \ blocked)

RunsDown(j) ==
    \/ Stage(job[j])' < Stage(job[j])
    \/ Stage(job[j])' = Stage(job[j]) /\ Sends(j)' < Sends(j)
StandsStill(j) == Stage(job[j])' = Stage(job[j]) /\ Sends(j)' = Sends(j)

JobsRunDown ==
    [][\A j \in Job : /\ JobStep(j) => RunsDown(j)
                      /\ InProgress(j) => RunsDown(j) \/ StandsStill(j)]_vars

\* The guards of JobStep, without what only a failure makes possible.
JobCanGo(j) ==
    \/ job[j].pc \in {"prepared", "registered", "building", "smoke", "smokeRun", "smokePassed",
                      "smokeFailed", "save", "unregister", "abort", "unlock"}
    \/ /\ job[j].pc = "sending"
       /\ \/ pending[j] = {}
          \/ \E r \in pending[j] : r \in blocked \/ pending[j] \cap blocked = {}

\* Only so many readers subscribe to a job.
ListsFinite == \A j \in Job : IsFiniteSet(subscribers[j]) /\ IsFiniteSet(pending[j])

\* A list changes by one reader, or is that of the map.
LEMMA ListsStep ==
    ASSUME TypeOK, ListsFinite, [Next]_vars
    PROVE  ListsFinite'
<1>a. /\ subscribers \in [Job -> SUBSET Reader] /\ pending \in [Job -> SUBSET Reader]
      /\ \A j \in Job : IsFiniteSet(subscribers[j]) /\ IsFiniteSet(pending[j])
      /\ IsFiniteSet({})
  BY FS_EmptySet DEF TypeOK, ListsFinite
<1>1. CASE UNCHANGED <<subscribers, pending>>
  BY <1>1 DEF ListsFinite
<1>2. ASSUME NEW j \in Job, UNCHANGED subscribers \/ subscribers' = [subscribers EXCEPT ![j] = {}],
             pending' = [pending EXCEPT ![j] = subscribers[j]]
      PROVE  ListsFinite'
  BY <1>a, <1>2 DEF ListsFinite
<1>3. ASSUME NEW j \in Job, NEW r \in Reader, UNCHANGED subscribers,
             pending' = [pending EXCEPT ![j] = @ \ {r}]
      PROVE  ListsFinite'
  <2>1. IsFiniteSet(pending[j] \ {r})
    BY <1>a, FS_RemoveElement
  <2>q. QED
    BY <1>a, <1>3, <2>1 DEF ListsFinite
<1>4. ASSUME NEW j \in Job, NEW r \in Reader, UNCHANGED pending,
             \/ subscribers' = [subscribers EXCEPT ![j] = @ \cup {r}]
             \/ subscribers' = [subscribers EXCEPT ![j] = @ \ {r}]
      PROVE  ListsFinite'
  <2>1. IsFiniteSet(subscribers[j] \cup {r}) /\ IsFiniteSet(subscribers[j] \ {r})
    BY <1>a, FS_AddElement, FS_RemoveElement
  <2>q. QED
    BY <1>a, <1>4, <2>1 DEF ListsFinite
<1>5. ASSUME NEW state, Die(state) PROVE ListsFinite'
  BY <1>a, <1>5 DEF Die, ListsFinite
<1>6. ASSUME NEW j \in Job, JobStep(j) PROVE ListsFinite'
  <2>1. ASSUME NEW r \in Reader, Send(j, r) \/ SendBlocked(j, r) PROVE ListsFinite'
    BY <1>1, <1>3, <1>5, <2>1 DEF Send, SendBlocked, Sent
  <2>2. CASE AppendOutput(j) \/ BuildReturns(j) \/ SmokeCreate(j) \/ SmokeRemove(j)
    BY <1>1, <1>2, <2>2
       DEF AppendOutput, BuildReturns, SmokeCreate, SmokeRemove, Announce, Finish, streams
  <2>3. CASE \/ Reject(j) \/ Register(j) \/ Launch(j) \/ AbortStart(j) \/ Unlock(j) \/ SmokeRun(j)
             \/ Save(j) \/ SendsDone(j) \/ Unregister(j)
    BY <1>1, <2>3
       DEF Reject, Register, Launch, AbortStart, Unlock, SmokeRun, Save, SendsDone, Unregister, streams
  <2>q. QED
    BY <1>6, <2>1, <2>2, <2>3 DEF JobStep
<1>7. ASSUME NEW r \in Reader, HandlerStep(r) PROVE ListsFinite'
  <2>1. CASE Subscribe(r) \/ Cancel(r)
    <3>1. CASE reader[r].job \in Job
      BY <1>4, <2>1, <3>1 DEF Subscribe, Cancel
    <3>2. CASE reader[r].job \notin Job
      <4>1. subscribers' = subscribers /\ pending' = pending
        BY <1>a, <2>1, <3>2 DEF Subscribe, Cancel
      <4>q. QED
        BY <1>1, <4>1
    <3>q. QED
      BY <3>1, <3>2
  <2>2. CASE ~ (Subscribe(r) \/ Cancel(r))
    BY <1>1, <1>7, <2>2 DEF HandlerStep, ReadStored, Snapshot, Receive, EndStream, CloseChannel
  <2>q. QED
    BY <2>1, <2>2
<1>8. CASE \/ \E j \in Job, e \in Environment : Prepare(j, e)
           \/ \E r \in Reader, j \in Job : Lookup(r, j)
           \/ \E r \in Reader : Heartbeat(r)
           \/ Terminate \/ Restart \/ UNCHANGED vars
  BY <1>1, <1>8 DEF Prepare, Lookup, Heartbeat, Terminate, Restart, streams, vars, memory
<1>q. QED
  BY <1>5, <1>6, <1>7, <1>8 DEF Next, HubStep, Exit, Crash

\* The lists stay finite for ever.
LEMMA ListsStayFinite == Spec => []ListsFinite
<1>1. Init => ListsFinite
  BY FS_EmptySet DEF Init, ListsFinite
<1>q. QED
  BY <1>1, ListsStep, TypeCorrect, PTL DEF Spec

\* The stages, one by one.
LEMMA Stages ==
    ASSUME NEW record \in JobRecord
    PROVE  /\ Stage(record) \in Nat
           /\ record.pc \in {"unused", "done"} => Stage(record) = 0
           /\ record.pc \in {"abort", "unlock"} => Stage(record) = 1
           /\ record.pc = "unregister" => Stage(record) = 2
           /\ record.pc = "sending" /\ record.event = "complete" => Stage(record) = 3
           /\ record.pc = "save" => Stage(record) = 4
           /\ record.pc \in {"smokePassed", "smokeFailed"} => Stage(record) = 5
           /\ record.pc = "smokeRun" => Stage(record) = 6
           /\ record.pc = "smoke" => Stage(record) = 7
           /\ record.pc = "sending" /\ record.event = "status" => Stage(record) = 8
           /\ record.pc = "building" => Stage(record) = 2 * (MaxChunks - record.output) + 9
           /\ record.pc = "sending" /\ record.event = "log" => Stage(record) = 2 * (MaxChunks - record.output) + 10
           /\ record.pc = "registered" => Stage(record) = 2 * MaxChunks + 10
           /\ record.pc = "prepared" => Stage(record) = 2 * MaxChunks + 11
           /\ record.output \in Nat /\ MaxChunks \in Nat /\ record.output <= MaxChunks
<1>1. record.output \in Nat /\ MaxChunks \in Nat /\ record.output <= MaxChunks
  BY BuildServiceAssumption DEF JobRecord
<1>q. QED
  BY <1>1 DEF Stage, JobRecord, JobPcs

\* A job that is sent to one reader less has less to send, and so has one that waits
\* for a reader it did not wait for.
LEMMA SendsShrink ==
    ASSUME NEW S, IsFiniteSet(S), NEW B, NEW r \in S
    PROVE  /\ Cardinality(S) \in Nat /\ Cardinality(S \ B) \in Nat
           /\ Cardinality(S \ {r}) + Cardinality((S \ {r}) \ (B \ {r})) < Cardinality(S) + Cardinality(S \ B)
           /\ r \notin B =>
                  Cardinality(S) + Cardinality(S \ (B \cup {r})) < Cardinality(S) + Cardinality(S \ B)
<1>1. /\ IsFiniteSet(S \ B) /\ IsFiniteSet(S \ {r}) /\ IsFiniteSet((S \ {r}) \ (B \ {r}))
      /\ (S \ {r}) \ (B \ {r}) \subseteq S \ B
  <2>1. IsFiniteSet(S \ B) /\ IsFiniteSet(S \ {r}) /\ (S \ {r}) \ (B \ {r}) \subseteq S \ B
    BY FS_Subset
  <2>q. QED
    BY <2>1, FS_Subset
<1>2. Cardinality(S) \in Nat /\ Cardinality(S \ B) \in Nat /\ Cardinality((S \ {r}) \ (B \ {r})) \in Nat
  BY <1>1, FS_CardinalityType
<1>3. Cardinality(S \ {r}) = Cardinality(S) - 1
  BY FS_RemoveElement
<1>4. Cardinality((S \ {r}) \ (B \ {r})) <= Cardinality(S \ B)
  BY <1>1, FS_Subset
<1>5. ASSUME r \notin B
      PROVE  Cardinality(S \ (B \cup {r})) = Cardinality(S \ B) - 1
  <2>1. S \ (B \cup {r}) = (S \ B) \ {r} /\ r \in S \ B
    BY <1>5
  <2>q. QED
    BY <1>1, <2>1, FS_RemoveElement
<1>q. QED
  BY <1>2, <1>3, <1>4, <1>5

\* A step of a job's goroutine leaves it less to do.
LEMMA JobStepRunsDown ==
    ASSUME TypeOK, Sound, ListsFinite, NEW j \in Job, JobStep(j)
    PROVE  RunsDown(j)
<1>a. /\ job[j] \in JobRecord /\ job \in [Job -> JobRecord] /\ JobSound(j)
      /\ pending \in [Job -> SUBSET Reader] /\ subscribers \in [Job -> SUBSET Reader]
  BY DEF TypeOK, Sound, JobsSound
<1>b. Stage(job[j])' = Stage(job'[j])
  BY DEF Stage
<1>c. job'[j] \in JobRecord
  <2>1. TypeOK'
    BY TypeStep DEF Next
  <2>q. QED
    BY <2>1 DEF TypeOK
<1>1. CASE Reject(j) \/ Register(j) \/ Launch(j) \/ AbortStart(j) \/ Unlock(j)
  BY <1>a, <1>b, <1>c, <1>1, Stages DEF Reject, Register, Launch, AbortStart, Unlock, Goto, NewJob, RunsDown, JobRecord
<1>2. CASE SmokeRun(j) \/ Save(j) \/ Unregister(j)
  BY <1>a, <1>b, <1>c, <1>2, GotoFields, Stages DEF SmokeRun, Save, Unregister, JobSound, RunsDown
<1>3. CASE SendsDone(j)
  <2>1. CASE job[j].event = "log"
    <3>1. Goto(j, "building")
      BY <1>3, <2>1 DEF SendsDone
    <3>q. QED
      BY <1>a, <1>b, <1>c, <1>3, <2>1, <3>1, GotoFields, Stages DEF SendsDone, RunsDown
  <2>2. CASE job[j].event = "status"
    <3>1. Goto(j, "smoke")
      BY <1>3, <2>2 DEF SendsDone
    <3>q. QED
      BY <1>a, <1>b, <1>c, <1>3, <2>2, <3>1, GotoFields, Stages DEF SendsDone, RunsDown
  <2>3. CASE job[j].event = "complete"
    <3>1. Goto(j, "unregister")
      BY <1>3, <2>3 DEF SendsDone
    <3>q. QED
      BY <1>a, <1>b, <1>c, <1>3, <2>3, <3>1, GotoFields, Stages DEF SendsDone, RunsDown
  <2>q. QED
    BY <1>a, <1>3, <2>1, <2>2, <2>3 DEF SendsDone, JobSound
<1>4. CASE AppendOutput(j)
  <2>1. [job[j] EXCEPT !.output = @ + 1] \in JobRecord /\ [job[j] EXCEPT !.output = @ + 1].output = job[j].output + 1
    BY <1>a, <1>4, BuildServiceAssumption DEF AppendOutput, JobRecord
  <2>2. job'[j].pc = "sending" /\ job'[j].event = "log" /\ job'[j].output = job[j].output + 1
    BY <1>a, <1>4, <2>1, AnnounceFields DEF AppendOutput
  <2>q. QED
    BY <1>a, <1>b, <1>c, <1>4, <2>2, Stages DEF AppendOutput, RunsDown
<1>5. CASE BuildReturns(j)
  <2>1. job'[j].pc = "save" \/ (job'[j].pc = "sending" /\ job'[j].event = "status")
    <3>1. [job[j] EXCEPT !.status = "smoke_checking"] \in JobRecord
      BY <1>a DEF JobRecord, Status
    <3>q. QED
      BY <1>a, <1>5, <3>1, AnnounceFields, FinishFields DEF BuildReturns
  <2>q. QED
    BY <1>a, <1>b, <1>c, <1>5, <2>1, Stages DEF BuildReturns, RunsDown
<1>6. CASE SmokeCreate(j) \/ SmokeRemove(j)
  <2>1. job'[j].pc = "save" \/ (job[j].pc = "smoke" /\ job'[j].pc = "smokeRun")
    BY <1>a, <1>6, FinishFields, GotoFields DEF SmokeCreate, SmokeRemove
  <2>q. QED
    BY <1>a, <1>b, <1>c, <1>6, <2>1, Stages DEF SmokeCreate, SmokeRemove, RunsDown
<1>7. ASSUME NEW r \in Reader, Send(j, r) \/ SendBlocked(j, r) PROVE RunsDown(j)
  <2>1. r \in pending[j] /\ IsFiniteSet(pending[j]) /\ job[j].pc = "sending"
    BY <1>7 DEF Send, SendBlocked, ListsFinite
  <2>2. CASE Die("panicked")
    <3>1. job'[j].pc = "done"
      BY <2>1, <2>2 DEF Die, NewJob
    <3>q. QED
      BY <1>a, <1>b, <1>c, <2>1, <3>1, Stages DEF RunsDown, JobSound
  <2>3. ASSUME NEW buffer, Sent(j, r, buffer) PROVE RunsDown(j)
    <3>1. job' = job /\ pending'[j] = pending[j] \ {r} /\ blocked' = blocked \ {r}
      BY <1>a, <2>3 DEF Sent
    <3>2. Sends(j)' < Sends(j)
      BY <2>1, <3>1, SendsShrink DEF Sends
    <3>q. QED
      BY <1>b, <3>1, <3>2 DEF RunsDown
  <2>4. CASE pending[j] \cap blocked = {} /\ blocked' = blocked \cup {r} /\ UNCHANGED <<job, pending>>
    <3>1. Sends(j)' < Sends(j)
      BY <2>1, <2>4, SendsShrink DEF Sends
    <3>q. QED
      BY <1>b, <2>4, <3>1 DEF RunsDown
  <2>q. QED
    BY <1>7, <2>2, <2>3, <2>4 DEF Send, SendBlocked
<1>q. QED
  BY <1>1, <1>2, <1>3, <1>4, <1>5, <1>6, <1>7 DEF JobStep

\* Nobody else's step gives a build more to do: not a reader's that subscribes, reads
\* or leaves, and not another build's.
LEMMA OthersLeaveJobs ==
    ASSUME TypeOK, Sound, [Next]_vars, NEW j \in Job, InProgress(j), ~JobStep(j)
    PROVE  RunsDown(j) \/ StandsStill(j)
<1>a. /\ job[j] \in JobRecord /\ job \in [Job -> JobRecord] /\ JobSound(j)
      /\ pending \in [Job -> SUBSET Reader]
  BY DEF TypeOK, Sound, JobsSound
<1>b. Stage(job[j])' = Stage(job'[j])
  BY DEF Stage
<1>1. CASE job'[j] = job[j] /\ pending'[j] = pending[j] /\ pending'[j] \ blocked' = pending[j] \ blocked
  BY <1>b, <1>1 DEF StandsStill, Sends
<1>2. ASSUME NEW state, Die(state) PROVE RunsDown(j)
  <2>1. job'[j] = [NewJob EXCEPT !.pc = "done"]
    BY <1>2 DEF Die, InProgress
  <2>2. Stage(job'[j]) = 0
    BY <2>1, NewRecords, Stages DEF NewJob
  <2>3. Stage(job[j]) \in Nat /\ Stage(job[j]) # 0
    BY <1>a, Stages DEF InProgress, JobSound, JobRecord, JobPcs
  <2>q. QED
    BY <1>b, <2>2, <2>3 DEF RunsDown
<1>3. ASSUME NEW i \in Job \ {j}, JobStep(i) PROVE RunsDown(j) \/ StandsStill(j)
  <2>1. ASSUME NEW r \in Reader, Send(i, r) \/ SendBlocked(i, r) PROVE RunsDown(j) \/ StandsStill(j)
    <3>1. r \notin pending[j]
      BY <2>1 DEF Send, SendBlocked, Sound, StreamsSound, ReaderSound
    <3>2. CASE Die("panicked")
      BY <1>2, <3>2
    <3>3. CASE ~Die("panicked")
      BY <1>a, <1>1, <2>1, <3>1, <3>3 DEF Send, SendBlocked, Sent
    <3>q. QED
      BY <3>2, <3>3
  <2>2. CASE ~\E r \in Reader : Send(i, r) \/ SendBlocked(i, r)
    <3>1. job'[j] = job[j] /\ pending'[j] = pending[j] /\ blocked' = blocked
      BY <1>a, <1>3, <2>2
         DEF JobStep, Reject, Register, Launch, AbortStart, Unlock, AppendOutput, BuildReturns,
             SmokeCreate, SmokeRun, SmokeRemove, Save, SendsDone, Unregister, Announce, Finish, Goto, streams
    <3>q. QED
      BY <1>1, <3>1
  <2>q. QED
    BY <2>1, <2>2
<1>4. ASSUME NEW i \in Job, NEW e \in Environment, Prepare(i, e) PROVE RunsDown(j) \/ StandsStill(j)
  <2>1. i # j /\ job'[j] = job[j] /\ UNCHANGED <<pending, blocked>>
    BY <1>a, <1>4 DEF Prepare, InProgress, streams
  <2>q. QED
    BY <1>1, <2>1
<1>5. CASE \/ \E r \in Reader, i \in Job : Lookup(r, i)
           \/ \E r \in Reader : HandlerStep(r) \/ Heartbeat(r)
           \/ Terminate \/ Restart \/ UNCHANGED vars
  <2>1. UNCHANGED <<job, pending, blocked>>
    BY <1>5
       DEF Lookup, HandlerStep, ReadStored, Snapshot, Subscribe, Receive, EndStream, Cancel,
           CloseChannel, Heartbeat, Terminate, Restart, vars, memory
  <2>q. QED
    BY <1>1, <2>1
<1>q. QED
  BY <1>2, <1>3, <1>4, <1>5 DEF Next, HubStep, Exit, Crash

\* A build that is under way can always take its next step, whether or not anybody
\* reads what it sends; each step leaves it less to do, and nothing that happens in
\* between gives it more: so it ends after finitely many steps of its own, and with
\* it the lock of its environment.
THEOREM BuildsRunDown == Spec => [](\A j \in Job : InProgress(j) => JobCanGo(j)) /\ JobsRunDown
<1>1. TypeOK => \A j \in Job : InProgress(j) => JobCanGo(j)
  BY DEF TypeOK, JobRecord, JobPcs, InProgress, JobCanGo
<1>2. BuildInvariant /\ ListsFinite /\ [Next]_vars =>
        [\A j \in Job : /\ JobStep(j) => RunsDown(j)
                        /\ InProgress(j) => RunsDown(j) \/ StandsStill(j)]_vars
  BY JobStepRunsDown, OthersLeaveJobs, InvariantParts
<1>q. QED
  BY <1>1, <1>2, TypeCorrect, BuildInvariantHolds, ListsStayFinite, PTL DEF Spec, JobsRunDown

-----------------------------------------------------------------------------
(***************************************************************************)
(* The end of a build reaches whoever streams it.                          *)
(***************************************************************************)

\* The end of the job is still to come; by Finish, that is: a start that fails has
\* none.
StillBuilds(j) ==
    \/ job[j].pc \in {"registered", "building", "smoke", "smokeRun", "smokePassed", "smokeFailed"}
    \/ job[j].pc = "sending" /\ job[j].event # "complete"

\* When the build of a job whose ID was returned is over, nobody who streams it
\* waits for more without having been told: its channel is closed, or the copy it
\* was given already says how the build ended.
NobodyLeftUntold ==
    \A r \in Reader :
        reader[r].pc = "open" /\ reader[r].job \in issued /\ job[reader[r].job].pc = "done" =>
            r \in closed \/ reader[r].status \in Terminal

\* A reader that has found its job is about to join the map: the end is to come, or
\* the copy it is about to be given tells it.
FindsInTime(r) ==
    reader[r].pc = "found" /\ reader[r].job \in issued =>
        StillBuilds(reader[r].job) \/ job[reader[r].job].status \in Terminal

\* A reader that waits is on the list of those who are told the end, or will be.
WaitsForTheEnd(r) ==
    LET j == reader[r].job
    IN  reader[r].pc = "open" =>
            \/ r \in closed
            \/ r \in pending[j] /\ Announcing(j)
            \/ r \in subscribers[j] /\ (j \in issued => StillBuilds(j) \/ reader[r].status \in Terminal)

\* One that joined too late has its copy, and is sent nothing that could undo it.
JoinedLate(r) ==
    \A j \in Job : r \in subscribers[j] /\ reader[r].status \in Terminal =>
        channel[r] = <<>> /\ ~StillBuilds(j)

\* An end in a channel is the last thing sent to it.
EndsClose(r) == \A i \in DOMAIN channel[r] : channel[r][i].status \in Terminal => r \in closed

ReaderTold(r) == FindsInTime(r) /\ WaitsForTheEnd(r) /\ JoinedLate(r) /\ EndsClose(r)

\* A build ends in Finish only, and once.
LEMMA BuildEndsOnce ==
    ASSUME SInv, [Next]_vars, ~Die("down"), ~Die("panicked"), NEW i \in Job
    PROVE  /\ ~StillBuilds(i) /\ job[i].pc \notin {"unused", "prepared"} => ~StillBuilds(i)'
           /\ i \in issued' /\ (i \in issued => StillBuilds(i)) =>
                  StillBuilds(i)' \/ \E status \in Terminal : Finish(i, status)
           /\ job[i].status \in Terminal => job'[i].status \in Terminal
<1> DEFINE Goal == /\ ~StillBuilds(i) /\ job[i].pc \notin {"unused", "prepared"} => ~StillBuilds(i)'
                   /\ i \in issued' /\ (i \in issued => StillBuilds(i)) =>
                          StillBuilds(i)' \/ \E status \in Terminal : Finish(i, status)
                   /\ job[i].status \in Terminal => job'[i].status \in Terminal
<1>a. /\ job \in [Job -> JobRecord] /\ job[i] \in JobRecord /\ JobSound(i) /\ JobFollows(i)
      /\ pending \in [Job -> SUBSET Reader] /\ subscribers \in [Job -> SUBSET Reader]
  BY DEF SInv, StreamInvariant, Sound, JobsSound, TypeOK
<1>1. CASE job'[i] = job[i] /\ (i \in issued' <=> i \in issued)
  BY <1>1 DEF StillBuilds
<1>2. CASE JobStep(i)
  <2>1. CASE Reject(i) \/ Register(i)
    BY <1>a, <2>1 DEF Reject, Register, StillBuilds, JobFollows, JobSound, world, JobRecord, Terminal
  <2>2. CASE Launch(i)
    BY <1>a, <2>2, GotoFields DEF Launch, StillBuilds, JobSound, Terminal
  <2>3. CASE AbortStart(i)
    BY <1>a, <2>3, GotoFields DEF AbortStart, StillBuilds, JobFollows, JobSound, Terminal, world
  <2>4. CASE Unlock(i) \/ Unregister(i) \/ Save(i)
    <3>1. /\ job[i].pc \in {"abort", "unlock", "unregister", "save"} /\ issued' = issued
          /\ \E step \in {"done", "unlock", "sending"} : Goto(i, step) /\ (step = "sending" => job[i].pc = "save")
      BY <2>4 DEF Unlock, Unregister, Save, world
    <3>q. QED
      BY <1>a, <3>1, GotoFields DEF StillBuilds, JobSound
  <2>5. CASE AppendOutput(i)
    <3>1. [job[i] EXCEPT !.output = @ + 1] \in JobRecord
      BY <1>a, <2>5, BuildServiceAssumption DEF AppendOutput, JobRecord
    <3>q. QED
      BY <1>a, <2>5, <3>1, AnnounceFields DEF AppendOutput, StillBuilds, JobSound, Terminal
  <2>6. CASE BuildReturns(i)
    <3>1. CASE \E status \in Terminal : Finish(i, status)
      BY <1>a, <2>6, <3>1, FinishFields DEF BuildReturns, StillBuilds
    <3>2. CASE Announce(i, "status", [job[i] EXCEPT !.status = "smoke_checking"])
      <4>1. [job[i] EXCEPT !.status = "smoke_checking"] \in JobRecord
        BY <1>a DEF JobRecord, Status
      <4>q. QED
        BY <1>a, <2>6, <3>2, <4>1, AnnounceFields DEF BuildReturns, StillBuilds, JobSound, Terminal
    <3>q. QED
      BY <2>6, <3>1, <3>2 DEF BuildReturns, Terminal
  <2>7. CASE SmokeCreate(i)
    <3>1. issued' = issued /\ job[i].pc = "smoke" /\ (Goto(i, "smokeRun") \/ Finish(i, "failed"))
      BY <2>7 DEF SmokeCreate
    <3>q. QED
      BY <1>a, <3>1, GotoFields, FinishFields DEF StillBuilds, JobSound, Terminal
  <2>8. CASE SmokeRun(i)
    BY <1>a, <2>8, GotoFields DEF SmokeRun, StillBuilds, JobSound, Terminal, world
  <2>9. CASE SmokeRemove(i)
    <3>1. issued' = issued /\ \E status \in Terminal : Finish(i, status)
      BY <2>9 DEF SmokeRemove, Terminal
    <3>q. QED
      BY <1>a, <2>9, <3>1, FinishFields DEF SmokeRemove, StillBuilds
  <2>10. CASE SendsDone(i)
    <3>1. /\ job[i].pc = "sending" /\ issued' = issued
          /\ \E step \in {"building", "smoke", "unregister"} :
                Goto(i, step) /\ (step = "unregister" <=> job[i].event = "complete")
      BY <1>a, <2>10 DEF SendsDone, JobSound, world
    <3>q. QED
      BY <1>a, <3>1, GotoFields DEF StillBuilds
  <2>11. CASE \E r \in Reader : Send(i, r) \/ SendBlocked(i, r)
    BY <1>1, <2>11 DEF Send, SendBlocked, Sent, world
  <2>q. QED
    BY <1>2, <2>1, <2>2, <2>3, <2>4, <2>5, <2>6, <2>7, <2>8, <2>9, <2>10, <2>11 DEF JobStep
<1>3. ASSUME NEW j \in Job \ {i}, JobStep(j) PROVE Goal
  <2>1. job'[i] = job[i] /\ (i \in issued' <=> i \in issued)
    BY <1>a, <1>3
       DEF JobStep, Reject, Register, Launch, AbortStart, Unlock, AppendOutput, BuildReturns,
           SmokeCreate, SmokeRun, SmokeRemove, Save, SendsDone, Unregister, Send, SendBlocked,
           Sent, Announce, Finish, Goto, world
  <2>q. QED
    BY <1>1, <2>1
<1>4. ASSUME NEW j \in Job, NEW e \in Environment, Prepare(j, e) PROVE Goal
  <2>1. CASE i = j
    BY <1>a, <1>4, <2>1 DEF Prepare, JobFollows, JobSound, StillBuilds, world, Terminal
  <2>2. CASE i # j
    <3>1. job'[i] = job[i] /\ UNCHANGED world
      BY <1>a, <1>4, <2>2 DEF Prepare
    <3>q. QED
      BY <1>1, <3>1 DEF world
  <2>q. QED
    BY <2>1, <2>2
<1>5. CASE \/ \E r \in Reader, j \in Job : Lookup(r, j)
           \/ \E r \in Reader : HandlerStep(r) \/ Heartbeat(r)
           \/ Terminate \/ Restart \/ UNCHANGED vars
  <2>1. UNCHANGED <<job, issued>>
    BY <1>5
       DEF Lookup, HandlerStep, ReadStored, Snapshot, Subscribe, Receive, EndStream, Cancel,
           CloseChannel, Heartbeat, Terminate, Restart, vars, memory, world
  <2>q. QED
    BY <1>1, <2>1
<1>q. QED
  BY <1>2, <1>3, <1>4, <1>5 DEF Next, HubStep, Exit, Crash

\* A reader leaves the map by its own cancel or when the job ends, a sender's list
\* when the end has closed its channel, and a closed channel with the next request.
LEMMA ListsMove ==
    ASSUME SInv, [Next]_vars, ~Die("down"), ~Die("panicked"), NEW q \in Reader, NEW i \in Job
    PROVE  /\ q \in subscribers[i] =>
                  \/ q \in subscribers'[i]
                  \/ Cancel(q)
                  \/ q \in pending'[i] /\ Announcing(i)' /\ reader' = reader
           /\ q \in subscribers'[i] => q \in subscribers[i] \/ (Subscribe(q) /\ i = reader[q].job)
           /\ q \in pending[i] /\ Announcing(i) => (q \in pending'[i] /\ Announcing(i)') \/ q \in closed'
           /\ q \in closed => q \in closed' \/ \E j \in Job : Lookup(q, j)
<1> DEFINE Goal ==
           /\ q \in subscribers[i] =>
                  \/ q \in subscribers'[i]
                  \/ Cancel(q)
                  \/ q \in pending'[i] /\ Announcing(i)' /\ reader' = reader
           /\ q \in subscribers'[i] => q \in subscribers[i] \/ (Subscribe(q) /\ i = reader[q].job)
           /\ q \in pending[i] /\ Announcing(i) => (q \in pending'[i] /\ Announcing(i)') \/ q \in closed'
           /\ q \in closed => q \in closed' \/ \E j \in Job : Lookup(q, j)
<1>a. /\ job \in [Job -> JobRecord] /\ job[i] \in JobRecord
      /\ pending \in [Job -> SUBSET Reader] /\ subscribers \in [Job -> SUBSET Reader]
      /\ reader \in [Reader -> ReaderRecord]
  BY DEF SInv, TypeOK
<1>1. CASE job'[i] = job[i] /\ pending'[i] = pending[i] /\ subscribers'[i] = subscribers[i] /\ closed \subseteq closed'
  BY <1>1 DEF Announcing
<1>2. ASSUME NEW j \in Job, JobStep(j) PROVE Goal
  <2>1. CASE \E r \in Reader : Send(j, r) \/ SendBlocked(j, r)
    <3>1. PICK r \in Reader : Send(j, r) \/ SendBlocked(j, r)
      BY <2>1
    <3>2. CASE UNCHANGED <<job, pending, subscribers, closed>>
      BY <1>1, <3>2
    <3>3. ASSUME NEW buffer, Sent(j, r, buffer) PROVE Goal
      <4>1. job' = job /\ subscribers' = subscribers /\ closed \subseteq closed'
        BY <3>3 DEF Sent
      <4>2. q \in pending[i] => q \in pending'[i] \/ (i = j /\ q = r)
        BY <1>a, <3>3 DEF Sent
      <4>3. Announcing(j) => r \in closed'
        BY <3>3 DEF Sent, Announcing
      <4>q. QED
        BY <4>1, <4>2, <4>3 DEF Announcing
    <3>q. QED
      BY <3>1, <3>2, <3>3 DEF Send, SendBlocked
  <2>2. CASE i # j /\ ~\E r \in Reader : Send(j, r) \/ SendBlocked(j, r)
    <3>1. job'[i] = job[i] /\ pending'[i] = pending[i] /\ subscribers'[i] = subscribers[i] /\ closed' = closed
      BY <1>a, <1>2, <2>2
         DEF JobStep, Reject, Register, Launch, AbortStart, Unlock, AppendOutput, BuildReturns,
             SmokeCreate, SmokeRun, SmokeRemove, Save, SendsDone, Unregister, Announce, Finish, Goto, streams
    <3>q. QED
      BY <1>1, <3>1
  <2>3. CASE i = j /\ ~\E r \in Reader : Send(j, r) \/ SendBlocked(j, r)
    <3>1. CASE job[i].pc \notin {"save", "sending"} /\ \E status \in Terminal : Finish(i, status)
      BY <1>a, <3>1, FinishFields DEF Finish, Announcing
    <3>2. CASE job[i].pc = "building" /\ UNCHANGED <<subscribers, closed>>
      BY <3>2 DEF Announcing
    <3>3. CASE /\ UNCHANGED <<pending, subscribers, closed>>
               /\ q \in pending[i] /\ Announcing(i) => Announcing(i)'
      BY <3>3
    <3>4. CASE Save(i)
      BY <1>a, <3>3, <3>4, GotoFields DEF Save, Announcing, streams
    <3>5. CASE SendsDone(i)
      BY <3>3, <3>5 DEF SendsDone, Announcing, streams
    <3>6. CASE AppendOutput(i)
      BY <3>2, <3>6 DEF AppendOutput, Announce
    <3>7. CASE BuildReturns(i)
      BY <3>1, <3>2, <3>7 DEF BuildReturns, Announce, Terminal
    <3>8. CASE SmokeCreate(i)
      BY <3>1, <3>3, <3>8 DEF SmokeCreate, Announcing, streams, Terminal
    <3>9. CASE SmokeRemove(i)
      BY <3>1, <3>9 DEF SmokeRemove, Terminal
    <3>10. CASE Reject(i) \/ Register(i) \/ Launch(i) \/ AbortStart(i) \/ Unlock(i) \/ SmokeRun(i) \/ Unregister(i)
      BY <3>3, <3>10 DEF Reject, Register, Launch, AbortStart, Unlock, SmokeRun, Unregister, Announcing, streams
    <3>q. QED
      BY <1>2, <2>3, <3>1, <3>4, <3>5, <3>6, <3>7, <3>8, <3>9, <3>10 DEF JobStep
  <2>q. QED
    BY <2>1, <2>2, <2>3
<1>3. ASSUME NEW j \in Job, NEW e \in Environment, Prepare(j, e) PROVE Goal
  <2>1. UNCHANGED <<subscribers, pending, closed>> /\ (Announcing(i) => i # j)
    BY <1>3 DEF Prepare, Announcing, streams
  <2>2. i # j => job'[i] = job[i]
    BY <1>a, <1>3 DEF Prepare
  <2>q. QED
    BY <2>1, <2>2 DEF Announcing
<1>4. ASSUME NEW r \in Reader, HandlerStep(r) \/ Heartbeat(r) PROVE Goal
  <2>1. job' = job /\ pending' = pending /\ closed \subseteq closed'
    BY <1>4
       DEF HandlerStep, ReadStored, Snapshot, Subscribe, Receive, EndStream, Cancel, CloseChannel, Heartbeat,
           vars, memory
  <2>2. /\ q \in subscribers[i] => q \in subscribers'[i] \/ Cancel(q)
        /\ q \in subscribers'[i] => q \in subscribers[i] \/ (Subscribe(q) /\ i = reader[q].job)
    <3>1. CASE Subscribe(r)
      BY <1>a, <3>1 DEF Subscribe
    <3>2. CASE Cancel(r)
      BY <1>a, <3>2 DEF Cancel
    <3>3. CASE subscribers' = subscribers
      BY <3>3
    <3>q. QED
      BY <1>4, <3>1, <3>2, <3>3
         DEF HandlerStep, ReadStored, Snapshot, Receive, EndStream, CloseChannel, Heartbeat, vars, memory
  <2>q. QED
    BY <2>1, <2>2 DEF Announcing
<1>5. ASSUME NEW r \in Reader, NEW j \in Job, Lookup(r, j) PROVE Goal
  BY <1>5 DEF Lookup, Announcing
<1>6. CASE Terminate \/ Restart \/ UNCHANGED vars
  BY <1>1, <1>6 DEF Terminate, Restart, vars, memory
<1>q. QED
  BY <1>2, <1>3, <1>4, <1>5, <1>6 DEF Next, HubStep, Exit, Crash

\* A reader's step of its own keeps it told: what it receives is no end unless its
\* channel is closed, and what it is given when it joins is the job as it stands.
LEMMA HandlerKeepsTold ==
    ASSUME SInv, [Next]_vars, NEW q \in Reader, ReaderTold(q), HandlerStep(q)
    PROVE  ReaderTold(q)'
<1>a. /\ reader \in [Reader -> ReaderRecord] /\ reader[q] \in ReaderRecord
      /\ channel \in [Reader -> Seq(Event)] /\ channel[q] \in Seq(Event)
      /\ subscribers \in [Job -> SUBSET Reader] /\ closed \subseteq Reader
      /\ ReaderSound(q) /\ ReaderAsks(q) /\ (reader[q].pc = "found" => channel[q] = <<>>)
      /\ \A j \in Job : JobSound(j) /\ job[j] \in JobRecord
  BY DEF SInv, TypeOK, StreamInvariant, ReaderFollows, Sound, StreamsSound, JobsSound
<1>b. UNCHANGED <<job, pending, issued>>
  BY DEF HandlerStep, ReadStored, Snapshot, Subscribe, Receive, EndStream, Cancel, CloseChannel, world
<1> USE <1>b DEF ReaderTold, FindsInTime, WaitsForTheEnd, JoinedLate, EndsClose, StillBuilds, Announcing
<1>1. CASE Subscribe(q)
  <2>1. /\ reader[q].pc = "found" /\ reader[q].job \in Job /\ UNCHANGED <<channel, closed>>
        /\ reader'[q].pc = "open" /\ reader'[q].job = reader[q].job
        /\ reader'[q].status = job[reader[q].job].status
        /\ q \in subscribers'[reader[q].job] /\ channel[q] = <<>>
        /\ \A j \in Job : q \in subscribers'[j] => j = reader[q].job
    BY <1>a, <1>1 DEF Subscribe, ReaderRecord, ReaderSound
  <2>2. job[reader[q].job].status \in Terminal => ~StillBuilds(reader[q].job)
    BY <1>a, <2>1 DEF JobSound, Terminal
  <2>q. QED
    BY <2>1, <2>2
<1>2. CASE Receive(q)
  <2>1. /\ reader[q].pc = "open" /\ reader[q].job \in Job /\ UNCHANGED <<subscribers, closed>>
        /\ reader'[q].pc = "open" /\ reader'[q].job = reader[q].job
        /\ channel[q] # <<>> /\ channel'[q] = Tail(channel[q])
        /\ reader'[q].status \in {reader[q].status, Head(channel[q]).status}
    BY <1>a, <1>2 DEF Receive, ReaderRecord, ReaderAsks
  <2>2. Head(channel[q]) = channel[q][1] /\ 1 \in DOMAIN channel[q]
    BY <1>a, <2>1
  <2>3. \A i \in DOMAIN Tail(channel[q]) : i + 1 \in DOMAIN channel[q] /\ Tail(channel[q])[i] = channel[q][i + 1]
    BY <1>a, <2>1, HeadTailProperties
  <2>4. \A j \in Job : q \in subscribers[j] => reader'[q].status \notin Terminal /\ reader[q].status \notin Terminal
    BY <1>a, <2>1, <2>2 DEF ReaderSound
  <2>q. QED
    BY <2>1, <2>3, <2>4
<1>3. CASE HandlerStep(q) /\ ~Subscribe(q) /\ ~Receive(q)
  <2>1. /\ reader'[q].pc \in {"ended", "cancel", "closing"} /\ UNCHANGED channel /\ closed \subseteq closed'
        /\ reader[q].pc \notin {"found", "missed"} => reader'[q].status = reader[q].status
        /\ \A j \in Job : q \in subscribers'[j] => q \in subscribers[j]
    <3>1. CASE ReadStored(q) \/ Snapshot(q) \/ EndStream(q) \/ CloseChannel(q)
      BY <1>a, <3>1 DEF ReadStored, Snapshot, EndStream, CloseChannel, ReaderRecord
    <3>2. CASE Cancel(q)
      BY <1>a, <3>2 DEF Cancel, ReaderRecord
    <3>q. QED
      BY <1>3, <3>1, <3>2 DEF HandlerStep
  <2>2. reader[q].pc \in {"found", "missed"} => \A j \in Job : q \notin subscribers[j]
    BY <1>a DEF ReaderSound
  <2>q. QED
    BY <1>a, <2>1, <2>2
<1>q. QED
  BY <1>1, <1>2, <1>3

\* So does the end of the build, and every other step of somebody else.
LEMMA ToldStep ==
    ASSUME SInv, [Next]_vars, NEW q \in Reader, ReaderTold(q)
    PROVE  ReaderTold(q)'
<1>a. /\ reader \in [Reader -> ReaderRecord] /\ reader[q] \in ReaderRecord
      /\ channel \in [Reader -> Seq(Event)] /\ channel[q] \in Seq(Event)
      /\ pending \in [Job -> SUBSET Reader] /\ closed \subseteq Reader
      /\ ReaderSound(q) /\ ReaderAsks(q) /\ (reader[q].pc = "found" => channel[q] = <<>>)
      /\ \A j \in Job : JobSound(j) /\ job[j] \in JobRecord /\ JobFollows(j)
  BY DEF SInv, TypeOK, StreamInvariant, ReaderFollows, Sound, StreamsSound, JobsSound
<1>1. ASSUME NEW state, Die(state) PROVE ReaderTold(q)'
  <2>1. /\ reader'[q].pc = "idle" /\ channel'[q] = <<>> /\ \A j \in Job : q \notin subscribers'[j]
    BY <1>1 DEF Die, NewReader
  <2>q. QED
    BY <2>1 DEF ReaderTold, FindsInTime, WaitsForTheEnd, JoinedLate, EndsClose
<1>2. CASE HandlerStep(q)
  BY <1>2, HandlerKeepsTold
<1>3. ASSUME NEW j \in Job, Lookup(q, j) PROVE ReaderTold(q)'
  <2>1. /\ reader'[q].pc \in {"found", "missed"} /\ reader'[q].job = j /\ channel'[q] = <<>>
        /\ reader'[q].pc = "found" => j \in activeJobs
        /\ UNCHANGED <<job, issued, subscribers>> /\ reader[q].pc \in {"idle", "ended"}
    BY <1>a, <1>3 DEF Lookup, NewReader, world
  <2>2. \A i \in Job : q \notin subscribers'[i]
    BY <1>a, <2>1 DEF ReaderSound
  <2>3. j \in activeJobs /\ j \in issued => StillBuilds(j) \/ job[j].status \in Terminal
    BY <1>a DEF JobSound, JobFollows, StillBuilds, ActivePcs, JobPcs, EndedPcs, JobRecord
  <2>q. QED
    BY <2>1, <2>2, <2>3 DEF ReaderTold, FindsInTime, WaitsForTheEnd, JoinedLate, EndsClose, StillBuilds
<1>4. CASE /\ ~Die("down") /\ ~Die("panicked") /\ ~HandlerStep(q)
           /\ ~\E j \in Job : Lookup(q, j)
  <2> PICK j : j = reader[q].job
    OBVIOUS
  <2>a. ~Cancel(q) /\ ~Subscribe(q)
    BY <1>4 DEF HandlerStep
  <2>1. /\ reader'[q] = reader[q]
        /\ \/ channel'[q] = channel[q]
           \/ \E i \in Job : /\ job[i].pc = "sending" /\ q \in pending[i]
                             /\ Sent(i, q, Append(channel[q], Message(i)))
    BY <1>4, ReaderMoves DEF Sent
  <2>2. \A i \in Job : /\ ~StillBuilds(i) /\ job[i].pc \notin {"unused", "prepared"} => ~StillBuilds(i)'
                       /\ i \in issued' /\ (i \in issued => StillBuilds(i)) =>
                              StillBuilds(i)' \/ \E status \in Terminal : Finish(i, status)
                       /\ job[i].status \in Terminal => job'[i].status \in Terminal
    BY <1>4, BuildEndsOnce
  <2>3. ASSUME NEW i \in Job
        PROVE  /\ q \in subscribers[i] => q \in subscribers'[i] \/ (q \in pending'[i] /\ Announcing(i)')
               /\ q \in subscribers'[i] => q \in subscribers[i]
               /\ q \in pending[i] /\ Announcing(i) => (q \in pending'[i] /\ Announcing(i)') \/ q \in closed'
               /\ q \in closed => q \in closed'
    BY <1>4, <2>a, ListsMove
  <2>4. reader[q].pc # "idle" => j \in Job
    BY <1>a DEF ReaderAsks
  <2>5. FindsInTime(q)'
    <3> SUFFICES ASSUME reader[q].pc = "found", j \in issued'
                 PROVE  StillBuilds(j)' \/ job'[j].status \in Terminal
      BY <2>1, <2>4 DEF FindsInTime, StillBuilds
    <3>1. j \in Job /\ (j \in issued => StillBuilds(j) \/ job[j].status \in Terminal)
      BY <2>4 DEF ReaderTold, FindsInTime
    <3>2. \A status \in Terminal : Finish(j, status) => job'[j].status \in Terminal
      BY <1>a, <3>1, FinishFields DEF SInv, TypeOK
    <3>q. QED
      BY <2>2, <3>1, <3>2
  <2>6. WaitsForTheEnd(q)'
    <3> SUFFICES ASSUME reader[q].pc = "open"
                 PROVE  \/ q \in closed'
                        \/ q \in pending'[j] /\ Announcing(j)'
                        \/ /\ q \in subscribers'[j]
                           /\ j \in issued' => StillBuilds(j)' \/ reader[q].status \in Terminal
      BY <2>1, <2>4 DEF WaitsForTheEnd, StillBuilds, Announcing
    <3>1. j \in Job
      BY <2>4
    <3>2. CASE q \in closed \/ (q \in pending[j] /\ Announcing(j))
      BY <2>3, <3>1, <3>2
    <3>3. CASE q \in subscribers[j] /\ (j \in issued => StillBuilds(j) \/ reader[q].status \in Terminal)
      <4>1. \A status \in Terminal : Finish(j, status) => q \in pending'[j] /\ Announcing(j)'
        BY <1>a, <3>1, <3>3, FinishFields DEF SInv, TypeOK, Announcing
      <4>q. QED
        BY <2>2, <2>3, <3>1, <3>3, <4>1
    <3>q. QED
      BY <3>2, <3>3 DEF ReaderTold, WaitsForTheEnd
  <2>7. JoinedLate(q)'
    <3> SUFFICES ASSUME NEW i \in Job, q \in subscribers'[i], reader[q].status \in Terminal
                 PROVE  channel'[q] = <<>> /\ ~StillBuilds(i)'
      BY <2>1 DEF JoinedLate, StillBuilds
    <3>1. /\ q \in subscribers[i] /\ channel[q] = <<>> /\ ~StillBuilds(i)
          /\ reader[q].job = i /\ job[i].pc \notin {"unused", "prepared"}
      BY <1>a, <2>3 DEF ReaderTold, JoinedLate, ReaderSound, ReaderAsks
    <3>2. \A k \in Job : q \in pending[k] /\ job[k].pc = "sending" => FALSE
      BY <1>a, <3>1 DEF ReaderSound, StillBuilds, Announcing
    <3>q. QED
      BY <2>1, <2>2, <3>1, <3>2
  <2>8. EndsClose(q)'
    <3>1. channel[q] # <<>> /\ q \in closed => q \in closed'
      BY <1>a, <2>3, <2>4 DEF SInv, StreamInvariant, ReaderFollows
    <3>2. CASE channel'[q] = channel[q]
      BY <1>a, <3>1, <3>2 DEF ReaderTold, EndsClose
    <3>3. ASSUME NEW i \in Job, job[i].pc = "sending", q \in pending[i],
                 Sent(i, q, Append(channel[q], Message(i)))
          PROVE  EndsClose(q)'
      <4>1. job[i].status \in Terminal => q \in closed'
        BY <1>a, <3>3 DEF Sent, JobSound, Terminal
      <4>2. Message(i) \in Event /\ Message(i).status = job[i].status
        BY <3>3, MessageType DEF SInv, Message
      <4>3. channel'[q] = Append(channel[q], Message(i)) /\ closed \subseteq closed'
        BY <1>a, <3>3 DEF Sent
      <4>4. \A k \in DOMAIN channel'[q] :
               (k \in DOMAIN channel[q] /\ channel'[q][k] = channel[q][k]) \/ channel'[q][k] = Message(i)
        BY <1>a, <4>2, <4>3, AppendProperties
      <4>q. QED
        BY <4>1, <4>2, <4>3, <4>4 DEF ReaderTold, EndsClose
    <3>q. QED
      BY <2>1, <3>2, <3>3
  <2>q. QED
    BY <2>5, <2>6, <2>7, <2>8 DEF ReaderTold
<1>q. QED
  BY <1>1, <1>2, <1>3, <1>4

\* When a build whose ID was returned is over, whoever streams it has been told, or
\* finds its channel closed: nobody misses the end between Finish, which empties the
\* map of subscribers, and a subscription that comes a moment before or after it.
THEOREM NobodyLeftUntoldHolds == Spec => []NobodyLeftUntold
<1>1. Init => \A r \in Reader : ReaderTold(r)
  BY DEF Init, NewReader, ReaderTold, FindsInTime, WaitsForTheEnd, JoinedLate, EndsClose
<1>2. SInv /\ [Next]_vars /\ (\A r \in Reader : ReaderTold(r)) => (\A r \in Reader : ReaderTold(r))'
  BY ToldStep
<1>3. (\A r \in Reader : ReaderTold(r)) => NobodyLeftUntold
  BY DEF ReaderTold, WaitsForTheEnd, NobodyLeftUntold, StillBuilds, Announcing
<1>4. BuildInvariant /\ StreamInvariant => SInv
  BY InvariantParts DEF SInv
<1>q. QED
  BY <1>1, <1>2, <1>3, <1>4, BuildInvariantHolds, StreamInvariantHolds, PTL DEF Spec
=============================================================================
