---------------------------- MODULE CommandStream ----------------------------
(***************************************************************************)
(* runStreamingCommandWithEnv of internal/runtime/cli.go, through which    *)
(* the output of `docker build` reaches the build's log: one goroutine     *)
(* per pipe reads, a channel takes what they read to the caller, and a     *)
(* third goroutine closes the channel when both are done.  The caller      *)
(* keeps each stream for the result and copies both to a sink.             *)
(*                                                                         *)
(* The command may be killed, because its context is cancelled or because  *)
(* a pipe cannot be read; children that it leaves behind have the pipes    *)
(* open, and go on writing.  One command follows another.                  *)
(***************************************************************************)
EXTENDS Naturals, Sequences, Selections

CONSTANTS
    MaxChunks,      \* bound of what is written to each pipe
    PipeCapacity,   \* chunks a pipe takes before its writer blocks
    ChunkCapacity   \* chunks the channel takes before a reader blocks; 32 in the code

ASSUME CommandStreamAssumption ==
    MaxChunks \in Nat /\ PipeCapacity \in Nat \ {0} /\ ChunkCapacity \in Nat \ {0}

VARIABLES
    process,     \* the command: "idle" before it starts, "running", "exited" or "killed"
    heir,        \* does a child of the command have the pipes open?
    written,     \* of each stream, how many chunks were written to its pipe
    read,        \* and how many were read from it: the pipe holds the rest
    reader,      \* where the goroutine of each stream is
    chunks,      \* the channel
    closed,      \* is it?
    output,      \* what the caller has of each stream
    sink,        \* what the caller has copied
    caller       \* "idle", "ranging" over the channel, or "returned"

streamVars == <<process, heir, written, read, reader, chunks, closed, output, sink, caller>>

Stream == {"stdout", "stderr"}

\* A chunk is known by its place in its stream; place 0 is a reader's error.
Chunk == [stream : Stream, place : 0..MaxChunks]
ErrorText == 0

StreamInit ==
    /\ process = "idle" /\ heir = FALSE /\ caller = "idle"
    /\ written = [s \in Stream |-> 0] /\ read = [s \in Stream |-> 0]
    /\ reader = [s \in Stream |-> "reading"]
    /\ chunks = <<>> /\ closed = FALSE
    /\ output = [s \in Stream |-> <<>>] /\ sink = <<>>

(***************************************************************************)
(* The command and its children.                                           *)
(***************************************************************************)

\* cmd.Start and the go statements: the one before has returned.
StartCommand ==
    /\ caller \in {"idle", "returned"} /\ ~heir
    /\ process' = "running" /\ heir' = FALSE /\ caller' = "ranging"
    /\ written' = [s \in Stream |-> 0] /\ read' = [s \in Stream |-> 0]
    /\ reader' = [s \in Stream |-> "reading"]
    /\ chunks' = <<>> /\ closed' = FALSE
    /\ output' = [s \in Stream |-> <<>>] /\ sink' = <<>>

PipesOpen == process = "running" \/ heir

Full(s) == written[s] - read[s] >= PipeCapacity

Write(s) ==
    /\ PipesOpen /\ ~Full(s) /\ written[s] < MaxChunks
    /\ written' = [written EXCEPT ![s] = @ + 1]
    /\ UNCHANGED <<process, heir, read, reader, chunks, closed, output, sink, caller>>

Fork ==
    /\ process = "running" /\ ~heir
    /\ heir' = TRUE
    /\ UNCHANGED <<process, written, read, reader, chunks, closed, output, sink, caller>>

HeirEnds ==
    /\ heir
    /\ heir' = FALSE
    /\ UNCHANGED <<process, written, read, reader, chunks, closed, output, sink, caller>>

\* By itself, or because its context was cancelled: exec.CommandContext kills the
\* command and no one else.
CommandEnds(how) ==
    /\ process = "running"
    /\ process' = how
    /\ UNCHANGED <<heir, written, read, reader, chunks, closed, output, sink, caller>>

(***************************************************************************)
(* The readers.                                                            *)
(***************************************************************************)

\* Mutant: one pipe is read after the other.
ReadInTurn(s) ==
    /\ caller = "ranging" /\ reader[s] = "reading" /\ read[s] < written[s]
    /\ s = "stdout" \/ reader["stdout"] = "done"
    /\ read' = [read EXCEPT ![s] = @ + 1]
    /\ reader' = [reader EXCEPT ![s] = "sending"]
    /\ UNCHANGED <<process, heir, written, chunks, closed, output, sink, caller>>

Read(s) ==
    /\ caller = "ranging" /\ reader[s] = "reading" /\ read[s] < written[s]
    /\ read' = [read EXCEPT ![s] = @ + 1]
    /\ reader' = [reader EXCEPT ![s] = "sending"]
    /\ UNCHANGED <<process, heir, written, chunks, closed, output, sink, caller>>

\* Any error but the end of the pipe.
ReadFails(s) ==
    /\ caller = "ranging" /\ reader[s] = "reading"
    /\ reader' = [reader EXCEPT ![s] = "failing"]
    /\ UNCHANGED <<process, heir, written, read, chunks, closed, output, sink, caller>>

\* The pipe ends when it is empty and nobody has it open any more.
ReadEnd(s) ==
    /\ caller = "ranging" /\ reader[s] = "reading" /\ read[s] = written[s] /\ ~PipesOpen
    /\ reader' = [reader EXCEPT ![s] = "done"]
    /\ UNCHANGED <<process, heir, written, read, chunks, closed, output, sink, caller>>

\* A send blocks while the channel is full.
SendChunk(s) ==
    /\ reader[s] \in {"sending", "failing"} /\ Len(chunks) < ChunkCapacity
    /\ chunks' = Append(chunks, [stream |-> s, place |-> IF reader[s] = "sending" THEN read[s] ELSE ErrorText])
    /\ reader' = [reader EXCEPT ![s] = IF @ = "sending" THEN "reading" ELSE "done"]
    /\ UNCHANGED <<process, heir, written, read, closed, output, sink, caller>>

\* Mutant: whoever is done first closes the channel.
CloseChunksEarly ==
    /\ caller = "ranging" /\ ~closed /\ \E s \in Stream : reader[s] = "done"
    /\ closed' = TRUE
    /\ UNCHANGED <<process, heir, written, read, reader, chunks, output, sink, caller>>

\* readers.Wait, close(chunks)
CloseChunks ==
    /\ caller = "ranging" /\ ~closed /\ \A s \in Stream : reader[s] = "done"
    /\ closed' = TRUE
    /\ UNCHANGED <<process, heir, written, read, reader, chunks, output, sink, caller>>

(***************************************************************************)
(* The caller.                                                             *)
(***************************************************************************)

\* An error kills the command, and its text becomes part of stderr; the loop
\* goes on, so that the readers are never left with a full channel.
TakeChunk ==
    LET chunk == Head(chunks)
        failed == chunk.place = ErrorText
        target == IF failed THEN "stderr" ELSE chunk.stream
    IN  /\ caller = "ranging" /\ chunks # <<>>
        /\ chunks' = Tail(chunks)
        /\ output' = [output EXCEPT ![target] = Append(@, chunk.place)]
        /\ sink' = IF failed THEN sink ELSE Append(sink, chunk)
        /\ process' = IF failed /\ process = "running" THEN "killed" ELSE process
        /\ UNCHANGED <<heir, written, read, reader, closed, caller>>

\* The loop has drained a closed channel; cmd.Wait.
WaitReturns ==
    /\ caller = "ranging" /\ closed /\ chunks = <<>> /\ process # "running"
    /\ caller' = "returned"
    /\ UNCHANGED <<process, heir, written, read, reader, chunks, closed, output, sink>>

HubStep ==
    \/ \E s \in Stream : Read(s) \/ ReadEnd(s) \/ SendChunk(s)
    \/ CloseChunks \/ TakeChunk \/ WaitReturns

StreamNext ==
    \/ StartCommand
    \/ \E s \in Stream : Write(s) \/ ReadFails(s)
    \/ Fork \/ HeirEnds \/ \E how \in {"exited", "killed"} : CommandEnds(how)
    \/ HubStep

StreamSpec == StreamInit /\ [][StreamNext]_streamVars

(***************************************************************************)
(* Properties                                                              *)
(***************************************************************************)

\* Every variable has its type; pipes and channel keep to their capacity.
StreamTypeOK ==
    /\ process \in {"idle", "running", "exited", "killed"} /\ heir \in BOOLEAN /\ closed \in BOOLEAN
    /\ written \in [Stream -> 0..MaxChunks] /\ read \in [Stream -> 0..MaxChunks]
    /\ \A s \in Stream : read[s] <= written[s] /\ written[s] - read[s] <= PipeCapacity
    /\ reader \in [Stream -> {"reading", "sending", "failing", "done"}]
    /\ chunks \in Seq(Chunk) /\ Len(chunks) <= ChunkCapacity
    /\ output \in [Stream -> Seq(0..MaxChunks)] /\ sink \in Seq(Chunk)
    /\ caller \in {"idle", "ranging", "returned"}

\* The places of what was written, without that of an error.
ChunkPlace == (0..MaxChunks) \ {ErrorText}
OfStream(s, sequence) == Selected(sequence, [stream : {s}, place : ChunkPlace])
Places(sequence) == [i \in DOMAIN sequence |-> sequence[i].place]
Kept(s) == Selected(output[s], ChunkPlace)
Held(s) == IF reader[s] = "sending" THEN <<read[s]>> ELSE <<>>

\* What was read from a pipe is, in order and without loss or repetition, what the
\* caller has of that stream, then what the channel has, then what the reader holds.
NothingLost ==
    \A s \in Stream :
        Kept(s) \o Places(OfStream(s, chunks)) \o Held(s) = [i \in 1..read[s] |-> i]

\* When the caller returns, whichever way the command ended, nothing is under way
\* any more, and it has what was written, children included, unless a pipe could
\* not be read: which stderr then says.
ReturnsAll ==
    caller = "returned" =>
        /\ \A s \in Stream : reader[s] = "done"
        /\ (\A s \in Stream : Kept(s) = [i \in 1..written[s] |-> i]) \/ ErrorText \in {output["stderr"][i] : i \in DOMAIN output["stderr"]}

\* The log (the sink) is an interleaving of the two streams of the result.
OutputExact ==
    /\ NothingLost /\ ReturnsAll
    /\ \A s \in Stream : Places(OfStream(s, sink)) = Kept(s)

\* Nobody waits for ever: while the command runs, or a child of it, no pipe is full
\* that somebody will read but nobody does; and once they are gone the hub goes on
\* until the caller returns.  (Where a pipe could not be read, and the other is
\* still open, the hub does wait until whoever has it open ends.)
NobodyStuck ==
    caller = "ranging" =>
        \/ ENABLED HubStep
        \/ PipesOpen /\ \A s \in Stream : Full(s) => reader[s] = "done"
===============================================================================
