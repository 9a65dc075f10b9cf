# A verification of agent-container-hub

agent-container-hub is a Go service that gives agents *sessions* (a container, a
workspace directory and a database row) and lets an operator maintain and build
the *environments* those containers are created from. One process serves HTTP,
keeps rows in SQLite and environment definitions in files, and drives Docker or
Podman through its command line. This directory holds TLA+ models of its core,
the TLC runs that check them on small instances, and proofs, checked by TLAPS,
that the most important properties hold for instances of every size.

Source paths below are relative to the repository's root. Line numbers are in
`PROJECT.json` (`map`), one entry per definition.

## 1. The system

| Part | State it keeps | Operations | Where |
|---|---|---|---|
| Session service | `namedLock` (session IDs locked) in memory; through it rows, directories, containers | Create, Execute, Stop; Reconcile at start-up; Get, List, Query, ListExecutions (reads) | `internal/sandbox/session_service.go`, `session_helpers.go` |
| Build service | `namedLock` by environment, `activeJobs`, `activeJobsByEnv`; per job the `activeBuildJob` with its copy of the job and its subscribers' channels | StartBuildJob, the job's goroutine, GetBuildJob, LatestBuildJob, SubscribeBuildJob and its cancel, ReconcileExistingImages | `internal/sandbox/build_service.go` |
| Environment service, file store | `environment.yml` and `Dockerfile` of each environment | Upsert, Get, List, file reads and writes | `internal/sandbox/environment_service.go`, `internal/store/file_environment.go` |
| SQLite store | tables `sessions`, `session_executions`, `build_jobs` | save, get, list, paged queries | `internal/store/sqlite.go` |
| CLI provider | none (the engine's containers and images); per streamed command two pipes and a channel | Create, Start, Exec, Stop, Remove, Inspect, Build, images | `internal/runtime/cli.go` |
| Network policy | iptables rules in a container's network namespace | ApplyNetworkPolicy through a helper container | `internal/runtime/network_policy.go` |
| Session mounts | none | merging, masking and checking of mounts; the dual-root layout | `internal/sandbox/session_mounts.go` |
| Image availability | none | up to three inspections in front of Create | `internal/sandbox/image_availability.go` |
| HTTP server | one goroutine per request, a context cancelled when the client leaves | decode, call a service, encode; `handleBuildJobEvents` streams | `internal/httpserver/server.go` |
| Hub process | the lifecycle context | reconcile, listen, shut down at SIGTERM | `cmd/agent-container-hub/main.go` |
| Configuration | the settings in force | layering of defaults, `hub.yml`, environment and flags; checks | `internal/config/config.go` |
| Model, API types, mappers, error texts, browser UI, release tools | none of their own | - | see `components` in `PROJECT.json` |

**How they interact.** A request's goroutine calls one service method. The
services share nothing with each other but the stores and the engine. A session
handler holds the try-lock of its session ID from before its first read to its
return; a second request for the ID gets `ErrBusy` at once. A build job is
started by a request and goes on in a goroutine of its own, which takes over the
environment's try-lock. Readers of a job's events get a channel each. Reconcile
runs in `main` before the server listens, so it takes no locks.

**What is hard about it.** Every handler is a sequence of calls to an engine
outside the process, a database and a file system, each of which can fail, or
succeed and report a failure, and between any two of them another request may
run, the client may leave (which cancels the context the remaining calls use,
clean-up calls included), or the hub may die. Containers die, vanish, are
restarted and are replaced by hand. In the build service a goroutine sends to
channels that other goroutines close, looks things up in one critical section
and uses them in the next, and drops events for readers that are slow.
`hazards` in `PROJECT.json` lists 40 such places, each with its line and the
properties that watch it, or the reason why none does.

**What makes the parts correct.**

* Session service: handlers of one session exclude each other and always give the
  lock back; the row, the directory and the container of a session agree in
  every state another handler, or a restart, can see; nothing a session owns is
  deleted while it is active or retained; its snapshot is never rewritten; a
  stopped session does not run; a session with a network policy never runs
  without it; a failed Create leaves nothing; a restart repairs what a crash
  interrupted.
* Build service: one build per environment, which always ends, whatever its
  readers do; the maps agree; a job that was issued can always be found and is
  never changed once saved; a reader gets the output once, in order, and is
  told an end that is stored; every stream ends; no channel is closed twice.
* Image reconciliation: it records an image only if nothing else accounts for it,
  and a second pass adds nothing.
* Environment store: whoever sees what a save wrote to `environment.yml` sees the
  Dockerfile saved with it, or a later one; what could be read can be read from
  then on, and is in every list that is answered; success means saved. (The
  converse of the first, and that a bad directory does not hide the others, are
  not true of the code: a Dockerfile is in place before its `environment.yml`, and
  one directory that cannot be loaded fails the whole list.)
* Session lists: a list taken page by page has every session that was there all
  the while, once, unless rows ceased to match, or came between a count and its
  page. (Where they did, the code really skips sessions.)
* CLI provider: the output of a command is complete, in order within each of its
  two streams, and is read without anybody waiting for ever; an exec's answer is
  what became of the command, and not what became of the CLI.
* Network policy: once applied, exactly what the policy allows leaves the
  container, in both address families; on the way there the rules only tighten.
* Image availability: an image is called missing only if it was, at some moment of
  the call, or the engine could not say.
* Session mounts: the container shows at each place what the request was accepted
  for, whatever its paths were written like; masks hide what they cover.
* Configuration: the hub is open to others only with a token; paths do not depend
  on where it was started unless somebody wrote a relative one; each setting is
  the last word of its sources; every command has a deadline.

## 2. The modules

| Module | Models | Role |
|---|---|---|
| `SessionLifecycle` | - | abstract: a session is opened once, closed at most once, and its workspace stays while it must |
| `SessionService` | Create, Execute, Stop, Reconcile, with lock, table, directories, containers, clients, crashes, the outside world | detailed; instantiates `SessionLifecycle` |
| `SessionServiceProofs`, `SessionContainerProofs` | - | theorems about `SessionService` |
| `MCSessionService` | - | symmetry and fault sets for TLC |
| `BuildRecords` | - | abstract: what a caller sees of build jobs |
| `BuildService` | StartBuildJob, the job's goroutine, readers and event streams, shutdown, crash, restart | detailed; instantiates `BuildRecords` |
| `BuildServiceProofs`, `BuildStreamProofs` | - | theorems about `BuildService` |
| `MCBuildService` | - | a fault set for TLC |
| `ImageReconcile`, `MCImageReconcile` | ReconcileExistingImages over repeated start-ups | sequential component with time |
| `EnvironmentStore` | the two files of each environment, and the requests that write and read them | concurrent component without locks |
| `EnvironmentStoreProofs` | - | theorems about `EnvironmentStore` |
| `SessionListing` | lists of sessions taken page by page while sessions are created and stopped | concurrent reader of a changing table |
| `Timestamps` | the order of stored times | operators, for `ImageReconcile` and `SessionListing` |
| `CommandStream` | a command whose output is read while it runs | processes, pipes, goroutines and a channel |
| `ExecCommand` | Exec: a command in a container, under a deadline | one call against a changing container |
| `ImageAvailability` | the search for an image before Create | retries with contexts |
| `NetworkPolicy` | the rules of a policy, installed one by one, and what they let pass | script and kernel tables |
| `Selections` | what is left of a sequence when some elements are kept | an operator, for `CommandStream`, `NetworkPolicy` and `SessionMounts` |
| `SessionMounts` | the merging, checking and mounting of what a session sees | computed per request |
| `Configuration` | the layers of settings, and the deadline of a command | computed at start-up and per request |
| `EngineProofs` | - | theorems about `CommandStream`, `ExecCommand`, `ImageAvailability`, `NetworkPolicy`, `SessionMounts` |
| `CatalogueProofs` | - | theorems about `ImageReconcile`, `SessionListing`, `Configuration` |
| `MCCatalogue` | - | the components from `EnvironmentStore` on, and `ImageReconcile`, side by side |
| `CompositionProofs` | - | theorems about `MCCatalogue`: what each component keeps, it keeps beside the others |

### SessionService

One process per request goroutine (`Request`) and one for `main` (`Main`). `pc`
names the next call that leaves the process; `session` is the handler's local
`*model.Session`, so that a value read early and written late is in the model.
Each engine command, SQL statement and directory operation is one action, named
after its place in the handler: `CreateGet`, `CreateMkdir`, `CreateMounts`,
`CreateRuntime`, `CreateStart`, `CreatePolicy`, `CreateSave`, the clean-up
`AbortStop`, `AbortRemove`, `AbortRootfs`; `ExecGet`, `Exec`, `ExecLog`,
`ExecInspect`; `StopGet`, `StopRun`, `StopRemove`; `MarkStopped` and
`DeleteRootfs`, which Stop, Execute and Reconcile share; `Boot`,
`ReconcileList`, `ReconcileInspect`, `ReconcileSaveId`, `ReconcileDone`. The lock
is taken when a handler begins (`TryLock`) and given back by `Return`, the
deferred release of every return path.

The world is `row` (the table: status, container ID, does the session own a
rootfs, has it a network policy), `rootfs`, `executions` and `container` (the
engine's container of each name: ID, state, created for a policy, rules
installed). `Faults` says which failures may happen; a failing command either
did nothing or (`ambiguous`) did its work. `ClientGone` cancels a request's
context: later engine commands of that handler fail, later store and file
operations do not, exactly as the code passes `ctx`.

What is abstracted: mounts, labels, limits and variables of a session; a
validation that happens before the lock; the order in which Reconcile visits
sessions (any order stands for newest first). Containers are keyed by name, so
one that was *renamed* by hand is out of scope. The SIGTERM path of `main`
does not wait for handlers and is the same step as a crash.

### BuildService

One record per job holds its goroutine's position and the `activeBuildJob`
(status, number of output chunks). `Prepare` to `Launch` (or `AbortStart`) are
StartBuildJob; `AppendOutput`, `BuildReturns`, `SmokeCreate`, `SmokeRun`,
`SmokeRemove`, `Save`, `SendsDone`, `Unregister`, `Unlock` are the goroutine.
An event is sent to a copy of the list of channels (`pending`), one send per
step: `Send` is the first select of `sendBuildEvent`, `SendBlocked` the second
one with its timer, each as atomic as the code is. A reader runs `Lookup`, then
`ReadStored`, `Snapshot` or `Subscribe`, then `Receive`, `EndStream`, `Cancel`,
`CloseChannel`. `Terminate`, `Exit`, `Crash` and `Restart` are the process.

What is abstracted: of the output only how many chunks there are (the single
writer of `runDirectBuildJob` appends them in order); the build directory's
clean-up and the smoke check's workspace; `setBuildOutput` and `finish`, which
one goroutine calls in a row, are one step; a reader's heartbeat is a stutter.
`BuildEnvironment`, which only tests call, is StartBuildJob and a reader.

### ImageReconcile

One environment (they do not touch each other), its image reference, the host's
images with their creation dates, and the job table ordered as the SQL orders it
(`started_at`, then `id`, descending). Every start-up runs
`ReconcileEnvironmentImage`; between start-ups the reference is edited, also under
a running build (`BuildStart`, `BuildEnd`: the job keeps the reference and the date
it started with, and is lost if the hub goes down first), and images are built,
pulled, removed.

### EnvironmentStore

A *version* is one content of one file of one environment, numbered as it is
written; `current` says which version is in place, `renamedAt` which rename put it
there, so that "older" and "later" are an order of renames. A handler is at the
next file operation of its request: `Mkdir`, `WriteTemp` and `Rename` are
`WriteEnvironmentFile` once and `SaveEnvironment` twice (Dockerfile, then
`environment.yml`); `ReadMetadata`, `ReadDockerfile` and `NextOrView` are
`loadEnvironment` and what a view reads after it, behind `ReadDir` for a list;
`ReadFile` is one file. Nothing locks, so any two handlers interleave at each of
these. Every operation may fail (`Fail`, and the cut-off write in `WriteTemp`), and
the hub may die (`StoreCrash`). A client that leaves changes nothing here: the
store does not look at the context.

What is abstracted: the content of a file, except whether it is whole, and
whether the text given to `PutFile` is acceptable; a Dockerfile that an operator
wrote into `environment.yml` itself counts as part of that file; files below
`scripts/` and `curl/` and the Makefile, which no other file refers to; the time
of `environment.yml`, read with the Dockerfile; image, build and target details of
a view, which are one more read that may fail; hand edits in place.

### SessionListing

The rows as `QuerySessions` sees them (`status`, `createdAt`) and one list under
way. `Count` and `ReadPage` are the two statements of a page, which no transaction
holds together; whether another page follows is decided by the count of the same
page (`ListSessions`). Rows come and go as `SessionService` writes them: dated
(`CreateDates`) before they are saved (`CreateSaves`), so that a row may enter
behind rows that are newer, and stopped (`MarkStopped`) without being deleted.
`meanwhile` is a ghost: which rows have matched since the list began, and whether
any came or went. It appears in no guard.

What is abstracted: the session and environment name filters, which restrict the
rows further and do not change, so any `Session` set stands for them; the limits
`NormalizePagination` sets; that several lists run at once, for they do not affect
each other; dates are numbers, in the order of their texts (`Timestamps`). A client that pages by itself may stop
earlier or later than `ListSessions` does, or ask for the pages in another order:
the model has the one that asks for the next page until it has the total.

### Timestamps

`SortsAfter` is the order of two times by the text they are stored as: RFC3339Nano
drops the zeros at the end of a fraction, and the `Z` that ends the text sorts after
digits and the point. So a time that ends at a digit (`CutShort`) comes after every
later one that goes on from there: `05Z` after `05.9Z`, `05.1Z` after `05.12Z`. `Units`
are the second and its decimals, in ticks; each divides the next larger one, which is
all that the proof of `SortsStrictly` needs. `ORDER BY started_at` and `ORDER BY
created_at` are this order, and not that of time: within a second the newest job, or
session, may not be the first. Nothing in the repository says it must be, and what `ImageReconcile` and
`SessionListing` promise needs only that there is one strict order.

### CommandStream

`runStreamingCommandWithEnv`: the command and, after `Fork`, a child that inherited
its pipes (`heir`) write to two pipes that hold `PipeCapacity` chunks; two
goroutines `Read` a chunk and `SendChunk` it to the channel `chunks`; a third closes
the channel (`CloseChunks`); the caller ranges over it, keeps each chunk in the
result and hands it to the sink, then waits for the command. Every blocking
operation is a guard. The command may end by itself, be killed, or go on for ever;
reading may fail, which kills it. What is abstracted: a chunk is its place in its
stream, so that lost, doubled and reordered output can be told apart.

### ExecCommand

One call of `Exec` from the check of its command (`RefuseCommand`) to its answer (`execStep`):
`ResolveContainerReference` and `InspectContainer`, the CLI (`StartCLI`, `CLIExits`),
`Classify`, which looks at the deadline before the exit status, and the second look
at the container when the CLI failed. Around it the container is paused, stopped,
restarted or removed, the command ends, the deadline passes, the client leaves,
the engine fails. `troubles` is a ghost that appears in no guard.

### ImageAvailability

`inspectLocalImage` over `InspectImage`: `Asked`, `InspectFinds`, `InspectDenies`,
`InspectFails`, `ListImages` (the fallback for engines that deny an image they
have), `BackoffEnds`. An attempt whose request is already cancelled gets a context
of its own (`Detached`). `during` is a ghost.

### NetworkPolicy

`BuildIptablesScript` is the text of the script as a sequence of commands, and
`RunCommand` runs the first of them on `tables`: for each family whether OUTPUT jumps
to the hub's chain, and the rules in it. `Passes` reads the tables as the kernel does:
the first rule that matches decides. The script may fail anywhere (`ScriptFails`).
The tables are empty at first, as they are in the namespace of a container that Create
has just started; that the script may also find a chain of its own (`-N ... || true`,
then `-F`) is not modelled, and nothing calls it twice for one run of a container.
An entry is the set of destinations that it covers; an IPv4 address written in IPv6
notation goes to `iptables`, which does not read it. What is abstracted: ports and
protocols, which the code does not mention; connection states other than new and
established.

### SessionMounts

`CreateSession` takes a request with its environment's mounts, its own, its masks,
protocol, label and working directory, and computes what `Create` does: refuse, or
give the engine a list of mounts (`created`). A path is what stands between its
slashes, `.` and `..` included, and `Clean` does what `path.Clean` does to it.
`SeenAt` is the engine's side: the topmost mount over a place, for engines that
mount in the order of the arguments and for those that mount parents first.

`DualRootAcceptable` shows a difference between the documentation and the code that
no property is about: `README.md:299` asks a `dual-root-v2` *request* to bring its
`/workspace` and `/chat` mounts, while `validateDualRootLayout` looks at the merged
list, the environment's mounts and the hub's own workspace included.

### Configuration

`Load` chooses what the defaults, `hub.yml`, the environment and the command line
say and computes what is in force, as `LoadWithArgs` does; `Execute` is
`timeoutFor` and `Exec`'s own guard, in int64 arithmetic with a small range
(`MaxDuration`). One setting of each kind stands for those that are treated alike;
those of different kinds do not meet in the code, so that one kind varies at a time.
`Amounts` are the integers that a source may give for a number, and `PathNames` what
its paths are made of.
A `timeout_ms` whose product with a millisecond does not fit wraps: the deadline is
then the provider's default or an arbitrary one, but there always is one.

### MCCatalogue

`MCCatalogue` lets each of these components move while the others are in their
initial states (`moving` says which one). `EnvironmentStore` and `ImageReconcile`
share only the list of environments, which `ReconcileExistingImages` reads before a
request is served; the others share no state at all. So there are no joint
behaviours to explore. The calls to the engine are single steps with outcomes in
`SessionService` and `BuildService`; these modules show how the outcomes come
about.

## 3. What the runs show

All bounds are constants in the `.cfg` files.

| Run | Instance | Shows |
|---|---|---|
| `SessionHandlers` | 2 sessions, 2 requests, 2 container IDs, every failure of engine, store, disk, client, hub; containers die and vanish | types, the inductive invariants, `RowKeepsRootfs`, `ActiveIsPoliced`, `SnapshotImmutable`, `ExecutionLogClosed` |
| `SessionOutside` | 1 session, 2 requests, 4 container IDs, all of these and containers replaced by hand; directories deleted at stop | the handlers implement `SessionLifecycle` (`ImplementsLifecycle`); locks are released (`LocksReleased`); `NamedContainerDown` |
| `SessionCommandFailures` | 1 session, 2 requests, engine commands fail and containers vanish | `PolicyNeverDegrades`, `FailedCreateLeavesNothing`, `StoppedRootfsDeleted` |
| `SessionCrashRecovery` | 2 sessions, 2 requests, crashes, clean-up failures, containers started again by hand | `ServedSessionsRun`, `ReconcileCloses` |
| `SessionPolicyEscape` | 1 session, 1 request, the client leaves | `PolicyNeverDegrades` is **violated** |
| `BuildHandlers` | 1 environment, 2 jobs, 1 reader, channels of 1 event, 1 chunk, every failure | the inductive invariant `BuildInvariant`, `ImplementsRecords`, `BuildsEnd` |
| `BuildStreams` | 1 job, 2 readers that read, channels of 4, 2 chunks; builds and directories fail, the hub is terminated or killed at any step | `IssuedKept`, `ToldEndStands`, `StreamExact`, `SmokeRemoved`, `InTimeStreamsEnd` |
| `BuildPanic` | 1 job, 1 reader that leaves | `NeverPanics` is **violated** |
| `BuildSlowReader` | 1 job, 1 reader, channel of 1 | `ClosedAfterComplete` is **violated** |
| `BuildLateReader` | 1 job, 1 reader, no failure | `StreamsEnd` is **violated** |
| `Catalogue` | 2 environments, 2 requests, 3 versions; 2 references, 3 jobs, 3 instants; 3 sessions, pages of 1 or 2, 4 instants of a second; 2 chunks on each of 2 pipes that hold 1, a channel of 1; policies of 3 entries, 1 address and the loopback in each family; 3 attempts; 3 paths out of 6; all sources of all kinds of settings | types (`CatalogueTypeOK`); `StoreInvariant`, `MetadataFollowsDockerfile`, `ReadersFind`, `AnsweredIsSaved`, `StaysLoadable`; `DiscoveredOnlyUnknown`; `ListComplete`, `ListedOnce`; `OutputExact`, `NobodyStuck`; `ExecAnswersAreTrue`; `AnswersAreTrue`; `PolicyEnforced`, `OnlyTightens`; `MountsSound`; `ConfigurationSound` |
| `ImageDuplicates` | 2 references, 3 jobs, 4 instants | `NoDuplicates` is **violated** |

Properties that a checked one contains are not checked a second time: `LockDiscipline`
is a conjunct of `ServiceInvariant`, the types of `BuildService`, `BuildLocks`,
`ActiveMapsAgree` and `ClosedOnce` are conjuncts of `BuildInvariant`, and
`RecordsFinal` follows from `ImplementsRecords`. All of them are theorems.

**Why the bounds are enough to be interesting.** Two requests are the fewest
that can contend for a lock, and with two sessions a handler can be disturbed by
one that works elsewhere. Two container IDs let both sessions have one; with
replacement four let a session's row, the container under its name, a handler's
local copy and the replacement all differ (in `SessionOutside`
there is one session: sessions share nothing but the engine's supply of IDs, and the
theorems cover any number). One chunk and a channel of one event
fill the channel before the status event is sent; with two chunks and room for
four events (log, log, status, complete) nothing is dropped, and `StreamExact` is
then an equality. Two jobs of one environment are what can go wrong between
builds of it; builds of different environments share only the two maps, and the
theorems cover any number. Three job IDs are the fewest with which
an old image can hide behind a job of another reference. Two readers let one be
told of a build before its end, or before its save, and the other after it. Three versions let a
save's two files and a competing write to either of them exist together; with
two environments a list is under way while the one it has read, or has yet to
read, is replaced. Three sessions make three pages of one or two pages of two, so
that a list has a page behind it and one before it when a row comes or goes; four
instants of a second of two digits (`05Z`, `05.01Z`, `05.1Z`, `05.11Z`) allow a tie in
`created_at`, broken by the ID, a row that is saved after a newer one, and texts that
are in no order of time. Pipes and a
channel that hold one chunk make every participant of `CommandStream` block on every
other, and the second chunk shows reordering. Three entries of a policy can block a
range, allow one around it, and say nothing, or something unreadable, of the other
family; a destination of its own and the loopback make an entry that covers both, one,
or the other. Three attempts are the code's. Three paths can be a mount, a mask in it
and another mount on either side of the mask, each clean or not. Settings of one kind
vary together over all their sources, those of different kinds do not meet in the code,
but for the address and the token, which vary together; the range of 31, with a
millisecond of 3, wraps to negative, zero and positive numbers.

**Conditions in the properties.** `ActiveIsPoliced`
excludes containers started or replaced outside the hub, for which the code makes
no promise: rules live in the network namespace of a container's run, and
Reconcile adopts whatever runs under the session's name. `NamedContainerDown` allows
replacements, which is where it says more than `ContainerInvariant`: the container that
took the name may run on after a Stop, the one that the stopped row names may not.
It excludes containers that are started again by hand. `FailedCreateLeavesNothing`
speaks of failing commands only: after an ambiguous create, a failing clean-up
or a failed save (`session_service.go:248`) a container remains. `StoppedRootfsDeleted`
excludes crashes and disk errors, because the row is written before the
directory is deleted and nobody tries again. `ServedSessionsRun` and
`ReconcileCloses` assume that at start-up the engine and the store answer:
Reconcile gives up at the first error and `main` serves all the same. A container
that is started again before it is visited is adopted, not closed.
`ToldEndStands` excludes a failing SaveBuildJob, and forgets readers with the process
they asked: between `finish` and the save, GetBuildJob and the copy a subscription
begins with already tell the end of a build, and a crash at that point loses a job that
somebody was told of. `SmokeRemoved` excludes a create that fails after its work and a
removal that fails; and where the process dies during a check nobody looks for the
container again. `IssuedKept` excludes a failing SaveBuildJob, and lets the death
of the process lose the job of a build in progress, and no other; `README.md:44` of the
repository promises only that *failed* builds keep their record. `StreamExact`
is an equality where channels have room; otherwise chunks may be skipped but
never come twice or out of order. `ListComplete` excludes rows that cease to match,
which move those behind them up, past the next offset, and rows that come between
a count and its page, after which the loop may end one row early: in both cases the
code misses sessions that were there all the while, and the only test of it
(`internal/store/sqlite_test.go:203`) lists a table at rest. Reconcile lists before
anything is served, so neither happens to it. `ListedOnce` excludes rows that come,
which push one that was listed onto the next page. `NobodyStuck` lets the hub wait as
long as somebody has a pipe open who may still write to it: a child that outlives its
command and never ends does hold the caller for ever, for there is no `WaitDelay`.
`ExecAnswersAreTrue` excuses the exit code of a command when the CLI failed by itself,
or the container was down in between and is up again when `Exec` looks: the code cannot
tell. `AnswersAreTrue` excuses "missing" when `image ls` failed, which
`inspectImageFallback`'s caller takes for its answer (`internal/runtime/cli.go:406`).
`PolicyEnforced` lets established connections pass a whitelist, as the rules do.
`ConfigurationSound` asks for the deadline that a request named only if an int64 can
hold it.

**Fairness.** `SessionService!Fairness`: `main` and every handler take their
next step, because goroutines are scheduled and every engine command, statement
and file operation returns, if only because of its timeout or of the context.
`BuildService!JobFairness`: the same for a job's goroutine, whose timers fire;
that `docker build` ends is an assumption, for it has no timeout
(hazard `build_service.go:328`). Nothing is assumed of clients, except in
`PatientSpec`, where they read what they are sent: `InTimeStreamsEnd` needs it,
`BuildsEnd` does not. Nothing in the outside world is ever obliged to happen.

## 4. Findings

Five runs check what the repository says of itself and find the code does
otherwise. `findings` in `PROJECT.json` has the details.

1. **A container without its policy** (`SessionPolicyEscape`). A client that
   leaves while rules are being installed cancels the context that the clean-up
   uses too; the container runs on without rules, under no row. `README.md:510`
   says that creation then fails and cleans up.
2. **A panic** (`BuildPanic`). A reader that leaves closes its channel while the
   build still holds it in its copied list; the first select of `sendBuildEvent`
   is outside the `recover` that expects this.
3. **A stream without an end event** (`BuildSlowReader`). The complete event is
   dropped for a reader with a full channel, which is then closed.
4. **A stream without an end** (`BuildLateReader`). A reader that found the job
   before it was unregistered, and subscribes after `finish()` has taken the
   subscribers, is never sent anything again and is never closed.
5. **Duplicate discoveries** (`ImageDuplicates`). An image no newer than
   the latest job of another reference is recorded again at every start-up.

## 5. What is proved

The theorems hold for every set of sessions, requests, jobs, readers,
environments, references, addresses and paths, every buffer size, page size and number
of chunks, entries, attempts and instants, every configuration and, but for the four
classes of failures below, every combination of failures. They rest only on the named
assumptions of the modules (`SessionServiceAssumption` and so on, checked by TLC in the
runs): null values are not members of the sets they stand beside, flags are Booleans,
bounds are numbers, a pipe or a channel has room for one piece, faults are known ones, IDs and
times have an order, the loopback is not one of the other addresses, the engine is
given paths below the root, and the default timeout is a `Duration`.

**SessionService.** `LockDiscipline` alone is not inductive for what matters: a
handler relies on facts that hold only because it has the lock. `ServiceInvariant`
says which: what each goroutine knows of its session at each `pc`
(`LocalSound`), what is true of each row and directory (`RowSound`), that
requests run only when `main` serves (`MainAlone`) and that the reconcile loop
has only active sessions before it (`TodoActive`). The argument in
`SessionServiceProofs`: every step of a goroutine inside a handler has one of few
shapes (`StepShape`): it goes on or leaves (`Moves`) and changes no row and no
directory but those of its own session (`Touches`). No other goroutine is on that
session (`Exclusive`). So everybody else's view survives (`Frame`), and what is
left is one obligation per action about its own session (`StepOwn`). From the
invariant follow

* `TypeCorrect`, `ServiceInvariantHolds`, `LocksDisciplined`, `RootfsKept`;
* `SnapshotNeverChanges` and `LifecycleImplemented`, by way of `Evolution`: a step
  changes at most one session, in one of four ways, each of which is a step of
  `SessionLifecycle`;
* `HandlersReturn` and `StartUpEnds`, the progress theorems below;

in `SessionContainerProofs`, by the same frame argument one layer further out,

* `ContainerInvariantHolds`: while only the hub starts containers, the container
  under a saved session's name is the one its row names (`ContainerSound`), and
  each goroutine's idea of it is right (`LocalContainer`). The inductive core is
  that a container can be *started* only by a Create, whose row is absent, and
  that `stopRun` must come before `markStopped`;
* `PolicyInForce` and `LogClosedWithSession`;
* `NamedContainerDownHolds`, which allows replaced containers and has an invariant of
  its own (`AllDown`): at the steps before a session is closed, the container its
  handler names does not run (`LocalDown`), and who takes a name brings a fresh ID;

and what failures leave behind. `FailureInvariant` says
of each session that what is unfinished there is in the hands of the one goroutine
on it (`Pending`), and that nothing is when no goroutine is (`Settled`), under
the faults that the promise can bear. Each theorem names them in its hypothesis:

| Theorem | Assumes of `Faults` | Because otherwise |
|---|---|---|
| `PolicyNeverDegradesHolds` | `CleanUpWorks`: no leaving client, failing clean-up, crash, restart of a container by hand | the clean-up uses the client's context (finding 1), or does not happen; rules end with a container's run |
| `FailedCreateLeavesNothingHolds` | `OnlyCommandsFail`: engine commands fail without effect, containers exit, vanish and restart | an ambiguous create, or a failed save (`session_service.go:248`), leaves a container |
| `StoppedRootfsDeletedHolds` | `DeletionsWork`: no crash, no disk error | the row is written before the directory is deleted, once |
| `ServedSessionsRunHolds` | `OnlyHubFails`: any number of crashes, failing clean-ups, restarts by hand | Reconcile gives up at the first error; containers that exit while the hub serves are noticed only when used |

Each class has states in which the guarded thing happens: the runs of section 3 explore
them with a subset of these faults. `ServedSessionsRunHolds` needs the most: from
`Boot` on, what `main` has visited is healthy (`Visited`), whatever rows and containers
the crash left, because a Create saves only a container it has started.

**BuildService.** `BuildInvariant` ties the position of each job's goroutine to
its status, the maps and the locks (`JobSound`), to the table (`TableSound`), and
ties each channel to who may still close it or send to it (`ReaderSound`):
whoever takes a reader out of `subscribers` owns the closing of its channel,
and the goroutine that announces the end has taken all of them. It gives
`TypeCorrect`, `OneBuildPerEnvironment`, `MapsAgree`, `ChannelsClosedOnce`, and
through `Evolution` (what one step may do to what a caller sees of a job)
`RecordsAreFinal` and `RecordsImplemented`, the refinement of `BuildRecords`.

`BuildStreamProofs` adds what flows. `StreamInvariant` has for each reader that the
events of its channel follow from what it knew before, one by one (`Chain`), that
the last of them and what is about to be sent make up the output of the job
(`CatchesUp`), and that a channel of `Ample` size holds no more than there have been
events, so that nothing is dropped (`HasRoom`, `blocked = {}`); an end in a channel is the one
in the table (`EndsSaved`), and an end that a reader knows is what the hub answers
(`EndsStand`). For each job it has what its goroutine has left behind
where it is (`JobFollows`). `StreamExactHolds` follows under every
fault, `ToldEndStandsHolds` while the store works, `SmokeRemovedHolds` under the
faults its property names, `IssuedKeptHolds`
while the store works: only the death of the process loses a job, and then one that is
not over (`Lost`). `NobodyLeftUntoldHolds` is the safety half of `InTimeStreamsEnd`, under
every fault: of a build that is over, whoever streams it finds a closed channel, or was
given a copy that tells the end when it joined. `Finish` empties the map of subscribers,
and a reader may join a moment before or after that; `ReaderTold` says that each reader
who waits is in the map while the end is still to come (`StillBuilds`), then on the list it
is sent to, then closed, and that one who joined too late is sent nothing that could
make it forget. (Such a reader then waits for ever, told but not closed: finding 4.)

**EnvironmentStore.** Only a rename changes what readers see. `DiskGrows` says how:
it replaces one file by a later version, makes nothing unreadable, and
completes a pair of files (`saves`) only as the second of the two is put into
place. What a handler knows of its own writes (`WriterSound`), of what it has
read (`ReaderSound`) and of what it must find (`FinderSound`) is stated so that it
survives every such change (`Frame`), provided that no two writes share a
version (`WrittenOnce`); what is left is one obligation per step about its own
handler (`MkdirKeeps` to `ReadFileKeeps`). The core is `SavesSound`: where the
`environment.yml` of a save is in place, the Dockerfile in place is its own or a
later one. From `StoreInductive` follow `ReadersFollowSaves`, `RequestsFind`,
`SuccessIsSaved` and `LoadableForGood`, for any number of environments, handlers
and writes.

**The calls to the engine** (`EngineProofs`).

* `ExecAnswersAreTrueHolds`, `AnswersAreTrueHolds`: the inductive invariants
  (`ExecInvariant`, `AvailabilityInvariant`) are a table of what each step of the call
  knows, and what the ghosts must have recorded for it to be there.
* `OutputExactHolds`: of each stream, what the result has kept, what is in the channel
  and what its goroutine holds are, one after the other, what was read from its pipe
  (`NothingLost`), which is all that was written once the goroutine is done (`ReadersKnow`); the channel is closed only after both goroutines have
  nothing left (`ClosedLast`). The steps move one chunk from one of these to the next,
  which needs what `Selected` does at either end of a sequence.
* `PolicyEnforcedHolds`, `OnlyTightensHolds`: after k commands the tables are what
  the first k commands of the script make them (`TablesAfter`, in `PolicyInvariant`), in which a family's
  rules have begun only as far as its own commands were run. What lets a destination pass
  depends on the entries of its family, and the first rule that matches is found with a
  least number.
* `MountsSoundHolds`: `PlaceOf` yields a path with only names in it, and of such a path
  that path itself, so that cleaning twice is cleaning once; two directories above
  one path are one above the other (`PrefixesOverlap`). The engine's arguments are the
  merged mounts and the masks, rearranged (`LaidOut`): nothing is lost or repeated, no two are at
  one place, the workspace is first. A mount on top of a mask would overlap it, and only the
  workspace may, which is shorter and comes before.

**What is listed, and what is in force** (`CatalogueProofs`).

* `DiscoveredOnlyUnknownHolds`: `Newer`, the order of the stored texts, is strict and
  total, so that a table that is not empty has a latest job, whose reference decides.
* `ListCompleteHolds`, `ListedOnceHolds`: `ListingInvariant` compares places in the
  table (`Rank`, how many matching rows come before) with the offset of the page. While no row comes,
  those listed lie before the offset; while none leaves, those that matched all along and are not
  listed lie behind it. A page takes the rows of a range of ranks, and ranks are
  a bijection; a row that is stopped or saved moves those behind it by one.
* `ConfigurationSoundHolds`: `ConfigInvariant` is that what is in force was computed from
  sources that passed the checks. What remains are lemmas on the layers (the last word is that of
  the last source that speaks), on joining paths, and on wrapping a product to
  64 bits, for any width that has room for the default timeout.

**Side by side** (`CompositionProofs`). The `Catalogue` run checks components that share
nothing as one specification in which one of them moves at a time. Each of them sees a
behaviour of its own specification there (`EachAmongOthers`), with steps of the others as
stutters, so that its theorems hold of the composition: `CatalogueTypeCorrect` is the type
invariant of that run, `CatalogueSound` the conjunction of its other properties but `NobodyStuck`.

**Progress, without fairness.** Four theorems say of a goroutine that whenever it has
something left to do one of its steps is possible, that each of its steps leaves it less
to do, and that no step of another leaves it more: what remains for it to end is that it
is scheduled. What a step needs is stated by its guards, for ENABLED is out of the prover's
reach; on the instances of section 3 TLC found the guards to hold exactly where
ENABLED does.

| Theorem | Of whom | What gets less |
|---|---|---|
| `HandlersReturn` | a request's handler | the calls it has still to make (`CallsLeft`), nine at most; it can go on as long as the engine has an ID for a container |
| `StartUpEnds` | `main`, up to serving | the phase, then the sessions to visit (finitely many: `SavedStayFinite`), then the calls of a visit |
| `BuildsRunDown` | the goroutine of a build | the stage with the chunks still to come (`Stage`), then the sends of the event under way (`Sends`), each of which costs two steps at most |
| `CallerReturns` | the hub's part in a streamed command | the chunks and ends on their way to the caller (`Left`), with every step once nobody has a pipe open; until then the hub waits only for whoever has, and leaves no pipe full |

**How it is proved.** The inductive invariants in the modules of the model
(`ServiceInvariant`, `ContainerInvariant`, `BuildInvariant`, `StoreInvariant`) are checked by
the runs too. Those above that only a proof needs (`FailureInvariant`, `StreamInvariant`,
`ExecInvariant`, `AvailabilityInvariant`, `OutputInvariant`, `PolicyInvariant`,
`MountsInvariant`, `ImagesInvariant`, `ListingInvariant`, `ConfigInvariant`) are defined in the
proof modules; TLC found no violation of them on the instances of section 3 before they were
proved. Induction over numbers, for what `Selected`, `PlaceOf` and ranks compute, is
done with sets: a set of numbers that has 0 and with each number the next has all
(`NumbersInduction`), because every other set of numbers has a least one missing
(`LeastNumber`). Where a recursive function is used its values are those of any
function that satisfies its equation (`TakingUnique`, `PlaceWalk`).

**Only model-checked.** Liveness (`LocksReleased`, `ReconcileCloses`, `BuildsEnd`,
`InTimeStreamsEnd`): fairness needs ENABLED, which the prover does not support. The progress
theorems are what there is to prove of them short of that. `NobodyStuck` says that some step is
possible, which is ENABLED again; `CallerReturns` proves it in terms of the guards
(`NobodyWaits`).
What the `violation` runs show is a behaviour each, which needs no proof.

## 6. What is not modelled

The components marked `not_modelled` or `partly` in `PROJECT.json` say why. In
short: reads of a single row (Get, ListExecutions), which are one statement each, and field-by-field mappings; text (the
wording of engine errors, logs, the UI's rendering); the parsers of what the engine
prints and the probe that finds an engine at start-up, which are conversions; the
splitting of the command line into options and the time zone; the migrations of the
database, which run once over a closed store; release scripts. Also outside: more than
one process inside a container; the data race on the job
StartBuildJob returns (`build_service.go:133`), of whose contents no property
speaks; `DeleteEnvironment` and `DeleteSession`, which nothing but tests calls.

## 7. Plan

The order is that of importance; each step ends with its runs, and the proofs
that are worth it.

1. *(done)* `SessionLifecycle`, `SessionService`, proofs.
2. *(done)* `BuildRecords`, `BuildService`, proofs.
3. *(done)* `ImageReconcile`, proofs.
4. *(done)* `EnvironmentStore`, proofs. Left: `ListEnvironmentFiles` and the files
   below `scripts/` and `curl/`; that without overlapping saves every read returns
   what one save wrote, but for the Dockerfile of a save under way.
5. *(done)* `SessionListing`, proofs.
6. *(done)* `SessionMounts`, `NetworkPolicy`, `ImageAvailability`, `Timestamps`,
   `CommandStream`, `ExecCommand`, `Configuration`, proofs.
7. *(done)* The safety half of the liveness properties: the progress theorems,
   `NobodyLeftUntoldHolds`, and the composition.

## 8. Running

`tlc -config SessionHandlers.cfg MCSessionService.tla`, and so on: `runs` in
`PROJECT.json` names the module of each configuration; none takes more than
three minutes on a laptop. `tlapm SessionServiceProofs.tla` checks the proofs of that
module from nothing; so do `SessionContainerProofs`,
`BuildServiceProofs`, `BuildStreamProofs`, `EnvironmentStoreProofs`, `EngineProofs`,
`CatalogueProofs` and `CompositionProofs`. Each takes a few minutes at most.

The operators whose comment begins with *Mutant* are faulty variants of the
definition that follows them. No behaviour of a specification uses them: they
record, for each property, a plausible mistake that it would catch (`mutants` in
`PROJECT.json`), and are tried by putting them in the place of the original.
