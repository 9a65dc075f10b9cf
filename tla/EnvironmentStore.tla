--------------------------- MODULE EnvironmentStore ---------------------------
(***************************************************************************)
(* The environments as files: internal/store/file_environment.go, and the  *)
(* handlers of internal/sandbox/environment_service.go that use it.  An    *)
(* environment is a directory with environment.yml ("metadata") and,       *)
(* usually, a Dockerfile.  A file is written beside its place and renamed  *)
(* into it; nothing locks, so requests read and write the two files of one *)
(* environment in any order.                                               *)
(*                                                                         *)
(* A version is one content of one file, numbered as it was written.       *)
(* Handlers serve Upsert, PutFile, Get, GetFile and List; session creation *)
(* and builds read an environment as Get does, the image reconciliation    *)
(* lists them as List does.  Nothing that is served deletes a file.        *)
(***************************************************************************)
EXTENDS Naturals

CONSTANTS
    Env,          \* environment names
    NoEnv,
    Handler,      \* goroutines that serve requests
    MaxWrites     \* bound: versions ever written

ASSUME EnvironmentStoreAssumption == NoEnv \notin Env /\ MaxWrites \in Nat

File == {"metadata", "dockerfile"}
Version == 1..MaxWrites
NoVersion == 0

VARIABLES
    dirs,       \* names whose directory exists
    current,    \* the version in place of each file of each environment
    writes,     \* versions written so far
    corrupt,    \* the versions that were cut short
    renames,    \* renames so far
    renamedAt,  \* which rename put a version into place, 0 if none did
    saves,      \* the pairs of versions that one Upsert put into place
    pc,         \* the next step of each handler, or its answer
    request     \* what it was asked, and what it has seen

disk == <<dirs, current, writes, corrupt, renames, renamedAt, saves>>
storeVars == <<disk, pc, request>>

Op == {"upsert", "put", "get", "read", "list"}
Answer == {"ok", "notfound"}
Label == {"idle", "mkdir", "write", "rename", "readdir", "metadata", "dockerfile", "next", "file"} \cup Answer

\* What loadEnvironment returns: the versions of the files it read.
View == [File -> 0..MaxWrites]
NoView == [f \in File |-> NoVersion]

Request ==
    [op : Op, env : Env \cup {NoEnv},
     file : File,                       \* the one being written or read
     valid : BOOLEAN,                   \* is the text, and the path, acceptable?
     written : View,                    \* the versions it wrote
     todo : SUBSET Env,                 \* directories a List has yet to load
     seen : [Env -> View],              \* what it has loaded
     began : SUBSET Env]                \* what could be loaded when it began to read

NewRequest(op, env, file, valid, began) ==
    [op |-> op, env |-> env, file |-> file, valid |-> valid, written |-> NoView,
     todo |-> {}, seen |-> [e \in Env |-> NoView], began |-> began]
NoRequest == NewRequest("list", NoEnv, "metadata", TRUE, {})

\* A directory that loadEnvironment accepts.
Loadable(e) == current[e]["metadata"] # NoVersion /\ current[e]["metadata"] \notin corrupt
LoadableEnvs == {e \in Env : Loadable(e)}

StoreInit ==
    /\ dirs = {} /\ writes = 0 /\ corrupt = {} /\ renames = 0
    /\ current = [e \in Env |-> NoView]
    /\ renamedAt = [v \in Version |-> 0] /\ saves = {}
    /\ pc = [h \in Handler |-> "idle"]
    /\ request = [h \in Handler |-> NoRequest]

Goto(h, label) == pc' = [pc EXCEPT ![h] = label]

\* The handler returns an error.
ReturnError(h) ==
    /\ Goto(h, "idle")
    /\ request' = [request EXCEPT ![h] = NoRequest]

(***************************************************************************)
(* Requests, after the checks that need no file.                           *)
(***************************************************************************)

\* A goroutine that answered its last request takes this one.
Begin(h, label, new) ==
    /\ pc[h] \in Answer \cup {"idle"}
    /\ Goto(h, label)
    /\ request' = [request EXCEPT ![h] = new]
    /\ UNCHANGED disk

\* A Dockerfile that is blank is not written.
Upsert(h) ==
    \E e \in Env, first \in File : Begin(h, "mkdir", NewRequest("upsert", e, first, TRUE, {}))

\* Text that is no environment.yml of this name is not valid, nor is a path
\* that is neither of the two files nor a script.
PutFile(h) ==
    \E e \in Env, file \in File, valid \in BOOLEAN :
        Begin(h, "mkdir", NewRequest("put", e, file, valid, {}))

Get(h) ==
    \E e \in Env : Begin(h, "metadata", NewRequest("get", e, "metadata", TRUE, LoadableEnvs))

GetFile(h) ==
    \E e \in Env, file \in File : Begin(h, "file", NewRequest("read", e, file, TRUE, LoadableEnvs))

List(h) == Begin(h, "readdir", NewRequest("list", NoEnv, "metadata", TRUE, LoadableEnvs))

\* Mutant: List leaves out what it cannot read.
FailOrLeaveOut(h) ==
    /\ pc[h] \notin Answer \cup {"idle"}
    /\ IF request[h].op = "list" THEN Goto(h, "next") /\ UNCHANGED request ELSE ReturnError(h)
    /\ UNCHANGED disk

\* A call to the file system fails, and the request with it; but a List that
\* cannot fill in the details of a view leaves them out.
Fail(h) ==
    /\ pc[h] \notin Answer \cup {"idle"}
    /\ ~(pc[h] = "next" /\ request[h].op = "list")
    /\ ReturnError(h)
    /\ UNCHANGED disk

(***************************************************************************)
(* SaveEnvironment, WriteEnvironmentFile                                   *)
(***************************************************************************)

\* The directory is made before the content is looked at.
Mkdir(h) ==
    /\ pc[h] = "mkdir"
    /\ dirs' = dirs \cup {request[h].env}
    /\ \/ request[h].valid /\ Goto(h, "write") /\ UNCHANGED request
       \/ ~request[h].valid /\ ReturnError(h)
    /\ UNCHANGED <<current, writes, corrupt, renames, renamedAt, saves>>

\* Mutant: the error of a short write is not looked at.
WriteTempIgnoringErrors(h) ==
    /\ pc[h] = "write" /\ writes < MaxWrites
    /\ writes' = writes + 1
    /\ request' = [request EXCEPT ![h].written[request[h].file] = writes']
    /\ Goto(h, "rename")
    /\ corrupt' \in {corrupt, corrupt \cup {writes'}}
    /\ UNCHANGED <<dirs, current, renames, renamedAt, saves>>

\* The temporary file; a short write fails the request and removes it.
WriteTemp(h) ==
    /\ pc[h] = "write" /\ writes < MaxWrites
    /\ writes' = writes + 1
    /\ \/ /\ request' = [request EXCEPT ![h].written[request[h].file] = writes']
          /\ Goto(h, "rename")
          /\ UNCHANGED corrupt
       \/ /\ corrupt' = corrupt \cup {writes'}
          /\ ReturnError(h)
    /\ UNCHANGED <<dirs, current, renames, renamedAt, saves>>

\* Mutant: environment.yml is replaced first.
RenamedMetadataFirst(h) ==
    IF request[h].op = "put" THEN Goto(h, "file") /\ UNCHANGED request
    ELSE IF request[h].file = "dockerfile" THEN Goto(h, "metadata") /\ UNCHANGED request
    ELSE Goto(h, "write") /\ request' = [request EXCEPT ![h].file = "dockerfile"]

\* PutFile goes on to GetFile; a save goes on from the Dockerfile to
\* environment.yml, and from there to GetEnvironment.
Renamed(h) ==
    IF request[h].op = "put" THEN Goto(h, "file") /\ UNCHANGED request
    ELSE IF request[h].file = "metadata" THEN Goto(h, "metadata") /\ UNCHANGED request
    ELSE Goto(h, "write") /\ request' = [request EXCEPT ![h].file = "metadata"]

\* The version a handler wrote takes its place.
Replace(h) ==
    LET version == request[h].written[request[h].file]
    IN  /\ current' = [current EXCEPT ![request[h].env][request[h].file] = version]
        /\ renames' = renames + 1
        /\ renamedAt' = [renamedAt EXCEPT ![version] = renames']
        /\ saves' = IF NoVersion \in {request[h].written[f] : f \in File} THEN saves
                    ELSE saves \cup {request[h].written}
        /\ UNCHANGED <<dirs, writes, corrupt>>

\* Mutant: the error of a rename is not looked at.
RenameIgnoringErrors(h) ==
    /\ pc[h] = "rename"
    /\ Replace(h) \/ UNCHANGED disk
    /\ Renamed(h)

\* Mutant: a rename may be tried again although it was done.
RenameRetried(h) ==
    /\ pc[h] = "rename"
    /\ Replace(h)
    /\ Renamed(h) \/ UNCHANGED <<pc, request>>

Rename(h) ==
    /\ pc[h] = "rename"
    /\ Replace(h)
    /\ Renamed(h)

(***************************************************************************)
(* GetEnvironment, ListEnvironments, ReadEnvironmentFile                   *)
(***************************************************************************)

See(h, view) == request' = [request EXCEPT ![h].seen[request[h].env] = view]

\* os.ReadDir: the directories that are there now.
ReadDir(h) ==
    /\ pc[h] = "readdir"
    /\ request' = [request EXCEPT ![h].todo = dirs]
    /\ Goto(h, "next")
    /\ UNCHANGED disk

\* environment.yml.  What is missing is not found by Get, and fails List.
ReadMetadata(h) ==
    LET e == request[h].env
    IN  /\ pc[h] = "metadata"
        /\ \/ /\ Loadable(e)
              /\ See(h, [NoView EXCEPT !["metadata"] = current[e]["metadata"]])
              /\ Goto(h, "dockerfile")
           \/ /\ current[e]["metadata"] = NoVersion /\ request[h].op # "list"
              /\ Goto(h, "notfound")
              /\ UNCHANGED request
           \/ /\ ~Loadable(e) /\ (current[e]["metadata"] # NoVersion \/ request[h].op = "list")
              /\ ReturnError(h)
        /\ UNCHANGED disk

\* The Dockerfile, which may be missing, and then the time of environment.yml.
ReadDockerfile(h) ==
    LET e == request[h].env
    IN  /\ pc[h] = "dockerfile"
        /\ See(h, [request[h].seen[e] EXCEPT !["dockerfile"] = current[e]["dockerfile"]])
        /\ Goto(h, "next")
        /\ UNCHANGED disk

\* List goes on with another directory.  Get and Upsert read environment.yml
\* once more, for the text of the view.
NextOrView(h) ==
    /\ pc[h] = "next"
    /\ \/ /\ \E e \in request[h].todo :
                 request' = [request EXCEPT ![h].env = e, ![h].todo = @ \ {e}]
          /\ Goto(h, "metadata")
       \/ request[h].todo = {} /\ Goto(h, "ok") /\ UNCHANGED request
    /\ UNCHANGED disk

\* One file, of a directory with an environment.yml.
ReadFile(h) ==
    LET e == request[h].env
        version == current[e][request[h].file]
    IN  /\ pc[h] = "file"
        /\ \/ /\ NoVersion \notin {version, current[e]["metadata"]}
              /\ See(h, [NoView EXCEPT ![request[h].file] = version])
              /\ Goto(h, "ok")
           \/ /\ NoVersion \in {version, current[e]["metadata"]}
              /\ Goto(h, "notfound")
              /\ UNCHANGED request
        /\ UNCHANGED disk

\* The hub dies and is started again; temporary files it leaves are not read.
StoreCrash ==
    /\ pc' = [h \in Handler |-> "idle"]
    /\ request' = [h \in Handler |-> NoRequest]
    /\ UNCHANGED disk

StoreNext ==
    \/ StoreCrash
    \/ \E h \in Handler :
        \/ Upsert(h) \/ PutFile(h) \/ Get(h) \/ GetFile(h) \/ List(h)
        \/ Mkdir(h) \/ WriteTemp(h) \/ Rename(h)
        \/ ReadDir(h) \/ ReadMetadata(h) \/ ReadDockerfile(h) \/ NextOrView(h) \/ ReadFile(h)
        \/ Fail(h)

StoreSpec == StoreInit /\ [][StoreNext]_storeVars

(***************************************************************************)
(* Properties                                                              *)
(***************************************************************************)

\* Every variable has its type.
StoreTypeOK ==
    /\ dirs \subseteq Env
    /\ current \in [Env -> [File -> 0..writes]]
    /\ writes \in 0..MaxWrites /\ corrupt \subseteq 1..writes
    /\ renames \in Nat /\ renamedAt \in [Version -> 0..renames]
    /\ saves \subseteq [File -> 1..writes]
    /\ pc \in [Handler -> Label]
    /\ request \in [Handler -> Request]

\* Which rename put a file in place: 0 for a file that is missing.
Place(version) == IF version = NoVersion THEN 0 ELSE renamedAt[version]

\* Whoever sees the environment.yml of a save sees the Dockerfile that was
\* saved with it, or a later one: the save renames it first, a reader reads
\* it last.  (The converse is not promised: a Dockerfile is seen beside the
\* environment.yml of before.)
MetadataFollowsDockerfile ==
    \A h \in Handler, e \in Env, save \in saves :
        LET view == request[h].seen[e]
        IN  pc[h] = "ok" /\ request[h].op \in {"upsert", "get", "list"} /\ view["metadata"] = save["metadata"] =>
                Place(view["dockerfile"]) >= Place(save["dockerfile"])

\* An environment that can be loaded can be loaded from then on: no write,
\* failed write or crash leaves a file that cannot.
StaysLoadable == [][LoadableEnvs \subseteq LoadableEnvs']_storeVars

\* An environment that could be loaded when the request began is found by it,
\* and is in every list that is answered, whatever is saved meanwhile.
ReadersFind ==
    \A h \in Handler :
        /\ pc[h] = "notfound" /\ request[h].file = "metadata" => request[h].env \notin request[h].began
        /\ pc[h] = "ok" /\ request[h].op = "list" =>
               \A e \in request[h].began : request[h].seen[e]["metadata"] # NoVersion

\* An Upsert or PutFile that is answered with success has all it wrote in
\* place, and answers with that or with what replaced it.
AnsweredIsSaved ==
    \A h \in Handler : pc[h] = "ok" /\ request[h].op \in {"upsert", "put"} =>
        \A file \in File :
            LET version == request[h].written[file]
            IN  version # NoVersion =>
                    /\ renamedAt[version] # 0
                    /\ Place(request[h].seen[request[h].env][file]) >= renamedAt[version]

(***************************************************************************)
(* The inductive invariant                                                 *)
(***************************************************************************)

\* A version belongs to one write of one handler, and is written before it is
\* renamed.
WrittenOnce ==
    /\ \A v \in Version : renamedAt[v] # 0 => v <= writes
    /\ \A h \in Handler, f \in File : request[h].written[f] <= writes /\ request[h].written[f] \notin corrupt
    /\ \A g, h \in Handler, a, b \in File :
           request[g].written[a] = request[h].written[b] /\ request[g].written[a] # NoVersion => g = h /\ a = b

\* A file in place was renamed there, whole.
FilesSound ==
    \A e \in Env, f \in File :
        current[e][f] # NoVersion =>
            renamedAt[current[e][f]] # 0 /\ current[e][f] \notin corrupt /\ e \in dirs

\* Beside the environment.yml of a save there is its Dockerfile or a later one.
SavesSound ==
    \A save \in saves :
        /\ \A f \in File : renamedAt[save[f]] # 0
        /\ \A e \in Env : current[e]["metadata"] = save["metadata"] =>
               renamedAt[save["dockerfile"]] <= Place(current[e]["dockerfile"])

\* What a handler is at is what it was asked for.
RequestSound(h) ==
    LET r == request[h]
    IN  /\ r.op # "list" \/ pc[h] \in {"metadata", "dockerfile"} => r.env \in Env
        /\ r.op # "list" \/ pc[h] = "ok" => r.todo = {}
        /\ pc[h] \in {"mkdir", "write", "rename"} => r.op \in {"upsert", "put"}
        /\ pc[h] \in {"metadata", "dockerfile", "next"} => r.op \in {"upsert", "get", "list"}
        /\ pc[h] = "file" => r.op \in {"put", "read"}
        /\ pc[h] = "readdir" => r.op = "list"

\* What a handler wrote is in place, or will be, or was replaced since.
WriterSound(h) ==
    LET r == request[h]
    IN  /\ pc[h] \in {"write", "rename"} => r.env \in dirs
        /\ r.op \notin {"upsert", "put"} \/ pc[h] = "mkdir" => r.written = NoView
        /\ r.op = "put" => \A f \in File \ {r.file} : r.written[f] = NoVersion
        /\ pc[h] \in {"write", "rename"} /\ r.file = "dockerfile" => r.written["metadata"] = NoVersion
        /\ pc[h] = "rename" => r.written[r.file] # NoVersion /\ renamedAt[r.written[r.file]] = 0
        /\ \A f \in File :
               r.written[f] # NoVersion /\ ~(pc[h] = "rename" /\ f = r.file) =>
                   /\ renamedAt[r.written[f]] # 0
                   /\ renamedAt[r.written[f]] <= Place(current[r.env][f])

\* What a handler has seen so far fits together and is as new as it must be.
ReaderSound(h) ==
    LET r == request[h]
    IN  /\ \A e \in Env, f \in File : r.seen[e][f] # NoVersion => renamedAt[r.seen[e][f]] # 0
        /\ r.op \in {"upsert", "put"} =>
               \A f \in File :
                   r.written[f] # NoVersion /\ (pc[h] \in {"next", "ok"} \/ (pc[h] = "dockerfile" /\ f = "metadata")) =>
                       renamedAt[r.written[f]] <= Place(r.seen[r.env][f])
        /\ r.op \in {"upsert", "get", "list"} =>
               \A e \in Env, save \in saves :
                   r.seen[e]["metadata"] = save["metadata"] =>
                       renamedAt[save["dockerfile"]] <=
                           IF pc[h] = "dockerfile" /\ e = r.env THEN Place(current[e]["dockerfile"])
                           ELSE Place(r.seen[e]["dockerfile"])

\* What could be loaded when a handler began can be loaded still, and is
\* loaded, or about to be.
FinderSound(h) ==
    LET r == request[h]
    IN  /\ \A e \in r.began : Loadable(e)
        /\ pc[h] = "notfound" /\ r.file = "metadata" => r.env \notin r.began
        /\ r.op = "list" /\ pc[h] \in {"next", "metadata", "dockerfile", "ok"} =>
               \A e \in r.began :
                   e \in r.todo \/ r.seen[e]["metadata"] # NoVersion \/ (pc[h] = "metadata" /\ e = r.env)

\* The inductive invariant: the types, what is true of the files, and what
\* each handler knows, of its own writes and of what it has read.
StoreInvariant ==
    /\ StoreTypeOK /\ WrittenOnce /\ FilesSound /\ SavesSound
    /\ \A h \in Handler : RequestSound(h) /\ WriterSound(h) /\ ReaderSound(h) /\ FinderSound(h)
===============================================================================
