------------------------ MODULE EnvironmentStoreProofs ------------------------
(***************************************************************************)
(* What holds of EnvironmentStore for every set of environments and of     *)
(* handlers and any number of writes.  Only a rename changes what readers  *)
(* see, and it changes one file of one environment from an older version   *)
(* to a newer one: everything a handler knows survives that (DiskGrows),   *)
(* and the rest is an obligation of each step about its own handler.       *)
(***************************************************************************)
EXTENDS EnvironmentStore, TLAPS

\* What one handler keeps true.
HandlerSound(h) == RequestSound(h) /\ WriterSound(h) /\ ReaderSound(h) /\ FinderSound(h)

\* The next step of a handler's request.
Step(h) ==
    \/ Mkdir(h) \/ WriteTemp(h) \/ Rename(h)
    \/ ReadDir(h) \/ ReadMetadata(h) \/ ReadDockerfile(h) \/ NextOrView(h) \/ ReadFile(h)

\* A new request.
Started(h) == Upsert(h) \/ PutFile(h) \/ Get(h) \/ GetFile(h) \/ List(h)

-----------------------------------------------------------------------------
(***************************************************************************)
(* Type correctness.                                                       *)
(***************************************************************************)

\* What a reader has read has its type, with one file more as well.
LEMMA ViewTypes ==
    /\ NoView \in View
    /\ \A view \in View, v \in 0..MaxWrites, f \in File : [view EXCEPT ![f] = v] \in View
    /\ NoView = [f \in File |-> 0]
BY EnvironmentStoreAssumption DEF View, NoView, NoVersion, File

\* A new request has its type.
LEMMA NewRequestTypes ==
    /\ NoRequest \in Request
    /\ \A op \in Op, env \in Env \cup {NoEnv}, file \in File, valid \in BOOLEAN, began \in SUBSET Env :
           NewRequest(op, env, file, valid, began) \in Request
<1>1. [e \in Env |-> NoView] \in [Env -> View]
  BY ViewTypes
<1>2. \A op \in Op, env \in Env \cup {NoEnv}, file \in File, valid \in BOOLEAN, began \in SUBSET Env :
           NewRequest(op, env, file, valid, began) \in Request
  BY <1>1, ViewTypes DEF NewRequest, Request
<1>3. NoRequest \in Request
  BY <1>2 DEF NoRequest, Op, File
<1>q. QED
  BY <1>2, <1>3

\* So does a request one of whose fields changed.
LEMMA RequestFields ==
    ASSUME NEW r \in Request
    PROVE  /\ \A f \in File : [r EXCEPT !.file = f] \in Request
           /\ \A f \in File, v \in 0..MaxWrites : [r EXCEPT !.written[f] = v] \in Request
           /\ \A names \in SUBSET Env : [r EXCEPT !.todo = names] \in Request
           /\ \A e \in Env, view \in View : [r EXCEPT !.seen[e] = view] \in Request
           /\ \A e \in Env : [r EXCEPT !.env = e, !.todo = @ \ {e}] \in Request
<1>1. \A f \in File : [r EXCEPT !.file = f] \in Request
  BY DEF Request
<1>2. \A f \in File, v \in 0..MaxWrites : [r EXCEPT !.written[f] = v] \in Request
  <2>1. \A f \in File, v \in 0..MaxWrites : [r.written EXCEPT ![f] = v] \in View
    BY ViewTypes DEF Request
  <2>q. QED
    BY <2>1 DEF Request
<1>3. \A names \in SUBSET Env : [r EXCEPT !.todo = names] \in Request
  BY DEF Request
<1>4. \A e \in Env, view \in View : [r EXCEPT !.seen[e] = view] \in Request
  BY DEF Request
<1>5. \A e \in Env : [r EXCEPT !.env = e, !.todo = @ \ {e}] \in Request
  BY DEF Request
<1>q. QED
  BY <1>1, <1>2, <1>3, <1>4, <1>5

\* The types hold at the start, and every step keeps them.
LEMMA TypeInit == StoreInit => StoreTypeOK
<1>1. NoView \in [File -> 0..0]
  BY ViewTypes
<1>q. QED
  BY <1>1, NewRequestTypes, EnvironmentStoreAssumption
  DEF StoreInit, StoreTypeOK, Label, Answer, Version

\* The start of a request keeps the types.
LEMMA BeginTypes ==
    ASSUME StoreTypeOK, NEW h \in Handler, Started(h)
    PROVE  StoreTypeOK'
<1>1. PICK label \in Label, new \in Request : Begin(h, label, new)
  <2>1. LoadableEnvs \in SUBSET Env /\ {} \in SUBSET Env /\ NoEnv \in Env \cup {NoEnv}
    BY DEF LoadableEnvs
  <2>2. CASE Upsert(h)
    BY <2>1, <2>2, NewRequestTypes DEF Upsert, Label, Op
  <2>3. CASE PutFile(h)
    BY <2>1, <2>3, NewRequestTypes DEF PutFile, Label, Op
  <2>4. CASE Get(h)
    BY <2>1, <2>4, NewRequestTypes DEF Get, Label, Op, File
  <2>5. CASE GetFile(h)
    BY <2>1, <2>5, NewRequestTypes DEF GetFile, Label, Op
  <2>6. CASE List(h)
    BY <2>1, <2>6, NewRequestTypes DEF List, Label, Op, File
  <2>q. QED
    BY <2>2, <2>3, <2>4, <2>5, <2>6 DEF Started
<1>q. QED
  BY <1>1 DEF StoreTypeOK, Begin, Goto, disk

\* A request is typed, and while it is served it has an environment.
LEMMA StepTypes ==
    ASSUME StoreInvariant, NEW h \in Handler, Step(h)
    PROVE  StoreTypeOK'
<1> DEFINE r == request[h]
<1>1. r \in Request /\ r.file \in File
  BY DEF StoreInvariant, StoreTypeOK, Request
<1>2. ASSUME UNCHANGED disk, pc' \in [Handler -> Label],
             \E new \in Request : request' = [request EXCEPT ![h] = new]
      PROVE  StoreTypeOK'
  BY <1>2 DEF StoreInvariant, StoreTypeOK, disk
<1>3. UNCHANGED request => \E new \in Request : request' = [request EXCEPT ![h] = new]
  BY <1>1 DEF StoreInvariant, StoreTypeOK
<1>4. \A label \in Label : Goto(h, label) => pc' \in [Handler -> Label]
  BY DEF Goto, StoreInvariant, StoreTypeOK
<1>5. ReturnError(h) => /\ pc' \in [Handler -> Label]
                        /\ \E new \in Request : request' = [request EXCEPT ![h] = new]
  BY NewRequestTypes, <1>4 DEF ReturnError, Label
<1>6. CASE Mkdir(h)
  <2>1. dirs' \subseteq Env
    BY <1>6 DEF Mkdir, StoreInvariant, StoreTypeOK, RequestSound, Request
  <2>2. pc' \in [Handler -> Label] /\ \E new \in Request : request' = [request EXCEPT ![h] = new]
    BY <1>3, <1>4, <1>5, <1>6 DEF Mkdir, Label
  <2>q. QED
    BY <2>1, <2>2, <1>6 DEF Mkdir, StoreInvariant, StoreTypeOK
<1>7. CASE WriteTemp(h)
  <2>1. writes' \in 0..MaxWrites /\ writes' = writes + 1
    BY <1>7, EnvironmentStoreAssumption DEF WriteTemp, StoreInvariant, StoreTypeOK
  <2>2. pc' \in [Handler -> Label] /\ \E new \in Request : request' = [request EXCEPT ![h] = new]
    <3>1. CASE ReturnError(h)
      BY <3>1, <1>5
    <3>2. CASE /\ request' = [request EXCEPT ![h].written[request[h].file] = writes']
               /\ Goto(h, "rename")
      BY <3>2, <1>1, <1>4, <2>1, RequestFields DEF Label
    <3>q. QED
      BY <3>1, <3>2, <1>7 DEF WriteTemp
  <2>3. corrupt' \subseteq 1..writes'
    BY <1>7, <2>1 DEF WriteTemp, StoreInvariant, StoreTypeOK
  <2>4. current' \in [Env -> [File -> 0..writes']] /\ saves' \subseteq [File -> 1..writes']
    BY <1>7, <2>1 DEF WriteTemp, StoreInvariant, StoreTypeOK
  <2>q. QED
    BY <2>1, <2>2, <2>3, <2>4, <1>7 DEF WriteTemp, StoreInvariant, StoreTypeOK
<1>8. CASE Rename(h)
  <2> DEFINE v == r.written[r.file]
  <2>1. pc[h] = "rename" /\ Replace(h) /\ Renamed(h) /\ r.env \in Env
    BY <1>8 DEF Rename, StoreInvariant, RequestSound
  <2>2. v \in 1..writes /\ v \in Version /\ r.written \in View /\ \A f \in File : r.written[f] <= writes
    <3>1. r.written \in View /\ \A f \in File : r.written[f] <= writes
      BY <1>1 DEF StoreInvariant, WrittenOnce, Request
    <3>2. v # 0
      BY <2>1 DEF StoreInvariant, WriterSound, NoVersion
    <3>3. v \in 0..MaxWrites /\ writes \in 0..MaxWrites
      BY <1>1, <3>1 DEF View, StoreInvariant, StoreTypeOK
    <3>q. QED
      BY <1>1, <3>1, <3>2, <3>3, EnvironmentStoreAssumption DEF Version
  <2>3. current' \in [Env -> [File -> 0..writes]]
    BY <1>1, <2>1, <2>2 DEF Replace, StoreInvariant, StoreTypeOK
  <2>4. renames' \in Nat /\ renamedAt' \in [Version -> 0..renames']
    BY <2>1, <2>2 DEF Replace, StoreInvariant, StoreTypeOK
  <2>5. saves' \subseteq [File -> 1..writes]
    <3>1. CASE NoVersion \in {r.written[f] : f \in File}
      BY <2>1, <3>1 DEF Replace, StoreInvariant, StoreTypeOK
    <3>2. CASE NoVersion \notin {r.written[f] : f \in File}
      <4>1. \A f \in File : r.written[f] \in 1..writes
        BY <2>2, <3>2 DEF View, NoVersion, StoreInvariant, StoreTypeOK
      <4>2. r.written \in [File -> 1..writes]
        BY <2>2, <4>1 DEF View
      <4>q. QED
        BY <2>1, <3>2, <4>2 DEF Replace, StoreInvariant, StoreTypeOK
    <3>q. QED
      BY <3>1, <3>2
  <2>6. pc' \in [Handler -> Label] /\ \E new \in Request : request' = [request EXCEPT ![h] = new]
    BY <1>1, <1>3, <1>4, <2>1, RequestFields DEF Renamed, Label, File
  <2>q. QED
    BY <2>1, <2>3, <2>4, <2>5, <2>6 DEF Replace, StoreInvariant, StoreTypeOK
<1>9. ASSUME UNCHANGED disk,
             \/ \E label \in Label : Goto(h, label) /\ UNCHANGED request
             \/ ReturnError(h)
             \/ \E label \in Label, view \in View : r.env \in Env /\ Goto(h, label) /\ See(h, view)
             \/ \E label \in Label, names \in SUBSET Env :
                    Goto(h, label) /\ request' = [request EXCEPT ![h].todo = names]
             \/ \E label \in Label, e \in Env :
                    Goto(h, label) /\ request' = [request EXCEPT ![h].env = e, ![h].todo = @ \ {e}]
      PROVE  StoreTypeOK'
  <2>1. \A view \in View : See(h, view) /\ r.env \in Env =>
            \E new \in Request : request' = [request EXCEPT ![h] = new]
    BY <1>1, RequestFields DEF See
  <2>2. \A names \in SUBSET Env : request' = [request EXCEPT ![h].todo = names] =>
            \E new \in Request : request' = [request EXCEPT ![h] = new]
    BY <1>1, RequestFields
  <2>3. \A e \in Env : request' = [request EXCEPT ![h].env = e, ![h].todo = @ \ {e}] =>
            \E new \in Request : request' = [request EXCEPT ![h] = new]
    <3> SUFFICES ASSUME NEW e \in Env, request' = [request EXCEPT ![h].env = e, ![h].todo = @ \ {e}]
                 PROVE  \E new \in Request : request' = [request EXCEPT ![h] = new]
      OBVIOUS
    <3>1. request' = [request EXCEPT ![h] = [r EXCEPT !.env = e, !.todo = @ \ {e}]]
      BY <1>1 DEF StoreInvariant, StoreTypeOK
    <3>q. QED
      BY <1>1, <3>1, RequestFields
  <2>q. QED
    BY <1>2, <1>3, <1>4, <1>5, <1>9, <2>1, <2>2, <2>3
<1>10. current \in [Env -> View] /\ dirs \in SUBSET Env
  BY EnvironmentStoreAssumption DEF StoreInvariant, StoreTypeOK, View
<1>11. CASE ReadDir(h)
  BY <1>9, <1>10, <1>11 DEF ReadDir, Label
<1>12. CASE ReadMetadata(h)
  <2>1. r.env \in Env /\ current[r.env]["metadata"] \in 0..MaxWrites /\ "metadata" \in File
    BY <1>10, <1>12 DEF ReadMetadata, StoreInvariant, RequestSound, View, File
  <2>2. [NoView EXCEPT !["metadata"] = current[r.env]["metadata"]] \in View
    BY <2>1, ViewTypes
  <2>q. QED
    BY <1>9, <1>12, <2>1, <2>2 DEF ReadMetadata, Label, Answer
<1>13. CASE ReadDockerfile(h)
  <2>1. r.env \in Env /\ current[r.env]["dockerfile"] \in 0..MaxWrites /\ "dockerfile" \in File
    BY <1>10, <1>13 DEF ReadDockerfile, StoreInvariant, RequestSound, View, File
  <2>2. r.seen[r.env] \in View
    BY <1>1, <2>1 DEF Request
  <2>3. [r.seen[r.env] EXCEPT !["dockerfile"] = current[r.env]["dockerfile"]] \in View
    BY <2>1, <2>2, ViewTypes
  <2>q. QED
    BY <1>9, <1>13, <2>1, <2>3 DEF ReadDockerfile, Label
<1>14. CASE NextOrView(h)
  <2>1. r.todo \subseteq Env
    BY <1>1 DEF Request
  <2>q. QED
    BY <1>9, <1>14, <2>1 DEF NextOrView, Label, Answer
<1>15. CASE ReadFile(h)
  <2>1. r.env \in Env /\ current[r.env][r.file] \in 0..MaxWrites
    BY <1>1, <1>10, <1>15 DEF ReadFile, StoreInvariant, RequestSound, View
  <2>2. [NoView EXCEPT ![r.file] = current[r.env][r.file]] \in View
    BY <1>1, <2>1, ViewTypes
  <2>q. QED
    BY <1>9, <1>15, <2>1, <2>2 DEF ReadFile, Label, Answer
<1>q. QED
  BY <1>6, <1>7, <1>8, <1>11, <1>12, <1>13, <1>14, <1>15 DEF Step

\* So does an error that is returned, or a crash.
LEMMA ErrorTypes ==
    ASSUME StoreTypeOK, UNCHANGED disk,
           StoreCrash \/ \E h \in Handler : Fail(h)
    PROVE  StoreTypeOK'
BY NewRequestTypes DEF StoreTypeOK, StoreCrash, Fail, ReturnError, Goto, Label, disk

-----------------------------------------------------------------------------
(***************************************************************************)
(* What a step of one handler leaves to the others.                        *)
(***************************************************************************)

\* Directories and files only come, a file is replaced by a later one, and a
\* pair that is new was not all in place before.
DiskGrows ==
    /\ dirs \subseteq dirs'
    /\ \A v \in Version : renamedAt[v] # 0 => renamedAt'[v] = renamedAt[v]
    /\ \A e \in Env, f \in File : Place(current[e][f]) <= Place(current[e][f])'
    /\ LoadableEnvs \subseteq LoadableEnvs'
    /\ \A save \in saves' \ saves : renamedAt[save["metadata"]] = 0 /\ save["metadata"] \in Version

\* A handler is where it was, and what it wrote is as it was.
Untouched(g) ==
    /\ pc'[g] = pc[g] /\ request'[g] = request[g]
    /\ \A f \in File : request[g].written[f] # NoVersion =>
           renamedAt'[request[g].written[f]] = renamedAt[request[g].written[f]]

\* Numbers and names of a request, for the provers.
LEMMA RequestParts ==
    ASSUME StoreInvariant, NEW g \in Handler
    PROVE  /\ request[g].file \in File /\ request[g].op \in Op /\ request[g].began \subseteq Env
           /\ request[g].todo \subseteq Env
           /\ \A f \in File : request[g].written[f] \in 0..writes
           /\ \A f \in File : request[g].written[f] # NoVersion => request[g].written[f] \in Version
           /\ \A e \in Env, f \in File : request[g].seen[e][f] \in 0..MaxWrites
           /\ \A e \in Env, f \in File : request[g].seen[e][f] # NoVersion => request[g].seen[e][f] \in Version
<1>1. request[g] \in Request
  BY DEF StoreInvariant, StoreTypeOK
<1>2. \A f \in File : request[g].written[f] \in 0..MaxWrites /\ request[g].written[f] <= writes
  BY <1>1 DEF StoreInvariant, WrittenOnce, Request, View
<1>3. writes \in Nat /\ MaxWrites \in Nat
  BY EnvironmentStoreAssumption DEF StoreInvariant, StoreTypeOK
<1>4. \A f \in File : request[g].written[f] \in 0..writes
  BY <1>2, <1>3
<1>5. \A f \in File : request[g].written[f] # NoVersion => request[g].written[f] \in Version
  BY <1>2, <1>3 DEF NoVersion, Version
<1>6. \A e \in Env, f \in File : request[g].seen[e][f] \in 0..MaxWrites
  BY <1>1 DEF Request, View
<1>7. \A e \in Env, f \in File : request[g].seen[e][f] # NoVersion => request[g].seen[e][f] \in Version
  BY <1>3, <1>6 DEF NoVersion, Version
<1>q. QED
  BY <1>1, <1>4, <1>5, <1>6, <1>7 DEF Request

\* Numbers of the disk, for the provers.
LEMMA DiskParts ==
    ASSUME StoreInvariant
    PROVE  /\ writes \in Nat /\ MaxWrites \in Nat /\ renames \in Nat
           /\ \A v \in Version : renamedAt[v] \in Nat /\ renamedAt[v] <= renames
           /\ \A e \in Env, f \in File : current[e][f] \in 0..MaxWrites
           /\ \A e \in Env, f \in File : current[e][f] # NoVersion => current[e][f] \in Version
           /\ \A v \in 0..MaxWrites : Place(v) \in Nat /\ Place(v) <= renames
           /\ \A save \in saves, f \in File : save[f] \in Version
<1>1. writes \in Nat /\ writes <= MaxWrites /\ MaxWrites \in Nat /\ renames \in Nat
  BY EnvironmentStoreAssumption DEF StoreInvariant, StoreTypeOK
<1>2. \A v \in Version : renamedAt[v] \in Nat /\ renamedAt[v] <= renames
  BY DEF StoreInvariant, StoreTypeOK
<1>3. \A e \in Env, f \in File : current[e][f] \in 0..MaxWrites
  BY <1>1 DEF StoreInvariant, StoreTypeOK
<1>4. \A v \in 0..MaxWrites : v # NoVersion => v \in Version
  BY <1>1 DEF NoVersion, Version
<1>5. \A v \in 0..MaxWrites : Place(v) \in Nat /\ Place(v) <= renames
  BY <1>1, <1>2, <1>4 DEF Place
<1>6. \A save \in saves, f \in File : save[f] \in Version
  BY <1>1 DEF StoreInvariant, StoreTypeOK, Version
<1>q. QED
  BY <1>1, <1>2, <1>3, <1>4, <1>5, <1>6

\* What a handler keeps true survives a step that does not touch it.
LEMMA Frame ==
    ASSUME StoreInvariant, DiskGrows, StoreTypeOK', NEW g \in Handler, Untouched(g)
    PROVE  HandlerSound(g)'
<1> DEFINE r == request[g]
<1>1. request'[g] = r /\ pc'[g] = pc[g]
  BY DEF Untouched
<1>2. RequestSound(g)'
  BY <1>1 DEF StoreInvariant, RequestSound
<1>3. WriterSound(g)'
  <2>1. WriterSound(g)
    BY DEF StoreInvariant
  <2>2. ASSUME NEW f \in File, r.written[f] # NoVersion, ~(pc[g] = "rename" /\ f = r.file)
        PROVE  /\ renamedAt'[r.written[f]] # 0
               /\ renamedAt'[r.written[f]] <= Place(current[r.env][f])'
    <3>1. renamedAt[r.written[f]] # 0 /\ renamedAt[r.written[f]] <= Place(current[r.env][f])
      BY <2>1, <2>2 DEF WriterSound
    <3>2. renamedAt'[r.written[f]] = renamedAt[r.written[f]]
      BY <2>2 DEF Untouched
    <3>3. r.op \in {"upsert", "put"}
      BY <2>1, <2>2, ViewTypes DEF WriterSound, NoVersion
    <3>4. PICK e \in Env : e = r.env
      BY <3>3 DEF StoreInvariant, RequestSound
    <3>5. Place(current[e][f]) <= Place(current[e][f])'
      BY DEF DiskGrows
    <3>6. /\ renamedAt[r.written[f]] \in Nat
          /\ Place(current[e][f]) \in Nat
      BY <2>2, RequestParts, DiskParts
    <3>7. Place(current[e][f])' \in Nat
      BY EnvironmentStoreAssumption DEF StoreTypeOK, Place, Version, NoVersion
    <3>8. renamedAt'[r.written[f]] <= Place(current[e][f])'
      BY <3>1, <3>2, <3>4, <3>5, <3>6, <3>7
    <3>q. QED
      BY <1>1, <3>1, <3>2, <3>4, <3>8
  <2>3. pc[g] = "rename" => r.written[r.file] # NoVersion /\ renamedAt'[r.written[r.file]] = 0
    BY <2>1, RequestParts DEF WriterSound, Untouched
  <2>4. pc[g] \in {"write", "rename"} => r.env \in dirs'
    BY <2>1 DEF WriterSound, DiskGrows
  <2>q. QED
    BY <1>1, <2>1, <2>2, <2>3, <2>4 DEF WriterSound
<1>4. ReaderSound(g)'
  <2>1. ReaderSound(g)
    BY DEF StoreInvariant
  <2>2. \A e \in Env, f \in File : r.seen[e][f] # NoVersion =>
            renamedAt[r.seen[e][f]] # 0 /\ renamedAt'[r.seen[e][f]] = renamedAt[r.seen[e][f]]
    BY <2>1, RequestParts DEF ReaderSound, DiskGrows
  <2>3. \A e \in Env, f \in File : Place(r.seen[e][f])' = Place(r.seen[e][f])
    BY <1>1, <2>2 DEF Place
  <2>4. ASSUME r.op \in {"upsert", "put"}, NEW f \in File, r.written[f] # NoVersion,
               pc[g] \in {"next", "ok"} \/ (pc[g] = "dockerfile" /\ f = "metadata")
        PROVE  renamedAt'[r.written[f]] <= Place(r.seen[r.env][f])'
    <3>1. PICK e \in Env : e = r.env
      BY <2>4 DEF StoreInvariant, RequestSound
    <3>2. renamedAt'[r.written[f]] = renamedAt[r.written[f]]
      BY <2>4 DEF Untouched
    <3>3. renamedAt[r.written[f]] <= Place(r.seen[e][f])
      BY <2>1, <2>4, <3>1 DEF ReaderSound
    <3>4. renamedAt'[r.written[f]] <= Place(r.seen[e][f])'
      BY <2>3, <3>2, <3>3
    <3>q. QED
      BY <1>1, <3>1, <3>4
  <2>5. ASSUME r.op \in {"upsert", "get", "list"}, NEW e \in Env, NEW save \in saves',
               r.seen[e]["metadata"] = save["metadata"]
        PROVE  renamedAt'[save["dockerfile"]] <=
                   IF pc[g] = "dockerfile" /\ e = r.env THEN Place(current[e]["dockerfile"])'
                   ELSE Place(r.seen[e]["dockerfile"])'
    <3>1. save \in saves
      <4>1. CASE save \in saves
        BY <4>1
      <4>2. CASE save \notin saves
        <5>1. renamedAt[save["metadata"]] = 0 /\ save["metadata"] \in Version
          BY <4>2, <2>5 DEF DiskGrows
        <5>2. r.seen[e]["metadata"] # NoVersion
          BY <5>1, <2>5, EnvironmentStoreAssumption DEF Version, NoVersion
        <5>q. QED
          BY <2>2, <2>5, <5>1, <5>2 DEF File
      <4>q. QED
        BY <4>1, <4>2
    <3>2. save["dockerfile"] \in Version /\ renamedAt[save["dockerfile"]] # 0
      BY <3>1, DiskParts DEF StoreInvariant, SavesSound, File
    <3>3. renamedAt'[save["dockerfile"]] = renamedAt[save["dockerfile"]]
      BY <3>2 DEF DiskGrows
    <3>4. CASE pc[g] = "dockerfile" /\ e = r.env
      <4>1. renamedAt[save["dockerfile"]] <= Place(current[e]["dockerfile"])
        BY <2>1, <2>5, <3>1, <3>4 DEF ReaderSound
      <4>2. Place(current[e]["dockerfile"]) <= Place(current[e]["dockerfile"])'
        BY DEF DiskGrows, File
      <4>3. renamedAt[save["dockerfile"]] \in Nat /\ Place(current[e]["dockerfile"]) \in Nat
        BY <3>2, DiskParts DEF File
      <4>4. Place(current[e]["dockerfile"])' \in Nat
        BY EnvironmentStoreAssumption DEF StoreTypeOK, Place, Version, NoVersion, File
      <4>q. QED
        BY <3>3, <3>4, <4>1, <4>2, <4>3, <4>4
    <3>5. CASE ~(pc[g] = "dockerfile" /\ e = r.env)
      BY <2>1, <2>3, <2>5, <3>1, <3>3, <3>5 DEF ReaderSound, File
    <3>q. QED
      BY <3>4, <3>5
  <2>q. QED
    BY <1>1, <2>2, <2>4, <2>5 DEF ReaderSound
<1>5. FinderSound(g)'
  <2>1. FinderSound(g) /\ r.began \subseteq Env
    BY RequestParts DEF StoreInvariant
  <2>2. \A e \in r.began : Loadable(e)'
    BY <2>1 DEF FinderSound, DiskGrows, LoadableEnvs
  <2>q. QED
    BY <1>1, <2>1, <2>2 DEF FinderSound
<1>q. QED
  BY <1>2, <1>3, <1>4, <1>5 DEF HandlerSound

\* A handler that has a new request, or none, knows nothing yet.
LEMMA Fresh ==
    ASSUME StoreTypeOK', NEW h \in Handler, RequestSound(h)',
           request'[h].written = NoView, request'[h].seen = [e \in Env |-> NoView],
           pc'[h] \in {"idle", "mkdir", "readdir", "metadata", "file"},
           request'[h].op = "list" => pc'[h] \in {"idle", "readdir"},
           \A e \in request'[h].began : Loadable(e)'
    PROVE  HandlerSound(h)'
<1>1. \A f \in File : NoView[f] = NoVersion
  BY DEF NoView
<1>2. \A e \in Env, f \in File : request'[h].seen[e][f] = NoVersion
  BY <1>1
<1>3. \A save \in saves' : save["metadata"] # NoVersion
  BY DEF StoreTypeOK, File, NoVersion
<1>4. WriterSound(h)'
  BY <1>1 DEF WriterSound
<1>5. ReaderSound(h)'
  BY <1>1, <1>2, <1>3 DEF ReaderSound, File
<1>6. FinderSound(h)'
  BY DEF FinderSound
<1>q. QED
  BY <1>4, <1>5, <1>6 DEF HandlerSound

\* An idle handler is sound.
LEMMA Idle ==
    ASSUME StoreTypeOK', NEW h \in Handler, pc'[h] = "idle", request'[h] = NoRequest
    PROVE  HandlerSound(h)'
<1>1. /\ request'[h].op = "list" /\ request'[h].todo = {} /\ request'[h].began = {}
      /\ request'[h].written = NoView /\ request'[h].seen = [e \in Env |-> NoView]
  BY DEF NoRequest, NewRequest
<1>2. RequestSound(h)'
  BY <1>1 DEF RequestSound
<1>q. QED
  BY <1>1, <1>2, Fresh

\* The parts of a step: what it does to the disk, and to its own handler.
LEMMA Combine ==
    ASSUME StoreInvariant, StoreTypeOK', DiskGrows, NEW h \in Handler,
           \A g \in Handler \ {h} : Untouched(g),
           HandlerSound(h)', WrittenOnce', FilesSound', SavesSound'
    PROVE  StoreInvariant'
<1>1. ASSUME NEW g \in Handler PROVE HandlerSound(g)'
  <2>1. CASE g = h
    BY <2>1
  <2>2. CASE g # h
    BY <2>2, Frame
  <2>q. QED
    BY <2>1, <2>2
<1>q. QED
  BY <1>1 DEF StoreInvariant, HandlerSound

\* A step that leaves the disk alone.
LEMMA ReadOnly ==
    ASSUME StoreInvariant, StoreTypeOK', UNCHANGED disk, NEW h \in Handler,
           \A g \in Handler \ {h} : pc'[g] = pc[g] /\ request'[g] = request[g],
           request'[h].written \in {request[h].written, NoView},
           HandlerSound(h)'
    PROVE  StoreInvariant'
<1>1. DiskGrows
  <2>1. \A e \in Env, f \in File : Place(current[e][f]) \in Nat
    BY DiskParts
  <2>2. \A e \in Env, f \in File : Place(current[e][f])' = Place(current[e][f])
    BY DEF disk, Place
  <2>3. LoadableEnvs' = LoadableEnvs
    BY DEF disk, LoadableEnvs, Loadable
  <2>q. QED
    BY <2>1, <2>2, <2>3 DEF DiskGrows, disk
<1>2. \A g \in Handler \ {h} : Untouched(g)
  BY DEF Untouched, disk
<1>3. WrittenOnce'
  <2>1. \A g \in Handler, f \in File : request'[g].written[f] \in {request[g].written[f], NoVersion}
    BY DEF NoView
  <2>2. NoVersion <= writes /\ NoVersion \notin corrupt
    BY DiskParts DEF StoreInvariant, StoreTypeOK, NoVersion
  <2>q. QED
    BY <2>1, <2>2 DEF StoreInvariant, WrittenOnce, disk
<1>4. FilesSound' /\ SavesSound'
  BY DEF StoreInvariant, FilesSound, SavesSound, Place, disk
<1>q. QED
  BY <1>1, <1>2, <1>3, <1>4, Combine

-----------------------------------------------------------------------------
(***************************************************************************)
(* Every step keeps the inductive invariant.                               *)
(***************************************************************************)

\* The type of the handlers' variables, for the provers.
LEMMA Moves ==
    ASSUME StoreInvariant, NEW h \in Handler, NEW label, NEW new
    PROVE  /\ Goto(h, label) =>
                  pc'[h] = label /\ \A g \in Handler \ {h} : pc'[g] = pc[g]
           /\ request' = [request EXCEPT ![h] = new] =>
                  request'[h] = new /\ \A g \in Handler \ {h} : request'[g] = request[g]
BY DEF StoreInvariant, StoreTypeOK, Goto

\* An error leaves the handler idle.
LEMMA ErrorMoves ==
    ASSUME StoreInvariant, NEW h \in Handler, ReturnError(h)
    PROVE  /\ pc'[h] = "idle" /\ request'[h] = NoRequest
           /\ \A g \in Handler \ {h} : pc'[g] = pc[g] /\ request'[g] = request[g]
           /\ NoRequest.written = NoView
BY DEF StoreInvariant, StoreTypeOK, Goto, ReturnError, NoRequest, NewRequest

\* A step that ends in an error and leaves the disk alone.
LEMMA ErrorKeeps ==
    ASSUME StoreInvariant, StoreTypeOK', UNCHANGED disk, NEW h \in Handler, ReturnError(h)
    PROVE  StoreInvariant'
BY ErrorMoves, Idle, ReadOnly

\* The start of a request keeps the invariant: it has read and written nothing.
LEMMA StartKeeps ==
    ASSUME StoreInvariant, NEW h \in Handler, Started(h)
    PROVE  StoreInvariant'
<1>1. StoreTypeOK'
  BY BeginTypes DEF StoreInvariant
<1>2. \A e \in LoadableEnvs : Loadable(e)
  BY DEF LoadableEnvs
<1>3. PICK label, new : /\ Begin(h, label, new) /\ new.written = NoView
                        /\ new.seen = [e \in Env |-> NoView] /\ new.todo = {}
                        /\ \A e \in new.began : Loadable(e)
                        /\ \/ label = "mkdir" /\ new.op \in {"upsert", "put"} /\ new.env \in Env
                           \/ label = "metadata" /\ new.op = "get" /\ new.env \in Env
                           \/ label = "file" /\ new.op = "read" /\ new.env \in Env
                           \/ label = "readdir" /\ new.op = "list"
  <2>1. CASE Upsert(h)
    BY <2>1 DEF Upsert, NewRequest
  <2>2. CASE PutFile(h)
    BY <2>2 DEF PutFile, NewRequest
  <2>3. CASE Get(h)
    BY <2>3, <1>2 DEF Get, NewRequest
  <2>4. CASE GetFile(h)
    BY <2>4, <1>2 DEF GetFile, NewRequest
  <2>5. CASE List(h)
    BY <2>5, <1>2 DEF List, NewRequest
  <2>q. QED
    BY <2>1, <2>2, <2>3, <2>4, <2>5 DEF Started
<1>4. /\ pc'[h] = label /\ request'[h] = new /\ UNCHANGED disk
      /\ \A g \in Handler \ {h} : pc'[g] = pc[g] /\ request'[g] = request[g]
  BY <1>3, Moves DEF Begin
<1>5. RequestSound(h)'
  BY <1>3, <1>4 DEF RequestSound
<1>6. \A e \in request'[h].began : Loadable(e)'
  BY <1>3, <1>4 DEF Loadable, disk
<1>7. HandlerSound(h)'
  BY <1>1, <1>3, <1>4, <1>5, <1>6, Fresh
<1>q. QED
  BY <1>1, <1>3, <1>4, <1>7, ReadOnly

\* So does a crash, which leaves the disk and what was answered.
LEMMA CrashKeeps ==
    ASSUME StoreInvariant, StoreCrash
    PROVE  StoreInvariant'
<1>1. StoreTypeOK'
  BY ErrorTypes DEF StoreInvariant, StoreCrash
<1>2. \A h \in Handler : pc'[h] = "idle" /\ request'[h] = NoRequest
  BY DEF StoreCrash
<1>3. \A h \in Handler : HandlerSound(h)'
  BY <1>1, <1>2, Idle
<1>4. WrittenOnce'
  <2>1. NoVersion <= writes /\ NoVersion \notin corrupt
    BY DiskParts DEF StoreInvariant, StoreTypeOK, NoVersion
  <2>q. QED
    BY <1>2, <2>1 DEF StoreInvariant, WrittenOnce, NoRequest, NewRequest, NoView, StoreCrash, disk
<1>5. FilesSound' /\ SavesSound'
  BY DEF StoreInvariant, StoreCrash, FilesSound, SavesSound, Place, disk
<1>q. QED
  BY <1>1, <1>3, <1>4, <1>5 DEF StoreInvariant, HandlerSound

\* What a step that reads leaves of the request.
LEMMA SeeMoves ==
    ASSUME StoreInvariant, NEW h \in Handler, NEW view, See(h, view)
    PROVE  /\ request'[h].op = request[h].op /\ request'[h].env = request[h].env
           /\ request'[h].file = request[h].file /\ request'[h].written = request[h].written
           /\ request'[h].todo = request[h].todo /\ request'[h].began = request[h].began
           /\ request[h].env \in Env => request'[h].seen[request[h].env] = view
           /\ \A e \in Env \ {request[h].env} : request'[h].seen[e] = request[h].seen[e]
           /\ \A g \in Handler \ {h} : request'[g] = request[g]
<1>1. request[h] \in Request /\ request \in [Handler -> Request]
  BY DEF StoreInvariant, StoreTypeOK
<1>2. request[h].seen \in [Env -> View]
  BY <1>1 DEF Request
<1>3. request' = [request EXCEPT ![h] = [request[h] EXCEPT !.seen = [request[h].seen EXCEPT ![request[h].env] = view]]]
  BY <1>1 DEF See
<1>q. QED
  BY <1>1, <1>2, <1>3 DEF Request

\* So does listing the directory: what was loadable before is among what it finds.
LEMMA ReadDirKeeps ==
    ASSUME StoreInvariant, NEW h \in Handler, ReadDir(h)
    PROVE  StoreInvariant'
<1> DEFINE r == request[h]
<1>1. StoreTypeOK' /\ UNCHANGED disk
  BY StepTypes DEF Step, ReadDir
<1>2. /\ pc[h] = "readdir" /\ pc'[h] = "next"
      /\ \A g \in Handler \ {h} : pc'[g] = pc[g] /\ request'[g] = request[g]
  BY Moves DEF ReadDir
<1>3. /\ request'[h].op = r.op /\ request'[h].env = r.env /\ request'[h].file = r.file
      /\ request'[h].written = r.written /\ request'[h].seen = r.seen /\ request'[h].began = r.began
      /\ request'[h].todo = dirs
  BY DEF ReadDir, StoreInvariant, StoreTypeOK, Request
<1>4. RequestSound(h) /\ WriterSound(h) /\ ReaderSound(h) /\ FinderSound(h)
  BY DEF StoreInvariant
<1>5. r.op = "list"
  BY <1>2, <1>4 DEF RequestSound
<1>6. RequestSound(h)' /\ WriterSound(h)'
  BY <1>1, <1>2, <1>3, <1>4, <1>5, ViewTypes DEF RequestSound, WriterSound, NoVersion
<1>7. ReaderSound(h)'
  BY <1>1, <1>2, <1>3, <1>4, <1>5 DEF ReaderSound, Place, disk
<1>8. \A e \in r.began : Loadable(e)' /\ e \in dirs
  BY <1>1, <1>4, RequestParts DEF FinderSound, StoreInvariant, FilesSound, Loadable, File, disk
<1>9. FinderSound(h)'
  BY <1>2, <1>3, <1>8 DEF FinderSound
<1>q. QED
  BY <1>1, <1>2, <1>3, <1>6, <1>7, <1>9, ReadOnly DEF HandlerSound

\* So does reading the Dockerfile, which is no older than the metadata read before it.
LEMMA ReadDockerfileKeeps ==
    ASSUME StoreInvariant, NEW h \in Handler, ReadDockerfile(h)
    PROVE  StoreInvariant'
<1> DEFINE r == request[h]
<1>1. StoreTypeOK' /\ UNCHANGED disk
  BY StepTypes DEF Step, ReadDockerfile
<1>2. /\ pc[h] = "dockerfile" /\ pc'[h] = "next"
      /\ \A g \in Handler \ {h} : pc'[g] = pc[g]
  BY Moves DEF ReadDockerfile
<1>3. RequestSound(h) /\ WriterSound(h) /\ ReaderSound(h) /\ FinderSound(h)
  BY DEF StoreInvariant
<1>4. PICK x \in Env : x = r.env
  BY <1>2, <1>3 DEF RequestSound
<1>5. r.seen[x] \in View
  BY DEF StoreInvariant, StoreTypeOK, Request
<1>6. PICK view : /\ See(h, view) /\ view["metadata"] = r.seen[x]["metadata"]
                  /\ view["dockerfile"] = current[x]["dockerfile"]
  BY <1>4, <1>5 DEF ReadDockerfile, View, File
<1>7. /\ request'[h].op = r.op /\ request'[h].env = x /\ request'[h].file = r.file
      /\ request'[h].written = r.written /\ request'[h].began = r.began /\ request'[h].todo = r.todo
      /\ request'[h].seen[x] = view
      /\ \A e \in Env \ {x} : request'[h].seen[e] = r.seen[e]
      /\ \A g \in Handler \ {h} : request'[g] = request[g]
  BY <1>4, <1>6, SeeMoves
<1>8. \A e \in Env : request'[h].seen[e]["metadata"] = r.seen[e]["metadata"]
  BY <1>6, <1>7
<1>9. RequestSound(h)' /\ WriterSound(h)'
  BY <1>1, <1>2, <1>3, <1>4, <1>7, ViewTypes DEF RequestSound, WriterSound, NoVersion, Place, disk
<1>10. ReaderSound(h)'
  <2>1. \A e \in Env, f \in File : request'[h].seen[e][f] # NoVersion => renamedAt[request'[h].seen[e][f]] # 0
    BY <1>3, <1>6, <1>7 DEF ReaderSound, StoreInvariant, FilesSound, File
  <2>2. ASSUME r.op \in {"upsert", "put"}, NEW f \in File, r.written[f] # NoVersion
        PROVE  renamedAt[r.written[f]] <= Place(view[f])
    <3>1. CASE f = "metadata"
      BY <1>2, <1>3, <1>4, <1>6, <2>2, <3>1 DEF ReaderSound
    <3>2. CASE f = "dockerfile"
      BY <1>2, <1>3, <1>4, <1>6, <2>2, <3>2 DEF WriterSound
    <3>q. QED
      BY <3>1, <3>2 DEF File
  <2>3. ASSUME r.op \in {"upsert", "get", "list"}, NEW e \in Env, NEW save \in saves,
               request'[h].seen[e]["metadata"] = save["metadata"]
        PROVE  renamedAt[save["dockerfile"]] <= Place(request'[h].seen[e]["dockerfile"])
    <3>1. r.seen[e]["metadata"] = save["metadata"]
      BY <1>8, <2>3
    <3>q. QED
      BY <1>2, <1>3, <1>4, <1>6, <1>7, <2>3, <3>1 DEF ReaderSound
  <2>q. QED
    BY <1>1, <1>2, <1>7, <2>1, <2>2, <2>3 DEF ReaderSound, Place, disk
<1>11. FinderSound(h)'
  <2>1. r.began \subseteq Env
    BY RequestParts
  <2>q. QED
    BY <1>1, <1>2, <1>3, <1>7, <1>8, <2>1 DEF FinderSound, Loadable, disk
<1>q. QED
  BY <1>1, <1>2, <1>7, <1>9, <1>10, <1>11, ReadOnly DEF HandlerSound

\* A step that only moves on, from one reading step to an answer.
LEMMA MoveKeeps ==
    ASSUME StoreInvariant, StoreTypeOK', UNCHANGED <<disk, request>>, NEW h \in Handler,
           \/ pc[h] = "next" /\ Goto(h, "ok") /\ request[h].todo = {}
           \/ /\ pc[h] \in {"metadata", "file"} /\ Goto(h, "notfound") /\ request[h].op # "list"
              /\ request[h].file = "metadata" => request[h].env \notin request[h].began
    PROVE  StoreInvariant'
<1>1. /\ pc'[h] \in {"ok", "notfound"} /\ (pc'[h] = "ok" <=> pc[h] = "next")
      /\ \A g \in Handler \ {h} : pc'[g] = pc[g] /\ request'[g] = request[g]
  BY DEF Goto, StoreInvariant, StoreTypeOK
<1>2. RequestSound(h) /\ WriterSound(h) /\ ReaderSound(h) /\ FinderSound(h)
  BY DEF StoreInvariant
<1>3. RequestSound(h)'
  BY <1>1, <1>2 DEF RequestSound
<1>4. WriterSound(h)'
  <2>1. pc[h] \in {"next", "metadata", "file"} /\ pc'[h] \in {"ok", "notfound"}
    BY <1>1 DEF Goto
  <2>q. QED
    BY <1>2, <2>1 DEF WriterSound, Place, disk
<1>5. ReaderSound(h)'
  BY <1>1, <1>2 DEF ReaderSound, Place, disk
<1>6. FinderSound(h)'
  BY <1>1, <1>2 DEF FinderSound, Loadable, disk
<1>q. QED
  BY <1>1, <1>3, <1>4, <1>5, <1>6, ReadOnly DEF HandlerSound

\* So does going on to the next environment of a list, or answering.
LEMMA NextOrViewKeeps ==
    ASSUME StoreInvariant, NEW h \in Handler, NextOrView(h)
    PROVE  StoreInvariant'
<1> DEFINE r == request[h]
<1>1. StoreTypeOK' /\ UNCHANGED disk /\ pc[h] = "next"
  BY StepTypes DEF Step, NextOrView
<1>2. RequestSound(h) /\ WriterSound(h) /\ ReaderSound(h) /\ FinderSound(h)
  BY DEF StoreInvariant
<1>3. ASSUME NEW x \in r.todo, request' = [request EXCEPT ![h].env = x, ![h].todo = @ \ {x}],
             Goto(h, "metadata")
      PROVE  StoreInvariant'
  <2>1. pc'[h] = "metadata" /\ \A g \in Handler \ {h} : pc'[g] = pc[g]
    BY <1>3, Moves
  <2>2. /\ request'[h].op = r.op /\ request'[h].env = x /\ request'[h].file = r.file
        /\ request'[h].written = r.written /\ request'[h].seen = r.seen
        /\ request'[h].began = r.began /\ request'[h].todo = r.todo \ {x}
        /\ \A g \in Handler \ {h} : request'[g] = request[g]
    BY <1>3 DEF StoreInvariant, StoreTypeOK, Request
  <2>3. r.op = "list" /\ x \in Env
    BY <1>2, <1>3, RequestParts DEF RequestSound
  <2>4. RequestSound(h)' /\ WriterSound(h)'
    BY <1>2, <2>1, <2>2, <2>3, ViewTypes DEF RequestSound, WriterSound, NoVersion
  <2>5. ReaderSound(h)'
    BY <1>1, <1>2, <2>1, <2>2, <2>3 DEF ReaderSound, Place, disk
  <2>6. FinderSound(h)'
    BY <1>1, <1>2, <2>1, <2>2, <2>3 DEF FinderSound, Loadable, disk
  <2>q. QED
    BY <1>1, <2>1, <2>2, <2>4, <2>5, <2>6, ReadOnly DEF HandlerSound
<1>q. QED
  BY <1>1, <1>3, MoveKeeps DEF NextOrView

\* So does reading environment.yml, or finding that it is missing or cannot be loaded.
LEMMA ReadMetadataKeeps ==
    ASSUME StoreInvariant, NEW h \in Handler, ReadMetadata(h)
    PROVE  StoreInvariant'
<1> DEFINE r == request[h]
<1>1. StoreTypeOK' /\ UNCHANGED disk /\ pc[h] = "metadata"
  BY StepTypes DEF Step, ReadMetadata
<1>2. RequestSound(h) /\ WriterSound(h) /\ ReaderSound(h) /\ FinderSound(h)
  BY DEF StoreInvariant
<1>3. PICK x \in Env : x = r.env
  BY <1>1, <1>2 DEF RequestSound
<1>4. ASSUME Loadable(x), See(h, [NoView EXCEPT !["metadata"] = current[x]["metadata"]]),
             Goto(h, "dockerfile")
      PROVE  StoreInvariant'
  <2>1. pc'[h] = "dockerfile" /\ \A g \in Handler \ {h} : pc'[g] = pc[g]
    BY <1>4, Moves
  <2>2. PICK view : /\ See(h, view) /\ view["metadata"] = current[x]["metadata"]
                    /\ view["dockerfile"] = NoVersion
    BY <1>4 DEF NoView, File
  <2>3. /\ request'[h].op = r.op /\ request'[h].env = x /\ request'[h].file = r.file
        /\ request'[h].written = r.written /\ request'[h].began = r.began /\ request'[h].todo = r.todo
        /\ request'[h].seen[x] = view
        /\ \A e \in Env \ {x} : request'[h].seen[e] = r.seen[e]
        /\ \A g \in Handler \ {h} : request'[g] = request[g]
    BY <1>3, <2>2, SeeMoves
  <2>4. RequestSound(h)' /\ WriterSound(h)'
    BY <1>1, <1>2, <1>3, <2>1, <2>3, ViewTypes DEF RequestSound, WriterSound, NoVersion, Place, disk
  <2>5. ReaderSound(h)'
    <3>1. \A e \in Env, f \in File : request'[h].seen[e][f] # NoVersion => renamedAt[request'[h].seen[e][f]] # 0
      BY <1>2, <2>2, <2>3 DEF ReaderSound, StoreInvariant, FilesSound, File
    <3>2. r.op \in {"upsert", "put"} /\ r.written["metadata"] # NoVersion =>
              renamedAt[r.written["metadata"]] <= Place(view["metadata"])
      BY <1>1, <1>2, <1>3, <2>2 DEF WriterSound, File
    <3>3. ASSUME r.op \in {"upsert", "get", "list"}, NEW e \in Env, NEW save \in saves,
                 request'[h].seen[e]["metadata"] = save["metadata"]
          PROVE  renamedAt[save["dockerfile"]] <=
                     IF e = x THEN Place(current[e]["dockerfile"])
                     ELSE Place(request'[h].seen[e]["dockerfile"])
      <4>1. CASE e = x
        BY <2>2, <2>3, <3>3, <4>1 DEF StoreInvariant, SavesSound
      <4>2. CASE e # x
        BY <1>1, <1>2, <2>3, <3>3, <4>2 DEF ReaderSound
      <4>q. QED
        BY <4>1, <4>2
    <3>q. QED
      BY <1>1, <2>1, <2>3, <3>1, <3>2, <3>3 DEF ReaderSound, Place, disk
  <2>6. FinderSound(h)'
    <3>1. r.began \subseteq Env /\ view["metadata"] # NoVersion
      BY <1>4, <2>2, RequestParts DEF Loadable
    <3>q. QED
      BY <1>1, <1>2, <1>3, <2>1, <2>3, <3>1 DEF FinderSound, Loadable, disk
  <2>q. QED
    BY <1>1, <2>1, <2>3, <2>4, <2>5, <2>6, ReadOnly DEF HandlerSound
<1>5. ASSUME current[x]["metadata"] = NoVersion, r.op # "list", Goto(h, "notfound"), UNCHANGED request
      PROVE  StoreInvariant'
  <2>1. r.env \notin r.began
    BY <1>2, <1>3, <1>5 DEF FinderSound, Loadable
  <2>q. QED
    BY <1>1, <1>5, <2>1, MoveKeeps
<1>q. QED
  BY <1>1, <1>3, <1>4, <1>5, ErrorKeeps DEF ReadMetadata

\* So does reading one file alone.
LEMMA ReadFileKeeps ==
    ASSUME StoreInvariant, NEW h \in Handler, ReadFile(h)
    PROVE  StoreInvariant'
<1> DEFINE r == request[h]
<1>1. StoreTypeOK' /\ UNCHANGED disk /\ pc[h] = "file"
  BY StepTypes DEF Step, ReadFile
<1>2. RequestSound(h) /\ WriterSound(h) /\ ReaderSound(h) /\ FinderSound(h)
  BY DEF StoreInvariant
<1>3. PICK x \in Env : x = r.env
  BY <1>1, <1>2 DEF RequestSound
<1>4. r.op \in {"put", "read"} /\ r.file \in File
  BY <1>1, <1>2, RequestParts DEF RequestSound
<1>5. ASSUME current[x][r.file] # NoVersion, Goto(h, "ok"),
             See(h, [NoView EXCEPT ![r.file] = current[x][r.file]])
      PROVE  StoreInvariant'
  <2>1. pc'[h] = "ok" /\ \A g \in Handler \ {h} : pc'[g] = pc[g]
    BY <1>5, Moves
  <2>2. PICK view : /\ See(h, view) /\ view[r.file] = current[x][r.file]
                    /\ \A f \in File \ {r.file} : view[f] = NoVersion
    BY <1>4, <1>5 DEF NoView
  <2>3. /\ request'[h].op = r.op /\ request'[h].env = x /\ request'[h].file = r.file
        /\ request'[h].written = r.written /\ request'[h].began = r.began /\ request'[h].todo = r.todo
        /\ request'[h].seen[x] = view
        /\ \A e \in Env \ {x} : request'[h].seen[e] = r.seen[e]
        /\ \A g \in Handler \ {h} : request'[g] = request[g]
    BY <1>3, <2>2, SeeMoves
  <2>4. RequestSound(h)' /\ WriterSound(h)'
    BY <1>1, <1>2, <1>3, <1>4, <2>1, <2>3, ViewTypes DEF RequestSound, WriterSound, NoVersion, Place, disk
  <2>5. ReaderSound(h)'
    <3>1. \A e \in Env, f \in File : request'[h].seen[e][f] # NoVersion => renamedAt[request'[h].seen[e][f]] # 0
      BY <1>2, <1>4, <2>2, <2>3 DEF ReaderSound, StoreInvariant, FilesSound
    <3>2. ASSUME r.op = "put", NEW f \in File, r.written[f] # NoVersion
          PROVE  renamedAt[r.written[f]] <= Place(view[f])
      BY <1>1, <1>2, <1>3, <2>2, <3>2 DEF WriterSound
    <3>q. QED
      BY <1>1, <1>4, <2>1, <2>3, <3>1, <3>2 DEF ReaderSound, Place, disk
  <2>6. FinderSound(h)'
    BY <1>1, <1>2, <1>4, <2>1, <2>3 DEF FinderSound, Loadable, disk
  <2>q. QED
    BY <1>1, <2>1, <2>3, <2>4, <2>5, <2>6, ReadOnly DEF HandlerSound
<1>6. ASSUME NoVersion \in {current[x][r.file], current[x]["metadata"]},
             Goto(h, "notfound"), UNCHANGED request
      PROVE  StoreInvariant'
  <2>1. r.file = "metadata" => r.env \notin r.began
    BY <1>2, <1>3, <1>6 DEF FinderSound, Loadable
  <2>q. QED
    BY <1>1, <1>4, <1>6, <2>1, MoveKeeps
<1>q. QED
  BY <1>1, <1>3, <1>5, <1>6 DEF ReadFile

\* So does the directory made for an environment.
LEMMA MkdirKeeps ==
    ASSUME StoreInvariant, NEW h \in Handler, Mkdir(h)
    PROVE  StoreInvariant'
<1> DEFINE r == request[h]
<1>1. StoreTypeOK' /\ pc[h] = "mkdir" /\ UNCHANGED <<current, writes, corrupt, renames, renamedAt, saves>>
  BY StepTypes DEF Step, Mkdir
<1>2. dirs' = dirs \cup {r.env}
  BY DEF Mkdir
<1>3. RequestSound(h) /\ WriterSound(h) /\ ReaderSound(h) /\ FinderSound(h)
  BY DEF StoreInvariant
<1>4. DiskGrows
  <2>1. \A e \in Env, f \in File : Place(current[e][f]) \in Nat
    BY DiskParts
  <2>2. \A e \in Env, f \in File : Place(current[e][f])' = Place(current[e][f])
    BY <1>1 DEF Place
  <2>3. LoadableEnvs' = LoadableEnvs
    BY <1>1 DEF LoadableEnvs, Loadable
  <2>q. QED
    BY <1>1, <1>2, <2>1, <2>2, <2>3 DEF DiskGrows
<1>5. FilesSound' /\ SavesSound'
  BY <1>1, <1>2 DEF StoreInvariant, FilesSound, SavesSound, Place
<1>6. CASE ReturnError(h)
  <2>1. \A g \in Handler, f \in File : request'[g].written[f] \in {request[g].written[f], NoVersion}
    BY <1>6, ErrorMoves DEF NoView
  <2>2. NoVersion <= writes /\ NoVersion \notin corrupt
    BY DiskParts DEF StoreInvariant, StoreTypeOK, NoVersion
  <2>3. WrittenOnce'
    BY <1>1, <2>1, <2>2 DEF StoreInvariant, WrittenOnce
  <2>4. \A g \in Handler \ {h} : Untouched(g)
    BY <1>1, <1>6, ErrorMoves DEF Untouched
  <2>5. HandlerSound(h)'
    BY <1>1, <1>6, ErrorMoves, Idle
  <2>q. QED
    BY <1>1, <1>4, <1>5, <2>3, <2>4, <2>5, Combine
<1>7. CASE Goto(h, "write") /\ UNCHANGED request
  <2>1. pc'[h] = "write" /\ \A g \in Handler \ {h} : pc'[g] = pc[g]
    BY <1>7, Moves
  <2>2. WrittenOnce'
    BY <1>1, <1>7 DEF StoreInvariant, WrittenOnce
  <2>3. \A g \in Handler \ {h} : Untouched(g)
    BY <1>1, <1>7, <2>1 DEF Untouched
  <2>4. RequestSound(h)'
    BY <1>1, <1>3, <1>7, <2>1 DEF RequestSound
  <2>5. WriterSound(h)'
    BY <1>1, <1>2, <1>3, <1>7, <2>1, ViewTypes DEF WriterSound, NoVersion, File
  <2>6. ReaderSound(h)'
    BY <1>1, <1>3, <1>7, <2>1 DEF ReaderSound, Place
  <2>7. FinderSound(h)'
    BY <1>1, <1>3, <1>7, <2>1 DEF FinderSound, Loadable, RequestSound
  <2>q. QED
    BY <1>1, <1>4, <1>5, <2>2, <2>3, <2>4, <2>5, <2>6, <2>7, Combine DEF HandlerSound
<1>q. QED
  BY <1>6, <1>7 DEF Mkdir

\* So does a temporary file, which nobody reads.
LEMMA WriteTempKeeps ==
    ASSUME StoreInvariant, NEW h \in Handler, WriteTemp(h)
    PROVE  StoreInvariant'
<1> DEFINE r == request[h]
<1>1. /\ StoreTypeOK' /\ pc[h] = "write" /\ UNCHANGED <<dirs, current, renames, renamedAt, saves>>
      /\ writes' = writes + 1 /\ writes' \in Version /\ writes \in Nat
  <2>1. writes < MaxWrites /\ writes' = writes + 1 /\ writes \in Nat /\ MaxWrites \in Nat
    BY DiskParts DEF WriteTemp
  <2>q. QED
    BY <2>1, StepTypes DEF Step, WriteTemp, Version
<1>2. RequestSound(h) /\ WriterSound(h) /\ ReaderSound(h) /\ FinderSound(h) /\ r.file \in File
  BY RequestParts DEF StoreInvariant
<1>3. corrupt' \in {corrupt, corrupt \cup {writes'}} /\ corrupt \subseteq 1..writes
  BY DEF WriteTemp, StoreInvariant, StoreTypeOK
<1>4. \A e \in Env, f \in File : current[e][f] # NoVersion => current[e][f] \notin corrupt'
  BY <1>1, <1>3 DEF StoreInvariant, StoreTypeOK, FilesSound
<1>5. DiskGrows
  <2>1. \A e \in Env, f \in File : Place(current[e][f]) \in Nat
    BY DiskParts
  <2>2. \A e \in Env, f \in File : Place(current[e][f])' = Place(current[e][f])
    BY <1>1 DEF Place
  <2>3. LoadableEnvs \subseteq LoadableEnvs'
    BY <1>1, <1>4 DEF LoadableEnvs, Loadable, File
  <2>q. QED
    BY <1>1, <2>1, <2>2, <2>3 DEF DiskGrows
<1>6. FilesSound' /\ SavesSound'
  BY <1>1, <1>4 DEF StoreInvariant, FilesSound, SavesSound, Place
<1>7. \A g \in Handler, f \in File :
          request[g].written[f] \in 0..writes /\ request[g].written[f] \notin corrupt'
  BY <1>1, <1>3, RequestParts DEF StoreInvariant, WrittenOnce
<1>8. CASE ReturnError(h)
  <2>1. \A g \in Handler, f \in File : request'[g].written[f] \in {request[g].written[f], NoVersion}
    BY <1>8, ErrorMoves DEF NoView
  <2>2. NoVersion \notin corrupt'
    BY <1>1 DEF StoreTypeOK, NoVersion
  <2>3. WrittenOnce'
    <3>1. \A v \in Version : renamedAt'[v] # 0 => v <= writes'
      BY <1>1 DEF StoreInvariant, WrittenOnce, Version
    <3>2. \A g \in Handler, f \in File : request'[g].written[f] <= writes' /\ request'[g].written[f] \notin corrupt'
      BY <1>1, <1>7, <2>1, <2>2 DEF NoVersion
    <3>q. QED
      BY <3>1, <3>2, <2>1 DEF StoreInvariant, WrittenOnce
  <2>4. \A g \in Handler \ {h} : Untouched(g)
    BY <1>1, <1>8, ErrorMoves DEF Untouched
  <2>5. HandlerSound(h)'
    BY <1>1, <1>8, ErrorMoves, Idle
  <2>q. QED
    BY <1>1, <1>5, <1>6, <2>3, <2>4, <2>5, Combine
<1>9. CASE /\ request' = [request EXCEPT ![h].written[request[h].file] = writes']
           /\ Goto(h, "rename") /\ UNCHANGED corrupt
  <2>1. pc'[h] = "rename" /\ \A g \in Handler \ {h} : pc'[g] = pc[g]
    BY <1>9, Moves
  <2>2. /\ request'[h].op = r.op /\ request'[h].env = r.env /\ request'[h].file = r.file
        /\ request'[h].seen = r.seen /\ request'[h].began = r.began /\ request'[h].todo = r.todo
        /\ request'[h].written[r.file] = writes'
        /\ \A f \in File \ {r.file} : request'[h].written[f] = r.written[f]
        /\ \A g \in Handler \ {h} : request'[g] = request[g]
    BY <1>2, <1>9 DEF StoreInvariant, StoreTypeOK, Request, View
  <2>3. WrittenOnce'
    <3>1. \A v \in Version : renamedAt'[v] # 0 => v <= writes'
      BY <1>1 DEF StoreInvariant, WrittenOnce, Version
    <3>2. writes' \notin corrupt'
      BY <1>1, <1>3, <1>9
    <3>3. \A g \in Handler, f \in File :
              \/ g = h /\ f = r.file /\ request'[g].written[f] = writes'
              \/ ~(g = h /\ f = r.file) /\ request'[g].written[f] = request[g].written[f]
      BY <2>2
    <3>4. \A g \in Handler, f \in File : request'[g].written[f] <= writes' /\ request'[g].written[f] \notin corrupt'
      BY <1>1, <1>7, <3>2, <3>3
    <3>5. \A g, k \in Handler, a, b \in File :
              request'[g].written[a] = request'[k].written[b] /\ request'[g].written[a] # NoVersion => g = k /\ a = b
      <4>1. \A g \in Handler, f \in File : request[g].written[f] # writes'
        BY <1>1, <1>7
      <4>q. QED
        BY <3>3, <4>1 DEF StoreInvariant, WrittenOnce
    <3>q. QED
      BY <3>1, <3>4, <3>5 DEF WrittenOnce
  <2>4. \A g \in Handler \ {h} : Untouched(g)
    BY <1>1, <2>1, <2>2 DEF Untouched
  <2>5. RequestSound(h)'
    BY <1>1, <1>2, <2>1, <2>2 DEF RequestSound
  <2>6. WriterSound(h)'
    <3>1. renamedAt'[writes'] = 0 /\ writes' # NoVersion
      BY <1>1 DEF StoreInvariant, WrittenOnce, NoVersion
    <3>2. r.op \in {"upsert", "put"}
      BY <1>1, <1>2 DEF RequestSound
    <3>q. QED
      BY <1>1, <1>2, <2>1, <2>2, <3>1, <3>2 DEF WriterSound, Place, File
  <2>7. ReaderSound(h)'
    BY <1>1, <1>2, <2>1, <2>2 DEF ReaderSound, Place
  <2>8. FinderSound(h)'
    <3>1. \A e \in r.began : Loadable(e)'
      BY <1>2, <1>5, RequestParts DEF FinderSound, DiskGrows, LoadableEnvs
    <3>2. r.op # "list"
      BY <1>1, <1>2 DEF RequestSound
    <3>q. QED
      BY <2>1, <2>2, <3>1, <3>2 DEF FinderSound
  <2>q. QED
    BY <1>1, <1>5, <1>6, <2>3, <2>4, <2>5, <2>6, <2>7, <2>8, Combine DEF HandlerSound
<1>q. QED
  BY <1>8, <1>9 DEF WriteTemp

\* So does the rename that puts it in place; and the disk only gets newer files.
LEMMA RenameKeeps ==
    ASSUME StoreInvariant, NEW h \in Handler, Rename(h)
    PROVE  StoreInvariant' /\ DiskGrows
<1> DEFINE r == request[h]
           v == r.written[r.file]
<1>1. StoreTypeOK' /\ pc[h] = "rename" /\ Replace(h) /\ Renamed(h)
  BY StepTypes DEF Step, Rename
<1>2. RequestSound(h) /\ WriterSound(h) /\ ReaderSound(h) /\ FinderSound(h) /\ r.file \in File
  BY RequestParts DEF StoreInvariant
<1>3. PICK x \in Env : x = r.env
  BY <1>1, <1>2 DEF RequestSound
<1>4. v \in Version /\ v # NoVersion /\ renamedAt[v] = 0 /\ v \notin corrupt
  BY <1>1, <1>2, RequestParts DEF WriterSound, StoreInvariant, WrittenOnce
\* The disk after the rename, part by part.
<1>5. /\ UNCHANGED <<dirs, writes, corrupt>> /\ renames' = renames + 1 /\ renames \in Nat
      /\ renamedAt'[v] = renames + 1
      /\ \A u \in Version \ {v} : renamedAt'[u] = renamedAt[u]
  BY <1>1, <1>4, DiskParts DEF Replace, StoreInvariant, StoreTypeOK
<1>6. /\ current'[x][r.file] = v
      /\ \A e \in Env, f \in File : ~(e = x /\ f = r.file) => current'[e][f] = current[e][f]
  BY <1>1, <1>2, <1>3 DEF Replace, StoreInvariant, StoreTypeOK
<1>7. \A u \in Version : renamedAt[u] # 0 => u # v /\ renamedAt'[u] = renamedAt[u]
  BY <1>4, <1>5
<1>8. \A e \in Env, f \in File :
          /\ ~(e = x /\ f = r.file) => Place(current[e][f])' = Place(current[e][f])
          /\ e = x /\ f = r.file => Place(current[e][f])' = renames + 1
          /\ current[e][f] # v
  BY <1>4, <1>5, <1>6, <1>7, DiskParts DEF Place, StoreInvariant, FilesSound
<1>9. \A save \in saves' : save \in saves \/ (/\ save = r.written /\ v = save["metadata"] /\ r.file = "metadata"
                                             /\ save["dockerfile"] # NoVersion /\ r.op = "upsert")
  <2>1. ASSUME NEW save \in saves', save \notin saves
        PROVE  save = r.written /\ \A f \in File : save[f] # NoVersion
    BY <1>1, <2>1 DEF Replace
  <2>2. ASSUME NEW save \in saves', save \notin saves
        PROVE  r.file = "metadata" /\ r.op = "upsert"
    BY <1>1, <1>2, <2>1, <2>2 DEF WriterSound, RequestSound, File
  <2>q. QED
    BY <2>1, <2>2 DEF File
<1>10. DiskGrows
  <2>1. \A e \in Env, f \in File : Place(current[e][f]) \in Nat /\ Place(current[e][f]) <= renames
    BY DiskParts
  <2>2. \A e \in Env, f \in File : Place(current[e][f]) <= Place(current[e][f])'
    BY <1>5, <1>8, <2>1
  <2>3. LoadableEnvs \subseteq LoadableEnvs'
    BY <1>4, <1>5, <1>6 DEF LoadableEnvs, Loadable, File
  <2>4. \A save \in saves' \ saves : renamedAt[save["metadata"]] = 0 /\ save["metadata"] \in Version
    BY <1>4, <1>9
  <2>q. QED
    BY <1>5, <1>7, <2>2, <2>3, <2>4 DEF DiskGrows
\* The handlers after it.
<1>11. /\ \A g \in Handler \ {h} : pc'[g] = pc[g] /\ request'[g] = request[g]
       /\ request'[h].op = r.op /\ request'[h].env = x /\ request'[h].written = r.written
       /\ request'[h].seen = r.seen /\ request'[h].began = r.began /\ request'[h].todo = r.todo
       /\ \/ r.op = "put" /\ pc'[h] = "file" /\ request'[h].file = r.file
          \/ r.op = "upsert" /\ r.file = "metadata" /\ pc'[h] = "metadata" /\ request'[h].file = r.file
          \/ r.op = "upsert" /\ r.file = "dockerfile" /\ pc'[h] = "write" /\ request'[h].file = "metadata"
  <2>1. r.op \in {"upsert", "put"}
    BY <1>1, <1>2 DEF RequestSound
  <2>q. QED
    BY <1>1, <1>2, <1>3, <2>1 DEF Renamed, Goto, StoreInvariant, StoreTypeOK, Request, File
<1>12. \A g \in Handler : request'[g].written = request[g].written
  BY <1>11
<1>13. WrittenOnce'
  <2>1. \A u \in Version : renamedAt'[u] # 0 => u <= writes'
    BY <1>2, <1>4, <1>5 DEF StoreInvariant, WrittenOnce
  <2>q. QED
    BY <1>5, <1>12, <2>1 DEF StoreInvariant, WrittenOnce
<1>14. \A g \in Handler \ {h} : Untouched(g)
  <2>1. \A g \in Handler \ {h}, f \in File : request[g].written[f] # NoVersion =>
            request[g].written[f] \in Version /\ request[g].written[f] # v
    BY <1>2, <1>4, RequestParts DEF StoreInvariant, WrittenOnce
  <2>q. QED
    BY <1>5, <1>11, <2>1 DEF Untouched
<1>15. FilesSound'
  <2>1. ASSUME NEW e \in Env, NEW f \in File, current'[e][f] # NoVersion
        PROVE  renamedAt'[current'[e][f]] # 0 /\ current'[e][f] \notin corrupt' /\ e \in dirs'
    <3>1. CASE e = x /\ f = r.file
      BY <1>1, <1>2, <1>3, <1>4, <1>5, <1>6, <3>1 DEF WriterSound
    <3>2. CASE ~(e = x /\ f = r.file)
      BY <1>5, <1>6, <1>7, <2>1, <3>2, DiskParts DEF StoreInvariant, FilesSound
    <3>q. QED
      BY <3>1, <3>2
  <2>q. QED
    BY <2>1 DEF FilesSound
\* Of the two versions of a new save, one was in place and the other is now.
<1>16. ASSUME NEW save \in saves', save \notin saves
       PROVE  /\ save["metadata"] = v /\ r.file = "metadata" /\ save["dockerfile"] \in Version
              /\ renamedAt[save["dockerfile"]] # 0
              /\ renamedAt[save["dockerfile"]] <= Place(current[x]["dockerfile"])
  <2>1. save = r.written /\ v = save["metadata"] /\ r.file = "metadata" /\ save["dockerfile"] # NoVersion
    BY <1>9, <1>16
  <2>q. QED
    BY <1>2, <1>3, <2>1, RequestParts DEF WriterSound, File
<1>17. SavesSound'
  <2>1. ASSUME NEW save \in saves', NEW f \in File
        PROVE  renamedAt'[save[f]] # 0
    <3>1. CASE save \in saves
      BY <1>7, <3>1, DiskParts DEF StoreInvariant, SavesSound
    <3>2. CASE save \notin saves
      BY <1>5, <1>7, <1>16, <3>2 DEF File
    <3>q. QED
      BY <3>1, <3>2
  <2>2. ASSUME NEW save \in saves', NEW e \in Env, current'[e]["metadata"] = save["metadata"]
        PROVE  renamedAt'[save["dockerfile"]] <= Place(current[e]["dockerfile"])'
    <3>1. /\ Place(current[e]["dockerfile"]) <= renames /\ Place(current[e]["dockerfile"]) \in Nat
      BY DiskParts DEF File
    <3>2. CASE save \in saves
      <4>1. /\ \A f \in File : save[f] \in Version /\ renamedAt[save[f]] # 0 /\ renamedAt[save[f]] \in Nat
            /\ \A f \in File : renamedAt[save[f]] <= renames
        BY <3>2, DiskParts DEF StoreInvariant, SavesSound
      <4>2. save["metadata"] # v /\ renamedAt'[save["dockerfile"]] = renamedAt[save["dockerfile"]]
        BY <1>7, <4>1 DEF File
      <4>3. current[e]["metadata"] = save["metadata"]
        BY <1>6, <2>2, <4>2 DEF File
      <4>4. renamedAt[save["dockerfile"]] <= Place(current[e]["dockerfile"])
        BY <3>2, <4>3 DEF StoreInvariant, SavesSound
      <4>5. renamedAt[save["dockerfile"]] \in Nat /\ renamedAt[save["dockerfile"]] <= renames
        BY <4>1 DEF File
      <4>6. \/ Place(current[e]["dockerfile"])' = Place(current[e]["dockerfile"])
            \/ Place(current[e]["dockerfile"])' = renames + 1
        BY <1>8 DEF File
      <4>q. QED
        BY <1>5, <3>1, <4>2, <4>4, <4>5, <4>6
    <3>3. CASE save \notin saves
      <4>1. /\ save["metadata"] = v /\ r.file = "metadata" /\ save["dockerfile"] \in Version
            /\ renamedAt[save["dockerfile"]] # 0
            /\ renamedAt[save["dockerfile"]] <= Place(current[x]["dockerfile"])
        BY <1>16, <3>3
      <4>2. e = x
        BY <1>6, <1>8, <2>2, <4>1 DEF File
      <4>3. /\ Place(current[e]["dockerfile"])' = Place(current[e]["dockerfile"])
            /\ renamedAt'[save["dockerfile"]] = renamedAt[save["dockerfile"]]
        BY <1>7, <1>8, <4>1 DEF File
      <4>q. QED
        BY <4>1, <4>2, <4>3
    <3>q. QED
      BY <3>2, <3>3
  <2>q. QED
    BY <2>1, <2>2 DEF SavesSound
<1>18. RequestSound(h)'
  BY <1>2, <1>11 DEF RequestSound
<1>19. WriterSound(h)'
  <2>1. ASSUME NEW f \in File, r.written[f] # NoVersion
        PROVE  renamedAt'[r.written[f]] # 0 /\ renamedAt'[r.written[f]] <= Place(current[x][f])'
    <3>1. CASE f = r.file
      BY <1>5, <1>8, <3>1
    <3>2. CASE f # r.file
      <4>1. renamedAt[r.written[f]] # 0 /\ renamedAt[r.written[f]] <= Place(current[x][f])
        BY <1>2, <1>3, <2>1, <3>2 DEF WriterSound
      <4>2. r.written[f] \in Version
        BY <2>1, RequestParts
      <4>3. Place(current[x][f])' = Place(current[x][f])
        BY <1>8, <3>2
      <4>q. QED
        BY <1>7, <4>1, <4>2, <4>3
    <3>q. QED
      BY <3>1, <3>2
  <2>q. QED
    BY <1>1, <1>2, <1>3, <1>5, <1>11, <2>1 DEF WriterSound
<1>20. ReaderSound(h)'
  <2>1. \A e \in Env, f \in File : r.seen[e][f] # NoVersion =>
            renamedAt[r.seen[e][f]] # 0 /\ renamedAt'[r.seen[e][f]] = renamedAt[r.seen[e][f]]
    BY <1>2, <1>7, RequestParts DEF ReaderSound
  <2>2. ASSUME r.op \in {"upsert", "get", "list"}, NEW e \in Env, NEW save \in saves',
               r.seen[e]["metadata"] = save["metadata"]
        PROVE  renamedAt'[save["dockerfile"]] <= Place(r.seen[e]["dockerfile"])'
    <3>1. save \in saves
      BY <1>4, <1>16, <2>1, <2>2 DEF File
    <3>2. renamedAt[save["dockerfile"]] <= Place(r.seen[e]["dockerfile"])
      BY <1>1, <1>2, <2>2, <3>1 DEF ReaderSound
    <3>3. renamedAt'[save["dockerfile"]] = renamedAt[save["dockerfile"]]
      BY <1>7, <3>1, DiskParts DEF StoreInvariant, SavesSound, File
    <3>4. request'[h].seen[e]["dockerfile"] = r.seen[e]["dockerfile"]
      BY <1>11
    <3>5. Place(r.seen[e]["dockerfile"])' = Place(r.seen[e]["dockerfile"])
      BY <2>1, <3>4 DEF Place, File
    <3>q. QED
      BY <3>2, <3>3, <3>5
  <2>q. QED
    BY <1>11, <2>1, <2>2 DEF ReaderSound
<1>21. FinderSound(h)'
  <2>1. \A e \in r.began : Loadable(e)'
    BY <1>2, <1>10, RequestParts DEF FinderSound, DiskGrows, LoadableEnvs
  <2>q. QED
    BY <1>11, <2>1 DEF FinderSound
<1>q. QED
  BY <1>1, <1>10, <1>13, <1>14, <1>15, <1>17, <1>18, <1>19, <1>20, <1>21, Combine DEF HandlerSound

-----------------------------------------------------------------------------
(***************************************************************************)
(* The theorems.                                                           *)
(***************************************************************************)

\* Nothing has been written at the start.
LEMMA StoreInvariantInit == StoreInit => StoreInvariant
<1> SUFFICES ASSUME StoreInit PROVE StoreInvariant
  OBVIOUS
<1>1. StoreTypeOK
  BY TypeInit
<1>2. \A f \in File : NoView[f] = NoVersion
  BY DEF NoView
<1>3. WrittenOnce /\ FilesSound /\ SavesSound
  BY <1>2 DEF StoreInit, WrittenOnce, FilesSound, SavesSound, NoRequest, NewRequest, NoVersion
<1>4. \A h \in Handler : RequestSound(h) /\ WriterSound(h) /\ ReaderSound(h) /\ FinderSound(h)
  BY <1>2 DEF StoreInit, RequestSound, WriterSound, ReaderSound, FinderSound, NoRequest, NewRequest
<1>q. QED
  BY <1>1, <1>3, <1>4 DEF StoreInvariant

\* Each step keeps the invariant.
LEMMA StoreInvariantNext == StoreInvariant /\ [StoreNext]_storeVars => StoreInvariant'
<1> SUFFICES ASSUME StoreInvariant, [StoreNext]_storeVars PROVE StoreInvariant'
  OBVIOUS
<1>1. CASE UNCHANGED storeVars
  BY <1>1 DEF storeVars, disk, StoreInvariant, StoreTypeOK, WrittenOnce, FilesSound, SavesSound,
              RequestSound, WriterSound, ReaderSound, FinderSound, Place, Loadable
<1>2. CASE StoreCrash
  BY <1>2, CrashKeeps
<1>3. ASSUME NEW h \in Handler, Started(h) PROVE StoreInvariant'
  BY <1>3, StartKeeps
<1>4. ASSUME NEW h \in Handler, Step(h) PROVE StoreInvariant'
  BY <1>4, MkdirKeeps, WriteTempKeeps, RenameKeeps, ReadDirKeeps, ReadMetadataKeeps,
     ReadDockerfileKeeps, NextOrViewKeeps, ReadFileKeeps DEF Step
<1>5. ASSUME NEW h \in Handler, Fail(h) PROVE StoreInvariant'
  BY <1>5, ErrorTypes, ErrorKeeps DEF Fail, StoreInvariant
<1>q. QED
  BY <1>1, <1>2, <1>3, <1>4, <1>5 DEF StoreNext, Started, Step

\* Whatever requests run at once, fail or are cut off by a crash, the files are
\* whole, no two writes share one, and what each handler has written and read
\* fits what is in place.
THEOREM StoreInductive == StoreSpec => []StoreInvariant
BY StoreInvariantInit, StoreInvariantNext, PTL DEF StoreSpec

\* No reader, of any number, sees the environment.yml of a save without the
\* Dockerfile saved with it, or a later one.
THEOREM ReadersFollowSaves == StoreSpec => []MetadataFollowsDockerfile
<1>1. StoreInvariant => MetadataFollowsDockerfile
  <2> SUFFICES ASSUME StoreInvariant, NEW h \in Handler, NEW e \in Env, NEW save \in saves,
                      pc[h] = "ok", request[h].op \in {"upsert", "get", "list"},
                      request[h].seen[e]["metadata"] = save["metadata"]
               PROVE  Place(request[h].seen[e]["dockerfile"]) >= Place(save["dockerfile"])
    BY DEF MetadataFollowsDockerfile
  <2>1. renamedAt[save["dockerfile"]] <= Place(request[h].seen[e]["dockerfile"])
    BY DEF StoreInvariant, ReaderSound
  <2>2. Place(save["dockerfile"]) = renamedAt[save["dockerfile"]] /\ renamedAt[save["dockerfile"]] \in Nat
    BY DiskParts, EnvironmentStoreAssumption DEF Place, Version, NoVersion, File
  <2>3. Place(request[h].seen[e]["dockerfile"]) \in Nat
    BY RequestParts, DiskParts DEF File
  <2>q. QED
    BY <2>1, <2>2, <2>3
<1>q. QED
  BY <1>1, StoreInductive, PTL

\* No request misses an environment that was there to be loaded when it began.
THEOREM RequestsFind == StoreSpec => []ReadersFind
<1>1. StoreInvariant => ReadersFind
  <2> SUFFICES ASSUME StoreInvariant, NEW h \in Handler
               PROVE  /\ pc[h] = "notfound" /\ request[h].file = "metadata" => request[h].env \notin request[h].began
                      /\ pc[h] = "ok" /\ request[h].op = "list" =>
                             \A e \in request[h].began : request[h].seen[e]["metadata"] # NoVersion
    BY DEF ReadersFind
  <2>1. FinderSound(h) /\ RequestSound(h)
    BY DEF StoreInvariant
  <2>q. QED
    BY <2>1 DEF FinderSound, RequestSound
<1>q. QED
  BY <1>1, StoreInductive, PTL

\* Success is answered only for what was put into place, however many other
\* requests write the same files.
THEOREM SuccessIsSaved == StoreSpec => []AnsweredIsSaved
<1>1. StoreInvariant => AnsweredIsSaved
  <2> SUFFICES ASSUME StoreInvariant, NEW h \in Handler, NEW f \in File,
                      pc[h] = "ok", request[h].op \in {"upsert", "put"},
                      request[h].written[f] # NoVersion
               PROVE  /\ renamedAt[request[h].written[f]] # 0
                      /\ Place(request[h].seen[request[h].env][f]) >= renamedAt[request[h].written[f]]
    BY DEF AnsweredIsSaved
  <2>1. WriterSound(h) /\ ReaderSound(h) /\ RequestSound(h)
    BY DEF StoreInvariant
  <2>2. PICK e \in Env : e = request[h].env
    BY <2>1 DEF RequestSound
  <2>3. renamedAt[request[h].written[f]] # 0
    BY <2>1 DEF WriterSound
  <2>4. renamedAt[request[h].written[f]] <= Place(request[h].seen[e][f])
    BY <2>1, <2>2 DEF ReaderSound
  <2>5. renamedAt[request[h].written[f]] \in Nat /\ Place(request[h].seen[e][f]) \in Nat
    BY RequestParts, DiskParts
  <2>q. QED
    BY <2>2, <2>3, <2>4, <2>5
<1>q. QED
  BY <1>1, StoreInductive, PTL

\* No step makes an environment that could be loaded one that cannot.
THEOREM LoadableForGood == StoreSpec => StaysLoadable
<1>1. StoreInvariant /\ [StoreNext]_storeVars => [LoadableEnvs \subseteq LoadableEnvs']_storeVars
  <2> SUFFICES ASSUME StoreInvariant, StoreNext PROVE LoadableEnvs \subseteq LoadableEnvs'
    OBVIOUS
  <2>1. CASE UNCHANGED <<current, corrupt>>
    BY <2>1 DEF LoadableEnvs, Loadable
  <2>2. ASSUME NEW h \in Handler, Rename(h) PROVE LoadableEnvs \subseteq LoadableEnvs'
    BY <2>2, RenameKeeps DEF DiskGrows
  <2>3. ASSUME NEW h \in Handler, WriteTemp(h) PROVE LoadableEnvs \subseteq LoadableEnvs'
    <3>1. corrupt' \subseteq corrupt \cup {writes + 1} /\ UNCHANGED current
      BY <2>3 DEF WriteTemp
    <3>2. \A e \in Env : current[e]["metadata"] <= writes /\ current[e]["metadata"] \in Nat /\ writes \in Nat
      BY DEF StoreInvariant, StoreTypeOK, File
    <3>q. QED
      BY <3>1, <3>2 DEF LoadableEnvs, Loadable
  <2>q. QED
    BY <2>1, <2>2, <2>3 DEF StoreNext, StoreCrash, Upsert, PutFile, Get, GetFile, List, Begin, Mkdir,
       ReadDir, ReadMetadata, ReadDockerfile, NextOrView, ReadFile, Fail, disk
<1>q. QED
  BY <1>1, StoreInductive, PTL DEF StoreSpec, StaysLoadable

=============================================================================
