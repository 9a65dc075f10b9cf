---------------------------- MODULE SessionListing ----------------------------
(***************************************************************************)
(* Lists of sessions, taken page by page from a table that changes: the    *)
(* queries of internal/store/sqlite.go.  ListSessions asks for all pages   *)
(* in a row, for GET /api/sessions and for Reconcile; a client of          *)
(* /api/sessions/query asks for them one by one.  A page is an offset into *)
(* the matching rows, newest first, and takes two statements: one counts   *)
(* the rows, one reads the page.  No transaction holds them together.      *)
(*                                                                         *)
(* Rows are written as SessionService does: created_at is taken before the *)
(* row is saved, and a stopped session keeps its row.  Lists do not affect *)
(* each other: the model has one at a time.                                *)
(***************************************************************************)
EXTENDS Naturals, FiniteSets, Timestamps

CONSTANTS
    Session,      \* session IDs, numbers: ties in time are broken by them
    PageSizes,    \* page sizes that are asked for
    MaxNow        \* bound of the clock

ASSUME SessionListingAssumption ==
    Session \subseteq Nat /\ PageSizes \subseteq Nat \ {0} /\ MaxNow \in Nat

VARIABLES
    now,
    status,       \* of each session; the first two have no row
    createdAt,
    list,         \* the list under way
    meanwhile     \* what happened to the rows that match, since it began

rows == <<now, status, createdAt>>
listingVars == <<rows, list, meanwhile>>

Status == {"none", "starting", "active", "stopped"}
Filter == {"active", "history", "all"}

StatusesOf(filter) ==
    CASE filter = "active" -> {"active"}
      [] filter = "history" -> {"stopped"}
      [] filter = "all" -> {"active", "stopped"}

Matching(filter) == {s \in Session : status[s] \in StatusesOf(filter)}

\* Mutant: the active ones come first.
AheadActiveFirst(r, s) ==
    \/ status[r] = "active" /\ status[s] = "stopped"
    \/ status[r] = status[s] /\ (SortsAfter(createdAt[r], createdAt[s]) \/ (createdAt[r] = createdAt[s] /\ r > s))

\* ORDER BY created_at DESC, session_id DESC, of texts: not always the order of the times.
Ahead(r, s) == SortsAfter(createdAt[r], createdAt[s]) \/ (createdAt[r] = createdAt[s] /\ r > s)

\* How many rows come before this one.
Position(filter, s) == Cardinality({r \in Matching(filter) : Ahead(r, s)})

Nothing == [steady |-> {}, entered |-> FALSE, left |-> FALSE, late |-> FALSE]

ListingInit ==
    /\ now = 0
    /\ status = [s \in Session |-> "none"]
    /\ createdAt = [s \in Session |-> 0]
    /\ list = [phase |-> "idle", filter |-> "active", size |-> 1, page |-> 1,
               total |-> 0, taken |-> 0, seen |-> {}, twice |-> {}]
    /\ meanwhile = Nothing

(***************************************************************************)
(* The rows, and a history of what happens to them under a list.           *)
(***************************************************************************)

\* Which rows have matched all the time, whether any came or went, and whether
\* any came between a count and its page.
Watched ==
    LET before == Matching(list.filter)
        after == Matching(list.filter)'
    IN  meanwhile' = [steady |-> meanwhile.steady \cap after,
                      entered |-> meanwhile.entered \/ ~(after \subseteq before),
                      left |-> meanwhile.left \/ ~(before \subseteq after),
                      late |-> meanwhile.late \/ (list.phase = "page" /\ ~(after \subseteq before))]

TimePasses == now < MaxNow /\ now' = now + 1 /\ UNCHANGED <<status, createdAt, list, meanwhile>>

\* The container runs; the row is filled in, and dated.
CreateDates(s) ==
    /\ status[s] = "none"
    /\ status' = [status EXCEPT ![s] = "starting"]
    /\ createdAt' = [createdAt EXCEPT ![s] = now]
    /\ UNCHANGED <<now, list, meanwhile>>

CreateSaves(s) ==
    /\ status[s] = "starting"
    /\ status' = [status EXCEPT ![s] = "active"]
    /\ UNCHANGED <<now, createdAt, list>>
    /\ Watched

CreateSaveFails(s) ==
    /\ status[s] = "starting"
    /\ status' = [status EXCEPT ![s] = "none"]
    /\ createdAt' = [createdAt EXCEPT ![s] = 0]
    /\ UNCHANGED <<now, list, meanwhile>>

\* By a request, or because the container is gone.
MarkStopped(s) ==
    /\ status[s] = "active"
    /\ status' = [status EXCEPT ![s] = "stopped"]
    /\ UNCHANGED <<now, createdAt, list>>
    /\ Watched

(***************************************************************************)
(* The list.                                                               *)
(***************************************************************************)

\* ListSessions, or the first page of a query.
ListBegins ==
    \E filter \in Filter, size \in PageSizes :
        /\ list.phase \in {"idle", "done"}
        /\ list' = [phase |-> "count", filter |-> filter, size |-> size, page |-> 1,
                    total |-> 0, taken |-> 0, seen |-> {}, twice |-> {}]
        /\ meanwhile' = [Nothing EXCEPT !.steady = Matching(filter)]
        /\ UNCHANGED rows

\* Mutant: the rows are counted for the first page only.
CountOnce ==
    /\ list.phase = "count"
    /\ list' = [list EXCEPT !.phase = "page", !.total = IF list.page = 1 THEN Cardinality(Matching(list.filter)) ELSE @]
    /\ UNCHANGED <<rows, meanwhile>>

\* SELECT COUNT(1)
Count ==
    /\ list.phase = "count"
    /\ list' = [list EXCEPT !.phase = "page", !.total = Cardinality(Matching(list.filter))]
    /\ UNCHANGED <<rows, meanwhile>>

\* LIMIT size OFFSET (page - 1) * size
Batch ==
    {s \in Matching(list.filter) :
        Position(list.filter, s) \div list.size = list.page - 1}

\* Another page is asked for unless there is nothing left, by the count or by
\* the page itself.
ReadPage ==
    LET taken == list.taken + Cardinality(Batch)
        ends == Batch = {} \/ taken >= list.total
    IN  /\ list.phase = "page"
        /\ list' = [list EXCEPT !.phase = IF ends THEN "done" ELSE "count",
                                !.page = IF ends THEN @ ELSE @ + 1,
                                !.taken = taken,
                                !.seen = @ \cup Batch,
                                !.twice = @ \cup (list.seen \cap Batch)]
        /\ UNCHANGED <<rows, meanwhile>>

\* A statement fails, and the list with it.
ListFails ==
    /\ list.phase \in {"count", "page"}
    /\ list' = [list EXCEPT !.phase = "idle"]
    /\ UNCHANGED <<rows, meanwhile>>

ListingNext ==
    \/ TimePasses
    \/ \E s \in Session : CreateDates(s) \/ CreateSaves(s) \/ CreateSaveFails(s) \/ MarkStopped(s)
    \/ ListBegins \/ Count \/ ReadPage \/ ListFails

ListingSpec == ListingInit /\ [][ListingNext]_listingVars

(***************************************************************************)
(* Properties                                                              *)
(***************************************************************************)

\* A list has every session that matched all the while, provided that none that
\* matched ceased to (rows behind it move up, past the offset) and none came
\* between a count and its page (the count is then too low, and the loop may end
\* early).  Sessions that are created between two pages do no harm.  So Reconcile,
\* which lists before anything is served, sees every active session.
ListComplete ==
    list.phase = "done" /\ ~meanwhile.left /\ ~meanwhile.late => meanwhile.steady \subseteq list.seen

\* A session is listed twice only if others came to match meanwhile.
ListedOnce == list.phase = "done" /\ ~meanwhile.entered => list.twice = {}

===============================================================================
