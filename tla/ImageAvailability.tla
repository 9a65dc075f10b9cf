-------------------------- MODULE ImageAvailability --------------------------
(***************************************************************************)
(* Is an image on this host?  inspectLocalImage of                         *)
(* internal/sandbox/image_availability.go asks up to three times, ahead of *)
(* every Create and for the views of environments; each time InspectImage  *)
(* of internal/runtime/cli.go runs `image inspect`, and, when that says    *)
(* there is no such image, `image ls`: an engine with the containerd store *)
(* may say so of an image it has.  Meanwhile images come and go, engine    *)
(* commands fail, and the client may leave, whose context the commands     *)
(* carry.                                                                  *)
(***************************************************************************)
EXTENDS Naturals

CONSTANTS
    MaxAttempts,       \* 3 in the code
    ContainerdStore    \* may the engine deny an image it has?

ASSUME ImageAvailabilityAssumption == MaxAttempts \in Nat \ {0} /\ ContainerdStore \in BOOLEAN

VARIABLES
    present,      \* is the image on the host?
    client,       \* is the client of the request there?
    lookup,       \* "idle", the next command ("inspect" or "ls"), "backoff" or "answered"
    attempt,      \* which one, from 1
    detached,     \* has this attempt a context of its own?
    answer,       \* "none" yet, "available", "missing" or "error"
    during        \* of the call: was the image present, was it absent, how often
                  \* did `image inspect` and `image ls` fail through no fault of the client

availabilityVars == <<present, client, lookup, attempt, detached, answer, during>>

Now(isPresent) == [present |-> isPresent, absent |-> ~isPresent, failures |-> 0, blind |-> FALSE]

AvailabilityInit ==
    /\ present = FALSE /\ client = TRUE
    /\ lookup = "idle" /\ attempt = 1 /\ detached = FALSE /\ answer = "none"
    /\ during = Now(present)

(***************************************************************************)
(* The world.                                                              *)
(***************************************************************************)

ImageChanges ==
    /\ present' = ~present
    /\ during' = IF present' THEN [during EXCEPT !.present = TRUE] ELSE [during EXCEPT !.absent = TRUE]
    /\ UNCHANGED <<client, lookup, attempt, detached, answer>>

ClientLeaves ==
    /\ lookup # "answered" /\ client
    /\ client' = FALSE
    /\ UNCHANGED <<present, lookup, attempt, detached, answer, during>>

(***************************************************************************)
(* The call.                                                               *)
(***************************************************************************)

\* Mutant: the request's context, whatever has become of it.
NeverDetached == FALSE

\* A context that is already cancelled is replaced by one of five seconds.
Detached == ~client

Asked ==
    /\ lookup = "idle"
    /\ lookup' = "inspect" /\ attempt' = 1 /\ detached' = Detached /\ during' = Now(present)
    /\ UNCHANGED <<present, client, answer>>

AnswerWith(what) == lookup' = "answered" /\ answer' = what /\ UNCHANGED <<attempt, detached>>

\* After a short sleep that nothing interrupts, unless this was the last attempt.
TryAgain ==
    IF attempt = MaxAttempts THEN AnswerWith("error") ELSE lookup' = "backoff" /\ UNCHANGED <<attempt, detached, answer>>

\* A command whose context is cancelled does not run, or is killed.
Cancelled == ~detached /\ ~client

InspectFinds ==
    /\ lookup = "inspect" /\ ~Cancelled /\ present
    /\ AnswerWith("available")
    /\ UNCHANGED <<present, client, during>>

InspectDenies ==
    /\ lookup = "inspect" /\ ~Cancelled /\ (present => ContainerdStore)
    /\ lookup' = "ls"
    /\ UNCHANGED <<present, client, attempt, detached, answer, during>>

\* The engine is away or too slow, or what it says cannot be read.
InspectFails ==
    /\ lookup = "inspect"
    /\ during' = IF Cancelled THEN during ELSE [during EXCEPT !.failures = @ + 1]
    /\ TryAgain
    /\ UNCHANGED <<present, client>>

\* Whatever goes wrong here is taken for "no such image", and not tried again.
ListImages ==
    /\ lookup = "ls"
    /\ \/ ~Cancelled /\ AnswerWith(IF present THEN "available" ELSE "missing") /\ UNCHANGED during
       \/ AnswerWith("missing") /\ during' = [during EXCEPT !.blind = TRUE]
    /\ UNCHANGED <<present, client>>

BackoffEnds ==
    /\ lookup = "backoff"
    /\ lookup' = "inspect" /\ attempt' = attempt + 1 /\ detached' = Detached
    /\ UNCHANGED <<present, client, answer, during>>

NextRequest ==
    /\ lookup = "answered"
    /\ client' = TRUE /\ lookup' = "idle" /\ attempt' = 1 /\ detached' = FALSE /\ answer' = "none"
    /\ during' = Now(present)
    /\ UNCHANGED present

AvailabilityNext ==
    \/ ImageChanges \/ ClientLeaves
    \/ Asked \/ InspectFinds \/ InspectDenies \/ InspectFails \/ ListImages \/ BackoffEnds
    \/ NextRequest

AvailabilitySpec == AvailabilityInit /\ [][AvailabilityNext]_availabilityVars

(***************************************************************************)
(* Properties                                                              *)
(***************************************************************************)

\* Every variable has its type.
AvailabilityTypeOK ==
    /\ present \in BOOLEAN /\ client \in BOOLEAN /\ detached \in BOOLEAN
    /\ lookup \in {"idle", "inspect", "ls", "backoff", "answered"}
    /\ attempt \in 1..MaxAttempts
    /\ answer \in {"none", "available", "missing", "error"}
    /\ during \in [present : BOOLEAN, absent : BOOLEAN, failures : 0..MaxAttempts, blind : BOOLEAN]

\* The answer was true at some moment of the call: what is said to be available was
\* there, and what is said to be missing was not, unless `image ls` failed, which
\* is taken for its answer.  A client that leaves costs one attempt at most: an
\* error means that the engine itself failed in all the others.
AnswersAreTrue ==
    /\ answer = "available" => during.present
    /\ answer = "missing" => during.absent \/ during.blind
    /\ answer = "error" => during.failures >= MaxAttempts - 1
===============================================================================
