---------------------------- MODULE ImageReconcile ----------------------------
(***************************************************************************)
(* ReconcileExistingImages of internal/sandbox/build_service.go, run at    *)
(* every start-up: an environment whose image exists on the host without a *)
(* build job that says so gets a "discovered" job, dated when the image    *)
(* was created.  Jobs are listed newest first by that date.                *)
(*                                                                         *)
(* Environments do not touch each other, so the model has one; its image   *)
(* reference changes when it is edited, and images come and go with the    *)
(* hub's builds and with what is done on the host.                         *)
(***************************************************************************)
EXTENDS Naturals, FiniteSets, Timestamps

CONSTANTS
    ImageRef,     \* image references the environment may be given
    JobId,        \* build job IDs, numbers: ties in time are broken by them
    MaxTime       \* bound of the clock

ASSUME ImageReconcileAssumption ==
    /\ JobId \subseteq Nat
    /\ MaxTime \in Nat

VARIABLES
    clock,
    imageRef,  \* the environment's
    images,    \* when the host's image of each reference was created, or NoImage
    building,  \* the build under way, if any: one at a time (the environment's lock)
    jobs       \* the environment's rows of build_jobs

vars == <<clock, imageRef, images, building, jobs>>

NoImage == MaxTime + 1
BuildJob == [id : JobId, ref : ImageRef, startedAt : 0..MaxTime, discovered : BOOLEAN]

Init ==
    /\ clock = 0
    /\ imageRef \in ImageRef
    /\ images = [i \in ImageRef |-> NoImage]
    /\ building = {} /\ jobs = {}

\* Mutant: an ID is not looked at before it is used.
AnyIds == JobId

\* IDs are random: any one that no job has.
UnusedIds == JobId \ {job.id : job \in jobs}

SaveBuildJob(ref, startedAt, discovered) ==
    \E id \in UnusedIds :
        jobs' = jobs \cup {[id |-> id, ref |-> ref, startedAt |-> startedAt, discovered |-> discovered]}

\* ORDER BY started_at DESC, id DESC, of texts: not always the order of the times.
Newer(a, b) == SortsAfter(a.startedAt, b.startedAt) \/ (a.startedAt = b.startedAt /\ a.id > b.id)

\* The first of ListBuildJobs, as a set of at most one.
LatestBuildJob == {job \in jobs : \A other \in jobs : other = job \/ Newer(job, other)}

\* A build is of the reference the environment had when it started, and dated then.
BuildStart ==
    /\ building = {}
    /\ building' = {[ref |-> imageRef, startedAt |-> clock]}
    /\ UNCHANGED <<clock, imageRef, images, jobs>>

\* It is saved when it ends, unless that fails.  The image it leaves, if it
\* succeeds, may be older than the build: all its layers may have been cached.
BuildEnd ==
    \E build \in building :
        /\ SaveBuildJob(build.ref, build.startedAt, FALSE) \/ UNCHANGED jobs
        /\ images' \in {images} \cup {[images EXCEPT ![build.ref] = created] : created \in 0..clock}
        /\ building' = {}
        /\ UNCHANGED <<clock, imageRef>>

\* Built by hand, or pulled, in which case the image may be as old as you like.
HostImage(ref) ==
    /\ \E created \in 0..clock : images' = [images EXCEPT ![ref] = created]
    /\ UNCHANGED <<clock, imageRef, building, jobs>>

HostRemoves(ref) ==
    /\ images' = [images EXCEPT ![ref] = NoImage]
    /\ UNCHANGED <<clock, imageRef, building, jobs>>

Edit(ref) ==
    /\ imageRef' = ref
    /\ UNCHANGED <<clock, images, building, jobs>>

Tick ==
    /\ clock < MaxTime
    /\ clock' = clock + 1
    /\ UNCHANGED <<imageRef, images, building, jobs>>

\* Mutant: the latest job counts only if it discovered the image.
RecordedAsDiscovered(ref) == \E job \in LatestBuildJob : job.ref = ref /\ job.discovered

\* The latest job is of this reference, whatever became of it.
Recorded(ref) == \E job \in LatestBuildJob : job.ref = ref

\* At start-up, if the image can be inspected: an error skips the environment.
\* The build that was under way when the hub went down is lost.
ReconcileEnvironmentImage ==
    /\ building' = {}
    /\ \/ images[imageRef] # NoImage /\ ~Recorded(imageRef) /\ SaveBuildJob(imageRef, images[imageRef], TRUE)
       \/ UNCHANGED jobs
    /\ UNCHANGED <<clock, imageRef, images>>

Next ==
    \/ BuildStart \/ BuildEnd \/ Tick \/ ReconcileEnvironmentImage
    \/ \E ref \in ImageRef : HostImage(ref) \/ HostRemoves(ref) \/ Edit(ref)

Spec == Init /\ [][Next]_vars

\* Every variable has its type, and IDs are unique.
TypeOK ==
    /\ clock \in 0..MaxTime
    /\ imageRef \in ImageRef
    /\ images \in [ImageRef -> 0..NoImage]
    /\ building \subseteq [ref : ImageRef, startedAt : 0..clock] /\ Cardinality(building) <= 1
    /\ jobs \subseteq BuildJob
    /\ \A a, b \in jobs : a.id = b.id => a = b

\* An image is discovered only if no job tells of it, neither a build of the
\* hub, failed ones included, nor an earlier discovery; or if a job of another
\* reference, which the environment had since, hides the ones that do.
DiscoveredOnlyUnknown ==
    [][\A new \in jobs' \ jobs, old \in jobs :
          new.discovered /\ old.ref = new.ref =>
              \E other \in jobs : other.ref # new.ref /\ Newer(other, old)]_vars

\* A start-up that finds the image it has already recorded adds nothing
\* (TestReconcileExistingImagesDoesNotDuplicateCurrentImageRecord).
NoDuplicates ==
    [][\A new \in jobs' \ jobs :
          new.discovered =>
              \A old \in jobs : old.discovered => ~(old.ref = new.ref /\ old.startedAt = new.startedAt)]_vars
=============================================================================
