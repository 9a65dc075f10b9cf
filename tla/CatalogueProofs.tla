--------------------------- MODULE CatalogueProofs ---------------------------
(***************************************************************************)
(* What holds of the lists the hub takes while they change: the sessions,  *)
(* page by page, and the build jobs at start-up, for any number of rows,   *)
(* any page size and any clock; and of the settings it starts with, for    *)
(* amounts of any width.                                                   *)
(***************************************************************************)
EXTENDS ImageReconcile, SessionListing, Configuration, Integers, FiniteSetTheorems, SequenceTheorems, TLAPS

-----------------------------------------------------------------------------
(***************************************************************************)
(* The order of the stored times.                                          *)
(***************************************************************************)

\* What a unit divides is a number of units.
LEMMA WholeUnits ==
    ASSUME NEW u \in Nat \ {0}, NEW t \in Nat, t % u = 0
    PROVE  \E k \in Nat : t = u * k
<1>1. t \div u \in Nat /\ t = u * (t \div u) + (t % u)
  OBVIOUS
<1>q. QED
  BY <1>1

\* Two numbers of units that differ do so by a unit at least.
LEMMA UnitApart ==
    ASSUME NEW u \in Nat \ {0}, NEW k \in Nat, NEW m \in Nat, u * k < u * m
    PROVE  u * k + u <= u * m
<1>1. k < m
  <2> SUFFICES ASSUME m <= k PROVE FALSE
    OBVIOUS
  <2>1. PICK d \in Nat : k = m + d
    BY k - m \in Nat
  <2>2. u * k = u * m + u * d /\ u * d >= 0
    BY <2>1
  <2>3. u * k \in Int /\ u * m \in Int /\ u * d \in Int
    OBVIOUS
  <2>q. QED
    BY <2>2, <2>3
<1>2. PICK d \in Nat : m = (k + 1) + d
  BY <1>1, m - (k + 1) \in Nat
<1>3. u * m = u * k + u + u * d /\ u * d >= 0
  BY <1>2
<1>4. u * k \in Int /\ u * m \in Int /\ u * d \in Int
  OBVIOUS
<1>q. QED
  BY <1>3, <1>4

\* A text that begins like one that begins like a third begins like the third.
LEMMA CutShortTransitive ==
    ASSUME NEW a \in Nat, NEW b \in Nat, NEW c \in Nat, CutShort(a, b), CutShort(b, c)
    PROVE  CutShort(a, c)
<1>1. PICK u \in Units : a % u = 0 /\ a < b /\ b < a + u
  BY DEF CutShort
<1>2. PICK v \in Units : b % v = 0 /\ b < c /\ c < b + v
  BY DEF CutShort
<1>3. u \in Nat \ {0} /\ v \in Nat \ {0}
  BY TimestampsAssumption
<1>4. CASE u % v = 0
  <2>1. PICK n \in Nat : u = v * n
    BY <1>3, <1>4, WholeUnits
  <2>2. PICK k \in Nat : a = u * k
    BY <1>1, <1>3, WholeUnits
  <2>3. PICK m \in Nat : b = v * m
    BY <1>2, <1>3, WholeUnits
  <2>4. n * k + n \in Nat /\ a + u = v * (n * k + n)
    BY <1>3, <2>1, <2>2
  <2>5. v * m + v <= v * (n * k + n)
    BY <1>1, <1>3, <2>3, <2>4, UnitApart
  <2>6. b + v <= a + u
    BY <2>3, <2>4, <2>5
  <2>q. QED
    BY <1>1, <1>2, <1>3, <2>6 DEF CutShort
<1>5. CASE v % u = 0
  <2>1. PICK n \in Nat : v = u * n
    BY <1>3, <1>5, WholeUnits
  <2>2. PICK k \in Nat : a = u * k
    BY <1>1, <1>3, WholeUnits
  <2>3. PICK m \in Nat : b = v * m
    BY <1>2, <1>3, WholeUnits
  <2>4. n * m \in Nat /\ b = u * (n * m)
    BY <1>3, <2>1, <2>3
  <2>5. u * k + u <= u * (n * m)
    BY <1>1, <1>3, <2>2, <2>4, UnitApart
  <2>q. QED
    BY <1>1, <1>3, <2>2, <2>4, <2>5
<1>q. QED
  BY <1>1, <1>2, <1>4, <1>5, TimestampsAssumption

\* The order of the texts is a strict and total one.
LEMMA SortsStrictly ==
    /\ \A a, b \in Nat : SortsAfter(a, b) => ~SortsAfter(b, a)
    /\ \A a, b, c \in Nat : SortsAfter(a, b) /\ SortsAfter(b, c) => SortsAfter(a, c)
    /\ \A a, b \in Nat : a = b \/ SortsAfter(a, b) \/ SortsAfter(b, a)
<1>1. \A a, b \in Nat : CutShort(a, b) => a < b
  BY DEF CutShort
<1>2. \A a, b, c \in Nat : a < c /\ c < b /\ CutShort(a, b) => CutShort(a, c)
  <2> SUFFICES ASSUME NEW a \in Nat, NEW b \in Nat, NEW c \in Nat, a < c, c < b, CutShort(a, b)
               PROVE  CutShort(a, c)
    OBVIOUS
  <2>1. PICK u \in Units : a % u = 0 /\ a < b /\ b < a + u
    BY DEF CutShort
  <2>2. u \in Nat /\ c < a + u
    BY <2>1, TimestampsAssumption
  <2>q. QED
    BY <2>1, <2>2 DEF CutShort
<1>3. \A a, b \in Nat : SortsAfter(a, b) => ~SortsAfter(b, a)
  BY <1>1 DEF SortsAfter
<1>4. \A a, b \in Nat : a = b \/ SortsAfter(a, b) \/ SortsAfter(b, a)
  BY DEF SortsAfter
<1>5. ASSUME NEW a \in Nat, NEW b \in Nat, NEW c \in Nat, SortsAfter(a, b), SortsAfter(b, c)
      PROVE  SortsAfter(a, c)
  <2>1. CASE CutShort(a, b) /\ CutShort(b, c)
    BY <2>1, CutShortTransitive DEF SortsAfter
  <2>2. CASE CutShort(a, b) /\ b > c /\ ~CutShort(c, b)
    <3>1. CASE c > a
      BY <1>2, <2>2, <3>1 DEF SortsAfter
    <3>2. CASE c < a
      <4>1. ~CutShort(c, a)
        BY <2>2, CutShortTransitive
      <4>q. QED
        BY <3>2, <4>1 DEF SortsAfter
    <3>q. QED
      BY <2>2, <3>1, <3>2
  <2>3. CASE a > b /\ ~CutShort(b, a) /\ CutShort(b, c)
    <3>1. a # c /\ ~(a < c)
      BY <1>2, <2>3
    <3>2. ~CutShort(c, a)
      BY <2>3, CutShortTransitive
    <3>q. QED
      BY <3>1, <3>2 DEF SortsAfter
  <2>4. CASE a > b /\ b > c /\ ~CutShort(b, a) /\ ~CutShort(c, b)
    BY <1>2, <2>4 DEF SortsAfter
  <2>q. QED
    BY <1>5, <2>1, <2>2, <2>3, <2>4 DEF SortsAfter
<1>q. QED
  BY <1>3, <1>4, <1>5

-----------------------------------------------------------------------------
(***************************************************************************)
(* The build jobs at start-up.                                             *)
(***************************************************************************)

\* The inductive invariant of ImageReconcile: there is a latest job, if any.
ImagesInvariant == TypeOK /\ (jobs # {} => LatestBuildJob # {})

\* Newest first is a strict and total order of jobs with IDs of their own.
LEMMA NewerStrictly ==
    /\ \A a, b, c \in BuildJob : Newer(a, b) /\ Newer(b, c) => Newer(a, c)
    /\ \A a, b \in BuildJob : a.id # b.id => Newer(a, b) \/ Newer(b, a)
<1>1. \A job \in BuildJob : job.id \in Nat /\ job.startedAt \in Nat
  <2> SUFFICES ASSUME NEW job \in BuildJob PROVE job.id \in Nat /\ job.startedAt \in Nat
    OBVIOUS
  <2>1. job.id \in JobId /\ job.startedAt \in 0..MaxTime
    BY DEF BuildJob
  <2>2. job.id \in Nat
    BY Zenon, <2>1, ImageReconcileAssumption
  <2>3. MaxTime \in Nat
    BY ImageReconcileAssumption
  <2>4. job.startedAt \in Nat
    BY <2>1, <2>3
  <2>q. QED
    BY <2>2, <2>4
<1>2. ASSUME NEW a \in BuildJob, NEW b \in BuildJob, NEW c \in BuildJob, Newer(a, b), Newer(b, c)
      PROVE  Newer(a, c)
  <2>1. \/ SortsAfter(a.startedAt, b.startedAt) /\ SortsAfter(b.startedAt, c.startedAt)
        \/ SortsAfter(a.startedAt, c.startedAt)
        \/ a.startedAt = c.startedAt /\ a.id > b.id /\ b.id > c.id
    BY <1>2 DEF Newer
  <2>2. SortsAfter(a.startedAt, c.startedAt) \/ (a.startedAt = c.startedAt /\ a.id > b.id /\ b.id > c.id)
    BY <1>1, <2>1, SortsStrictly
  <2>q. QED
    BY <1>1, <2>2 DEF Newer
<1>3. ASSUME NEW a \in BuildJob, NEW b \in BuildJob, a.id # b.id PROVE Newer(a, b) \/ Newer(b, a)
  <2>1. a.startedAt = b.startedAt \/ SortsAfter(a.startedAt, b.startedAt) \/ SortsAfter(b.startedAt, a.startedAt)
    BY <1>1, SortsStrictly
  <2>2. a.id > b.id \/ b.id > a.id
    BY <1>1, <1>3
  <2>q. QED
    BY <2>1, <2>2 DEF Newer
<1>q. QED
  BY <1>2, <1>3

\* A job that is saved is the latest, or leaves the latest one in its place.
LEMMA LatestAfterSave ==
    ASSUME ImagesInvariant, NEW ref \in ImageRef, NEW startedAt \in 0..MaxTime, NEW discovered \in BOOLEAN,
           SaveBuildJob(ref, startedAt, discovered)
    PROVE  /\ jobs' \subseteq BuildJob
           /\ \A a, b \in jobs' : a.id = b.id => a = b
           /\ LatestBuildJob' # {}
           /\ \A job \in jobs' \ jobs : job.ref = ref /\ job.discovered = discovered
<1>1. PICK id \in UnusedIds :
           jobs' = jobs \cup {[id |-> id, ref |-> ref, startedAt |-> startedAt, discovered |-> discovered]}
  BY DEF SaveBuildJob
<1> DEFINE new == [id |-> id, ref |-> ref, startedAt |-> startedAt, discovered |-> discovered]
<1>2. /\ new \in BuildJob /\ new.id = id /\ new.ref = ref /\ new.discovered = discovered
      /\ \A job \in jobs : job.id # id
  BY DEF BuildJob, UnusedIds
<1>3. jobs' = jobs \cup {new} /\ jobs \subseteq BuildJob /\ \A a, b \in jobs : a.id = b.id => a = b
  BY <1>1 DEF ImagesInvariant, TypeOK
<1> HIDE DEF new
<1>4. jobs' \subseteq BuildJob /\ \A a, b \in jobs' : a.id = b.id => a = b
  BY <1>2, <1>3
<1>5. LatestBuildJob' # {}
  <2>1. CASE jobs = {}
    <3>1. new \in LatestBuildJob'
      BY <1>3, <2>1 DEF LatestBuildJob
    <3>q. QED
      BY <3>1
  <2>2. CASE jobs # {}
    <3>1. PICK last \in jobs : \A other \in jobs : other = last \/ Newer(last, other)
      BY <2>2 DEF ImagesInvariant, LatestBuildJob
    <3>2. CASE Newer(last, new)
      <4>1. last \in LatestBuildJob'
        BY <1>3, <3>1, <3>2 DEF LatestBuildJob
      <4>q. QED
        BY <4>1
    <3>3. CASE Newer(new, last)
      <4>1. \A other \in jobs : Newer(new, other)
        BY <1>2, <1>3, <3>1, <3>3, NewerStrictly
      <4>2. new \in LatestBuildJob'
        BY <1>3, <4>1 DEF LatestBuildJob
      <4>q. QED
        BY <4>2
    <3>q. QED
      BY <1>2, <1>3, <3>2, <3>3, NewerStrictly
  <2>q. QED
    BY <2>1, <2>2
<1>6. \A job \in jobs' \ jobs : job.ref = ref /\ job.discovered = discovered
  BY <1>2, <1>3
<1>q. QED
  BY <1>4, <1>5, <1>6

\* One build at a time.
LEMMA OneAtMost ==
    Cardinality({}) <= 1 /\ \A build : Cardinality({build}) <= 1
BY FS_EmptySet, FS_Singleton

\* A step that saves no job.
LEMMA SameJobs ==
    ASSUME ImagesInvariant, UNCHANGED jobs, TypeOK'
    PROVE  ImagesInvariant'
BY DEF ImagesInvariant, LatestBuildJob

\* Each step keeps the invariant.
LEMMA ImagesStep == ImagesInvariant /\ [Next]_vars => ImagesInvariant'
<1> SUFFICES ASSUME ImagesInvariant, [Next]_vars PROVE ImagesInvariant'
  OBVIOUS
<1>0. /\ MaxTime \in Nat /\ NoImage = MaxTime + 1 /\ clock \in 0..MaxTime /\ imageRef \in ImageRef
      /\ images \in [ImageRef -> 0..NoImage]
      /\ building \subseteq [ref : ImageRef, startedAt : 0..clock] /\ Cardinality(building) <= 1
      /\ jobs \subseteq BuildJob /\ \A a, b \in jobs : a.id = b.id => a = b
  BY ImageReconcileAssumption DEF ImagesInvariant, TypeOK, NoImage
<1>1. CASE BuildStart
  <2>1. /\ building' = {[ref |-> imageRef, startedAt |-> clock]}
        /\ UNCHANGED <<clock, imageRef, images, jobs>>
    BY <1>1 DEF BuildStart
  <2>2. building' \subseteq [ref : ImageRef, startedAt : 0..clock] /\ Cardinality(building') <= 1
    <3>1. Cardinality(building') <= 1
      BY Zenon, <2>1, OneAtMost
    <3>q. QED
      BY <1>0, <2>1, <3>1
  <2>q. QED
    BY <1>0, <2>1, <2>2, SameJobs DEF TypeOK
<1>2. CASE BuildEnd
  <2>1. PICK build \in building :
            /\ SaveBuildJob(build.ref, build.startedAt, FALSE) \/ UNCHANGED jobs
            /\ images' \in {images} \cup {[images EXCEPT ![build.ref] = created] : created \in 0..clock}
            /\ building' = {} /\ UNCHANGED <<clock, imageRef>>
    BY <1>2 DEF BuildEnd
  <2>2. build.ref \in ImageRef /\ build.startedAt \in 0..MaxTime
    BY <1>0
  <2>3. images' \in [ImageRef -> 0..NoImage]
    BY <1>0, <2>1, <2>2
  <2>4. building' \subseteq [ref : ImageRef, startedAt : 0..clock] /\ Cardinality(building') <= 1
    BY <2>1, OneAtMost
  <2>5. CASE UNCHANGED jobs
    BY <1>0, <2>1, <2>3, <2>4, <2>5, SameJobs DEF TypeOK
  <2>6. CASE SaveBuildJob(build.ref, build.startedAt, FALSE)
    <3>1. /\ jobs' \subseteq BuildJob /\ \A a, b \in jobs' : a.id = b.id => a = b
          /\ LatestBuildJob' # {}
      BY <2>2, <2>6, LatestAfterSave
    <3>q. QED
      BY <1>0, <2>1, <2>3, <2>4, <3>1 DEF ImagesInvariant, TypeOK
  <2>q. QED
    BY <2>1, <2>5, <2>6
<1>3. CASE ReconcileEnvironmentImage
  <2>1. building' = {} /\ UNCHANGED <<clock, imageRef, images>>
    BY <1>3 DEF ReconcileEnvironmentImage
  <2>2. building' \subseteq [ref : ImageRef, startedAt : 0..clock] /\ Cardinality(building') <= 1
    BY <2>1, OneAtMost
  <2>3. CASE UNCHANGED jobs
    BY <1>0, <2>1, <2>2, <2>3, SameJobs DEF TypeOK
  <2>4. CASE images[imageRef] # NoImage /\ SaveBuildJob(imageRef, images[imageRef], TRUE)
    <3>1. images[imageRef] \in 0..MaxTime
      BY <1>0, <2>4
    <3>2. /\ jobs' \subseteq BuildJob /\ \A a, b \in jobs' : a.id = b.id => a = b
          /\ LatestBuildJob' # {}
      BY <1>0, <2>4, <3>1, LatestAfterSave
    <3>q. QED
      BY <1>0, <2>1, <2>2, <3>2 DEF ImagesInvariant, TypeOK
  <2>q. QED
    BY <1>3, <2>3, <2>4 DEF ReconcileEnvironmentImage
<1>4. CASE Tick
  <2>1. clock' \in 0..MaxTime /\ clock' >= clock /\ UNCHANGED <<imageRef, images, building, jobs>>
    BY <1>0, <1>4 DEF Tick
  <2>2. building' \subseteq [ref : ImageRef, startedAt : 0..clock']
    BY <1>0, <2>1
  <2>q. QED
    BY <1>0, <2>1, <2>2, SameJobs DEF TypeOK
<1>5. CASE \E ref \in ImageRef : HostImage(ref) \/ HostRemoves(ref) \/ Edit(ref)
  <2>1. /\ images' \in [ImageRef -> 0..NoImage] /\ imageRef' \in ImageRef
        /\ UNCHANGED <<clock, building, jobs>>
    BY <1>0, <1>5 DEF HostImage, HostRemoves, Edit
  <2>q. QED
    BY <1>0, <2>1, SameJobs DEF TypeOK
<1>6. CASE UNCHANGED vars
  BY <1>6 DEF vars, ImagesInvariant, TypeOK, LatestBuildJob
<1>q. QED
  BY <1>1, <1>2, <1>3, <1>4, <1>5, <1>6 DEF Next

\* The rows keep their types, no two have an ID, and one of them is the latest.
THEOREM ImagesInvariantHolds == Spec => []ImagesInvariant
<1>1. Init => ImagesInvariant
  BY ImageReconcileAssumption, OneAtMost DEF Init, ImagesInvariant, TypeOK, NoImage
<1>q. QED
  BY <1>1, ImagesStep, PTL DEF Spec

\* Start-up records an image only if no job tells of its reference, or the latest
\* job is of another (reconcileEnvironmentImage, build_service.go:250-298): for any
\* jobs, references, and dates, whatever the order of their texts.
THEOREM DiscoveredOnlyUnknownHolds == Spec => DiscoveredOnlyUnknown
<1> DEFINE Known ==
             \A new \in jobs' \ jobs, old \in jobs :
                new.discovered /\ old.ref = new.ref =>
                    \E other \in jobs : other.ref # new.ref /\ Newer(other, old)
<1>1. ASSUME ImagesInvariant, [Next]_vars PROVE [Known]_vars
  <2> SUFFICES ASSUME NEW new \in jobs' \ jobs, NEW old \in jobs, new.discovered, old.ref = new.ref,
                      Next
               PROVE  \E other \in jobs : other.ref # new.ref /\ Newer(other, old)
    BY <1>1
  <2>0. MaxTime \in Nat /\ NoImage = MaxTime + 1 /\ imageRef \in ImageRef /\ images \in [ImageRef -> 0..NoImage]
    BY <1>1, ImageReconcileAssumption DEF ImagesInvariant, TypeOK, NoImage
  <2>1. ~ UNCHANGED jobs
    OBVIOUS
  <2>2. ~BuildEnd
    <3> SUFFICES ASSUME BuildEnd PROVE FALSE
      OBVIOUS
    <3>1. PICK build \in building : SaveBuildJob(build.ref, build.startedAt, FALSE)
      BY <2>1 DEF BuildEnd
    <3>2. build.ref \in ImageRef /\ build.startedAt \in 0..MaxTime
      BY <1>1, <2>0 DEF ImagesInvariant, TypeOK
    <3>3. new.discovered = FALSE
      BY <1>1, <3>1, <3>2, LatestAfterSave
    <3>q. QED
      BY <3>3
  <2>3. images[imageRef] # NoImage /\ ~Recorded(imageRef) /\ SaveBuildJob(imageRef, images[imageRef], TRUE)
    BY <2>1, <2>2 DEF Next, BuildStart, ReconcileEnvironmentImage, Tick, HostImage, HostRemoves, Edit
  <2>4. new.ref = imageRef
    <3>1. images[imageRef] \in 0..MaxTime
      BY <2>0, <2>3
    <3>q. QED
      BY <1>1, <2>0, <2>3, <3>1, LatestAfterSave
  <2>5. PICK last \in jobs : \A other \in jobs : other = last \/ Newer(last, other)
    BY <1>1 DEF ImagesInvariant, LatestBuildJob
  <2>6. last.ref # imageRef
    BY <2>3, <2>5 DEF Recorded, LatestBuildJob
  <2>q. QED
    BY <2>4, <2>5, <2>6
<1>2. ImagesInvariant /\ [Next]_vars => [Known]_vars
  BY <1>1
<1>q. QED
  BY <1>2, ImagesInvariantHolds, PTL DEF Spec, DiscoveredOnlyUnknown

-----------------------------------------------------------------------------
(***************************************************************************)
(* Sessions, page by page.                                                 *)
(***************************************************************************)

\* The rows of M that come before s, by these dates, and how many they are.
Before(dates, r, s) == SortsAfter(dates[r], dates[s]) \/ (dates[r] = dates[s] /\ r > s)
InFront(dates, M, s) == {r \in M : Before(dates, r, s)}
Rank(dates, M, s) == Cardinality(InFront(dates, M, s))

\* How many rows the pages before this one have.
Offset(l) == (l.page - 1) * l.size

\* What a list l has of the rows M, given what happened to them.  Those that are
\* listed lie before the offset, as long as none entered; those that are not, and
\* matched all the while, lie behind it, as long as none left; and with no more
\* than the offset taken, the count ends the list only behind the last of them.
PagesSound(l, m, M, dates) ==
    /\ l.phase \in {"count", "page"} =>
          /\ m.steady \subseteq M
          /\ l.taken <= Offset(l)
          /\ m.entered = FALSE => \A s \in l.seen \cap M : Rank(dates, M, s) < Offset(l)
          /\ m.left = FALSE => \A s \in m.steady \ l.seen : Rank(dates, M, s) >= Offset(l)
    /\ l.phase = "page" /\ m.late = FALSE => Cardinality(M) <= l.total
    /\ l.phase = "done" /\ m.left = FALSE /\ m.late = FALSE => m.steady \subseteq l.seen
    /\ m.entered = FALSE => l.twice = {}

ListType == [phase : {"idle", "count", "page", "done"}, filter : Filter, size : Nat \ {0}, page : Nat \ {0},
             total : Nat, taken : Nat, seen : SUBSET Session, twice : SUBSET Session]

MeanwhileType == [steady : SUBSET Session, entered : BOOLEAN, left : BOOLEAN, late : BOOLEAN]

\* The types; and there are finitely many rows.
ListingTypeOK ==
    /\ now \in Nat /\ status \in [Session -> Status] /\ createdAt \in [Session -> Nat]
    /\ IsFiniteSet({s \in Session : status[s] # "none"})
    /\ list \in ListType /\ meanwhile \in MeanwhileType

\* The inductive invariant of SessionListing.
ListingInvariant == ListingTypeOK /\ PagesSound(list, meanwhile, Matching(list.filter), createdAt)

\* A set of numbers that is not empty has a least one.
LEMMA LeastOf ==
    ASSUME NEW T, T \subseteq Nat, T # {}
    PROVE  \E x \in T : \A y \in T : x <= y
<1>1. IsWellFoundedOn(OpToRel(<, Nat), Nat)
  BY Zenon, NatLessThanWellFounded
<1>2. PICK x \in T : \A y \in T : ~ (<<y, x>> \in OpToRel(<, Nat))
  BY Zenon, <1>1, WFMin
<1>3. \A y \in T : ~ (y < x)
  BY Zenon, <1>2 DEF OpToRel
<1>q. QED
  BY <1>3

\* Newest first is a strict and total order of the sessions.
LEMMA BeforeStrictly ==
    ASSUME NEW dates \in [Session -> Nat]
    PROVE  /\ \A a \in Session : ~Before(dates, a, a)
           /\ \A a, b, c \in Session : Before(dates, a, b) /\ Before(dates, b, c) => Before(dates, a, c)
           /\ \A a, b \in Session : a = b \/ Before(dates, a, b) \/ Before(dates, b, a)
<1>1. \A s \in Session : s \in Nat /\ dates[s] \in Nat
  BY SessionListingAssumption
<1>2. ASSUME NEW a \in Session PROVE ~Before(dates, a, a)
  BY <1>1, SortsStrictly DEF Before
<1>3. ASSUME NEW a \in Session, NEW b \in Session, NEW c \in Session, Before(dates, a, b), Before(dates, b, c)
      PROVE  Before(dates, a, c)
  <2>1. \/ SortsAfter(dates[a], dates[b]) /\ SortsAfter(dates[b], dates[c])
        \/ SortsAfter(dates[a], dates[c])
        \/ dates[a] = dates[c] /\ a > b /\ b > c
    BY <1>3 DEF Before
  <2>2. SortsAfter(dates[a], dates[c]) \/ (dates[a] = dates[c] /\ a > b /\ b > c)
    BY <1>1, <2>1, SortsStrictly
  <2>q. QED
    BY <1>1, <2>2 DEF Before
<1>4. ASSUME NEW a \in Session, NEW b \in Session PROVE a = b \/ Before(dates, a, b) \/ Before(dates, b, a)
  <2>1. dates[a] = dates[b] \/ SortsAfter(dates[a], dates[b]) \/ SortsAfter(dates[b], dates[a])
    BY <1>1, SortsStrictly
  <2>2. a = b \/ a > b \/ b > a
    BY <1>1
  <2>q. QED
    BY <2>1, <2>2 DEF Before
<1>q. QED
  BY <1>2, <1>3, <1>4

\* Every row has a rank of its own, below the number of rows.
LEMMA RanksDiffer ==
    ASSUME NEW dates \in [Session -> Nat], NEW M \in SUBSET Session, IsFiniteSet(M)
    PROVE  /\ Cardinality(M) \in Nat
           /\ \A s \in M : Rank(dates, M, s) \in Nat /\ Rank(dates, M, s) < Cardinality(M)
           /\ \A a, b \in M : Before(dates, a, b) => Rank(dates, M, a) < Rank(dates, M, b)
           /\ \A a, b \in M : Rank(dates, M, a) = Rank(dates, M, b) => a = b
<1>1. Cardinality(M) \in Nat
  BY FS_CardinalityType
<1>2. ASSUME NEW s \in M
      PROVE  /\ IsFiniteSet(InFront(dates, M, s)) /\ Rank(dates, M, s) \in Nat
             /\ Rank(dates, M, s) < Cardinality(M)
  <2>1. InFront(dates, M, s) \in SUBSET M /\ s \notin InFront(dates, M, s)
    BY BeforeStrictly DEF InFront
  <2>2. /\ IsFiniteSet(InFront(dates, M, s)) /\ Rank(dates, M, s) <= Cardinality(M)
        /\ Cardinality(M) = Rank(dates, M, s) => M = InFront(dates, M, s)
    BY Zenon, <2>1, FS_Subset DEF Rank
  <2>3. Rank(dates, M, s) \in Nat
    BY Zenon, <2>2, FS_CardinalityType DEF Rank
  <2>4. Cardinality(M) # Rank(dates, M, s)
    BY <2>1, <2>2
  <2>q. QED
    BY <1>1, <2>2, <2>3, <2>4
<1>3. ASSUME NEW a \in M, NEW b \in M, Before(dates, a, b)
      PROVE  Rank(dates, M, a) < Rank(dates, M, b)
  <2>1. /\ InFront(dates, M, a) \in SUBSET InFront(dates, M, b)
        /\ a \in InFront(dates, M, b) /\ a \notin InFront(dates, M, a)
    BY <1>3, BeforeStrictly DEF InFront
  <2>2. /\ Rank(dates, M, a) <= Rank(dates, M, b)
        /\ Rank(dates, M, b) = Rank(dates, M, a) => InFront(dates, M, b) = InFront(dates, M, a)
    BY Zenon, <1>2, <2>1, FS_Subset DEF Rank
  <2>3. Rank(dates, M, b) # Rank(dates, M, a)
    BY <2>1, <2>2
  <2>q. QED
    BY <1>2, <2>2, <2>3
<1>4. ASSUME NEW a \in M, NEW b \in M, Rank(dates, M, a) = Rank(dates, M, b) PROVE a = b
  <2>1. a = b \/ Before(dates, a, b) \/ Before(dates, b, a)
    BY BeforeStrictly
  <2>q. QED
    BY <1>2, <1>3, <1>4, <2>1
<1>q. QED
  BY <1>1, <1>2, <1>3, <1>4

\* No more rows have ranks in an interval than it is long.
LEMMA RanksWithin ==
    ASSUME NEW dates \in [Session -> Nat], NEW M \in SUBSET Session, IsFiniteSet(M),
           NEW low \in Nat, NEW size \in Nat,
           NEW T \in SUBSET M, \A s \in T : low <= Rank(dates, M, s) /\ Rank(dates, M, s) < low + size
    PROVE  IsFiniteSet(T) /\ Cardinality(T) \in Nat /\ Cardinality(T) <= size
<1> DEFINE rank == [s \in T |-> Rank(dates, M, s)]
           within == low..(low + size - 1)
<1>1. IsFiniteSet(within) /\ Cardinality(within) = size
  <2>1. low + size - 1 \in Int /\ low \in Int
    OBVIOUS
  <2>2. IsFiniteSet(within) /\ Cardinality(within) = IF low > low + size - 1 THEN 0 ELSE (low + size - 1) - low + 1
    BY <2>1, FS_Interval
  <2> HIDE DEF within
  <2>q. QED
    BY <2>2
<1>2. rank \in Injection(T, within)
  <2>1. \A s \in T : Rank(dates, M, s) \in within
    BY RanksDiffer
  <2>2. \A a, b \in T : rank[a] = rank[b] => a = b
    BY RanksDiffer
  <2>3. rank \in [T -> within]
    <3> HIDE DEF within
    <3>q. QED
      BY <2>1
  <2> HIDE DEF within, rank
  <2>q. QED
    BY <2>2, <2>3 DEF Injection, IsInjective
<1> HIDE DEF rank, within
<1>3. IsFiniteSet(T) /\ Cardinality(T) <= Cardinality(within)
  BY Zenon, <1>1, <1>2, FS_Injection
<1>4. Cardinality(T) \in Nat
  BY <1>3, FS_CardinalityType
<1>q. QED
  BY <1>1, <1>3, <1>4

\* No rank is left out below that of a row.
LEMMA RanksDense ==
    ASSUME NEW dates \in [Session -> Nat], NEW M \in SUBSET Session, IsFiniteSet(M),
           NEW s \in M, NEW n \in Nat, n <= Rank(dates, M, s)
    PROVE  \E r \in M : Rank(dates, M, r) = n
<1> DEFINE T == {Rank(dates, M, r) : r \in {x \in M : n <= Rank(dates, M, x)}}
<1>0. \A r \in M : Rank(dates, M, r) \in Nat
  BY RanksDiffer
<1>1. T \subseteq Nat /\ T # {}
  BY <1>0
<1>2. PICK least \in T : \A y \in T : least <= y
  <2> HIDE DEF T
  <2>q. QED
    BY <1>1, LeastOf
<1>3. PICK r \in M : least = Rank(dates, M, r) /\ n <= Rank(dates, M, r)
  OBVIOUS
<1>4. \A x \in M : n <= Rank(dates, M, x) => Rank(dates, M, r) <= Rank(dates, M, x)
  BY <1>2, <1>3
<1>5. ASSUME NEW x \in InFront(dates, M, r) PROVE x \in M /\ 0 <= Rank(dates, M, x) /\ Rank(dates, M, x) < 0 + n
  <2>1. x \in M /\ Before(dates, x, r)
    BY DEF InFront
  <2>2. Rank(dates, M, x) < Rank(dates, M, r)
    BY <2>1, RanksDiffer
  <2>q. QED
    BY <1>0, <1>4, <2>1, <2>2
<1>6. Cardinality(InFront(dates, M, r)) <= n
  <2>1. InFront(dates, M, r) \in SUBSET M
    BY DEF InFront
  <2>q. QED
    BY <1>5, <2>1, RanksWithin
<1>7. Rank(dates, M, r) <= n
  BY <1>6 DEF Rank
<1>q. QED
  BY <1>0, <1>3, <1>7

\* Ranks do not grow as rows leave: nor as they come do they fall.
LEMMA RanksFollow ==
    ASSUME NEW dates \in [Session -> Nat], NEW M \in SUBSET Session, IsFiniteSet(M),
           NEW L \in SUBSET M, NEW s
    PROVE  Rank(dates, L, s) \in Nat /\ Rank(dates, M, s) \in Nat /\ Rank(dates, L, s) <= Rank(dates, M, s)
<1>1. InFront(dates, L, s) \in SUBSET InFront(dates, M, s) /\ InFront(dates, M, s) \in SUBSET M
  BY DEF InFront
<1>2. IsFiniteSet(InFront(dates, M, s))
  BY Zenon, <1>1, FS_Subset
<1>3. IsFiniteSet(InFront(dates, L, s)) /\ Rank(dates, L, s) <= Rank(dates, M, s)
  BY Zenon, <1>1, <1>2, FS_Subset DEF Rank
<1>q. QED
  BY Zenon, <1>2, <1>3, FS_CardinalityType DEF Rank

\* The rows of a page lie between its offset and the next.
LEMMA OnPage ==
    ASSUME NEW n \in Nat, NEW page \in Nat \ {0}, NEW size \in Nat \ {0}
    PROVE  /\ (page - 1) * size \in Nat /\ ((page + 1) - 1) * size = (page - 1) * size + size
           /\ n \div size = page - 1 <=> (page - 1) * size <= n /\ n < (page - 1) * size + size
<1> DEFINE q == n \div size
<1>1. q \in Int /\ size * q <= n /\ n < size * q + size
  OBVIOUS
<1>2. (page - 1) * size \in Nat /\ ((page + 1) - 1) * size = (page - 1) * size + size
  OBVIOUS
<1> HIDE DEF q
<1>3. ASSUME q = page - 1 PROVE (page - 1) * size <= n /\ n < (page - 1) * size + size
  BY <1>1, <1>3
<1>4. ASSUME (page - 1) * size <= n, n < (page - 1) * size + size PROVE q = page - 1
  BY <1>1, <1>4
<1>q. QED
  BY <1>2, <1>3, <1>4 DEF q


\* Every page has its size.
LEMMA NextPage ==
    ASSUME NEW page \in Nat \ {0}, NEW size \in Nat \ {0}
    PROVE  ((page + 1) - 1) * size = (page - 1) * size + size
OBVIOUS

\* Phases are told apart.
LEMMA PhasesDiffer ==
    \A p : /\ p = "count" => p \in {"count", "page"} /\ p # "page" /\ p # "done"
           /\ p = "done" => p \notin {"count", "page"} /\ p # "page"
OBVIOUS

\* Reading a page keeps what is known of the list: the rows of the page are those
\* between its offset and the next, and the list ends behind the last row.
LEMMA PageRead ==
    ASSUME NEW dates \in [Session -> Nat], NEW M \in SUBSET Session, IsFiniteSet(M),
           NEW l \in ListType, NEW n \in ListType, NEW m \in MeanwhileType,
           l.phase = "page", PagesSound(l, m, M, dates),
           NEW B, B = {s \in M : Rank(dates, M, s) \div l.size = l.page - 1},
           \/ n.phase = "done" /\ (B = {} \/ l.taken + Cardinality(B) >= l.total)
           \/ n.phase = "count" /\ n.page = l.page + 1,
           n.size = l.size, n.taken = l.taken + Cardinality(B),
           n.seen = l.seen \cup B, n.twice = l.twice \cup (l.seen \cap B)
    PROVE  PagesSound(n, m, M, dates)
<1>0. /\ l.page \in Nat \ {0} /\ l.size \in Nat \ {0} /\ l.taken \in Nat /\ l.total \in Nat
      /\ m.steady \in SUBSET Session
  BY DEF ListType, MeanwhileType
<1>1. \A s \in M : Rank(dates, M, s) \in Nat /\ Rank(dates, M, s) < Cardinality(M)
  BY Zenon, RanksDiffer
<1>2. Offset(l) \in Nat
  BY <1>0, OnPage DEF Offset
<1>3. \A s \in M : s \in B <=> Offset(l) <= Rank(dates, M, s) /\ Rank(dates, M, s) < Offset(l) + l.size
  <2> SUFFICES ASSUME NEW s \in M
               PROVE  s \in B <=> Offset(l) <= Rank(dates, M, s) /\ Rank(dates, M, s) < Offset(l) + l.size
    OBVIOUS
  <2>1. s \in B <=> Rank(dates, M, s) \div l.size = l.page - 1
    OBVIOUS
  <2>2. Rank(dates, M, s) \in Nat
    BY <1>1
  <2>3. Rank(dates, M, s) \div l.size = l.page - 1
            <=> Offset(l) <= Rank(dates, M, s) /\ Rank(dates, M, s) < Offset(l) + l.size
    BY Zenon, <1>0, <2>2, OnPage DEF Offset
  <2>q. QED
    BY Zenon, <2>1, <2>3
<1>4. Cardinality(B) \in Nat /\ Cardinality(B) <= l.size
  <2>1. B \in SUBSET M
    OBVIOUS
  <2>q. QED
    BY <1>0, <1>2, <1>3, <2>1, RanksWithin
<1>5. Cardinality(M) \in Nat
  BY FS_CardinalityType
<1>6. /\ m.steady \subseteq M
      /\ l.taken <= Offset(l)
      /\ m.entered = FALSE => \A s \in l.seen \cap M : Rank(dates, M, s) < Offset(l)
      /\ m.left = FALSE => \A s \in m.steady \ l.seen : Rank(dates, M, s) >= Offset(l)
      /\ m.late = FALSE => Cardinality(M) <= l.total
      /\ m.entered = FALSE => l.twice = {}
  BY Zenon DEF PagesSound
<1>7. ASSUME m.left = FALSE, NEW s \in m.steady \ n.seen
      PROVE  s \in M /\ s \notin B /\ Rank(dates, M, s) >= Offset(l) + l.size
  <2>1. s \in m.steady \ l.seen /\ s \in M /\ s \notin B
    BY <1>6
  <2>2. Rank(dates, M, s) >= Offset(l)
    BY <1>6, <1>7, <2>1
  <2>q. QED
    BY <1>0, <1>1, <1>2, <1>3, <2>1, <2>2
<1>8. ASSUME m.entered = FALSE PROVE n.twice = {}
  <2>1. \A s \in l.seen \cap M : Rank(dates, M, s) < Offset(l)
    BY <1>6, <1>8
  <2>2. l.seen \cap B = {}
    BY <1>1, <1>2, <1>3, <2>1
  <2>q. QED
    BY <1>6, <1>8, <2>2
<1>9. CASE n.phase = "count" /\ n.page = l.page + 1
  <2>1. Offset(n) = Offset(l) + l.size
    <3>1. ((l.page + 1) - 1) * l.size = (l.page - 1) * l.size + l.size
      BY Zenon, <1>0, NextPage
    <3>q. QED
      BY Zenon, <1>9, <3>1 DEF Offset
  <2>2. n.taken <= Offset(n)
    BY <1>0, <1>2, <1>4, <1>6, <2>1
  <2>3. ASSUME m.entered = FALSE, NEW s \in n.seen \cap M PROVE Rank(dates, M, s) < Offset(n)
    <3>1. s \in l.seen \cap M \/ s \in B
      OBVIOUS
    <3>2. s \in l.seen \cap M => Rank(dates, M, s) < Offset(l)
      BY <1>6, <2>3
    <3>3. s \in M
      OBVIOUS
    <3>q. QED
      BY <1>0, <1>1, <1>2, <1>3, <2>1, <3>1, <3>2, <3>3
  <2>4. ASSUME m.left = FALSE, NEW s \in m.steady \ n.seen PROVE Rank(dates, M, s) >= Offset(n)
    BY <1>7, <2>1, <2>4
  <2>q. QED
    BY Zenon, <1>6, <1>8, <1>9, <2>2, <2>3, <2>4, PhasesDiffer DEF PagesSound
<1>10. CASE n.phase = "done" /\ (B = {} \/ l.taken + Cardinality(B) >= l.total)
  <2>1. ASSUME m.left = FALSE, m.late = FALSE PROVE m.steady \subseteq n.seen
    <3>1. SUFFICES ASSUME NEW s \in m.steady \ n.seen PROVE FALSE
      OBVIOUS
    <3>2. s \in M /\ s \notin B /\ Rank(dates, M, s) >= Offset(l) + l.size
      BY <1>7, <2>1
    <3>3. CASE B = {}
      <4>1. Offset(l) <= Rank(dates, M, s)
        BY <1>0, <1>1, <1>2, <3>2
      <4>2. PICK r \in M : Rank(dates, M, r) = Offset(l)
        BY <1>2, <3>2, <4>1, RanksDense
      <4>q. QED
        BY <1>0, <1>2, <1>3, <3>3, <4>2
    <3>4. CASE l.taken + Cardinality(B) >= l.total
      <4>1. Rank(dates, M, s) < l.total
        BY <1>0, <1>1, <1>5, <1>6, <2>1, <3>2
      <4>q. QED
        BY <1>0, <1>1, <1>2, <1>4, <1>6, <3>2, <3>4, <4>1
    <3>q. QED
      BY <1>10, <3>3, <3>4
  <2>q. QED
    BY Zenon, <1>6, <1>8, <1>10, <2>1, PhasesDiffer DEF PagesSound
<1>q. QED
  BY <1>9, <1>10

\* What is known of the list stays true as rows come and go, as far as that is noted.
LEMMA RowsChange ==
    ASSUME NEW dates \in [Session -> Nat], NEW M \in SUBSET Session, IsFiniteSet(M),
           NEW N \in SUBSET Session, IsFiniteSet(N),
           NEW l \in ListType, NEW m \in MeanwhileType, NEW k \in MeanwhileType,
           PagesSound(l, m, M, dates),
           k.steady = m.steady \cap N,
           k.entered = FALSE => m.entered = FALSE /\ N \subseteq M,
           k.left = FALSE => m.left = FALSE /\ M \subseteq N,
           k.late = FALSE => m.late = FALSE /\ (l.phase = "page" => N \subseteq M)
    PROVE  PagesSound(l, k, N, dates)
<1>0. l.page \in Nat \ {0} /\ l.size \in Nat \ {0} /\ l.total \in Nat
  BY DEF ListType
<1>1. Offset(l) \in Nat
  BY <1>0, OnPage DEF Offset
<1>2. ASSUME l.phase \in {"count", "page"}
      PROVE  /\ k.steady \subseteq N
             /\ l.taken <= Offset(l)
             /\ k.entered = FALSE => \A s \in l.seen \cap N : Rank(dates, N, s) < Offset(l)
             /\ k.left = FALSE => \A s \in k.steady \ l.seen : Rank(dates, N, s) >= Offset(l)
  <2>1. /\ m.steady \subseteq M
        /\ l.taken <= Offset(l)
        /\ m.entered = FALSE => \A s \in l.seen \cap M : Rank(dates, M, s) < Offset(l)
        /\ m.left = FALSE => \A s \in m.steady \ l.seen : Rank(dates, M, s) >= Offset(l)
    BY Zenon, <1>2 DEF PagesSound
  <2>2. ASSUME k.entered = FALSE, NEW s \in l.seen \cap N PROVE Rank(dates, N, s) < Offset(l)
    <3>1. N \subseteq M /\ Rank(dates, M, s) < Offset(l)
      BY <2>1, <2>2
    <3>2. Rank(dates, N, s) \in Nat /\ Rank(dates, M, s) \in Nat /\ Rank(dates, N, s) <= Rank(dates, M, s)
      BY <3>1, RanksFollow
    <3>q. QED
      BY <1>1, <3>1, <3>2
  <2>3. ASSUME k.left = FALSE, NEW s \in k.steady \ l.seen PROVE Rank(dates, N, s) >= Offset(l)
    <3>1. M \subseteq N /\ Rank(dates, M, s) >= Offset(l)
      BY <2>1, <2>3
    <3>2. Rank(dates, N, s) \in Nat /\ Rank(dates, M, s) \in Nat /\ Rank(dates, M, s) <= Rank(dates, N, s)
      BY <3>1, RanksFollow
    <3>q. QED
      BY <1>1, <3>1, <3>2
  <2>q. QED
    BY <2>1, <2>2, <2>3
<1>3. ASSUME l.phase = "page", k.late = FALSE PROVE Cardinality(N) <= l.total
  <2>1. N \in SUBSET M /\ Cardinality(M) <= l.total
    BY <1>3 DEF PagesSound
  <2>2. Cardinality(N) <= Cardinality(M)
    BY Zenon, <2>1, FS_Subset
  <2>3. Cardinality(N) \in Nat /\ Cardinality(M) \in Nat
    BY FS_CardinalityType
  <2>q. QED
    BY <1>0, <2>1, <2>2, <2>3
<1>4. ASSUME l.phase = "done", k.left = FALSE, k.late = FALSE PROVE k.steady \subseteq l.seen
  BY <1>4 DEF PagesSound
<1>5. ASSUME k.entered = FALSE PROVE l.twice = {}
  BY <1>5 DEF PagesSound
<1>q. QED
  BY Zenon, <1>2, <1>3, <1>4, <1>5 DEF PagesSound

\* It does not depend on the dates of rows that do not match.
LEMMA DatesChange ==
    ASSUME NEW dates \in [Session -> Nat], NEW later \in [Session -> Nat], NEW M \in SUBSET Session,
           \A s \in M : later[s] = dates[s],
           NEW l, NEW m, m.steady \subseteq Session, PagesSound(l, m, M, dates)
    PROVE  PagesSound(l, m, M, later)
<1>1. \A s \in M : Rank(later, M, s) = Rank(dates, M, s)
  <2> SUFFICES ASSUME NEW s \in M PROVE InFront(later, M, s) = InFront(dates, M, s)
    BY Zenon DEF Rank
  <2>1. \A r \in M : Before(later, r, s) <=> Before(dates, r, s)
    BY DEF Before
  <2>q. QED
    BY <2>1 DEF InFront
<1>2. l.phase \in {"count", "page"} => m.steady \subseteq M
  BY DEF PagesSound
<1>q. QED
  BY Zenon, <1>1, <1>2 DEF PagesSound


\* At the start there are no rows, and no list is under way.
LEMMA ListingStarts == ListingInit => ListingInvariant
<1> SUFFICES ASSUME ListingInit PROVE ListingInvariant
  OBVIOUS
<1>1. /\ now = 0 /\ status = [s \in Session |-> "none"] /\ createdAt = [s \in Session |-> 0]
      /\ list = [phase |-> "idle", filter |-> "active", size |-> 1, page |-> 1,
                 total |-> 0, taken |-> 0, seen |-> {}, twice |-> {}]
      /\ meanwhile = [steady |-> {}, entered |-> FALSE, left |-> FALSE, late |-> FALSE]
  BY DEF ListingInit, Nothing
<1>2. IsFiniteSet({s \in Session : status[s] # "none"})
  <2>1. {s \in Session : status[s] # "none"} = {}
    BY <1>1
  <2>q. QED
    BY <2>1, FS_EmptySet
<1>3. ListingTypeOK
  BY <1>1, <1>2 DEF ListingTypeOK, Status, ListType, Filter, MeanwhileType
<1>4. PagesSound(list, meanwhile, Matching(list.filter), createdAt)
  <2>1. list.phase = "idle" /\ list.twice = {}
    BY <1>1
  <2>q. QED
    BY <2>1 DEF PagesSound
<1>q. QED
  BY <1>3, <1>4 DEF ListingInvariant

\* There are finitely many matching rows.
LEMMA MatchingFinite ==
    ASSUME ListingTypeOK, NEW filter \in Filter
    PROVE  Matching(filter) \in SUBSET Session /\ IsFiniteSet(Matching(filter)) /\ Cardinality(Matching(filter)) \in Nat
<1>1. Matching(filter) \subseteq {s \in Session : status[s] # "none"}
  BY DEF Matching, StatusesOf, Filter
<1>2. IsFiniteSet(Matching(filter))
  BY <1>1, FS_Subset DEF ListingTypeOK
<1>3. Matching(filter) \in SUBSET Session
  BY DEF Matching
<1>q. QED
  BY <1>2, <1>3, FS_CardinalityType

\* A step of one row keeps the types; only its own row may change its mind.
LEMMA RowTypes ==
    ASSUME ListingTypeOK, NEW s \in Session, NEW new \in Status, NEW date \in Nat,
           status' = [status EXCEPT ![s] = new],
           createdAt' = [createdAt EXCEPT ![s] = date] \/ createdAt' = createdAt,
           now' = now, list' = list, meanwhile' \in MeanwhileType
    PROVE  /\ ListingTypeOK'
           /\ status'[s] = new
           /\ \A r \in Session \ {s} : status'[r] = status[r] /\ createdAt'[r] = createdAt[r]
<1>1. status \in [Session -> Status] /\ createdAt \in [Session -> Nat]
  BY DEF ListingTypeOK
<1>2. status' \in [Session -> Status] /\ createdAt' \in [Session -> Nat]
  BY <1>1
<1>3. status'[s] = new /\ \A r \in Session \ {s} : status'[r] = status[r] /\ createdAt'[r] = createdAt[r]
  BY <1>1
<1>4. IsFiniteSet({r \in Session : status[r] # "none"})'
  <2> DEFINE before == {r \in Session : status[r] # "none"}
             after == {r \in Session : status'[r] # "none"}
  <2>1. after \subseteq before \cup {s}
    BY <1>3
  <2>2. IsFiniteSet(before)
    BY DEF ListingTypeOK
  <2> HIDE DEF before, after
  <2>3. IsFiniteSet(before \cup {s})
    BY <2>2, FS_AddElement
  <2>4. IsFiniteSet(after)
    BY Zenon, <2>1, <2>3, FS_Subset
  <2>q. QED
    BY <2>4 DEF after
<1>q. QED
  BY <1>2, <1>3, <1>4 DEF ListingTypeOK


\* What is noted of rows that come and go has its type, and what is known of the
\* list holds of the new rows.
LEMMA WatchedTypes ==
    ASSUME ListingTypeOK, Watched
    PROVE  meanwhile' \in MeanwhileType
<1>1. Matching(list.filter)' \subseteq Session
  BY DEF Matching
<1> DEFINE before == Matching(list.filter)
           after == Matching(list.filter)'
<1>2. meanwhile' = [steady |-> meanwhile.steady \cap after,
                    entered |-> meanwhile.entered \/ ~(after \subseteq before),
                    left |-> meanwhile.left \/ ~(before \subseteq after),
                    late |-> meanwhile.late \/ (list.phase = "page" /\ ~(after \subseteq before))]
  BY DEF Watched
<1>3. meanwhile.steady \subseteq Session
  BY DEF ListingTypeOK, MeanwhileType
<1> HIDE DEF before, after
<1>4. /\ (meanwhile.steady \cap after) \in SUBSET Session
      /\ (meanwhile.entered \/ ~(after \subseteq before)) \in BOOLEAN
      /\ (meanwhile.left \/ ~(before \subseteq after)) \in BOOLEAN
      /\ (meanwhile.late \/ (list.phase = "page" /\ ~(after \subseteq before))) \in BOOLEAN
  BY <1>3
<1>q. QED
  BY Zenon, <1>2, <1>4 DEF MeanwhileType

\* A row that comes to match, or ceases to.
LEMMA WatchedRows ==
    ASSUME ListingInvariant, ListingTypeOK', Watched, UNCHANGED <<createdAt, list>>
    PROVE  ListingInvariant'
<1> DEFINE before == Matching(list.filter)
           after == Matching(list.filter)'
<1>1. /\ list \in ListType /\ list.filter \in Filter /\ createdAt \in [Session -> Nat]
      /\ meanwhile \in MeanwhileType /\ meanwhile' \in MeanwhileType
      /\ list' = list /\ list'.filter \in Filter /\ createdAt' = createdAt
  BY DEF ListingInvariant, ListingTypeOK, ListType
<1>2. before \in SUBSET Session /\ IsFiniteSet(before)
  BY <1>1, MatchingFinite DEF ListingInvariant
<1>3. after \in SUBSET Session /\ IsFiniteSet(after)
  <2>1. after \subseteq {s \in Session : status'[s] # "none"}
    BY <1>1 DEF Matching, StatusesOf, Filter
  <2>2. IsFiniteSet({s \in Session : status'[s] # "none"})
    BY DEF ListingTypeOK
  <2>3. after \subseteq Session
    BY DEF Matching
  <2> HIDE DEF after
  <2>q. QED
    BY Zenon, <2>1, <2>2, <2>3, FS_Subset
<1>4. PagesSound(list, meanwhile, before, createdAt)
  BY DEF ListingInvariant
<1>5. meanwhile' = [steady |-> meanwhile.steady \cap after,
                    entered |-> meanwhile.entered \/ ~(after \subseteq before),
                    left |-> meanwhile.left \/ ~(before \subseteq after),
                    late |-> meanwhile.late \/ (list.phase = "page" /\ ~(after \subseteq before))]
  BY DEF Watched
<1> HIDE DEF before, after
<1>6. /\ meanwhile.entered \in BOOLEAN /\ meanwhile.left \in BOOLEAN /\ meanwhile.late \in BOOLEAN
  BY <1>1 DEF MeanwhileType
<1>7. /\ meanwhile'.steady = meanwhile.steady \cap after
      /\ meanwhile'.entered = FALSE => meanwhile.entered = FALSE /\ after \subseteq before
      /\ meanwhile'.left = FALSE => meanwhile.left = FALSE /\ before \subseteq after
      /\ meanwhile'.late = FALSE => meanwhile.late = FALSE /\ (list.phase = "page" => after \subseteq before)
  <2>1. /\ meanwhile'.steady = meanwhile.steady \cap after
        /\ meanwhile'.entered = (meanwhile.entered \/ ~(after \subseteq before))
        /\ meanwhile'.left = (meanwhile.left \/ ~(before \subseteq after))
        /\ meanwhile'.late = (meanwhile.late \/ (list.phase = "page" /\ ~(after \subseteq before)))
    BY <1>5
  <2>q. QED
    BY Zenon, <1>6, <2>1
<1>8. PagesSound(list, meanwhile', after, createdAt)
  BY <1>1, <1>2, <1>3, <1>4, <1>7, RowsChange
<1>9. PagesSound(list', meanwhile', after, createdAt')
  BY Zenon, <1>1, <1>8
<1>q. QED
  BY Zenon, <1>9 DEF ListingInvariant, after


\* A row that does not match and goes on not to.
LEMMA RowElsewhere ==
    ASSUME ListingInvariant, ListingTypeOK', UNCHANGED <<list, meanwhile>>, NEW s \in Session,
           status[s] \notin {"active", "stopped"}, status'[s] \notin {"active", "stopped"},
           \A r \in Session \ {s} : status'[r] = status[r] /\ createdAt'[r] = createdAt[r]
    PROVE  ListingInvariant'
<1> DEFINE before == Matching(list.filter)
           after == Matching(list.filter)'
<1>1. /\ list.filter \in Filter /\ createdAt \in [Session -> Nat] /\ createdAt' \in [Session -> Nat]
      /\ meanwhile.steady \subseteq Session /\ list' = list /\ meanwhile' = meanwhile
  BY DEF ListingInvariant, ListingTypeOK, ListType, MeanwhileType
<1>2. after = before /\ before \in SUBSET Session /\ s \notin before
  BY <1>1 DEF Matching, StatusesOf, Filter
<1>3. PagesSound(list, meanwhile, before, createdAt)
  BY DEF ListingInvariant
<1> HIDE DEF before, after
<1>4. \A r \in before : createdAt'[r] = createdAt[r]
  BY <1>2
<1>5. PagesSound(list, meanwhile, before, createdAt')
  BY <1>1, <1>2, <1>3, <1>4, DatesChange
<1>6. PagesSound(list', meanwhile', after, createdAt')
  BY Zenon, <1>1, <1>2, <1>5
<1>q. QED
  BY Zenon, <1>6 DEF ListingInvariant, after

\* The steps of the rows keep what is known of the list.
LEMMA RowsStep ==
    ASSUME ListingInvariant,
           \E s \in Session : CreateDates(s) \/ CreateSaves(s) \/ CreateSaveFails(s) \/ MarkStopped(s)
    PROVE  ListingInvariant'
<1>t. ListingTypeOK
  BY DEF ListingInvariant
<1>n. now \in Nat /\ createdAt \in [Session -> Nat] /\ meanwhile \in MeanwhileType
  BY <1>t DEF ListingTypeOK
<1> PICK s \in Session : CreateDates(s) \/ CreateSaves(s) \/ CreateSaveFails(s) \/ MarkStopped(s)
  OBVIOUS
<1>1. CASE CreateDates(s)
  <2>1. /\ status[s] = "none" /\ status' = [status EXCEPT ![s] = "starting"]
        /\ createdAt' = [createdAt EXCEPT ![s] = now] /\ UNCHANGED <<now, list, meanwhile>>
    BY <1>1 DEF CreateDates
  <2>2. /\ ListingTypeOK' /\ status'[s] = "starting"
        /\ \A r \in Session \ {s} : status'[r] = status[r] /\ createdAt'[r] = createdAt[r]
    BY <1>t, <1>n, <2>1, RowTypes DEF Status
  <2>q. QED
    BY <2>1, <2>2, RowElsewhere
<1>2. CASE CreateSaveFails(s)
  <2>1. /\ status[s] = "starting" /\ status' = [status EXCEPT ![s] = "none"]
        /\ createdAt' = [createdAt EXCEPT ![s] = 0] /\ UNCHANGED <<now, list, meanwhile>>
    BY <1>2 DEF CreateSaveFails
  <2>2. /\ ListingTypeOK' /\ status'[s] = "none"
        /\ \A r \in Session \ {s} : status'[r] = status[r] /\ createdAt'[r] = createdAt[r]
    BY <1>t, <1>n, <2>1, RowTypes DEF Status
  <2>q. QED
    BY <2>1, <2>2, RowElsewhere
<1>3. CASE CreateSaves(s)
  <2>1. /\ status' = [status EXCEPT ![s] = "active"] /\ UNCHANGED <<now, createdAt, list>> /\ Watched
    BY <1>3 DEF CreateSaves
  <2>2. meanwhile' \in MeanwhileType
    BY <1>t, <2>1, WatchedTypes
  <2>3. ListingTypeOK'
    BY <1>t, <1>n, <2>1, <2>2, RowTypes DEF Status
  <2>q. QED
    BY <2>1, <2>3, WatchedRows
<1>4. CASE MarkStopped(s)
  <2>1. /\ status' = [status EXCEPT ![s] = "stopped"] /\ UNCHANGED <<now, createdAt, list>> /\ Watched
    BY <1>4 DEF MarkStopped
  <2>2. meanwhile' \in MeanwhileType
    BY <1>t, <2>1, WatchedTypes
  <2>3. ListingTypeOK'
    BY <1>t, <1>n, <2>1, <2>2, RowTypes DEF Status
  <2>q. QED
    BY <2>1, <2>3, WatchedRows
<1>q. QED
  BY <1>1, <1>2, <1>3, <1>4

\* While the rows stay as they are, the list is known by itself.
LEMMA RowsStay ==
    ASSUME ListingTypeOK, UNCHANGED <<status, createdAt>>, now' \in Nat,
           list' \in ListType, meanwhile' \in MeanwhileType,
           PagesSound(list', meanwhile', Matching(list'.filter), createdAt)
    PROVE  ListingInvariant'
<1>1. ListingTypeOK'
  BY DEF ListingTypeOK
<1>2. Matching(list'.filter) = Matching(list.filter)'
  BY DEF Matching
<1>3. PagesSound(list', meanwhile', Matching(list.filter)', createdAt')
  BY Zenon, <1>2
<1>q. QED
  BY Zenon, <1>1, <1>3 DEF ListingInvariant

\* The steps of the list keep what is known of it.
LEMMA ListStep ==
    ASSUME ListingInvariant, ListBegins \/ Count \/ ReadPage \/ ListFails \/ TimePasses \/ UNCHANGED listingVars
    PROVE  ListingInvariant'
<1>t. ListingTypeOK
  BY DEF ListingInvariant
<1>n. now \in Nat /\ createdAt \in [Session -> Nat] /\ meanwhile \in MeanwhileType /\ list \in ListType
  BY <1>t DEF ListingTypeOK
<1>f. /\ list.phase \in {"idle", "count", "page", "done"} /\ list.filter \in Filter
      /\ list.size \in Nat \ {0} /\ list.page \in Nat \ {0} /\ list.total \in Nat /\ list.taken \in Nat
      /\ list.seen \in SUBSET Session /\ list.twice \in SUBSET Session
  BY <1>n DEF ListType
<1> DEFINE M == Matching(list.filter)
<1>m. M \in SUBSET Session /\ IsFiniteSet(M) /\ Cardinality(M) \in Nat
  BY <1>t, <1>f, MatchingFinite
<1>s. PagesSound(list, meanwhile, M, createdAt)
  BY DEF ListingInvariant
<1> HIDE DEF M
<1>1. CASE TimePasses \/ UNCHANGED listingVars
  <2>1. now' \in Nat /\ UNCHANGED <<status, createdAt, list, meanwhile>>
    BY <1>1, <1>n DEF TimePasses, listingVars, rows
  <2>2. PagesSound(list', meanwhile', Matching(list'.filter), createdAt)
    BY Zenon, <1>s, <2>1 DEF M
  <2>3. list' \in ListType /\ meanwhile' \in MeanwhileType
    BY Zenon, <1>n, <2>1
  <2>q. QED
    BY <1>t, <2>1, <2>2, <2>3, RowsStay
<1>2. CASE ListFails
  <2>1. list' = [list EXCEPT !.phase = "idle"] /\ UNCHANGED <<now, status, createdAt, meanwhile>>
    BY <1>2 DEF ListFails, rows
  <2>2. /\ list' \in ListType /\ list'.phase = "idle" /\ list'.filter = list.filter /\ list'.twice = list.twice
    BY <1>n, <2>1 DEF ListType
  <2>3. PagesSound(list', meanwhile', Matching(list'.filter), createdAt)
    BY <1>s, <2>1, <2>2 DEF PagesSound
  <2>q. QED
    BY <1>t, <1>n, <2>1, <2>2, <2>3, RowsStay
<1>3. CASE Count
  <2>1. /\ list' = [list EXCEPT !.phase = "page", !.total = Cardinality(M)] /\ list.phase = "count"
        /\ UNCHANGED <<now, status, createdAt, meanwhile>>
    BY <1>3 DEF Count, rows, M
  <2>2. /\ list' \in ListType /\ list'.phase = "page" /\ list'.filter = list.filter /\ list'.twice = list.twice
        /\ list'.page = list.page /\ list'.size = list.size /\ list'.total = Cardinality(M)
        /\ list'.seen = list.seen /\ list'.taken = list.taken
    BY <1>n, <1>m, <2>1 DEF ListType
  <2>3. Offset(list') = Offset(list) /\ Matching(list'.filter) = M
    BY Zenon, <2>2 DEF Offset, M
  <2>4. /\ meanwhile.steady \subseteq M
        /\ list.taken <= Offset(list)
        /\ meanwhile.entered = FALSE => \A s \in list.seen \cap M : Rank(createdAt, M, s) < Offset(list)
        /\ meanwhile.left = FALSE => \A s \in meanwhile.steady \ list.seen : Rank(createdAt, M, s) >= Offset(list)
        /\ meanwhile.entered = FALSE => list.twice = {}
    BY Zenon, <1>s, <2>1 DEF PagesSound
  <2>5. Cardinality(M) <= list'.total /\ list'.phase # "done"
    BY <1>m, <2>2
  <2>6. PagesSound(list', meanwhile, M, createdAt)
    BY Zenon, <2>2, <2>3, <2>4, <2>5 DEF PagesSound
  <2>q. QED
    BY <1>t, <1>n, <2>1, <2>2, <2>3, <2>6, RowsStay
<1>4. CASE ListBegins
  <2>1. PICK filter \in Filter, size \in PageSizes :
            /\ list' = [phase |-> "count", filter |-> filter, size |-> size, page |-> 1,
                        total |-> 0, taken |-> 0, seen |-> {}, twice |-> {}]
            /\ meanwhile' = [steady |-> Matching(filter), entered |-> FALSE, left |-> FALSE, late |-> FALSE]
            /\ UNCHANGED <<now, status, createdAt>>
    BY <1>4 DEF ListBegins, rows, Nothing
  <2> DEFINE N == Matching(filter)
  <2>2. N \in SUBSET Session /\ IsFiniteSet(N)
    BY <1>t, MatchingFinite
  <2>3. /\ list'.phase = "count" /\ list'.page = 1 /\ list'.taken = 0 /\ list'.seen = {} /\ list'.twice = {}
        /\ list'.size = size /\ list'.filter = filter /\ meanwhile'.steady = N
    BY <2>1
  <2>4. size \in Nat \ {0}
    BY SessionListingAssumption
  <2>5. list' \in ListType /\ meanwhile' \in MeanwhileType
    BY <2>1, <2>2, <2>4 DEF ListType, MeanwhileType
  <2> HIDE DEF N
  <2>6. Offset(list') = 0
    BY <2>3, <2>4 DEF Offset
  <2>7. \A s \in N : Rank(createdAt, N, s) >= 0
    BY <1>n, <2>2, RanksDiffer
  <2>8. PagesSound(list', meanwhile', N, createdAt)
    BY <2>3, <2>6, <2>7 DEF PagesSound
  <2>9. PagesSound(list', meanwhile', Matching(list'.filter), createdAt)
    BY Zenon, <2>3, <2>8 DEF N
  <2>q. QED
    BY <1>t, <1>n, <2>1, <2>5, <2>9, RowsStay
<1>5. CASE ReadPage
  <2> DEFINE B == {s \in M : Rank(createdAt, M, s) \div list.size = list.page - 1}
             ends == B = {} \/ list.taken + Cardinality(B) >= list.total
  <2>1. Batch = B
    BY DEF Batch, Position, Ahead, Rank, InFront, Before, M
  <2>2. /\ list.phase = "page"
        /\ list' = [list EXCEPT !.phase = IF ends THEN "done" ELSE "count",
                                !.page = IF ends THEN @ ELSE @ + 1,
                                !.taken = list.taken + Cardinality(B),
                                !.seen = @ \cup B,
                                !.twice = @ \cup (list.seen \cap B)]
        /\ UNCHANGED <<now, status, createdAt, meanwhile>>
    <3> HIDE DEF B
    <3>q. QED
      BY <1>5, <2>1 DEF ReadPage, rows
  <2>3. B \in SUBSET M
    OBVIOUS
  <2>b. B = {s \in M : Rank(createdAt, M, s) \div list.size = list.page - 1}
    OBVIOUS
  <2> HIDE DEF B
  <2>4. Cardinality(B) \in Nat
    BY <1>m, <2>3, FS_Subset, FS_CardinalityType
  <2>5. /\ list' \in ListType
        /\ list'.filter = list.filter /\ list'.size = list.size /\ list'.taken = list.taken + Cardinality(B)
        /\ list'.seen = list.seen \cup B /\ list'.twice = list.twice \cup (list.seen \cap B)
        /\ ends => list'.phase = "done"
        /\ ~ends => list'.phase = "count" /\ list'.page = list.page + 1
    <3> HIDE DEF ends
    <3>1. /\ list'.filter = list.filter /\ list'.size = list.size /\ list'.taken = list.taken + Cardinality(B)
          /\ list'.seen = list.seen \cup B /\ list'.twice = list.twice \cup (list.seen \cap B)
          /\ list'.total = list.total
          /\ list'.phase = IF ends THEN "done" ELSE "count"
          /\ list'.page = IF ends THEN list.page ELSE list.page + 1
      BY <1>n, <2>2 DEF ListType
    <3>2. /\ list'.taken \in Nat /\ list'.seen \in SUBSET Session /\ list'.twice \in SUBSET Session
          /\ list'.phase \in {"idle", "count", "page", "done"} /\ list'.page \in Nat \ {0}
      BY <1>f, <1>m, <2>3, <2>4, <3>1
    <3>3. list' = [phase |-> list'.phase, filter |-> list'.filter, size |-> list'.size, page |-> list'.page,
                   total |-> list'.total, taken |-> list'.taken, seen |-> list'.seen, twice |-> list'.twice]
      BY <1>n, <2>2 DEF ListType
    <3>4. list' \in ListType
      BY Zenon, <1>f, <3>1, <3>2, <3>3 DEF ListType
    <3>q. QED
      BY <3>1, <3>4
  <2>6. \/ list'.phase = "done" /\ (B = {} \/ list.taken + Cardinality(B) >= list.total)
        \/ list'.phase = "count" /\ list'.page = list.page + 1
    <3>1. ends => B = {} \/ list.taken + Cardinality(B) >= list.total
      OBVIOUS
    <3> HIDE DEF ends
    <3>q. QED
      BY Zenon, <2>5, <3>1
  <2>7. PagesSound(list', meanwhile, M, createdAt)
    <3>1. /\ createdAt \in [Session -> Nat] /\ M \in SUBSET Session /\ IsFiniteSet(M)
          /\ list \in ListType /\ list' \in ListType /\ meanwhile \in MeanwhileType
          /\ list.phase = "page" /\ PagesSound(list, meanwhile, M, createdAt)
      BY Zenon, <1>n, <1>m, <1>s, <2>2, <2>5
    <3>2. /\ list'.size = list.size /\ list'.taken = list.taken + Cardinality(B)
          /\ list'.seen = list.seen \cup B /\ list'.twice = list.twice \cup (list.seen \cap B)
      BY Zenon, <2>5
    <3> HIDE DEF ends
    <3>q. QED
      BY <3>1, <3>2, <2>6, <2>b, PageRead
  <2>8. PagesSound(list', meanwhile', Matching(list'.filter), createdAt)
    BY Zenon, <2>2, <2>5, <2>7 DEF M
  <2>q. QED
    BY <1>t, <1>n, <2>2, <2>5, <2>8, RowsStay
<1>q. QED
  BY <1>1, <1>2, <1>3, <1>4, <1>5

\* Whatever happens to the rows, what a list has of them is what its offset says:
\* the pages before it are listed, those from it on are not (sqlite.go:230-290).
THEOREM ListingInvariantHolds == ListingSpec => []ListingInvariant
<1>1. ListingInvariant /\ [ListingNext]_listingVars => ListingInvariant'
  BY RowsStep, ListStep DEF ListingNext
<1>q. QED
  BY <1>1, ListingStarts, PTL DEF ListingSpec

\* A list that ended has every session that matched all the while, if none ceased
\* to and none came between a count and its page: Reconcile's sees all (sqlite.go:230-252).
THEOREM ListCompleteHolds == ListingSpec => []ListComplete
<1>1. ListingInvariant => ListComplete
  <2> SUFFICES ASSUME ListingInvariant PROVE ListComplete
    OBVIOUS
  <2>1. meanwhile.left \in BOOLEAN /\ meanwhile.late \in BOOLEAN
    BY DEF ListingInvariant, ListingTypeOK, MeanwhileType
  <2>2. list.phase = "done" /\ meanwhile.left = FALSE /\ meanwhile.late = FALSE => meanwhile.steady \subseteq list.seen
    BY Zenon DEF ListingInvariant, PagesSound
  <2>q. QED
    BY Zenon, <2>1, <2>2 DEF ListComplete
<1>q. QED
  BY <1>1, ListingInvariantHolds, PTL

\* A session is listed twice only if others came to match meanwhile (sqlite.go:254-310).
THEOREM ListedOnceHolds == ListingSpec => []ListedOnce
<1>1. ListingInvariant => ListedOnce
  <2> SUFFICES ASSUME ListingInvariant PROVE ListedOnce
    OBVIOUS
  <2>1. meanwhile.entered \in BOOLEAN
    BY DEF ListingInvariant, ListingTypeOK, MeanwhileType
  <2>2. meanwhile.entered = FALSE => list.twice = {}
    BY Zenon DEF ListingInvariant, PagesSound
  <2>q. QED
    BY Zenon, <2>1, <2>2 DEF ListedOnce
<1>q. QED
  BY <1>1, ListingInvariantHolds, PTL

-----------------------------------------------------------------------------
(***************************************************************************)
(* What the hub starts with.                                               *)
(***************************************************************************)

\* The inductive invariant of Configuration: what is in force is made of sources that
\* passed the checks, and a deadline of the last request.
ConfigInvariant ==
    /\ sources \in Sources
    /\ config # NotLoaded => /\ config = Settings(sources)
                             /\ HubFileReadable(sources) /\ Validate(sources)
    /\ config = NotLoaded => deadline = 0
    /\ deadline # 0 => /\ timeoutMS \in -1..MaxDuration
                       /\ deadline = ExecTimeout(TimeoutFor(timeoutMS, config.timeout))

\* A source that says something.
Says(value) == value \notin {Absent, Unreadable}

\* What each source may say, whichever kind of setting varies.
LEMMA SourceFields ==
    ASSUME NEW s \in Sources
    PROVE  /\ s.cwd \in {"cwd1", "cwd2"} /\ s.configRoot \in Roots /\ s.path \in Paths
           /\ s.timeout \in FileAndEnv(Numbers)
<1>1. /\ Silent.cwd \in {"cwd1", "cwd2"} /\ Silent.configRoot \in Roots /\ Silent.path \in Paths
      /\ Silent.timeout \in FileAndEnv(Numbers)
  BY DEF Silent, Roots, Paths, FileAndEnv, Numbers
<1>2. CASE s \in PathSources
  <2>1. PICK c \in {"cwd1", "cwd2"}, r \in Roots, p \in Paths :
                 s = WithPaths(c, r, p)
    BY <1>2 DEF PathSources
  <2>2. s.cwd = c /\ s.configRoot = r /\ s.path = p /\ s.timeout = Silent.timeout
    BY <2>1 DEF Silent, WithPaths, WithBind, WithHelper
  <2>q. QED
    BY Zenon, <1>1, <2>2
<1>3. CASE s \in BindSources
  <2>1. PICK b \in Binds, t \in BOOLEAN : s = WithBind(b, t)
    BY <1>3 DEF BindSources
  <2>2. s.cwd = Silent.cwd /\ s.configRoot = Silent.configRoot /\ s.path = Silent.path /\ s.timeout = Silent.timeout
    BY <2>1 DEF Silent, WithPaths, WithBind, WithHelper
  <2>q. QED
    BY Zenon, <1>1, <2>2
<1>4. CASE s \in TimeoutSources
  <2>1. PICK v \in FileAndEnv(Numbers) : s = [Silent EXCEPT !.timeout = v]
    BY <1>4 DEF TimeoutSources
  <2>2. s.cwd = Silent.cwd /\ s.configRoot = Silent.configRoot /\ s.path = Silent.path /\ s.timeout = v
    BY <2>1 DEF Silent, WithPaths, WithBind, WithHelper
  <2>q. QED
    BY Zenon, <1>1, <2>2
<1>5. CASE s \in LimitSources \cup SwitchSources
  <2>1. PICK v : s = [Silent EXCEPT !.limit = v] \/ s = [Silent EXCEPT !.deleteRootfs = v]
    BY <1>5 DEF LimitSources, SwitchSources
  <2>2. s.cwd = Silent.cwd /\ s.configRoot = Silent.configRoot /\ s.path = Silent.path /\ s.timeout = Silent.timeout
    BY <2>1 DEF Silent, WithPaths, WithBind, WithHelper
  <2>q. QED
    BY Zenon, <1>1, <2>2
<1>6. CASE s \in HelperSources
  <2>1. PICK v \in Helpers, e \in {"auto", "local"} : s = WithHelper(v, e)
    BY <1>6 DEF HelperSources
  <2>2. s.cwd = Silent.cwd /\ s.configRoot = Silent.configRoot /\ s.path = Silent.path /\ s.timeout = Silent.timeout
    BY <2>1 DEF Silent, WithPaths, WithBind, WithHelper
  <2>q. QED
    BY Zenon, <1>1, <2>2
<1>q. QED
  BY Zenon, <1>2, <1>3, <1>4, <1>5, <1>6 DEF Sources

\* The last word is that of the last source that says something, if any does.
LEMMA LastSaid ==
    ASSUME NEW v, DOMAIN v \subseteq Int, NEW d
    PROVE  /\ (\A j \in DOMAIN v : ~Says(v[j])) => LastWord(v, d) = d
           /\ \A k \in DOMAIN v : Says(v[k]) /\ (\A j \in DOMAIN v : j > k => ~Says(v[j])) => LastWord(v, d) = v[k]
<1> DEFINE said == {i \in DOMAIN v : v[i] \notin {Absent, Unreadable}}
           last == CHOOSE i \in said : \A j \in said : j <= i
<1>1. LastWord(v, d) = IF said = {} THEN d ELSE v[last]
  BY DEF LastWord
<1>2. ASSUME \A j \in DOMAIN v : ~Says(v[j]) PROVE LastWord(v, d) = d
  <2>1. said = {}
    BY <1>2 DEF Says
  <2> HIDE DEF said
  <2>q. QED
    BY <1>1, <2>1
<1>3. ASSUME NEW k \in DOMAIN v, Says(v[k]), \A j \in DOMAIN v : j > k => ~Says(v[j]) PROVE LastWord(v, d) = v[k]
  <2>1. k \in said /\ said \subseteq Int /\ \A j \in said : j <= k
    BY <1>3 DEF Says
  <2> HIDE DEF said
  <2>2. last \in said /\ \A j \in said : j <= last
    BY <2>1
  <2> HIDE DEF last
  <2>3. last = k
    BY <2>1, <2>2
  <2>q. QED
    BY <1>1, <2>1, <2>3
<1>q. QED
  BY <1>2, <1>3

\* Of two sources.
LEMMA LastOfTwo ==
    ASSUME NEW a, NEW b, NEW d
    PROVE  LastWord(<<a, b>>, d) = IF Says(b) THEN b ELSE IF Says(a) THEN a ELSE d
<1> DEFINE v == <<a, b>>
<1>1. DOMAIN v = {1, 2} /\ v[1] = a /\ v[2] = b
  OBVIOUS
<1> HIDE DEF v
<1>2. LastWord(v, d) = IF Says(b) THEN b ELSE IF Says(a) THEN a ELSE d
  BY <1>1, LastSaid
<1>q. QED
  BY Zenon, <1>2 DEF v

\* Of three.
LEMMA LastOfThree ==
    ASSUME NEW a, NEW b, NEW c, NEW d
    PROVE  LastWord(<<a, b, c>>, d) = IF Says(c) THEN c ELSE IF Says(b) THEN b ELSE IF Says(a) THEN a ELSE d
<1> DEFINE v == <<a, b, c>>
<1>1. DOMAIN v = {1, 2, 3} /\ v[1] = a /\ v[2] = b /\ v[3] = c
  OBVIOUS
<1> HIDE DEF v
<1>2. LastWord(v, d) = IF Says(c) THEN c ELSE IF Says(b) THEN b ELSE IF Says(a) THEN a ELSE d
  BY <1>1, LastSaid
<1>q. QED
  BY Zenon, <1>2 DEF v

\* Short paths.
LEMMA Short ==
    ASSUME NEW a \in PathNames, NEW b \in PathNames
    PROVE  /\ <<a>> \in Seq(PathNames) /\ <<a, b>> \in Seq(PathNames) /\ <<a, b>> # <<>> /\ Len(<<a, b>>) = 2
           /\ <<a, b>>[1] = a /\ <<a, b>>[2] = b
OBVIOUS

\* A path that goes on from another begins with it.
LEMMA Joined ==
    ASSUME NEW p \in Seq(PathNames), NEW q \in Seq(PathNames), p # <<>>
    PROVE  /\ Join(p, q) \in Seq(PathNames) /\ Join(p, q) # <<>> /\ Join(p, q)[1] = p[1]
           /\ Len(p) >= 2 => Len(Join(p, q)) >= 2 /\ Join(p, q)[2] = p[2]
<1>1. /\ p \o q \in Seq(PathNames) /\ Len(p \o q) = Len(p) + Len(q) /\ Len(p) >= 1
      /\ \A i \in 1..Len(p) : (p \o q)[i] = p[i]
  <2>1. Len(p) \in Nat /\ Len(q) \in Nat /\ Len(p) >= 1
    OBVIOUS
  <2>2. /\ p \o q \in Seq(PathNames) /\ Len(p \o q) = Len(p) + Len(q)
        /\ \A i \in 1..(Len(p) + Len(q)) : (p \o q)[i] = IF i <= Len(p) THEN p[i] ELSE q[i - Len(p)]
    BY ConcatProperties
  <2>q. QED
    BY <2>1, <2>2
<1>q. QED
  BY <1>1 DEF Join

\* A path is made absolute from the working directory, if it is not yet.
LEMMA MadeAbsolute ==
    ASSUME NEW s \in Sources, NEW p \in Seq(PathNames), p # <<>>
    PROVE  /\ AbsolutePath(s, p) \in Seq(PathNames) /\ AbsolutePath(s, p) # <<>> /\ IsAbs(AbsolutePath(s, p))
           /\ IsAbs(p) => AbsolutePath(s, p) = p
           /\ Cwd(s) \in Seq(PathNames) /\ Cwd(s) # <<>> /\ IsAbs(Cwd(s)) /\ Len(Cwd(s)) >= 2 /\ Cwd(s)[2] = s.cwd
<1>1. s.cwd \in PathNames /\ "/" \in PathNames
  BY SourceFields DEF PathNames
<1>2. Cwd(s) \in Seq(PathNames) /\ Cwd(s) # <<>> /\ Len(Cwd(s)) = 2 /\ Cwd(s)[1] = "/" /\ Cwd(s)[2] = s.cwd
  BY <1>1, Short DEF Cwd
<1>3. Join(Cwd(s), p) \in Seq(PathNames) /\ Join(Cwd(s), p) # <<>> /\ Join(Cwd(s), p)[1] = "/"
  BY <1>2, Joined
<1>q. QED
  BY <1>2, <1>3 DEF AbsolutePath, IsAbs

\* What the texts of paths are.
LEMMA Texts ==
    \A t \in PathTexts : /\ t \in Seq(PathNames) /\ t # <<>>
                         /\ Says(t)
                         /\ IsAbs(t) => Len(t) >= 2 /\ t[2] = "some"
<1>1. \A t \in PathTexts : t \in Seq(PathNames) /\ t # <<>> /\ (IsAbs(t) => Len(t) >= 2 /\ t[2] = "some")
  <2>1. "some" \in PathNames /\ "/" \in PathNames
    BY DEF PathNames
  <2>2. <<"some">> \in Seq(PathNames) /\ <<"/", "some">> \in Seq(PathNames)
    BY <2>1, Short
  <2>q. QED
    <3>1. ~IsAbs(<<"some">>) /\ <<"some">> # <<>>
      BY DEF IsAbs
    <3>2. <<"/", "some">> # <<>> /\ Len(<<"/", "some">>) = 2 /\ <<"/", "some">>[2] = "some"
      OBVIOUS
    <3>3. \A t \in PathTexts : t = <<"some">> \/ t = <<"/", "some">>
      BY DEF PathTexts
    <3>4. ASSUME NEW t \in PathTexts PROVE t \in Seq(PathNames) /\ t # <<>> /\ (IsAbs(t) => Len(t) >= 2 /\ t[2] = "some")
      <4>1. CASE t = <<"some">>
        BY Zenon, <2>2, <3>1, <4>1
      <4>2. CASE t = <<"/", "some">>
        <5>1. t \in Seq(PathNames) /\ t # <<>> /\ Len(t) = 2 /\ t[2] = "some"
          BY Zenon, <2>2, <3>2, <4>2
        <5>q. QED
          BY <5>1
      <4>q. QED
        BY Zenon, <3>3, <4>1, <4>2
    <3>q. QED
      BY Zenon, <3>4
<1>2. Absent \notin Seq(PathNames) /\ Unreadable \notin Seq(PathNames)
  BY ConfigurationAssumption
<1>q. QED
  BY <1>1, <1>2 DEF Says

\* The place of hub.yml is absolute, and where an absolute source puts it.
LEMMA RootAnchored ==
    ASSUME NEW s \in Sources
    PROVE  LET root == ConfigRoot(s)
               word == LastWord(<<s.configRoot.env, s.configRoot.flag>>, <<>>)
           IN  /\ root \in Seq(PathNames) /\ root # <<>> /\ IsAbs(root)
               /\ IsAbs(word) => Len(root) >= 2 /\ root[2] = "some"
<1> DEFINE env == s.configRoot.env
           flag == s.configRoot.flag
           word == LastWord(<<env, flag>>, <<>>)
<1>1. env \in PathTexts \cup {Absent} /\ flag \in PathTexts \cup {Absent}
  BY SourceFields DEF Roots
<1>2. word = IF Says(flag) THEN flag ELSE IF Says(env) THEN env ELSE <<>>
  <2> HIDE DEF env, flag
  <2>q. QED
    BY Zenon, LastOfTwo
<1>c. <<"configs">> \in Seq(PathNames) /\ ~IsAbs(<<>>) /\ ~Says(Absent)
  <2>1. "configs" \in PathNames
    BY DEF PathNames
  <2>q. QED
    BY <2>1 DEF IsAbs, Says
<1>3. CASE flag # Absent
  <2>1. flag \in PathTexts /\ word = flag
    BY <1>1, <1>2, <1>3, Texts
  <2>2. /\ Join(flag, <<"configs">>) \in Seq(PathNames) /\ Join(flag, <<"configs">>) # <<>>
        /\ Join(flag, <<"configs">>)[1] = flag[1]
        /\ Len(flag) >= 2 => Len(Join(flag, <<"configs">>)) >= 2 /\ Join(flag, <<"configs">>)[2] = flag[2]
    BY <1>c, <2>1, Joined, Texts
  <2>3. ConfigRoot(s) = AbsolutePath(s, Join(flag, <<"configs">>))
    BY <1>3 DEF ConfigRoot
  <2>q. QED
    BY <2>1, <2>2, <2>3, MadeAbsolute, Texts DEF IsAbs
<1>4. CASE flag = Absent /\ env # Absent
  <2>1. env \in PathTexts /\ word = env
    BY <1>1, <1>2, <1>4, <1>c, Texts
  <2>2. ConfigRoot(s) = AbsolutePath(s, env)
    BY <1>4, <2>1, Texts DEF ConfigRoot, FromEnv, Says
  <2>q. QED
    BY <2>1, <2>2, MadeAbsolute, Texts
<1>5. CASE flag = Absent /\ env = Absent
  <2>1. word = <<>>
    BY <1>2, <1>5, <1>c
  <2>2. ConfigRoot(s) = AbsolutePath(s, Join(Cwd(s), <<"configs">>))
    BY <1>5 DEF ConfigRoot, FromEnv
  <2>3. Join(Cwd(s), <<"configs">>) \in Seq(PathNames) /\ Join(Cwd(s), <<"configs">>) # <<>>
    BY <1>c, Joined, MadeAbsolute, <2>1
  <2>q. QED
    BY <1>c, <2>1, <2>2, <2>3, MadeAbsolute
<1> HIDE DEF env, flag
<1>q. QED
  BY <1>3, <1>4, <1>5

\* So is a path in force, and it starts from the working directory only through a
\* source that is relative to it.
LEMMA PathAnchored ==
    ASSUME NEW s \in Sources, PathInForce(s) # <<>>
    PROVE  LET root == LastWord(<<s.configRoot.env, s.configRoot.flag>>, <<>>)
               winner == LastWord(<<s.path.file, s.path.env, s.path.flag>>, <<>>)
               ofFile == s.path.env = Absent /\ s.path.flag = Absent /\ s.path.file # Absent
           IN  /\ IsAbs(PathInForce(s))
               /\ PathInForce(s)[2] = s.cwd => ~IsAbs(winner) /\ (ofFile => ~IsAbs(root))
<1> DEFINE file == s.path.file
           env == s.path.env
           flag == s.path.flag
           word == LastWord(<<s.configRoot.env, s.configRoot.flag>>, <<>>)
           winner == LastWord(<<file, env, flag>>, <<>>)
           default == Join(Cwd(s), <<"data", "x">>)
           layered == FromEnv(env, FromFile(ResolveHubPath(s, file), default))
           text == IF flag = Absent THEN layered ELSE Join(flag, <<"x">>)
<1>1. /\ file \in PathTexts \cup {Absent, <<>>} /\ env \in PathTexts \cup {Absent} /\ flag \in PathTexts \cup {Absent}
      /\ s.cwd \in {"cwd1", "cwd2"}
      /\ s.path = [file |-> file, env |-> env, flag |-> flag]
  BY SourceFields DEF Paths
<1>2. PathInForce(s) = AbsolutePath(s, text)
  <2>1. [s.path EXCEPT !.file = ResolveHubPath(s, @)] = [file |-> ResolveHubPath(s, file), env |-> env, flag |-> flag]
    BY <1>1
  <2>2. Layered([file |-> ResolveHubPath(s, file), env |-> env, flag |-> flag], default) = layered
    BY DEF Layered
  <2>q. QED
    BY <2>1, <2>2 DEF PathInForce
<1>3. winner = IF Says(flag) THEN flag ELSE IF Says(env) THEN env ELSE IF Says(file) THEN file ELSE <<>>
  <2> HIDE DEF file, env, flag
  <2>q. QED
    BY LastOfThree
<1>c. /\ <<"x">> \in Seq(PathNames) /\ <<"data", "x">> \in Seq(PathNames)
      /\ ~IsAbs(<<>>) /\ ~Says(Absent) /\ Says(<<>>)
      /\ Absent \notin Seq(PathNames)
  <2>1. "x" \in PathNames /\ "data" \in PathNames
    BY DEF PathNames
  <2>2. <<"x">> \in Seq(PathNames) /\ <<"data", "x">> \in Seq(PathNames)
    BY <2>1, Short
  <2>3. <<>> \in Seq(PathNames)
    OBVIOUS
  <2>q. QED
    BY <2>2, <2>3, ConfigurationAssumption DEF IsAbs, Says
<1>a. ASSUME NEW t \in Seq(PathNames), t # <<>>, text = t
      PROVE  /\ IsAbs(PathInForce(s))
             /\ IsAbs(t) /\ t[2] = "some" => PathInForce(s)[2] # s.cwd
  <2>1. PathInForce(s) = AbsolutePath(s, t)
    BY Zenon, <1>2, <1>a
  <2>q. QED
    BY <1>1, <1>a, <2>1, MadeAbsolute
<1> HIDE DEF text
<1>4. CASE flag # Absent
  <2>1. flag \in PathTexts /\ winner = flag
    BY <1>1, <1>3, <1>4, Texts
  <2>2. text = Join(flag, <<"x">>)
    BY <1>4 DEF text
  <2>3. /\ Join(flag, <<"x">>) \in Seq(PathNames) /\ Join(flag, <<"x">>) # <<>>
        /\ Join(flag, <<"x">>)[1] = flag[1]
        /\ Len(flag) >= 2 => Join(flag, <<"x">>)[2] = flag[2]
    BY <1>c, <2>1, Joined, Texts
  <2>4. IsAbs(flag) => IsAbs(Join(flag, <<"x">>)) /\ Join(flag, <<"x">>)[2] = "some"
    BY <2>1, <2>3, Texts DEF IsAbs
  <2>q. QED
    BY <1>4, <1>a, <2>1, <2>2, <2>3, <2>4
<1>5. CASE flag = Absent /\ env # Absent
  <2>1. env \in PathTexts /\ winner = env
    BY <1>1, <1>3, <1>5, <1>c, Texts
  <2>2. text = env
    BY <1>5, <2>1, Texts DEF text, FromEnv, Says
  <2>q. QED
    BY <1>5, <1>a, <2>1, <2>2, Texts
<1>6. CASE flag = Absent /\ env = Absent /\ file # Absent
  <2>1. file \in PathTexts \cup {<<>>} /\ winner = file
    BY <1>1, <1>3, <1>6, <1>c, Texts
  <2>2. text = FromFile(ResolveHubPath(s, file), default)
    BY <1>6 DEF text, FromEnv
  <2>3. CASE file = <<>>
    <3>1. text = <<>>
      BY <1>c, <2>2, <2>3 DEF ResolveHubPath, FromFile
    <3>q. QED
      BY <1>2, <3>1 DEF AbsolutePath
  <2>4. CASE file \in PathTexts /\ IsAbs(file)
    <3>1. text = file
      BY <1>c, <2>2, <2>4, Texts DEF ResolveHubPath, FromFile
    <3>q. QED
      BY <1>a, <2>1, <2>4, <3>1, Texts
  <2>5. CASE file \in PathTexts /\ ~IsAbs(file)
    <3>1. ResolveHubPath(s, file) = Join(ConfigRoot(s), file)
      BY <1>6, <2>5, Texts DEF ResolveHubPath
    <3> DEFINE joined == Join(ConfigRoot(s), file)
               root == ConfigRoot(s)
    <3>2. /\ root \in Seq(PathNames) /\ root # <<>> /\ IsAbs(root)
          /\ IsAbs(word) => Len(root) >= 2 /\ root[2] = "some"
      BY RootAnchored
    <3>3. /\ joined \in Seq(PathNames) /\ joined # <<>> /\ joined[1] = root[1]
          /\ Len(root) >= 2 => joined[2] = root[2]
      BY <2>5, <3>2, Joined, Texts
    <3>4. IsAbs(joined) /\ (IsAbs(word) => joined[2] = "some")
      BY <3>2, <3>3 DEF IsAbs
    <3>5. text = joined
      BY <1>c, <2>2, <3>1, <3>3 DEF FromFile
    <3> HIDE DEF joined, word
    <3>q. QED
      BY Zenon, <1>a, <2>1, <2>5, <3>3, <3>4, <3>5 DEF word
  <2>q. QED
    BY <2>1, <2>3, <2>4, <2>5
<1>7. CASE flag = Absent /\ env = Absent /\ file = Absent
  <2>1. winner = <<>>
    BY <1>3, <1>7, <1>c
  <2>2. text = default
    BY <1>7 DEF text, FromEnv, FromFile, ResolveHubPath
  <2>3. default \in Seq(PathNames) /\ default # <<>>
    BY <1>1, <1>c, Joined, MadeAbsolute
  <2> HIDE DEF default
  <2>q. QED
    BY <1>7, <1>a, <1>c, <2>1, <2>2, <2>3
<1>q. QED
  BY <1>4, <1>5, <1>6, <1>7

\* The deadline in int64 arithmetic: of any width.
LEMMA DeadlineBounded ==
    ASSUME NEW ms \in -1..MaxDuration, NEW fallback \in -(MaxDuration + 1)..MaxDuration
    PROVE  LET d == ExecTimeout(TimeoutFor(ms, fallback))
           IN  /\ d \in 1..MaxDuration
               /\ ms > 0 /\ ms * Millisecond <= MaxDuration => d = ms * Millisecond
               /\ ms <= 0 /\ fallback > 0 => d = fallback
<1>0. MaxDuration \in Nat /\ MaxDuration >= 30 /\ Millisecond \in Nat \ {0} /\ ms \in Int /\ fallback \in Int
  BY ConfigurationAssumption DEF DefaultTimeout
<1> DEFINE width == 2 * (MaxDuration + 1)
<1>1. ASSUME NEW n \in Nat PROVE Wrapped(n) \in -(MaxDuration + 1)..MaxDuration
  <2>1. width \in Nat \ {0} /\ n + MaxDuration + 1 \in Nat
    BY <1>0
  <2>2. (n + MaxDuration + 1) % width \in 0..(width - 1)
    <3> HIDE DEF width
    <3>q. QED
      BY <2>1
  <2>q. QED
    BY <1>0, <2>2 DEF Wrapped
<1>2. ASSUME NEW n \in Nat, n <= MaxDuration PROVE Wrapped(n) = n
  <2>1. width \in Nat \ {0} /\ n + MaxDuration + 1 \in 0..(width - 1)
    BY <1>0, <1>2
  <2>2. ASSUME NEW k \in Nat, NEW w \in Nat \ {0}, k < w PROVE k % w = k
    BY <2>2
  <2>3. (n + MaxDuration + 1) % width = n + MaxDuration + 1
    <3> HIDE DEF width
    <3>q. QED
      BY <2>1, <2>2
  <2>q. QED
    BY <1>0, <2>3 DEF Wrapped
<1>3. CASE ms <= 0
  BY <1>0, <1>3 DEF TimeoutFor, ExecTimeout, DefaultTimeout
<1>4. CASE ms > 0
  <2> DEFINE n == ms * Millisecond
  <2>1. n \in Nat /\ n > 0
    BY <1>0, <1>4
  <2>2. TimeoutFor(ms, fallback) = Wrapped(n)
    BY <1>0, <1>4 DEF TimeoutFor
  <2> HIDE DEF n
  <2>3. Wrapped(n) \in -(MaxDuration + 1)..MaxDuration /\ (n <= MaxDuration => Wrapped(n) = n)
    BY <1>1, <1>2, <2>1
  <2>4. ExecTimeout(Wrapped(n)) \in 1..MaxDuration /\ (n <= MaxDuration => ExecTimeout(Wrapped(n)) = n)
    BY <1>0, <2>1, <2>3 DEF ExecTimeout, DefaultTimeout
  <2>q. QED
    BY <1>0, <1>4, <2>2, <2>4 DEF n
<1>q. QED
  BY <1>0, <1>3, <1>4

\* To say what one says changes nothing.
LEMMA SaidAgain ==
    ASSUME NEW F, "limit" \in DOMAIN F, F = [i \in DOMAIN F |-> F[i]]
    PROVE  F = [F EXCEPT !.limit = F.limit]
OBVIOUS

\* The sources may all be silent.
LEMMA SilentIsSource == Silent \in Sources
<1>1. Silent.limit = [file |-> Absent, env |-> Absent]
  BY DEF Silent
<1>2. "limit" \in DOMAIN Silent /\ Silent = [i \in DOMAIN Silent |-> Silent[i]]
  BY DEF Silent
<1>3. Silent = [Silent EXCEPT !.limit = [file |-> Absent, env |-> Absent]]
  BY Zenon, <1>1, <1>2, SaidAgain
<1>4. [file |-> Absent, env |-> Absent] \in FileAndEnv(Numbers)
  BY DEF FileAndEnv, Numbers
<1>q. QED
  BY Zenon, <1>3, <1>4 DEF LimitSources, Sources

\* The hub starts with nothing said and nothing in force.
LEMMA ConfigInitially == ConfigInit => ConfigInvariant
<1> SUFFICES ASSUME ConfigInit PROVE ConfigInvariant
  OBVIOUS
<1>1. sources \in Sources
  BY SilentIsSource DEF ConfigInit
<1>q. QED
  BY <1>1 DEF ConfigInit, ConfigInvariant

\* Every step keeps the invariant.
LEMMA ConfigStepKeeps == ConfigInvariant /\ [ConfigNext]_configVars => ConfigInvariant'
<1> SUFFICES ASSUME ConfigInvariant, [ConfigNext]_configVars PROVE ConfigInvariant'
  OBVIOUS
<1>1. CASE Load
  <2>1. /\ config = NotLoaded /\ sources' \in Sources /\ HubFileReadable(sources') /\ Validate(sources')
        /\ config' = Settings(sources') /\ timeoutMS' = timeoutMS /\ deadline' = deadline
    BY <1>1 DEF Load
  <2>2. deadline = 0
    BY <2>1 DEF ConfigInvariant
  <2>q. QED
    BY Zenon, <2>1, <2>2 DEF ConfigInvariant
<1>2. CASE Execute
  <2>1. /\ config # NotLoaded /\ timeoutMS' \in -1..MaxDuration
        /\ deadline' = ExecTimeout(TimeoutFor(timeoutMS', config.timeout))
        /\ sources' = sources /\ config' = config
    BY <1>2 DEF Execute
  <2>q. QED
    BY Zenon, <2>1 DEF ConfigInvariant
<1>3. CASE Exit
  <2>1. sources' = Silent /\ config' = NotLoaded /\ deadline' = 0
    BY <1>3 DEF Exit
  <2>2. sources' \in Sources
    BY <2>1, SilentIsSource
  <2>q. QED
    BY Zenon, <2>1, <2>2 DEF ConfigInvariant
<1>4. CASE UNCHANGED configVars
  BY Zenon, <1>4 DEF ConfigInvariant, configVars
<1>q. QED
  BY <1>1, <1>2, <1>3, <1>4 DEF ConfigNext

\* The settings of sources that passed the checks are those they say.
LEMMA SettingsAsSaid ==
    ASSUME NEW s \in Sources, HubFileReadable(s), Validate(s)
    PROVE  /\ Settings(s).timeout = LastWord(<<s.timeout.file, s.timeout.env>>, DefaultTimeout)
           /\ Settings(s).limit = LastWord(<<s.limit.file, s.limit.env>>, DefaultLimit)
           /\ Settings(s).helper = LastWord(<<s.helper.file, s.helper.env>>, "network-policy-helper")
           /\ Settings(s).deleteRootfs = LastWord(<<s.deleteRootfs.file, s.deleteRootfs.env>>, TRUE)
           /\ LastWord(<<s.bind.env, s.bind.flag>>, Settings(s).bind) = Settings(s).bind
           /\ Settings(s).timeout \in -(MaxDuration + 1)..MaxDuration
<1> DEFINE bind == BindAddress(s)
<1>1. ASSUME NEW setting, setting.file # Unreadable, NEW default
      PROVE  Layered(setting, default) = LastWord(<<setting.file, setting.env>>, default)
  BY <1>1, LastOfTwo DEF Layered, FromEnv, FromFile, Says
<1>2. /\ s.timeout.file # Unreadable /\ s.limit.file # Unreadable /\ s.helper.file # Unreadable
      /\ s.deleteRootfs.file # Unreadable
  BY DEF HubFileReadable
<1>3. /\ Settings(s).timeout = Layered(s.timeout, DefaultTimeout) /\ Settings(s).limit = Layered(s.limit, DefaultLimit)
      /\ Settings(s).helper = Layered(s.helper, "network-policy-helper")
      /\ Settings(s).deleteRootfs = Layered(s.deleteRootfs, TRUE)
      /\ Settings(s).bind = bind
  BY DEF Settings
<1>4. bind # Unreadable
  BY DEF Validate, AddressToCheck
<1>5. LastWord(<<s.bind.env, s.bind.flag>>, bind) = bind
  <2>1. LastWord(<<s.bind.env, s.bind.flag>>, bind) =
            IF Says(s.bind.flag) THEN s.bind.flag ELSE IF Says(s.bind.env) THEN s.bind.env ELSE bind
    <3> HIDE DEF bind
    <3>q. QED
      BY LastOfTwo
  <2>2. s.bind.flag = Absent => bind = EnvAddress(s) /\ (s.bind.env # Absent => bind = s.bind.env)
    BY DEF BindAddress, FromFlag, EnvAddress
  <2>3. s.bind.flag # Absent => bind = s.bind.flag
    BY DEF BindAddress, FromFlag
  <2> HIDE DEF bind
  <2>q. QED
    BY <1>4, <2>1, <2>2, <2>3, ConfigurationAssumption DEF Says
<1>6. Layered(s.timeout, DefaultTimeout) \in -(MaxDuration + 1)..MaxDuration
  <2>1. s.timeout.file \in Numbers /\ s.timeout.env \in Numbers
    BY SourceFields DEF FileAndEnv
  <2>q. QED
    <3>1. DefaultTimeout \in -(MaxDuration + 1)..MaxDuration /\ Amounts \subseteq -(MaxDuration + 1)..MaxDuration
      BY ConfigurationAssumption DEF DefaultTimeout
    <3>2. Layered(s.timeout, DefaultTimeout) \in Amounts \cup {DefaultTimeout}
      BY <1>2, <2>1 DEF Layered, FromEnv, FromFile, Numbers
    <3>q. QED
      BY Zenon, <3>1, <3>2
<1> HIDE DEF bind
<1>7. /\ Layered(s.timeout, DefaultTimeout) = LastWord(<<s.timeout.file, s.timeout.env>>, DefaultTimeout)
      /\ Layered(s.limit, DefaultLimit) = LastWord(<<s.limit.file, s.limit.env>>, DefaultLimit)
      /\ Layered(s.helper, "network-policy-helper") = LastWord(<<s.helper.file, s.helper.env>>, "network-policy-helper")
      /\ Layered(s.deleteRootfs, TRUE) = LastWord(<<s.deleteRootfs.file, s.deleteRootfs.env>>, TRUE)
  BY Zenon, <1>1, <1>2
<1>q. QED
  BY <1>3, <1>5, <1>6, <1>7

\* Whatever the command line, the environment and hub.yml say, in amounts of any width,
\* and whatever timeouts are asked for, the hub runs with settings that are sound:
\* config.go:90-168 and 283-313, session_service.go and runtime/cli.go for the timeouts.
THEOREM ConfigurationSoundHolds == ConfigSpec => []ConfigurationSound
<1>1. ConfigInvariant => ConfigurationSound
  <2> SUFFICES ASSUME ConfigInvariant, config # NotLoaded
               PROVE  RemoteNeedsToken /\ PathsAnchored /\ LastWordWins /\ CommandsBounded
    BY DEF ConfigurationSound
  <2>1. sources \in Sources /\ config = Settings(sources) /\ HubFileReadable(sources) /\ Validate(sources)
    BY DEF ConfigInvariant
  <2>2. /\ config.bind = BindAddress(sources) /\ config.path = PathInForce(sources)
        /\ config.configRoot = ConfigRoot(sources)
    BY <2>1 DEF Settings
  <2>3. RemoteNeedsToken
    BY <2>1, <2>2 DEF RemoteNeedsToken, Validate, AddressToCheck
  <2>4. PathsAnchored
    <3>1. PathInForce(sources) # <<>>
      BY <2>1, <2>2 DEF Validate
    <3>2. IsAbs(ConfigRoot(sources))
      BY <2>1, RootAnchored
    <3>3. /\ IsAbs(PathInForce(sources))
          /\ PathInForce(sources)[2] = sources.cwd =>
                /\ ~IsAbs(LastWord(<<sources.path.file, sources.path.env, sources.path.flag>>, <<>>))
                /\ sources.path.env = Absent /\ sources.path.flag = Absent /\ sources.path.file # Absent =>
                      ~IsAbs(LastWord(<<sources.configRoot.env, sources.configRoot.flag>>, <<>>))
      BY <2>1, <3>1, PathAnchored
    <3>q. QED
      BY Zenon, <2>2, <3>2, <3>3 DEF PathsAnchored
  <2>5. LastWordWins
    <3> DEFINE settings == Settings(sources)
    <3>1. config = settings
      BY <2>1
    <3>2. /\ settings.timeout = LastWord(<<sources.timeout.file, sources.timeout.env>>, DefaultTimeout)
          /\ settings.limit = LastWord(<<sources.limit.file, sources.limit.env>>, DefaultLimit)
          /\ settings.helper = LastWord(<<sources.helper.file, sources.helper.env>>, "network-policy-helper")
          /\ settings.deleteRootfs = LastWord(<<sources.deleteRootfs.file, sources.deleteRootfs.env>>, TRUE)
          /\ LastWord(<<sources.bind.env, sources.bind.flag>>, settings.bind) = settings.bind
      BY <2>1, SettingsAsSaid
    <3> HIDE DEF settings
    <3>q. QED
      BY <3>1, <3>2 DEF LastWordWins
  <2>6. CommandsBounded
    <3>1. config.timeout \in -(MaxDuration + 1)..MaxDuration
      BY <2>1, SettingsAsSaid
    <3>2. deadline # 0 => /\ timeoutMS \in -1..MaxDuration
                          /\ deadline = ExecTimeout(TimeoutFor(timeoutMS, config.timeout))
      BY DEF ConfigInvariant
    <3>q. QED
      BY <3>1, <3>2, DeadlineBounded DEF CommandsBounded
  <2>q. QED
    BY <2>3, <2>4, <2>5, <2>6
<1>q. QED
  BY <1>1, ConfigInitially, ConfigStepKeeps, PTL DEF ConfigSpec
=============================================================================
