----------------------------- MODULE EngineProofs -----------------------------
(***************************************************************************)
(* What holds of the calls to the engine's CLI, however many chunks,       *)
(* entries, paths and attempts there are: the answers of Exec and          *)
(* InspectImage, the rules of a network policy, the output of a build, and *)
(* the mounts that a session is created with.                              *)
(***************************************************************************)
EXTENDS ExecCommand, ImageAvailability, NetworkPolicy, CommandStream, SessionMounts,
        FiniteSetTheorems, SequenceTheorems, WellFoundedInduction, TLAPS

-----------------------------------------------------------------------------
(***************************************************************************)
(* Selections.                                                             *)
(***************************************************************************)

\* A set of numbers that is not empty has a least one.
LEMMA LeastNumber ==
    ASSUME NEW T, T \subseteq Nat, T # {}
    PROVE  \E x \in T : \A y \in T : x <= y
<1>1. IsWellFoundedOn(OpToRel(<, Nat), Nat)
  BY Zenon, NatLessThanWellFounded
<1>2. PICK x \in T : \A y \in T : ~ (<<y, x>> \in OpToRel(<, Nat))
  BY Zenon, <1>1, WFMin
<1>3. \A y \in T : ~ (y < x)
  BY Zenon, <1>2 DEF OpToRel
<1>q. QED
  BY <1>3

\* A set of numbers that has 0, and the next of each of its members, has all.
LEMMA NumbersInduction ==
    ASSUME NEW T, 0 \in T, \A n \in T : n \in Nat => n + 1 \in T
    PROVE  Nat \subseteq T
<1> SUFFICES ASSUME Nat \ T # {} PROVE FALSE
  OBVIOUS
<1>1. PICK x \in Nat \ T : \A y \in Nat \ T : x <= y
  BY LeastNumber
<1>2. x - 1 \in Nat /\ x - 1 \in T
  BY <1>1
<1>q. QED
  BY <1>1, <1>2

\* What Selected computes, step by step.
Taking(s, wanted, taken) ==
    taken = [n \in 0..Len(s) |->
                IF n = 0 THEN <<>>
                ELSE IF s[n] \in wanted THEN Append(taken[n - 1], s[n]) ELSE taken[n - 1]]

\* It is computed in one way only.
LEMMA TakingUnique ==
    ASSUME NEW S, NEW s \in Seq(S), NEW wanted, NEW f, NEW g,
           Taking(s, wanted, f), Taking(s, wanted, g)
    PROVE  f = g
<1> DEFINE T == {n \in Nat : n \in 0..Len(s) => f[n] = g[n]}
<1>1. 0 \in T
  BY DEF Taking
<1>2. ASSUME NEW n \in T, n \in Nat PROVE n + 1 \in T
  <2>1. CASE n + 1 \in 0..Len(s)
    <3>1. n \in 0..Len(s) /\ n + 1 # 0 /\ (n + 1) - 1 = n /\ f[n] = g[n]
      BY <1>2, <2>1
    <3>2. f[n + 1] = IF s[n + 1] \in wanted THEN Append(f[n], s[n + 1]) ELSE f[n]
      BY <2>1, <3>1 DEF Taking
    <3>3. g[n + 1] = IF s[n + 1] \in wanted THEN Append(g[n], s[n + 1]) ELSE g[n]
      BY <2>1, <3>1 DEF Taking
    <3>q. QED
      BY <1>2, <3>1, <3>2, <3>3
  <2>q. QED
    BY <1>2, <2>1
<1>3. Nat \subseteq T
  <2> HIDE DEF T
  <2>q. QED
    BY <1>1, <1>2, NumbersInduction
<1>4. \A n \in 0..Len(s) : f[n] = g[n]
  BY <1>3
<1>q. QED
  BY <1>4 DEF Taking

\* One more element is one more step.
LEMMA TakingAppend ==
    ASSUME NEW S, NEW s \in Seq(S), NEW e \in S, NEW wanted, NEW taken, Taking(s, wanted, taken)
    PROVE  \E more : /\ Taking(Append(s, e), wanted, more)
                     /\ more[Len(s) + 1] = IF e \in wanted THEN Append(taken[Len(s)], e)
                                           ELSE taken[Len(s)]
<1> DEFINE m == Len(s)
           last == IF e \in wanted THEN Append(taken[m], e) ELSE taken[m]
           more == [n \in 0..(m + 1) |-> IF n = m + 1 THEN last ELSE taken[n]]
<1>1. m \in Nat /\ Len(Append(s, e)) = m + 1 /\ Append(s, e)[m + 1] = e
      /\ \A n \in 1..m : Append(s, e)[n] = s[n]
  BY AppendProperties
<1>2. ASSUME NEW n \in 0..(m + 1)
      PROVE  more[n] = IF n = 0 THEN <<>>
                       ELSE IF Append(s, e)[n] \in wanted THEN Append(more[n - 1], Append(s, e)[n])
                       ELSE more[n - 1]
  <2>1. CASE n = m + 1
    <3>1. n # 0 /\ n - 1 = m /\ m \in 0..(m + 1) /\ m # m + 1
      BY <1>1, <2>1
    <3>2. more[n] = last /\ more[n - 1] = taken[m] /\ Append(s, e)[n] = e
      BY <1>1, <2>1, <3>1
    <3>q. QED
      BY <3>1, <3>2
  <2>2. CASE n \in 1..m
    <3>1. n # 0 /\ n # m + 1 /\ n - 1 # m + 1 /\ n - 1 \in 0..(m + 1) /\ n \in 0..m
      BY <1>1, <2>2
    <3>2. more[n] = taken[n] /\ more[n - 1] = taken[n - 1] /\ Append(s, e)[n] = s[n]
      BY <1>1, <2>2, <3>1
    <3>3. taken[n] = IF s[n] \in wanted THEN Append(taken[n - 1], s[n]) ELSE taken[n - 1]
      BY <3>1 DEF Taking
    <3>q. QED
      BY <3>1, <3>2, <3>3
  <2>3. CASE n = 0
    <3>1. n # m + 1 /\ n \in 0..m
      BY <1>1, <2>3
    <3>q. QED
      BY <2>3, <3>1 DEF Taking
  <2>q. QED
    BY <1>1, <2>1, <2>2, <2>3
<1>3. Taking(Append(s, e), wanted, more)
  <2>1. more = [n \in 0..(m + 1) |-> more[n]]
    OBVIOUS
  <2>2. [n \in 0..(m + 1) |-> more[n]] =
            [n \in 0..(m + 1) |->
                IF n = 0 THEN <<>>
                ELSE IF Append(s, e)[n] \in wanted THEN Append(more[n - 1], Append(s, e)[n])
                ELSE more[n - 1]]
    <3> HIDE DEF more
    <3>q. QED
      BY <1>2
  <2> HIDE DEF more
  <2>q. QED
    BY <1>1, <2>1, <2>2 DEF Taking
<1>4. more[m + 1] = last
  BY <1>1
<1>q. QED
  BY <1>3, <1>4

\* A sequence is empty, or has a last element.
LEMMA HasLast ==
    ASSUME NEW S, NEW s \in Seq(S), s # <<>>
    PROVE  \E front \in Seq(S), e \in S : s = Append(front, e) /\ Len(s) = Len(front) + 1
<1> DEFINE n == Len(s) - 1
<1>0. n \in Nat /\ Len(s) = n + 1 /\ \A i \in 1..(n + 1) : s[i] \in S
  BY ElementOfSeq
<1> HIDE DEF n
<1>1. PICK f \in [1..n -> S] : f = [i \in 1..n |-> s[i]]
  <2>1. [i \in 1..n |-> s[i]] \in [1..n -> S]
    BY <1>0
  <2>q. QED
    BY <2>1
<1>2. f \in Seq(S) /\ Len(f) = n
  BY <1>0, <1>1
<1>3. s[n + 1] \in S
  BY <1>0
<1>4. Append(f, s[n + 1]) = s
  <2>1. Len(Append(f, s[n + 1])) = n + 1 /\ Append(f, s[n + 1]) \in Seq(S)
    BY <1>2, <1>3, AppendProperties
  <2>2. \A i \in 1..(n + 1) : Append(f, s[n + 1])[i] = s[i]
    BY <1>0, <1>1, <1>2, <1>3, AppendProperties
  <2>q. QED
    BY <1>0, <2>1, <2>2, SeqEqual
<1>q. QED
  BY <1>0, <1>2, <1>3, <1>4

\* It can be computed for every sequence.
LEMMA TakingExists ==
    ASSUME NEW S, NEW wanted, NEW s \in Seq(S)
    PROVE  \E taken : Taking(s, wanted, taken)
<1> DEFINE T == {n \in Nat : \A t \in Seq(S) : Len(t) = n => \E taken : Taking(t, wanted, taken)}
<1>1. 0 \in T
  <2>1. ASSUME NEW t \in Seq(S), Len(t) = 0 PROVE Taking(t, wanted, [n \in 0..0 |-> <<>>])
    BY <2>1 DEF Taking
  <2>q. QED
    BY <2>1
<1>2. ASSUME NEW n \in T, n \in Nat PROVE n + 1 \in T
  <2>1. ASSUME NEW t \in Seq(S), Len(t) = n + 1 PROVE \E taken : Taking(t, wanted, taken)
    <3>0. t # <<>>
      BY <1>2, <2>1
    <3>1. PICK front \in Seq(S), e \in S : Len(front) = n /\ t = Append(front, e)
      BY <1>2, <2>1, <3>0, HasLast
    <3>2. \E taken : Taking(front, wanted, taken)
      BY <1>2, <3>1
    <3>q. QED
      BY <3>1, <3>2, TakingAppend
  <2>q. QED
    BY <1>2, <2>1
<1>3. Nat \subseteq T
  <2> HIDE DEF T
  <2>q. QED
    BY <1>1, <1>2, NumbersInduction
<1>q. QED
  BY <1>3

\* So Selected has its value.
LEMMA SelectedTaking ==
    ASSUME NEW S, NEW wanted, NEW s \in Seq(S)
    PROVE  \E taken : Taking(s, wanted, taken) /\ Selected(s, wanted) = taken[Len(s)]
<1>1. \E taken : Taking(s, wanted, taken)
  BY TakingExists
<1>q. QED
  BY Zenon, <1>1 DEF Selected, Taking

\* Nothing is left of nothing.
LEMMA SelectedEmpty ==
    ASSUME NEW wanted
    PROVE  Selected(<<>>, wanted) = <<>>
<1>1. <<>> \in Seq({}) /\ Len(<<>>) = 0
  OBVIOUS
<1>2. PICK taken : Taking(<<>>, wanted, taken) /\ Selected(<<>>, wanted) = taken[0]
  BY <1>1, SelectedTaking
<1>q. QED
  BY <1>1, <1>2 DEF Taking

\* An element at the end is left or not.
LEMMA SelectedAppend ==
    ASSUME NEW S, NEW wanted, NEW s \in Seq(S), NEW e \in S
    PROVE  Selected(Append(s, e), wanted) =
               IF e \in wanted THEN Append(Selected(s, wanted), e) ELSE Selected(s, wanted)
<1>1. Append(s, e) \in Seq(S) /\ Len(Append(s, e)) = Len(s) + 1
  BY AppendProperties
<1>2. PICK taken : Taking(s, wanted, taken) /\ Selected(s, wanted) = taken[Len(s)]
  BY SelectedTaking
<1>3. PICK all : Taking(Append(s, e), wanted, all)
                 /\ Selected(Append(s, e), wanted) = all[Len(s) + 1]
  BY <1>1, SelectedTaking
<1>4. PICK more : /\ Taking(Append(s, e), wanted, more)
                  /\ more[Len(s) + 1] = IF e \in wanted THEN Append(taken[Len(s)], e)
                                        ELSE taken[Len(s)]
  BY <1>2, TakingAppend
<1>5. all = more
  BY <1>1, <1>3, <1>4, TakingUnique
<1>q. QED
  BY <1>2, <1>3, <1>4, <1>5

\* left has the elements of s that are wanted, and no others.
Leaves(S, s, wanted, left) ==
    /\ left \in Seq(S \cap wanted)
    /\ \A i \in DOMAIN s : s[i] \in wanted => \E k \in DOMAIN left : left[k] = s[i]
    /\ \A k \in DOMAIN left : \E i \in DOMAIN s : s[i] \in wanted /\ left[k] = s[i]

\* So it is with one more element, which is left or not.
LEMMA LeavesAppend ==
    ASSUME NEW S, NEW wanted, NEW s \in Seq(S), NEW e \in S, NEW left, Leaves(S, s, wanted, left)
    PROVE  Leaves(S, Append(s, e), wanted, IF e \in wanted THEN Append(left, e) ELSE left)
<1> DEFINE t == Append(s, e)
           n == Len(s)
<1>1. /\ t \in Seq(S) /\ Len(t) = n + 1 /\ t[n + 1] = e
      /\ \A i \in 1..n : t[i] = s[i]
  BY AppendProperties
<1>2. /\ n \in Nat /\ DOMAIN s = 1..n /\ DOMAIN t = 1..(n + 1)
      /\ \A i \in 1..(n + 1) : i \in 1..n \/ i = n + 1
      /\ \A i \in 1..n : i \in 1..(n + 1)
      /\ n + 1 \in 1..(n + 1)
  BY <1>1
<1>3. CASE e \notin wanted
  <2> HIDE DEF t, n
  <2>q. QED
    BY <1>1, <1>2, <1>3 DEF Leaves, t
<1>4. CASE e \in wanted
  <2> DEFINE more == Append(left, e)
             m == Len(left)
  <2>1. left \in Seq(S \cap wanted) /\ e \in S \cap wanted
    BY <1>4 DEF Leaves
  <2>2. /\ more \in Seq(S \cap wanted) /\ Len(more) = m + 1 /\ more[m + 1] = e
        /\ \A k \in 1..m : more[k] = left[k]
    BY <2>1, AppendProperties
  <2>3. /\ m \in Nat /\ DOMAIN left = 1..m /\ DOMAIN more = 1..(m + 1)
        /\ \A k \in 1..(m + 1) : k \in 1..m \/ k = m + 1
        /\ \A k \in 1..m : k \in 1..(m + 1)
        /\ m + 1 \in 1..(m + 1)
    BY <2>1, <2>2
  <2>4. Leaves(S, t, wanted, more)
    <3> HIDE DEF t, n, more, m
    <3>1. ASSUME NEW i \in DOMAIN t, t[i] \in wanted PROVE \E k \in DOMAIN more : more[k] = t[i]
      <4>1. CASE i \in 1..n
        <5>1. PICK k \in 1..m : left[k] = s[i]
          BY <1>1, <1>2, <2>3, <3>1, <4>1 DEF Leaves
        <5>q. QED
          BY <1>1, <2>2, <2>3, <4>1, <5>1
      <4>2. CASE i = n + 1
        BY <1>1, <2>2, <2>3, <4>2
      <4>q. QED
        BY <1>2, <3>1, <4>1, <4>2
    <3>2. ASSUME NEW k \in DOMAIN more PROVE \E i \in DOMAIN t : t[i] \in wanted /\ more[k] = t[i]
      <4>1. CASE k \in 1..m
        <5>1. PICK i \in 1..n : s[i] \in wanted /\ left[k] = s[i]
          BY <1>2, <2>3, <4>1 DEF Leaves
        <5>q. QED
          BY <1>1, <1>2, <2>2, <4>1, <5>1
      <4>2. CASE k = m + 1
        BY <1>1, <1>2, <1>4, <2>2, <4>2
      <4>q. QED
        BY <2>3, <3>2, <4>1, <4>2
    <3>q. QED
      BY <2>2, <3>1, <3>2 DEF Leaves
  <2>q. QED
    BY <1>4, <2>4
<1>q. QED
  BY <1>3, <1>4

\* What is left are the elements that are wanted.
LEMMA SelectedElements ==
    ASSUME NEW S, NEW wanted, NEW s \in Seq(S)
    PROVE  Leaves(S, s, wanted, Selected(s, wanted))
<1> DEFINE T == {n \in Nat : \A t \in Seq(S) : Len(t) = n => Leaves(S, t, wanted, Selected(t, wanted))}
<1>1. 0 \in T
  <2>1. Leaves(S, <<>>, wanted, <<>>)
    BY DEF Leaves
  <2>2. \A t \in Seq(S) : Len(t) = 0 => t = <<>>
    OBVIOUS
  <2>q. QED
    BY <2>1, <2>2, SelectedEmpty
<1>2. ASSUME NEW n \in T, n \in Nat PROVE n + 1 \in T
  <2>1. ASSUME NEW t \in Seq(S), Len(t) = n + 1 PROVE Leaves(S, t, wanted, Selected(t, wanted))
    <3>0. t # <<>>
      BY <1>2, <2>1
    <3>1. PICK front \in Seq(S), e \in S : Len(front) = n /\ t = Append(front, e)
      BY <1>2, <2>1, <3>0, HasLast
    <3>2. Leaves(S, front, wanted, Selected(front, wanted))
      BY <1>2, <3>1
    <3>3. Selected(t, wanted) =
              IF e \in wanted THEN Append(Selected(front, wanted), e) ELSE Selected(front, wanted)
      BY <3>1, SelectedAppend
    <3>q. QED
      BY <3>1, <3>2, <3>3, LeavesAppend
  <2>q. QED
    BY <1>2, <2>1
<1>3. Nat \subseteq T
  <2> HIDE DEF T
  <2>q. QED
    BY <1>1, <1>2, NumbersInduction
<1>q. QED
  BY <1>3

\* left is what is left of a head and of the tail after it.
Splits(S, s, wanted, left) ==
    left = IF Head(s) \in wanted THEN <<Head(s)>> \o Selected(Tail(s), wanted)
           ELSE Selected(Tail(s), wanted)

\* So it is with one more element at the end.
LEMMA SplitsAppend ==
    ASSUME NEW S, NEW wanted, NEW s \in Seq(S), s # <<>>, NEW e \in S,
           Splits(S, s, wanted, Selected(s, wanted))
    PROVE  Splits(S, Append(s, e), wanted, Selected(Append(s, e), wanted))
<1>1. Tail(s) \in Seq(S) /\ Head(s) \in S
  BY HeadTailProperties
<1>2. Head(Append(s, e)) = Head(s) /\ Tail(Append(s, e)) = Append(Tail(s), e)
  BY HeadTailAppend
<1>3. Selected(Append(s, e), wanted) =
          IF e \in wanted THEN Append(Selected(s, wanted), e) ELSE Selected(s, wanted)
  BY SelectedAppend
<1>4. Selected(Append(Tail(s), e), wanted) =
          IF e \in wanted THEN Append(Selected(Tail(s), wanted), e) ELSE Selected(Tail(s), wanted)
  <2>1. \A q \in Seq(S) : Selected(Append(q, e), wanted) =
                               IF e \in wanted THEN Append(Selected(q, wanted), e) ELSE Selected(q, wanted)
    BY SelectedAppend
  <2>q. QED
    BY Zenon, <1>1, <2>1
<1>5. Selected(Tail(s), wanted) \in Seq(S)
  <2>1. Selected(Tail(s), wanted) \in Seq(S \cap wanted)
    BY <1>1, SelectedElements DEF Leaves
  <2>q. QED
    BY <2>1
<1>6. ASSUME NEW h \in S, NEW q \in Seq(S) PROVE Append(<<h>> \o q, e) = <<h>> \o Append(q, e)
  BY <1>6
<1>7. Append(<<Head(s)>> \o Selected(Tail(s), wanted), e)
          = <<Head(s)>> \o Append(Selected(Tail(s), wanted), e)
  BY <1>1, <1>5, <1>6
<1>q. QED
  BY Zenon, <1>2, <1>3, <1>4, <1>7 DEF Splits

\* An element at the front is left or not, before the rest.
LEMMA SelectedHead ==
    ASSUME NEW S, NEW wanted, NEW s \in Seq(S), s # <<>>
    PROVE  Selected(s, wanted) =
               IF Head(s) \in wanted THEN <<Head(s)>> \o Selected(Tail(s), wanted)
               ELSE Selected(Tail(s), wanted)
<1> DEFINE T == {n \in Nat : \A t \in Seq(S) : Len(t) = n + 1 => Splits(S, t, wanted, Selected(t, wanted))}
<1>1. 0 \in T
  <2>1. ASSUME NEW t \in Seq(S), Len(t) = 1 PROVE Splits(S, t, wanted, Selected(t, wanted))
    <3>0. t # <<>>
      BY <2>1
    <3>1. PICK front \in Seq(S), e \in S : Len(front) = 0 /\ t = Append(front, e)
      BY <2>1, <3>0, HasLast
    <3>2. front = <<>> /\ Head(t) = e /\ Tail(t) = <<>>
      BY <3>1
    <3>3. Selected(t, wanted) = IF e \in wanted THEN Append(<<>>, e) ELSE <<>>
      <4>1. Selected(Append(front, e), wanted) =
                IF e \in wanted THEN Append(Selected(front, wanted), e) ELSE Selected(front, wanted)
        BY SelectedAppend
      <4>2. Selected(front, wanted) = <<>>
        BY <3>2, SelectedEmpty
      <4>q. QED
        BY <3>1, <4>1, <4>2
    <3>4. Append(<<>>, e) = <<e>> \o <<>>
      OBVIOUS
    <3>q. QED
      BY Zenon, <3>2, <3>3, <3>4, SelectedEmpty DEF Splits
  <2>q. QED
    BY <2>1
<1>2. ASSUME NEW n \in T, n \in Nat PROVE n + 1 \in T
  <2>1. ASSUME NEW t \in Seq(S), Len(t) = (n + 1) + 1
        PROVE  Splits(S, t, wanted, Selected(t, wanted))
    <3>0. t # <<>>
      BY <1>2, <2>1
    <3>1. PICK front \in Seq(S), e \in S : Len(front) = n + 1 /\ t = Append(front, e)
      <4>1. PICK front \in Seq(S), e \in S : t = Append(front, e) /\ Len(t) = Len(front) + 1
        BY <3>0, HasLast
      <4>q. QED
        BY <1>2, <2>1, <4>1
    <3>2. Splits(S, front, wanted, Selected(front, wanted))
      BY <1>2, <3>1
    <3>3. front # <<>>
      BY <1>2, <3>1
    <3>q. QED
      BY <3>1, <3>2, <3>3, SplitsAppend
  <2>q. QED
    BY <1>2, <2>1
<1>3. Nat \subseteq T
  <2> HIDE DEF T
  <2>q. QED
    BY <1>1, <1>2, NumbersInduction
<1>4. Len(s) - 1 \in Nat /\ Len(s) = (Len(s) - 1) + 1
  OBVIOUS
<1>5. Splits(S, s, wanted, Selected(s, wanted))
  BY <1>3, <1>4
<1>q. QED
  BY <1>5 DEF Splits

-----------------------------------------------------------------------------
(***************************************************************************)
(* Exec.                                                                   *)
(***************************************************************************)

\* How far the call is goes with what has become of the command and its context.
ExecProgress ==
    /\ execStep = "answered" <=> result # "none"
    /\ execStep \in {"resolve", "reresolve", "inspect"} =>
          cliState = "none" /\ command = "none" /\ execContext # "expired"
    /\ execStep \in {"recheckResolve", "recheck"} =>
          cliState \in {"failing", "killed"} /\ execContext # "expired"
    /\ execContext = "live" => requester
    /\ execContext = "cancelled" => ~requester

\* What was seen of the container and of the CLI has its reason.
ExecReasons ==
    /\ container # "running" => troubles.down
    /\ command = "died" => troubles.down
    /\ cliState = "ok" => command = "ok"
    /\ cliState = "failing" => command = "failing" \/ troubles.fault \/ troubles.down
    /\ cliState \in {"killed", "broken"} => troubles.fault \/ execContext # "live"

\* The inductive invariant of ExecCommand.
ExecInvariant == ExecTypeOK /\ ExecProgress /\ ExecReasons /\ ExecAnswersAreTrue

\* It holds before the call.
LEMMA ExecInitially == ExecInit => ExecInvariant
BY DEF ExecInit, ExecInvariant, ExecTypeOK, ExecProgress, ExecReasons, ExecAnswersAreTrue, Looking, AfterResolve

\* Every step keeps it.
LEMMA ExecStepKeeps == ExecInvariant /\ [ExecNext]_execVars => ExecInvariant'
<1> SUFFICES ASSUME ExecInvariant, [ExecNext]_execVars PROVE ExecInvariant'
  OBVIOUS
<1> USE DEF ExecInvariant, ExecTypeOK, ExecProgress, ExecReasons, ExecAnswersAreTrue, Looking, AfterResolve
<1>1. ASSUME NEW to \in {"running", "paused", "stopped", "gone"}, ContainerChanges(to)
      PROVE  ExecInvariant'
  <2>1. CASE to = "running"
    BY <1>1, <2>1 DEF ContainerChanges
  <2>2. CASE to # "running"
    <3>1. troubles' \in [down : BOOLEAN, fault : BOOLEAN] /\ troubles'.down /\ troubles'.fault = troubles.fault
      BY <1>1, <2>2 DEF ContainerChanges
    <3>q. QED
      BY <1>1, <2>2, <3>1 DEF ContainerChanges
  <2>q. QED
    BY <2>1, <2>2
<1>2. ASSUME NEW how \in {"ok", "failing"}, CommandEnded(how) PROVE ExecInvariant'
  BY <1>2 DEF CommandEnded
<1>3. CASE RequesterLeaves
  BY <1>3 DEF RequesterLeaves
<1>4. CASE DeadlinePasses
  BY <1>4 DEF DeadlinePasses
<1>5. CASE LookFails
  BY <1>5 DEF LookFails, Finished, Faulty, Unmoved
<1>6. CASE ResolveContainerReference
  BY <1>6 DEF ResolveContainerReference, Finished, GoesOn, Unmoved
<1>7. CASE InspectContainer
  BY <1>7 DEF InspectContainer, Finished, GoesOn, Unmoved
<1>8. CASE StartCLI
  BY <1>8 DEF StartCLI, Faulty
<1>9. CASE CLIExits
  <2>0. cliState = "running" /\ UNCHANGED <<container, command, requester, execContext, execStep, result>>
    BY <1>9 DEF CLIExits, Unmoved
  <2>1. CASE UNCHANGED troubles /\ command \in {"ok", "failing"} /\ cliState' = command
    BY <2>0, <2>1
  <2>3. CASE UNCHANGED troubles /\ command = "died" /\ cliState' = "failing"
    BY <2>0, <2>3
  <2>4. CASE UNCHANGED troubles /\ execContext # "live" /\ cliState' = "killed"
    BY <2>0, <2>4
  <2>2. CASE Faulty /\ cliState' \in {"failing", "killed"}
    <3>1. troubles' \in [down : BOOLEAN, fault : BOOLEAN] /\ troubles'.fault /\ troubles'.down = troubles.down
      BY <2>2 DEF Faulty
    <3>q. QED
      BY <2>0, <2>2, <3>1
  <2>q. QED
    BY <1>9, <2>1, <2>2, <2>3, <2>4 DEF CLIExits
<1>10. CASE Classify
  BY <1>10 DEF Classify, Finished, GoesOn, Unmoved
<1>11. CASE NextExec
  BY <1>11 DEF NextExec
<1>12. CASE UNCHANGED execVars
  BY <1>12 DEF execVars
<1>13. CASE RefuseCommand
  BY <1>13 DEF RefuseCommand, Finished, Unmoved
<1>q. QED
  BY <1>1, <1>2, <1>3, <1>4, <1>5, <1>6, <1>7, <1>8, <1>9, <1>10, <1>11, <1>12, <1>13 DEF ExecNext

\* An answer of Exec is true, whatever becomes of its container, its client, its
\* deadline and the CLI meanwhile.
THEOREM ExecAnswersAreTrueHolds == ExecSpec => []ExecAnswersAreTrue
<1>1. ExecInvariant => ExecAnswersAreTrue
  BY DEF ExecInvariant
<1>q. QED
  BY <1>1, ExecInitially, ExecStepKeeps, PTL DEF ExecSpec

-----------------------------------------------------------------------------
(***************************************************************************)
(* InspectImage.                                                           *)
(***************************************************************************)

\* What was seen of the image is what it is now, if nothing else.
ImageSeen ==
    /\ IF present THEN during.present ELSE during.absent
    /\ answer = "none" <=> lookup # "answered"
    /\ detached => ~client

\* An attempt fails once at most; and each did that is over, save perhaps the one
\* during which the client left: after which the attempts are detached.
FailuresCounted ==
    /\ lookup = "idle" => attempt = 1 /\ during.failures = 0
    /\ lookup \in {"inspect", "ls"} =>
          /\ during.failures <= attempt - 1
          /\ \/ during.failures >= attempt - 1
             \/ ~client /\ detached /\ during.failures >= attempt - 2
    /\ lookup = "backoff" =>
          /\ attempt < MaxAttempts /\ during.failures <= attempt
          /\ \/ during.failures >= attempt
             \/ ~client /\ during.failures >= attempt - 1
    /\ lookup = "answered" => during.failures <= attempt

\* The inductive invariant of ImageAvailability.
AvailabilityInvariant == AvailabilityTypeOK /\ ImageSeen /\ FailuresCounted /\ AnswersAreTrue

\* Nothing but the present is seen of the image before a call.
LEMMA NowSeen ==
    ASSUME NEW b \in BOOLEAN
    PROVE  /\ Now(b) \in [present : BOOLEAN, absent : BOOLEAN, failures : 0..MaxAttempts, blind : BOOLEAN]
           /\ (b => Now(b).present) /\ (~b => Now(b).absent) /\ Now(b).failures = 0
<1>1. 0 \in 0..MaxAttempts
  BY ImageAvailabilityAssumption
<1>q. QED
  BY <1>1 DEF Now

\* It holds before the first call.
LEMMA AvailabilityInitially == AvailabilityInit => AvailabilityInvariant
<1> SUFFICES ASSUME AvailabilityInit PROVE AvailabilityInvariant
  OBVIOUS
<1>1. present \in BOOLEAN /\ during = Now(present) /\ 1 \in 1..MaxAttempts
  <2>1. 1 \in 1..MaxAttempts
    BY ImageAvailabilityAssumption
  <2>2. present \in BOOLEAN /\ during = Now(present)
    BY Zenon DEF AvailabilityInit
  <2>q. QED
    BY <2>1, <2>2
<1>2. /\ during \in [present : BOOLEAN, absent : BOOLEAN, failures : 0..MaxAttempts, blind : BOOLEAN]
      /\ (present => during.present) /\ (~present => during.absent) /\ during.failures = 0
  BY <1>1, NowSeen
<1>3. AvailabilityTypeOK
  BY <1>1, <1>2 DEF AvailabilityInit, AvailabilityTypeOK
<1>4. ImageSeen /\ AnswersAreTrue
  BY <1>2 DEF AvailabilityInit, ImageSeen, AnswersAreTrue
<1>5. FailuresCounted
  BY <1>2 DEF AvailabilityInit, FailuresCounted
<1>q. QED
  BY <1>3, <1>4, <1>5 DEF AvailabilityInvariant

\* Every step keeps it.
LEMMA AvailabilityStepKeeps == AvailabilityInvariant /\ [AvailabilityNext]_availabilityVars => AvailabilityInvariant'
<1> SUFFICES ASSUME AvailabilityInvariant, [AvailabilityNext]_availabilityVars PROVE AvailabilityInvariant'
  OBVIOUS
<1> USE ImageAvailabilityAssumption
    DEF AvailabilityInvariant, AvailabilityTypeOK, ImageSeen, FailuresCounted, AnswersAreTrue
<1>0. /\ during \in [present : BOOLEAN, absent : BOOLEAN, failures : 0..MaxAttempts, blind : BOOLEAN]
      /\ present \in BOOLEAN
  OBVIOUS
<1>1. CASE ImageChanges
  <2>1. CASE present
    <3>1. /\ during' \in [present : BOOLEAN, absent : BOOLEAN, failures : 0..MaxAttempts, blind : BOOLEAN]
          /\ during'.absent /\ during'.present = during.present
          /\ during'.failures = during.failures /\ during'.blind = during.blind
      BY <1>0, <1>1, <2>1 DEF ImageChanges
    <3>q. QED
      BY <1>1, <2>1, <3>1 DEF ImageChanges
  <2>2. CASE ~present
    <3>1. /\ during' \in [present : BOOLEAN, absent : BOOLEAN, failures : 0..MaxAttempts, blind : BOOLEAN]
          /\ during'.present /\ during'.absent = during.absent
          /\ during'.failures = during.failures /\ during'.blind = during.blind
      BY <1>0, <1>1, <2>2 DEF ImageChanges
    <3>q. QED
      BY <1>1, <2>2, <3>1 DEF ImageChanges
  <2>q. QED
    BY <2>1, <2>2
<1>2. CASE ClientLeaves
  BY <1>2 DEF ClientLeaves
<1>3. CASE Asked
  BY <1>0, <1>3, NowSeen DEF Asked, Detached
<1>4. CASE InspectFinds
  BY <1>4 DEF InspectFinds, AnswerWith
<1>5. CASE InspectDenies
  BY <1>5 DEF InspectDenies
<1>6. CASE InspectFails
  <2>1. CASE Cancelled
    BY <1>6, <2>1 DEF InspectFails, Cancelled, TryAgain, AnswerWith
  <2>2. CASE ~Cancelled
    <3>1. during.failures + 1 \in 0..MaxAttempts
      BY <1>6 DEF InspectFails
    <3>2. /\ during' \in [present : BOOLEAN, absent : BOOLEAN, failures : 0..MaxAttempts, blind : BOOLEAN]
          /\ during'.present = during.present /\ during'.absent = during.absent
          /\ during'.failures = during.failures + 1 /\ during'.blind = during.blind
      BY <1>0, <1>6, <2>2, <3>1 DEF InspectFails
    <3>q. QED
      BY <1>6, <3>1, <3>2 DEF InspectFails, TryAgain, AnswerWith
  <2>q. QED
    BY <2>1, <2>2
<1>7. CASE ListImages
  <2>1. CASE UNCHANGED during
    BY <1>7, <2>1 DEF ListImages, AnswerWith
  <2>2. CASE AnswerWith("missing") /\ during' = [during EXCEPT !.blind = TRUE]
    <3>1. /\ during' \in [present : BOOLEAN, absent : BOOLEAN, failures : 0..MaxAttempts, blind : BOOLEAN]
          /\ during'.present = during.present /\ during'.absent = during.absent
          /\ during'.failures = during.failures /\ during'.blind
      BY <1>0, <2>2
    <3>q. QED
      BY <1>7, <2>2, <3>1 DEF ListImages, AnswerWith
  <2>q. QED
    BY <1>7, <2>1, <2>2 DEF ListImages
<1>8. CASE BackoffEnds
  BY <1>8 DEF BackoffEnds, Detached
<1>9. CASE NextRequest
  <2>1. /\ during' \in [present : BOOLEAN, absent : BOOLEAN, failures : 0..MaxAttempts, blind : BOOLEAN]
        /\ (present => during'.present) /\ (~present => during'.absent) /\ during'.failures = 0
    BY <1>0, <1>9, NowSeen DEF NextRequest
  <2>2. client' = TRUE /\ lookup' = "idle" /\ attempt' = 1 /\ detached' = FALSE /\ answer' = "none"
    BY <1>9 DEF NextRequest
  <2>3. (present' <=> present) /\ present' \in BOOLEAN
    BY Zenon, <1>0, <1>9 DEF NextRequest
  <2>4. 1 \in 1..MaxAttempts
    OBVIOUS
  <2>5. AvailabilityTypeOK'
    BY <2>1, <2>2, <2>3, <2>4
  <2>6. ImageSeen' /\ FailuresCounted' /\ AnswersAreTrue'
    BY <2>1, <2>2, <2>3
  <2>q. QED
    BY <2>5, <2>6
<1>10. CASE UNCHANGED availabilityVars
  BY <1>10 DEF availabilityVars
<1>q. QED
  BY <1>1, <1>2, <1>3, <1>4, <1>5, <1>6, <1>7, <1>8, <1>9, <1>10 DEF AvailabilityNext

\* What is said of an image was so during the call, and an error means that the
\* engine itself failed, however many attempts are made.
THEOREM AnswersAreTrueHolds == AvailabilitySpec => []AnswersAreTrue
<1>1. AvailabilityInvariant => AnswersAreTrue
  BY DEF AvailabilityInvariant
<1>q. QED
  BY <1>1, AvailabilityInitially, AvailabilityStepKeeps, PTL DEF AvailabilitySpec

-----------------------------------------------------------------------------
(***************************************************************************)
(* runStreamingCommandWithEnv.                                             *)
(***************************************************************************)

\* A pipe that could not be read is told to the caller, or will be.
ReadError ==
    \/ \E i \in DOMAIN chunks : chunks[i].place = ErrorText
    \/ \E i \in DOMAIN output["stderr"] : output["stderr"][i] = ErrorText

\* A reader that has something read it, and one that is done saw the end of its
\* pipe, or an error.
ReadersKnow ==
    \A s \in Stream :
        /\ reader[s] = "sending" => read[s] >= 1
        /\ reader[s] = "done" => (read[s] = written[s] /\ ~PipesOpen) \/ ReadError

\* The channel is closed by the last reader, and drained before the caller returns.
ClosedLast ==
    /\ closed => \A s \in Stream : reader[s] = "done"
    /\ caller = "returned" => closed /\ chunks = <<>>

SinkExact == \A s \in Stream : Places(OfStream(s, sink)) = Kept(s)

\* The inductive invariant of CommandStream.
OutputInvariant == StreamTypeOK /\ NothingLost /\ SinkExact /\ ReadersKnow /\ ClosedLast

\* Which chunks are of a stream.
LEMMA ChunkOfStream ==
    ASSUME NEW s \in Stream, NEW e \in Chunk
    PROVE  e \in [stream : {s}, place : ChunkPlace] <=> e.stream = s /\ e.place # ErrorText
BY DEF Chunk, ChunkPlace

\* What is selected of a stream has a type.
LEMMA OfStreamType ==
    ASSUME NEW s \in Stream, NEW q \in Seq(Chunk)
    PROVE  OfStream(s, q) \in Seq(Chunk)
<1>1. OfStream(s, q) \in Seq(Chunk \cap [stream : {s}, place : ChunkPlace])
  BY SelectedElements DEF Leaves, OfStream
<1>q. QED
  BY <1>1

\* And so have its places.
LEMMA PlacesType ==
    ASSUME NEW q \in Seq(Chunk)
    PROVE  Places(q) \in Seq(Nat) /\ Len(Places(q)) = Len(q)
<1>1. \A i \in 1..Len(q) : q[i].place \in Nat
  <2>1. \A i \in 1..Len(q) : q[i] \in Chunk
    BY ElementOfSeq
  <2>q. QED
    BY <2>1, CommandStreamAssumption DEF Chunk
<1>2. Places(q) = [i \in 1..Len(q) |-> q[i].place]
  BY DEF Places
<1>q. QED
  BY <1>1, <1>2

\* The places of one chunk more.
LEMMA PlacesAppend ==
    ASSUME NEW q \in Seq(Chunk), NEW e \in Chunk
    PROVE  Places(Append(q, e)) = Append(Places(q), e.place)
<1>1. Append(q, e) \in Seq(Chunk) /\ Len(Append(q, e)) = Len(q) + 1
      /\ Append(q, e)[Len(q) + 1] = e /\ \A i \in 1..Len(q) : Append(q, e)[i] = q[i]
  BY AppendProperties
<1>2. e.place \in Nat
  BY CommandStreamAssumption DEF Chunk
<1>3. /\ Places(q) \in Seq(Nat) /\ Len(Places(q)) = Len(q)
      /\ Places(Append(q, e)) \in Seq(Nat) /\ Len(Places(Append(q, e))) = Len(q) + 1
  BY <1>1, PlacesType
<1>4. /\ Append(Places(q), e.place) \in Seq(Nat) /\ Len(Append(Places(q), e.place)) = Len(q) + 1
      /\ Append(Places(q), e.place)[Len(q) + 1] = e.place
      /\ \A i \in 1..Len(q) : Append(Places(q), e.place)[i] = Places(q)[i]
  BY <1>2, <1>3, AppendProperties
<1>5. ASSUME NEW i \in 1..(Len(q) + 1)
      PROVE  Places(Append(q, e))[i] = Append(Places(q), e.place)[i]
  <2>1. Places(Append(q, e))[i] = Append(q, e)[i].place
    BY <1>1 DEF Places
  <2>2. i \in 1..Len(q) => Places(q)[i] = q[i].place
    BY DEF Places
  <2>q. QED
    BY <1>1, <1>4, <2>1, <2>2
<1>q. QED
  BY <1>3, <1>4, <1>5, SeqEqual

\* The places of one chunk before others.
LEMMA PlacesBefore ==
    ASSUME NEW q \in Seq(Chunk), NEW e \in Chunk
    PROVE  Places(<<e>> \o q) = <<e.place>> \o Places(q)
<1>1. <<e>> \o q \in Seq(Chunk) /\ Len(<<e>> \o q) = Len(q) + 1
      /\ (<<e>> \o q)[1] = e /\ \A i \in 1..Len(q) : (<<e>> \o q)[i + 1] = q[i]
  OBVIOUS
<1>2. e.place \in Nat
  BY CommandStreamAssumption DEF Chunk
<1>3. /\ Places(q) \in Seq(Nat) /\ Len(Places(q)) = Len(q)
      /\ Places(<<e>> \o q) \in Seq(Nat) /\ Len(Places(<<e>> \o q)) = Len(q) + 1
  BY <1>1, PlacesType
<1>4. /\ <<e.place>> \o Places(q) \in Seq(Nat) /\ Len(<<e.place>> \o Places(q)) = Len(q) + 1
      /\ (<<e.place>> \o Places(q))[1] = e.place
      /\ \A i \in 1..Len(q) : (<<e.place>> \o Places(q))[i + 1] = Places(q)[i]
  BY <1>2, <1>3
<1>5. ASSUME NEW i \in 1..(Len(q) + 1)
      PROVE  Places(<<e>> \o q)[i] = (<<e.place>> \o Places(q))[i]
  <2>1. Places(<<e>> \o q)[i] = (<<e>> \o q)[i].place
    BY <1>1 DEF Places
  <2>2. CASE i = 1
    BY <1>1, <1>4, <2>1, <2>2
  <2>3. CASE i # 1
    <3>1. i - 1 \in 1..Len(q) /\ i = (i - 1) + 1
      BY <2>3
    <3>2. Places(q)[i - 1] = q[i - 1].place
      BY <3>1 DEF Places
    <3>3. (<<e>> \o q)[i] = q[i - 1] /\ (<<e.place>> \o Places(q))[i] = Places(q)[i - 1]
      BY <1>1, <1>4, <3>1
    <3>q. QED
      BY <2>1, <3>2, <3>3
  <2>q. QED
    BY <2>2, <2>3
<1>q. QED
  BY <1>3, <1>4, <1>5, SeqEqual

\* A chunk that is sent is of its stream, unless it is an error.
LEMMA OfStreamAppend ==
    ASSUME NEW s \in Stream, NEW q \in Seq(Chunk), NEW e \in Chunk
    PROVE  Places(OfStream(s, Append(q, e))) =
               IF e.stream = s /\ e.place # ErrorText THEN Append(Places(OfStream(s, q)), e.place)
               ELSE Places(OfStream(s, q))
<1>1. OfStream(s, Append(q, e)) =
          IF e \in [stream : {s}, place : ChunkPlace] THEN Append(OfStream(s, q), e) ELSE OfStream(s, q)
  <2>1. ASSUME NEW wanted
        PROVE  Selected(Append(q, e), wanted) =
                   IF e \in wanted THEN Append(Selected(q, wanted), e) ELSE Selected(q, wanted)
    BY SelectedAppend
  <2>q. QED
    BY <2>1 DEF OfStream
<1>q. QED
  BY <1>1, OfStreamType, ChunkOfStream, PlacesAppend

\* So is a chunk that is taken.
LEMMA OfStreamHead ==
    ASSUME NEW s \in Stream, NEW q \in Seq(Chunk), q # <<>>
    PROVE  Places(OfStream(s, q)) =
               IF Head(q).stream = s /\ Head(q).place # ErrorText
               THEN <<Head(q).place>> \o Places(OfStream(s, Tail(q)))
               ELSE Places(OfStream(s, Tail(q)))
<1>1. Head(q) \in Chunk /\ Tail(q) \in Seq(Chunk)
  BY HeadTailProperties
<1>2. OfStream(s, q) =
          IF Head(q) \in [stream : {s}, place : ChunkPlace] THEN <<Head(q)>> \o OfStream(s, Tail(q))
          ELSE OfStream(s, Tail(q))
  BY SelectedHead DEF OfStream
<1>q. QED
  BY <1>1, <1>2, OfStreamType, ChunkOfStream, PlacesBefore

\* What the caller keeps of one output more.
LEMMA KeptAppend ==
    ASSUME NEW q \in Seq(0..MaxChunks), NEW n \in 0..MaxChunks
    PROVE  Selected(Append(q, n), ChunkPlace) =
               IF n # ErrorText THEN Append(Selected(q, ChunkPlace), n) ELSE Selected(q, ChunkPlace)
<1>1. n \in ChunkPlace <=> n # ErrorText
  BY DEF ChunkPlace
<1>2. Selected(Append(q, n), ChunkPlace) =
          IF n \in ChunkPlace THEN Append(Selected(q, ChunkPlace), n) ELSE Selected(q, ChunkPlace)
  <2>1. ASSUME NEW wanted
        PROVE  Selected(Append(q, n), wanted) =
                   IF n \in wanted THEN Append(Selected(q, wanted), n) ELSE Selected(q, wanted)
    <3>1. ASSUME NEW S, q \in Seq(S), n \in S
          PROVE  Selected(Append(q, n), wanted) =
                     IF n \in wanted THEN Append(Selected(q, wanted), n) ELSE Selected(q, wanted)
      BY <3>1, SelectedAppend
    <3>q. QED
      BY <3>1
  <2>q. QED
    BY <2>1
<1>q. QED
  BY <1>1, <1>2

\* What it keeps are places.
LEMMA KeptType ==
    ASSUME NEW q \in Seq(0..MaxChunks)
    PROVE  Selected(q, ChunkPlace) \in Seq(Nat)
<1>1. Selected(q, ChunkPlace) \in Seq((0..MaxChunks) \cap ChunkPlace)
  BY SelectedElements DEF Leaves
<1>q. QED
  BY <1>1

\* A chunk that is sent goes from its reader to the channel.
LEMMA SentOn ==
    ASSUME NEW kept \in Seq(Nat), NEW sent \in Seq(Nat), NEW n \in Nat
    PROVE  kept \o Append(sent, n) \o <<>> = kept \o sent \o <<n>>
OBVIOUS

Upto(n) == [i \in 1..n |-> i]

\* One that is read goes to its reader.
LEMMA ReadOn ==
    ASSUME NEW kept \in Seq(Nat), NEW sent \in Seq(Nat), NEW n \in Nat,
           kept \o sent \o <<>> = Upto(n)
    PROVE  kept \o sent \o <<n + 1>> = Upto(n + 1)
<1> DEFINE all == kept \o sent
<1>1. all \in Seq(Nat) /\ all \o <<>> = all
  OBVIOUS
<1>2. all = Upto(n)
  BY <1>1
<1> HIDE DEF all
<1>3. Len(all) = n /\ \A i \in 1..n : all[i] = i
  BY <1>2 DEF Upto
<1>4. all \o <<n + 1>> \in Seq(Nat) /\ Len(all \o <<n + 1>>) = n + 1
      /\ \A i \in 1..(n + 1) : (all \o <<n + 1>>)[i] = i
  <2>1. all \in Seq(Nat) /\ n + 1 \in Nat
    BY <1>1
  <2>2. all \o <<n + 1>> = Append(all, n + 1)
    BY <2>1
  <2>q. QED
    BY <1>3, <2>1, <2>2, AppendProperties
<1>5. /\ Upto(n + 1) \in Seq(Nat) /\ Len(Upto(n + 1)) = n + 1
      /\ \A i \in 1..(n + 1) : Upto(n + 1)[i] = i
  BY DEF Upto
<1>6. all \o <<n + 1>> = Upto(n + 1)
  BY <1>4, <1>5, SeqEqual
<1>q. QED
  BY <1>6 DEF all

ChunkBefore(n, sent) == <<n>> \o sent

\* One that is taken goes from the channel to the caller.
LEMMA TakenOn ==
    ASSUME NEW kept \in Seq(Nat), NEW sent \in Seq(Nat), NEW n \in Nat
    PROVE  kept \o ChunkBefore(n, sent) = Append(kept, n) \o sent
BY DEF ChunkBefore

\* What is under way is of numbers.
LEMMA UnderWay ==
    ASSUME StreamTypeOK, NEW s \in Stream
    PROVE  /\ Kept(s) \in Seq(Nat) /\ Places(OfStream(s, chunks)) \in Seq(Nat)
           /\ Held(s) \in Seq(Nat) /\ read[s] \in Nat
<1>1. /\ output[s] \in Seq(0..MaxChunks) /\ chunks \in Seq(Chunk) /\ read[s] \in Nat
  BY CommandStreamAssumption DEF StreamTypeOK
<1>2. Held(s) \in Seq(Nat)
  BY <1>1 DEF Held
<1>q. QED
  BY <1>1, <1>2, KeptType, OfStreamType, PlacesType DEF Kept

\* Before a command, and when it has just been started, nothing is under way.
NothingYet ==
    /\ process \in {"idle", "running"} /\ heir = FALSE /\ caller \in {"idle", "ranging"}
    /\ written = [s \in Stream |-> 0] /\ read = [s \in Stream |-> 0]
    /\ reader = [s \in Stream |-> "reading"]
    /\ chunks = <<>> /\ closed = FALSE
    /\ output = [s \in Stream |-> <<>>] /\ sink = <<>>

\* The invariant holds then.
LEMMA OutputInitially == NothingYet => OutputInvariant
<1> SUFFICES ASSUME NothingYet PROVE OutputInvariant
  OBVIOUS
<1>1. StreamTypeOK
  <2>1. /\ written = [s \in Stream |-> 0] /\ read = [s \in Stream |-> 0]
        /\ reader = [s \in Stream |-> "reading"]
        /\ output = [s \in Stream |-> <<>>] /\ chunks = <<>> /\ sink = <<>>
    BY DEF NothingYet
  <2>2. 0 \in 0..MaxChunks /\ 0 <= PipeCapacity /\ 0 <= ChunkCapacity
    BY CommandStreamAssumption
  <2>3. written \in [Stream -> 0..MaxChunks] /\ read \in [Stream -> 0..MaxChunks]
    BY <2>1, <2>2
  <2>4. output \in [Stream -> Seq(0..MaxChunks)] /\ chunks \in Seq(Chunk) /\ sink \in Seq(Chunk)
        /\ Len(chunks) <= ChunkCapacity
    BY <2>1, <2>2
  <2>5. \A s \in Stream : read[s] <= written[s] /\ written[s] - read[s] <= PipeCapacity
    BY <2>1, <2>2, CommandStreamAssumption
  <2>q. QED
    BY <2>1, <2>3, <2>4, <2>5 DEF NothingYet, StreamTypeOK
<1>2. ASSUME NEW s \in Stream
      PROVE  /\ Kept(s) = <<>> /\ Held(s) = <<>> /\ read[s] = 0
             /\ Places(OfStream(s, chunks)) = <<>> /\ Places(OfStream(s, sink)) = <<>>
  <2>1. output[s] = <<>> /\ chunks = <<>> /\ sink = <<>> /\ read[s] = 0 /\ reader[s] = "reading"
    BY DEF NothingYet
  <2>2. Places(<<>>) = <<>>
    BY DEF Places
  <2>q. QED
    BY <2>1, <2>2, SelectedEmpty DEF Kept, Held, OfStream
<1>3. <<>> \o <<>> \o <<>> = [i \in 1..0 |-> i]
  OBVIOUS
<1>4. NothingLost
  BY <1>2, <1>3 DEF NothingLost
<1>5. SinkExact
  BY <1>2 DEF SinkExact
<1>6. ReadersKnow /\ ClosedLast
  BY DEF NothingYet, ReadersKnow, ClosedLast
<1>q. QED
  BY <1>1, <1>4, <1>5, <1>6 DEF OutputInvariant

\* Every step keeps it.
LEMMA OutputStepKeeps == OutputInvariant /\ [StreamNext]_streamVars => OutputInvariant'
<1> SUFFICES ASSUME OutputInvariant, [StreamNext]_streamVars PROVE OutputInvariant'
  OBVIOUS
<1> USE CommandStreamAssumption
<1>t. StreamTypeOK /\ NothingLost /\ SinkExact /\ ReadersKnow /\ ClosedLast
  BY DEF OutputInvariant
\* Steps that leave the chunks where they are.
<1>k. ASSUME UNCHANGED <<read, chunks, output, sink>>,
             \A s \in Stream : reader[s] = "sending" <=> reader'[s] = "sending"
      PROVE  NothingLost' /\ SinkExact' /\ (ReadError' <=> ReadError)
  <2>1. \A s \in Stream : Kept(s)' = Kept(s) /\ Held(s)' = Held(s)
    BY <1>k DEF Kept, Held
  <2>2. \A s \in Stream : OfStream(s, chunks)' = OfStream(s, chunks) /\ OfStream(s, sink)' = OfStream(s, sink)
    BY <1>k DEF OfStream
  <2>3. \A s \in Stream : /\ Places(OfStream(s, chunks))' = Places(OfStream(s, chunks))
                          /\ Places(OfStream(s, sink))' = Places(OfStream(s, sink))
    BY <2>2 DEF Places
  <2>q. QED
    BY <1>k, <1>t, <2>1, <2>3 DEF NothingLost, SinkExact, ReadError
<1>1. CASE StartCommand
  <2>1. NothingYet'
    BY <1>1 DEF StartCommand, NothingYet
  <2>q. QED
    BY <2>1, OutputInitially, PTL
<1>2. ASSUME NEW s \in Stream, Write(s) PROVE OutputInvariant'
  <2>1. /\ UNCHANGED <<process, heir, read, reader, chunks, closed, output, sink, caller>>
        /\ PipesOpen /\ ~Full(s) /\ written[s] < MaxChunks
        /\ written' = [written EXCEPT ![s] = @ + 1]
    BY <1>2 DEF Write
  <2>2. StreamTypeOK'
    BY <1>t, <2>1 DEF StreamTypeOK, Full
  <2>3. NothingLost' /\ SinkExact' /\ (ReadError' <=> ReadError)
    BY <1>k, <2>1
  <2>4. ReadersKnow'
    BY <1>t, <2>1, <2>3 DEF ReadersKnow, PipesOpen
  <2>5. ClosedLast'
    BY <1>t, <2>1 DEF ClosedLast
  <2>q. QED
    BY <2>2, <2>3, <2>4, <2>5 DEF OutputInvariant
<1>3. ASSUME UNCHANGED <<written, read, reader, chunks, output, sink>>,
             PipesOpen' => PipesOpen,
             process' \in {"idle", "running", "exited", "killed"}, heir' \in BOOLEAN, closed' \in BOOLEAN,
             caller' \in {"idle", "ranging", "returned"}, ClosedLast'
      PROVE  OutputInvariant'
  <2>2. StreamTypeOK'
    BY <1>t, <1>3 DEF StreamTypeOK
  <2>3. NothingLost' /\ SinkExact' /\ (ReadError' <=> ReadError)
    BY <1>k, <1>3
  <2>4. ReadersKnow'
    BY <1>t, <1>3, <2>3 DEF ReadersKnow
  <2>q. QED
    BY <1>3, <2>2, <2>3, <2>4 DEF OutputInvariant
<1>4. CASE Fork
  BY <1>t, <1>3, <1>4 DEF Fork, PipesOpen, StreamTypeOK, ClosedLast
<1>5. CASE HeirEnds
  BY <1>t, <1>3, <1>5 DEF HeirEnds, PipesOpen, StreamTypeOK, ClosedLast
<1>6. ASSUME NEW how \in {"exited", "killed"}, CommandEnds(how) PROVE OutputInvariant'
  BY <1>t, <1>3, <1>6 DEF CommandEnds, PipesOpen, StreamTypeOK, ClosedLast
<1>7. CASE CloseChunks
  BY <1>t, <1>3, <1>7 DEF CloseChunks, PipesOpen, StreamTypeOK, ClosedLast
<1>8. CASE WaitReturns
  BY <1>t, <1>3, <1>8 DEF WaitReturns, PipesOpen, StreamTypeOK, ClosedLast
<1>9. CASE UNCHANGED streamVars
  BY <1>t, <1>3, <1>9 DEF streamVars, PipesOpen, StreamTypeOK, ClosedLast
<1>10. ASSUME NEW s \in Stream, ReadFails(s) \/ ReadEnd(s) PROVE OutputInvariant'
  <2>1. /\ UNCHANGED <<process, heir, written, read, chunks, closed, output, sink, caller>>
        /\ caller = "ranging" /\ reader[s] = "reading"
        /\ \/ reader' = [reader EXCEPT ![s] = "failing"]
           \/ reader' = [reader EXCEPT ![s] = "done"] /\ read[s] = written[s] /\ ~PipesOpen
    BY <1>10 DEF ReadFails, ReadEnd
  <2>2. StreamTypeOK'
    BY <1>t, <2>1 DEF StreamTypeOK
  <2>3. NothingLost' /\ SinkExact' /\ (ReadError' <=> ReadError)
    <3>1. \A r \in Stream : reader[r] = "sending" <=> reader'[r] = "sending"
      BY <1>t, <2>1 DEF StreamTypeOK
    <3>q. QED
      BY <1>k, <2>1, <3>1
  <2>4. ReadersKnow'
    BY <1>t, <2>1, <2>3 DEF ReadersKnow, PipesOpen, StreamTypeOK
  <2>5. ClosedLast'
    BY <1>t, <2>1 DEF ClosedLast
  <2>q. QED
    BY <2>2, <2>3, <2>4, <2>5 DEF OutputInvariant
<1>11. ASSUME NEW s \in Stream, Read(s) PROVE OutputInvariant'
  <2>1. /\ UNCHANGED <<process, heir, written, chunks, closed, output, sink, caller>>
        /\ caller = "ranging" /\ reader[s] = "reading" /\ read[s] < written[s]
        /\ read' = [read EXCEPT ![s] = @ + 1]
        /\ reader' = [reader EXCEPT ![s] = "sending"]
    BY <1>11 DEF Read
  <2>2. StreamTypeOK'
    BY <1>t, <2>1 DEF StreamTypeOK
  <2>3. /\ \A r \in Stream : Kept(r)' = Kept(r)
        /\ \A r \in Stream : Places(OfStream(r, chunks))' = Places(OfStream(r, chunks))
        /\ \A r \in Stream : Places(OfStream(r, sink))' = Places(OfStream(r, sink))
    BY <2>1 DEF Kept, Places, OfStream
  <2>4. NothingLost'
    <3> SUFFICES ASSUME NEW r \in Stream
                 PROVE  Kept(r)' \o Places(OfStream(r, chunks))' \o Held(r)' = [i \in 1..read'[r] |-> i]
      BY DEF NothingLost
    <3>1. Kept(r) \o Places(OfStream(r, chunks)) \o Held(r) = [i \in 1..read[r] |-> i]
      BY <1>t DEF NothingLost
    <3>2. CASE r = s
      <4>1. Held(r) = <<>> /\ Held(r)' = <<read[r] + 1>> /\ read'[r] = read[r] + 1
        BY <1>t, <2>1, <3>2 DEF Held, StreamTypeOK
      <4>2. Kept(r) \in Seq(Nat) /\ Places(OfStream(r, chunks)) \in Seq(Nat) /\ read[r] \in Nat
        BY <1>t, UnderWay
      <4>3. Kept(r) \o Places(OfStream(r, chunks)) \o <<>> = [i \in 1..read[r] |-> i]
        BY <3>1, <4>1
      <4>4. Kept(r) \o Places(OfStream(r, chunks)) \o <<read[r] + 1>> = [i \in 1..(read[r] + 1) |-> i]
        <5>1. Kept(r) \o Places(OfStream(r, chunks)) \o <<>> = Upto(read[r])
          BY <4>3 DEF Upto
        <5>2. Kept(r) \o Places(OfStream(r, chunks)) \o <<read[r] + 1>> = Upto(read[r] + 1)
          BY <4>2, <5>1, ReadOn
        <5>q. QED
          BY <5>2 DEF Upto
      <4>q. QED
        BY <2>3, <4>1, <4>4
    <3>3. CASE r # s
      <4>1. Held(r)' = Held(r) /\ read'[r] = read[r]
        BY <1>t, <2>1, <3>3 DEF Held, StreamTypeOK
      <4>q. QED
        BY <2>3, <3>1, <4>1
    <3>q. QED
      BY <3>2, <3>3
  <2>5. SinkExact'
    BY <1>t, <2>3 DEF SinkExact
  <2>6. ReadersKnow' /\ ClosedLast'
    <3>1. ReadError' <=> ReadError
      BY <2>1 DEF ReadError
    <3>2. ReadersKnow'
      BY <1>t, <2>1, <3>1 DEF ReadersKnow, PipesOpen, StreamTypeOK
    <3>3. ClosedLast'
      BY <1>t, <2>1 DEF ClosedLast
    <3>q. QED
      BY <3>2, <3>3
  <2>q. QED
    BY <2>2, <2>4, <2>5, <2>6 DEF OutputInvariant
<1>12. ASSUME NEW s \in Stream, SendChunk(s) PROVE OutputInvariant'
  <2> DEFINE e == [stream |-> s, place |-> IF reader[s] = "sending" THEN read[s] ELSE ErrorText]
  <2>1. /\ UNCHANGED <<process, heir, written, read, closed, output, sink, caller>>
        /\ reader[s] \in {"sending", "failing"} /\ Len(chunks) < ChunkCapacity
        /\ chunks' = Append(chunks, e)
        /\ reader' = [reader EXCEPT ![s] = IF reader[s] = "sending" THEN "reading" ELSE "done"]
    BY <1>12 DEF SendChunk
  <2>2. /\ chunks \in Seq(Chunk) /\ read[s] \in 0..MaxChunks /\ e \in Chunk
        /\ e.stream = s /\ e.place = IF reader[s] = "sending" THEN read[s] ELSE ErrorText
    BY <1>t DEF StreamTypeOK, Chunk, ErrorText
  <2> HIDE DEF e
  <2>3. /\ chunks' \in Seq(Chunk) /\ Len(chunks') = Len(chunks) + 1 /\ chunks'[Len(chunks) + 1] = e
        /\ \A i \in 1..Len(chunks) : chunks'[i] = chunks[i]
    BY <2>1, <2>2, AppendProperties
  <2>4. StreamTypeOK'
    BY <1>t, <2>1, <2>3 DEF StreamTypeOK
  <2>5. /\ \A r \in Stream : Kept(r)' = Kept(r)
        /\ \A r \in Stream : Places(OfStream(r, sink))' = Places(OfStream(r, sink))
    BY <2>1 DEF Kept, Places, OfStream
  <2>6. NothingLost'
    <3> SUFFICES ASSUME NEW r \in Stream
                 PROVE  Kept(r)' \o Places(OfStream(r, chunks))' \o Held(r)' = [i \in 1..read'[r] |-> i]
      BY DEF NothingLost
    <3>1. Kept(r) \o Places(OfStream(r, chunks)) \o Held(r) = [i \in 1..read[r] |-> i]
      BY <1>t DEF NothingLost
    <3>2. Places(OfStream(r, chunks))' =
              IF e.stream = r /\ e.place # ErrorText THEN Append(Places(OfStream(r, chunks)), e.place)
              ELSE Places(OfStream(r, chunks))
      <4>1. Places(OfStream(r, Append(chunks, e))) =
              IF e.stream = r /\ e.place # ErrorText THEN Append(Places(OfStream(r, chunks)), e.place)
              ELSE Places(OfStream(r, chunks))
        BY <2>2, OfStreamAppend
      <4>2. Places(OfStream(r, chunks))' = Places(OfStream(r, Append(chunks, e)))
        BY <2>1 DEF OfStream, Places
      <4>q. QED
        BY <4>1, <4>2
    <3>3. CASE r = s /\ reader[s] = "sending"
      <4>1. Held(r) = <<read[r]>> /\ Held(r)' = <<>> /\ read'[r] = read[r] /\ read[r] # ErrorText
        BY <1>t, <2>1, <2>2, <3>3 DEF Held, StreamTypeOK, ReadersKnow, ErrorText
      <4>2. Places(OfStream(r, chunks))' = Append(Places(OfStream(r, chunks)), read[r])
        BY <2>2, <3>2, <3>3, <4>1
      <4>3. Kept(r) \o Append(Places(OfStream(r, chunks)), read[r]) \o <<>>
                = Kept(r) \o Places(OfStream(r, chunks)) \o <<read[r]>>
        BY <1>t, UnderWay, SentOn
      <4>q. QED
        BY <2>5, <3>1, <4>1, <4>2, <4>3
    <3>4. CASE r # s \/ reader[s] # "sending"
      <4>1. Held(r)' = Held(r) /\ read'[r] = read[r]
        BY <1>t, <2>1, <3>4 DEF Held, StreamTypeOK
      <4>2. Places(OfStream(r, chunks))' = Places(OfStream(r, chunks))
        BY <2>2, <3>2, <3>4
      <4>q. QED
        BY <2>5, <3>1, <4>1, <4>2
    <3>q. QED
      BY <3>3, <3>4
  <2>7. SinkExact'
    BY <1>t, <2>5 DEF SinkExact
  <2>8. ReadError => ReadError'
    BY <2>1, <2>2, <2>3 DEF ReadError
  <2>9. ReadersKnow'
    <3> SUFFICES ASSUME NEW r \in Stream
                 PROVE  /\ reader'[r] = "sending" => read'[r] >= 1
                        /\ reader'[r] = "done" => (read'[r] = written'[r] /\ ~PipesOpen') \/ ReadError'
      BY DEF ReadersKnow
    <3>1. CASE r = s /\ reader[s] = "failing"
      <4>1. ReadError'
        BY <2>2, <2>3, <3>1 DEF ReadError
      <4>q. QED
        BY <1>t, <2>1, <3>1, <4>1 DEF StreamTypeOK
    <3>2. CASE r # s \/ reader[s] # "failing"
      BY <1>t, <2>1, <2>8, <3>2 DEF ReadersKnow, StreamTypeOK, PipesOpen
    <3>q. QED
      BY <3>1, <3>2
  <2>10. ClosedLast'
    <3>1. ~closed
      BY <1>t, <2>1 DEF ClosedLast
    <3>q. QED
      BY <1>t, <2>1, <3>1 DEF ClosedLast
  <2>q. QED
    BY <2>4, <2>6, <2>7, <2>9, <2>10 DEF OutputInvariant
<1>13. CASE TakeChunk
  <2> DEFINE chunk == Head(chunks)
             target == IF chunk.place = ErrorText THEN "stderr" ELSE chunk.stream
  <2>1. /\ UNCHANGED <<heir, written, read, reader, closed, caller>>
        /\ caller = "ranging" /\ chunks # <<>>
        /\ chunks' = Tail(chunks)
        /\ output' = [output EXCEPT ![target] = Append(output[target], chunk.place)]
        /\ sink' = IF chunk.place = ErrorText THEN sink ELSE Append(sink, chunk)
        /\ process' = IF chunk.place = ErrorText /\ process = "running" THEN "killed" ELSE process
    BY <1>13 DEF TakeChunk
  <2>2. /\ chunks \in Seq(Chunk) /\ sink \in Seq(Chunk) /\ chunk \in Chunk /\ chunk = chunks[1]
        /\ Tail(chunks) \in Seq(Chunk) /\ Len(chunks) = Len(Tail(chunks)) + 1
        /\ \A i \in 1..Len(Tail(chunks)) : Tail(chunks)[i] = chunks[i + 1]
    BY <1>t, <2>1, HeadTailProperties DEF StreamTypeOK
  <2>3. chunk.place \in 0..MaxChunks /\ chunk.stream \in Stream /\ target \in Stream
    BY <2>2 DEF Chunk, Stream
  <2> HIDE DEF chunk
  <2>4. /\ output \in [Stream -> Seq(0..MaxChunks)] /\ output' \in [Stream -> Seq(0..MaxChunks)]
        /\ output'[target] = Append(output[target], chunk.place)
        /\ \A r \in Stream : r # target => output'[r] = output[r]
    <3> HIDE DEF target
    <3>1. output \in [Stream -> Seq(0..MaxChunks)]
      BY <1>t DEF StreamTypeOK
    <3>2. output' = [output EXCEPT ![target] = Append(output[target], chunk.place)]
      BY <2>1
    <3>3. Append(output[target], chunk.place) \in Seq(0..MaxChunks)
      BY <2>3, <3>1
    <3>q. QED
      BY <2>3, <3>1, <3>2, <3>3
  <2> HIDE DEF target
  <2>5. StreamTypeOK'
    <3>1. sink' \in Seq(Chunk)
      BY <2>1, <2>2
    <3>q. QED
      BY <1>t, <2>1, <2>2, <2>4, <3>1 DEF StreamTypeOK
  <2>6. ASSUME NEW r \in Stream
        PROVE  Kept(r)' = IF chunk.stream = r /\ chunk.place # ErrorText THEN Append(Kept(r), chunk.place)
                          ELSE Kept(r)
    <3>1. CASE r = target
      <4>1. Selected(Append(output[r], chunk.place), ChunkPlace) =
                IF chunk.place # ErrorText THEN Append(Selected(output[r], ChunkPlace), chunk.place)
                ELSE Selected(output[r], ChunkPlace)
        BY <2>3, <2>4, KeptAppend
      <4>q. QED
        BY <2>4, <3>1, <4>1 DEF Kept, target
    <3>2. CASE r # target
      BY <2>4, <3>2 DEF Kept, target
    <3>q. QED
      BY <3>1, <3>2
  <2>7. ASSUME NEW r \in Stream
        PROVE  Places(OfStream(r, chunks)) =
                   IF chunk.stream = r /\ chunk.place # ErrorText
                   THEN <<chunk.place>> \o Places(OfStream(r, chunks))'
                   ELSE Places(OfStream(r, chunks))'
    <3>1. Places(OfStream(r, chunks)) =
              IF chunk.stream = r /\ chunk.place # ErrorText
              THEN <<chunk.place>> \o Places(OfStream(r, Tail(chunks)))
              ELSE Places(OfStream(r, Tail(chunks)))
      BY <2>1, <2>2, OfStreamHead DEF chunk
    <3>2. Places(OfStream(r, chunks))' = Places(OfStream(r, Tail(chunks)))
      BY <2>1 DEF OfStream, Places
    <3>q. QED
      BY <3>1, <3>2
  <2>8. NothingLost'
    <3> SUFFICES ASSUME NEW r \in Stream
                 PROVE  Kept(r)' \o Places(OfStream(r, chunks))' \o Held(r)' = [i \in 1..read'[r] |-> i]
      BY DEF NothingLost
    <3>1. Kept(r) \o Places(OfStream(r, chunks)) \o Held(r) = [i \in 1..read[r] |-> i]
      BY <1>t DEF NothingLost
    <3>2. Held(r)' = Held(r) /\ read'[r] = read[r]
      BY <2>1 DEF Held
    <3>3. CASE chunk.stream = r /\ chunk.place # ErrorText
      <4>1. /\ Kept(r) \in Seq(Nat) /\ Held(r) \in Seq(Nat) /\ chunk.place \in Nat
            /\ Places(OfStream(r, chunks))' \in Seq(Nat)
        <5>1. Kept(r) \in Seq(Nat) /\ Held(r) \in Seq(Nat)
          BY <1>t, UnderWay
        <5>2. Places(OfStream(r, Tail(chunks))) \in Seq(Nat)
          BY <2>2, OfStreamType, PlacesType
        <5>3. Places(OfStream(r, chunks))' = Places(OfStream(r, Tail(chunks)))
          BY <2>1 DEF OfStream, Places
        <5>q. QED
          BY <2>3, <5>1, <5>2, <5>3
      <4>2. Kept(r) \o (<<chunk.place>> \o Places(OfStream(r, chunks))') \o Held(r)
                = Append(Kept(r), chunk.place) \o Places(OfStream(r, chunks))' \o Held(r)
        <5>1. Kept(r) \o ChunkBefore(chunk.place, Places(OfStream(r, chunks))')
                  = Append(Kept(r), chunk.place) \o Places(OfStream(r, chunks))'
          BY <4>1, TakenOn
        <5>q. QED
          BY <5>1 DEF ChunkBefore
      <4>q. QED
        BY <2>6, <2>7, <3>1, <3>2, <3>3, <4>2
    <3>4. CASE ~ (chunk.stream = r /\ chunk.place # ErrorText)
      BY <2>6, <2>7, <3>1, <3>2, <3>4
    <3>q. QED
      BY <3>3, <3>4
  <2>9. SinkExact'
    <3> SUFFICES ASSUME NEW r \in Stream PROVE Places(OfStream(r, sink))' = Kept(r)'
      BY DEF SinkExact
    <3>1. Places(OfStream(r, sink)) = Kept(r)
      BY <1>t DEF SinkExact
    <3>2. Places(OfStream(r, Append(sink, chunk))) =
              IF chunk.stream = r /\ chunk.place # ErrorText
              THEN Append(Places(OfStream(r, sink)), chunk.place)
              ELSE Places(OfStream(r, sink))
      BY <2>2, OfStreamAppend
    <3>3. Places(OfStream(r, sink))' =
              IF chunk.place = ErrorText THEN Places(OfStream(r, sink))
              ELSE Places(OfStream(r, Append(sink, chunk)))
      BY <2>1 DEF OfStream, Places
    <3>q. QED
      BY <2>6, <3>1, <3>2, <3>3
  <2>10. ReadError => ReadError'
    <3>1. ASSUME NEW i \in DOMAIN chunks, chunks[i].place = ErrorText PROVE ReadError'
      <4>1. CASE i = 1
        <5>1. target = "stderr" /\ output["stderr"] \in Seq(0..MaxChunks)
          BY <2>2, <2>4, <3>1, <4>1 DEF target, Stream
        <5>2. /\ Len(output["stderr"]) + 1 \in DOMAIN output'["stderr"]
              /\ output'["stderr"][Len(output["stderr"]) + 1] = ErrorText
          BY <2>2, <2>3, <2>4, <3>1, <4>1, <5>1
        <5>q. QED
          BY <5>2 DEF ReadError
      <4>2. CASE i # 1
        <5>1. i - 1 \in DOMAIN chunks' /\ chunks'[i - 1] = chunks[i]
          BY <2>1, <2>2, <3>1, <4>2
        <5>q. QED
          BY <3>1, <5>1 DEF ReadError
      <4>q. QED
        BY <4>1, <4>2
    <3>2. ASSUME NEW i \in DOMAIN output["stderr"], output["stderr"][i] = ErrorText PROVE ReadError'
      <4>1. i \in DOMAIN output'["stderr"] /\ output'["stderr"][i] = ErrorText
        <5>1. output["stderr"] \in Seq(0..MaxChunks)
          BY <2>4 DEF Stream
        <5>2. CASE target = "stderr"
          <6>1. output'["stderr"] = Append(output["stderr"], chunk.place)
            BY <2>4, <5>2
          <6>q. QED
            BY <2>3, <3>2, <5>1, <6>1
        <5>3. CASE target # "stderr"
          <6>1. output'["stderr"] = output["stderr"]
            BY <2>4, <5>3 DEF Stream
          <6>q. QED
            BY <3>2, <6>1
        <5>q. QED
          BY <5>2, <5>3
      <4>q. QED
        BY <4>1 DEF ReadError
    <3>q. QED
      BY <3>1, <3>2 DEF ReadError
  <2>11. ReadersKnow'
    BY <1>t, <2>1, <2>10 DEF ReadersKnow, PipesOpen
  <2>12. ClosedLast'
    BY <1>t, <2>1 DEF ClosedLast
  <2>q. QED
    BY <2>5, <2>8, <2>9, <2>11, <2>12 DEF OutputInvariant
<1>q. QED
  BY <1>1, <1>2, <1>4, <1>5, <1>6, <1>7, <1>8, <1>9, <1>10, <1>11, <1>12, <1>13 DEF StreamNext, HubStep

\* The invariant holds of every behaviour.
LEMMA OutputInvariantHolds == StreamSpec => []OutputInvariant
<1>1. StreamInit => NothingYet
  BY DEF StreamInit, NothingYet
<1>q. QED
  BY <1>1, OutputInitially, OutputStepKeeps, PTL DEF StreamSpec

\* The output of a command is not lost, repeated or put in another order, neither
\* in the result nor in the log, and nothing is under way when the caller returns,
\* however much is written and whatever fails, and however small the channel and
\* the pipes are.
THEOREM OutputExactHolds == StreamSpec => []OutputExact
<1>1. OutputInvariant => OutputExact
  <2> SUFFICES ASSUME OutputInvariant PROVE OutputExact
    OBVIOUS
  <2>1. StreamTypeOK /\ NothingLost /\ SinkExact /\ ReadersKnow /\ ClosedLast
    BY DEF OutputInvariant
  <2>2. ReturnsAll
    <3> SUFFICES ASSUME caller = "returned"
                 PROVE  /\ \A s \in Stream : reader[s] = "done"
                        /\ \/ \A s \in Stream : Kept(s) = [i \in 1..written[s] |-> i]
                           \/ ErrorText \in {output["stderr"][i] : i \in DOMAIN output["stderr"]}
      BY DEF ReturnsAll
    <3>1. chunks = <<>> /\ \A s \in Stream : reader[s] = "done"
      BY <2>1 DEF ClosedLast
    <3>2. CASE ReadError
      BY <3>1, <3>2 DEF ReadError
    <3>3. CASE ~ReadError
      <4> SUFFICES ASSUME NEW s \in Stream PROVE Kept(s) = [i \in 1..written[s] |-> i]
        BY <3>1
      <4>1. read[s] = written[s]
        BY <2>1, <3>1, <3>3 DEF ReadersKnow
      <4>2. Places(OfStream(s, chunks)) = <<>> /\ Held(s) = <<>>
        BY <3>1, SelectedEmpty DEF Places, OfStream, Held
      <4>3. Kept(s) \o <<>> \o <<>> = [i \in 1..read[s] |-> i]
        BY <2>1, <4>2 DEF NothingLost
      <4>4. Kept(s) \in Seq(Nat)
        BY <2>1, UnderWay
      <4>5. Kept(s) \o <<>> \o <<>> = Kept(s)
        BY <4>4
      <4>q. QED
        BY <4>1, <4>3, <4>5
    <3>q. QED
      BY <3>1, <3>2, <3>3
  <2>q. QED
    BY <2>1, <2>2 DEF OutputExact, SinkExact
<1>q. QED
  BY <1>1, OutputInvariantHolds, PTL

-----------------------------------------------------------------------------
(***************************************************************************)
(* The hub goes on.  Without ENABLED and without fairness: a step of it is *)
(* possible whenever NobodyStuck says so, since its guard holds; and once  *)
(* nobody has the pipes open, what is left to do only gets less.           *)
(***************************************************************************)

\* The guards of HubStep, one per step.
HubCanGo ==
    \/ \E s \in Stream :
          \/ /\ caller = "ranging" /\ reader[s] = "reading"
             /\ read[s] < written[s] \/ (read[s] = written[s] /\ ~PipesOpen)
          \/ reader[s] \in {"sending", "failing"} /\ Len(chunks) < ChunkCapacity
    \/ caller = "ranging" /\ ~closed /\ \A s \in Stream : reader[s] = "done"
    \/ caller = "ranging" /\ chunks # <<>>
    \/ caller = "ranging" /\ closed /\ chunks = <<>> /\ process # "running"

\* Who waits for the command waits for what the command, or a child of it, still
\* has to do, and for no pipe that anybody fills.
NobodyWaits ==
    caller = "ranging" =>
        \/ HubCanGo
        \/ PipesOpen /\ \A s \in Stream : Full(s) => reader[s] = "done"

\* The steps a reader is from its end, but for what is in its pipe.
StepsAhead(state) ==
    CASE state = "sending" -> 5 [] state = "reading" -> 3 [] state = "failing" -> 2 [] OTHER -> 0

\* What the hub still has to do: read each pipe, send, take, close and return.
LeftOf(s) == 3 * (written[s] - read[s]) + StepsAhead(reader[s])
LeftAfter == Len(chunks) + (IF closed THEN 0 ELSE 1) + (IF caller = "returned" THEN 0 ELSE 1)
Left == LeftOf("stdout") + LeftOf("stderr") + LeftAfter

MostLeft == 6 * PipeCapacity + ChunkCapacity + 12

LeftRunsDown ==
    [][caller = "ranging" /\ ~PipesOpen => ~PipesOpen' /\ Left' < Left]_streamVars

\* Of what is in a pipe and in the channel there are so many.
LEMMA LeftBounded ==
    ASSUME StreamTypeOK
    PROVE  Left \in 0..MostLeft
<1>1. ASSUME NEW s \in Stream
      PROVE  /\ written[s] - read[s] \in 0..PipeCapacity /\ StepsAhead(reader[s]) \in 0..5
             /\ LeftOf(s) \in 0..(3 * PipeCapacity + 5)
  <2>1. /\ written[s] \in Nat /\ read[s] \in Nat /\ read[s] <= written[s]
        /\ written[s] - read[s] <= PipeCapacity /\ PipeCapacity \in Nat
    BY CommandStreamAssumption DEF StreamTypeOK
  <2>2. StepsAhead(reader[s]) \in 0..5
    BY DEF StepsAhead
  <2>q. QED
    BY <2>1, <2>2 DEF LeftOf
<1>2. LeftOf("stdout") \in 0..(3 * PipeCapacity + 5) /\ LeftOf("stderr") \in 0..(3 * PipeCapacity + 5)
  BY <1>1 DEF Stream
<1>3. Len(chunks) \in 0..ChunkCapacity /\ ChunkCapacity \in Nat /\ PipeCapacity \in Nat
  BY CommandStreamAssumption DEF StreamTypeOK
<1>4. LeftAfter \in 0..(ChunkCapacity + 2)
  <2>1. LeftAfter = Len(chunks) \/ LeftAfter = Len(chunks) + 1 \/ LeftAfter = Len(chunks) + 2
    <3>1. CASE closed
      BY <1>3, <3>1 DEF LeftAfter
    <3>2. CASE ~closed
      BY <1>3, <3>2 DEF LeftAfter
    <3>q. QED
      BY <3>1, <3>2
  <2>q. QED
    BY <1>3, <2>1
<1>q. QED
  BY <1>2, <1>3, <1>4 DEF Left, MostLeft

\* Somebody can go on: the caller while the channel has something, a reader that
\* has something to send while it has not, and else the reader of a full pipe.
LEMMA SomebodyGoesOn ==
    ASSUME StreamTypeOK
    PROVE  NobodyWaits
<1> SUFFICES ASSUME caller = "ranging", chunks = <<>>,
                    \A s \in Stream : reader[s] \notin {"sending", "failing"},
                    ~HubCanGo
             PROVE  PipesOpen /\ \A s \in Stream : Full(s) => reader[s] = "done"
  <2>1. chunks = <<>> => Len(chunks) < ChunkCapacity
    BY CommandStreamAssumption
  <2>q. QED
    BY <2>1 DEF NobodyWaits, HubCanGo
<1>1. \A s \in Stream : reader[s] \in {"reading", "done"}
  BY DEF StreamTypeOK
<1>2. ASSUME NEW s \in Stream, reader[s] = "reading"
      PROVE  PipesOpen /\ ~Full(s)
  <2>1. written[s] \in Nat /\ read[s] \in Nat /\ read[s] <= written[s]
    BY CommandStreamAssumption DEF StreamTypeOK
  <2>2. read[s] = written[s] /\ PipesOpen
    BY <1>2, <2>1 DEF HubCanGo
  <2>q. QED
    BY <2>1, <2>2, CommandStreamAssumption DEF Full
<1>3. CASE \E s \in Stream : reader[s] = "reading"
  BY <1>1, <1>2, <1>3
<1>4. CASE \A s \in Stream : reader[s] = "done"
  BY <1>4 DEF HubCanGo, PipesOpen
<1>q. QED
  BY <1>1, <1>3, <1>4

\* Only the readers change what is left of a stream.
LEMMA LeftOfOther ==
    ASSUME NEW s \in Stream, written'[s] = written[s], read'[s] = read[s], reader'[s] = reader[s]
    PROVE  LeftOf(s)' = LeftOf(s)
BY DEF LeftOf, StepsAhead

\* Each step that is left makes what is left less.
LEMMA StepRunsDown ==
    ASSUME StreamTypeOK, caller = "ranging", ~PipesOpen, StreamNext
    PROVE  ~PipesOpen' /\ Left' < Left
<1>1. ASSUME NEW s \in Stream
      PROVE  /\ written[s] \in Int /\ read[s] \in Int /\ LeftOf(s) \in Int
             /\ reader[s] \in {"reading", "sending", "failing", "done"}
  <2>1. written[s] \in Int /\ read[s] \in Int
    BY CommandStreamAssumption DEF StreamTypeOK
  <2>2. StepsAhead(reader[s]) \in Int
    BY DEF StepsAhead
  <2>q. QED
    BY <2>1, <2>2 DEF LeftOf, StreamTypeOK
<1>2. Len(chunks) \in Nat /\ LeftAfter \in Nat
  BY DEF StreamTypeOK, LeftAfter
<1>3. /\ written \in [Stream -> 0..MaxChunks] /\ read \in [Stream -> 0..MaxChunks]
      /\ reader \in [Stream -> {"reading", "sending", "failing", "done"}] /\ chunks \in Seq(Chunk)
  BY DEF StreamTypeOK
\* A reader's step: its own share shrinks by more than the channel grows.
<1>4. ASSUME NEW s \in Stream, written' = written, process' = process, heir' = heir, caller' = caller, closed' = closed,
             \A t \in Stream \ {s} : read'[t] = read[t] /\ reader'[t] = reader[t],
             LeftOf(s)' \in Int, Len(chunks)' \in Nat, LeftOf(s)' + Len(chunks)' < LeftOf(s) + Len(chunks)
      PROVE  ~PipesOpen' /\ Left' < Left
  <2>1. \A t \in Stream \ {s} : LeftOf(t)' = LeftOf(t)
    BY <1>4, LeftOfOther
  <2>2. s = "stdout" \/ s = "stderr"
    BY DEF Stream
  <2>3. LeftOf("stdout") \in Int /\ LeftOf("stderr") \in Int
    BY <1>1 DEF Stream
  <2>4. LeftOf("stdout")' + LeftOf("stderr")' + Len(chunks)' < LeftOf("stdout") + LeftOf("stderr") + Len(chunks)
        /\ LeftOf("stdout")' \in Int /\ LeftOf("stderr")' \in Int
    <3>1. CASE s = "stdout"
      <4>1. LeftOf("stderr")' = LeftOf("stderr")
        BY <2>1, <3>1 DEF Stream
      <4> HIDE DEF LeftOf
      <4>q. QED
        BY <1>2, <1>4, <2>3, <3>1, <4>1
    <3>2. CASE s = "stderr"
      <4>1. LeftOf("stdout")' = LeftOf("stdout")
        BY <2>1, <3>2 DEF Stream
      <4>q. QED
        BY <1>2, <1>4, <2>3, <3>2, <4>1
    <3>q. QED
      BY <2>2, <3>1, <3>2
  <2>5. ~PipesOpen'
    BY <1>4 DEF PipesOpen
  <2>6. LeftAfter' = LeftAfter + Len(chunks)' - Len(chunks)
    BY <1>2, <1>4 DEF LeftAfter
  <2>7. Left' < Left
    BY <1>2, <1>4, <2>3, <2>4, <2>6 DEF Left
  <2>q. QED
    BY <2>5, <2>7
\* A step of the caller, or the closing of the channel.
<1>5. ASSUME written' = written, read' = read, reader' = reader, ~PipesOpen',
             LeftAfter' \in Nat, LeftAfter' < LeftAfter
      PROVE  ~PipesOpen' /\ Left' < Left
  <2>1. LeftOf("stdout")' = LeftOf("stdout") /\ LeftOf("stderr")' = LeftOf("stderr")
    BY <1>5, LeftOfOther DEF Stream
  <2>2. LeftOf("stdout") \in Int /\ LeftOf("stderr") \in Int
    BY <1>1 DEF Stream
  <2>3. Left' < Left
    BY <1>2, <1>5, <2>1, <2>2 DEF Left
  <2>q. QED
    BY <1>5, <2>3
<1>6. ASSUME NEW s \in Stream, Read(s) PROVE ~PipesOpen' /\ Left' < Left
  <2>1. /\ read'[s] = read[s] + 1 /\ reader[s] = "reading" /\ reader'[s] = "sending" /\ chunks' = chunks
        /\ \A t \in Stream \ {s} : read'[t] = read[t] /\ reader'[t] = reader[t]
    BY <1>3, <1>6 DEF Read
  <2>2. LeftOf(s) = 3 * (written[s] - read[s]) + 3 /\ LeftOf(s)' = 3 * (written[s] - (read[s] + 1)) + 5
    BY <1>6, <2>1 DEF LeftOf, StepsAhead, Read
  <2>3. LeftOf(s)' \in Int /\ LeftOf(s)' < LeftOf(s)
    BY <1>1, <2>2
  <2>q. QED
    BY <1>1, <1>2, <1>4, <1>6, <2>1, <2>3 DEF Read
<1>7. ASSUME NEW s \in Stream, ReadFails(s) \/ ReadEnd(s) PROVE ~PipesOpen' /\ Left' < Left
  <2>1. /\ read' = read /\ reader[s] = "reading" /\ reader'[s] \in {"failing", "done"} /\ chunks' = chunks
        /\ \A t \in Stream \ {s} : read'[t] = read[t] /\ reader'[t] = reader[t]
    BY <1>3, <1>7 DEF ReadFails, ReadEnd
  <2>2. /\ LeftOf(s) = 3 * (written[s] - read[s]) + 3
        /\ LeftOf(s)' = 3 * (written[s] - read[s]) + 2 \/ LeftOf(s)' = 3 * (written[s] - read[s]) + 0
    BY <1>7, <2>1 DEF LeftOf, StepsAhead, ReadFails, ReadEnd
  <2>3. LeftOf(s)' \in Int /\ LeftOf(s)' < LeftOf(s)
    BY <1>1, <2>2
  <2>q. QED
    BY <1>1, <1>2, <1>4, <1>7, <2>1, <2>3 DEF ReadFails, ReadEnd
<1>8. ASSUME NEW s \in Stream, SendChunk(s) PROVE ~PipesOpen' /\ Left' < Left
  <2>1. /\ read' = read /\ reader[s] \in {"sending", "failing"}
        /\ reader'[s] = IF reader[s] = "sending" THEN "reading" ELSE "done"
        /\ \A t \in Stream \ {s} : read'[t] = read[t] /\ reader'[t] = reader[t]
    BY <1>3, <1>8 DEF SendChunk
  <2>2. Len(chunks)' = Len(chunks) + 1
    BY <1>3, <1>8 DEF SendChunk
  <2>3. \/ LeftOf(s) = 3 * (written[s] - read[s]) + 5 /\ LeftOf(s)' = 3 * (written[s] - read[s]) + 3
        \/ LeftOf(s) = 3 * (written[s] - read[s]) + 2 /\ LeftOf(s)' = 3 * (written[s] - read[s]) + 0
    BY <1>8, <2>1 DEF LeftOf, StepsAhead, SendChunk
  <2>4. LeftOf(s)' \in Int /\ LeftOf(s)' + Len(chunks)' < LeftOf(s) + Len(chunks)
    BY <1>1, <1>2, <2>2, <2>3
  <2>q. QED
    BY <1>1, <1>2, <1>4, <1>8, <2>1, <2>2, <2>4 DEF SendChunk
<1>9. CASE CloseChunks
  <2>1. LeftAfter' = LeftAfter - 1
    BY <1>2, <1>9 DEF CloseChunks, LeftAfter
  <2>2. LeftAfter' \in Nat /\ LeftAfter' < LeftAfter
    <3>1. LeftAfter >= 1
      BY <1>2, <1>9 DEF CloseChunks, LeftAfter
    <3>q. QED
      BY <1>2, <2>1, <3>1
  <2>3. written' = written /\ read' = read /\ reader' = reader /\ ~PipesOpen'
    BY <1>9 DEF CloseChunks, PipesOpen
  <2>q. QED
    BY <1>5, <2>2, <2>3
<1>10. CASE TakeChunk
  <2>1. Len(chunks)' = Len(chunks) - 1 /\ closed' = closed /\ caller' = caller
    BY <1>3, <1>10 DEF TakeChunk
  <2>2. LeftAfter' = LeftAfter - 1 /\ LeftAfter' \in Nat
    BY <1>2, <1>3, <1>10, <2>1 DEF TakeChunk, LeftAfter
  <2>3. written' = written /\ read' = read /\ reader' = reader
    BY <1>10 DEF TakeChunk
  <2>4. ~PipesOpen'
    BY <1>10 DEF TakeChunk, PipesOpen
  <2>q. QED
    BY <1>2, <1>5, <2>2, <2>3, <2>4
<1>11. CASE WaitReturns
  <2>1. LeftAfter' = LeftAfter - 1
    BY <1>2, <1>11 DEF WaitReturns, LeftAfter
  <2>2. LeftAfter' \in Nat /\ LeftAfter' < LeftAfter
    <3>1. LeftAfter >= 1
      BY <1>2, <1>11 DEF WaitReturns, LeftAfter
    <3>q. QED
      BY <1>2, <2>1, <3>1
  <2>3. written' = written /\ read' = read /\ reader' = reader /\ ~PipesOpen'
    BY <1>11 DEF WaitReturns, PipesOpen
  <2>q. QED
    BY <1>5, <2>2, <2>3
<1>12. ~StartCommand /\ (\A s \in Stream : ~Write(s)) /\ ~Fork /\ ~HeirEnds
       /\ \A how \in {"exited", "killed"} : ~CommandEnds(how)
  BY DEF StartCommand, Write, Fork, HeirEnds, CommandEnds, PipesOpen
<1>q. QED
  BY <1>6, <1>7, <1>8, <1>9, <1>10, <1>11, <1>12 DEF StreamNext, HubStep

\* The hub never waits for itself, whatever the capacities: who waits for the
\* command can go on, or the command or a child of it can.  Once neither has a pipe
\* open, the caller returns within a number of steps that only the capacities
\* bound, however much was written and whatever could not be read.
THEOREM CallerReturns == StreamSpec => [](NobodyWaits /\ Left \in 0..MostLeft) /\ LeftRunsDown
<1>1. OutputInvariant => StreamTypeOK
  BY DEF OutputInvariant
<1>2. OutputInvariant => NobodyWaits /\ Left \in 0..MostLeft
  BY <1>1, SomebodyGoesOn, LeftBounded
<1>3. OutputInvariant /\ [StreamNext]_streamVars =>
          [caller = "ranging" /\ ~PipesOpen => ~PipesOpen' /\ Left' < Left]_streamVars
  BY <1>1, StepRunsDown
<1>q. QED
  BY <1>2, <1>3, OutputInvariantHolds, PTL DEF StreamSpec, LeftRunsDown

-----------------------------------------------------------------------------
(***************************************************************************)
(* Network policies.                                                       *)
(***************************************************************************)

RuleSet == [match : {"to", "all", "lo", "established"},
            covers : SUBSET (Destination("iptables") \cup Destination("ip6tables")),
            readable : BOOLEAN, target : {"ACCEPT", "DROP", "RETURN"}]

\* What an entry is.
LEMMA EntryFields ==
    ASSUME NEW entry \in Entry
    PROVE  /\ entry.family \in Family /\ entry.readable \in BOOLEAN
           /\ entry.covers \subseteq Destination("iptables") \cup Destination("ip6tables")
<1>1. ASSUME NEW family \in Family,
             entry \in [family : {family}, covers : (SUBSET Destination(family)) \ {{}}, readable : {TRUE}]
      PROVE  /\ entry.family \in Family /\ entry.readable \in BOOLEAN
             /\ entry.covers \subseteq Destination("iptables") \cup Destination("ip6tables")
  <2>1. entry.family = family /\ entry.readable = TRUE /\ entry.covers \subseteq Destination(family)
    BY <1>1
  <2>2. Destination(family) \subseteq Destination("iptables") \cup Destination("ip6tables")
    BY DEF Family, Destination
  <2>q. QED
    BY <2>1, <2>2
<1>2. CASE entry \in [family : {"iptables"}, covers : {{}}, readable : {FALSE}]
  <2>1. entry.family = "iptables" /\ entry.readable = FALSE /\ entry.covers = {}
    BY <1>2
  <2>q. QED
    BY <2>1 DEF Family
<1>3. \/ \E family \in Family :
            entry \in [family : {family}, covers : (SUBSET Destination(family)) \ {{}}, readable : {TRUE}]
      \/ entry \in [family : {"iptables"}, covers : {{}}, readable : {FALSE}]
  BY DEF Entry
<1>q. QED
  BY <1>1, <1>2, <1>3

\* Each of the rules is of an entry of the family, and each such entry has one.
OfEntries(entries, family, target, rules) ==
    /\ rules \in Seq(RuleSet)
    /\ \A k \in 1..Len(rules) :
          /\ rules[k].match = "to" /\ rules[k].target = target
          /\ \E i \in DOMAIN entries : /\ entries[i].family = family
                                       /\ rules[k].covers = entries[i].covers
                                       /\ rules[k].readable = entries[i].readable
    /\ \A i \in DOMAIN entries :
          entries[i].family = family =>
             \E k \in 1..Len(rules) : /\ rules[k].covers = entries[i].covers
                                      /\ rules[k].readable = entries[i].readable

\* So are those of the addresses of a family.
LEMMA AddressRulesShape ==
    ASSUME NEW entries \in Seq(Entry), NEW family \in Family, NEW target \in {"ACCEPT", "DROP", "RETURN"}
    PROVE  OfEntries(entries, family, target, AddressRules(entries, family, target))
<1> DEFINE wanted == {entry \in {entries[i] : i \in DOMAIN entries} : entry.family = family}
           left == EntriesForFamily(entries, family)
           rules == AddressRules(entries, family, target)
<1>1. left = Selected(entries, wanted)
  BY DEF EntriesForFamily
<1>2. /\ left \in Seq(Entry \cap wanted)
      /\ \A i \in DOMAIN entries : entries[i] \in wanted => \E k \in DOMAIN left : left[k] = entries[i]
      /\ \A k \in DOMAIN left : \E i \in DOMAIN entries : entries[i] \in wanted /\ left[k] = entries[i]
  <2> HIDE DEF wanted, left
  <2>1. Leaves(Entry, entries, wanted, Selected(entries, wanted))
    BY SelectedElements
  <2>q. QED
    BY <1>1, <2>1 DEF Leaves
<1>3. \A i \in DOMAIN entries : entries[i] \in wanted <=> entries[i].family = family
  OBVIOUS
<1> HIDE DEF wanted
<1>4. DOMAIN left = 1..Len(left) /\ Len(left) \in Nat
  <2> HIDE DEF left
  <2>q. QED
    BY <1>2
<1>5. rules = [i \in 1..Len(left) |->
                  [match |-> "to", covers |-> left[i].covers, readable |-> left[i].readable, target |-> target]]
  BY <1>4 DEF AddressRules
<1> HIDE DEF left, rules
<1>6. ASSUME NEW i \in 1..Len(left)
      PROVE  [match |-> "to", covers |-> left[i].covers, readable |-> left[i].readable, target |-> target]
                \in RuleSet
  <2>1. left[i] \in Entry
    BY <1>2
  <2>q. QED
    BY <2>1, EntryFields DEF RuleSet
<1>7. rules \in Seq(RuleSet) /\ Len(rules) = Len(left)
  BY <1>4, <1>5, <1>6
<1>8. ASSUME NEW k \in 1..Len(rules)
      PROVE  /\ rules[k].match = "to" /\ rules[k].target = target
             /\ rules[k].covers = left[k].covers /\ rules[k].readable = left[k].readable
  BY <1>5, <1>7
<1>9. ASSUME NEW k \in 1..Len(rules)
      PROVE  \E i \in DOMAIN entries : /\ entries[i].family = family
                                       /\ rules[k].covers = entries[i].covers
                                       /\ rules[k].readable = entries[i].readable
  <2>1. PICK i \in DOMAIN entries : entries[i] \in wanted /\ left[k] = entries[i]
    BY <1>2, <1>4, <1>7
  <2>q. QED
    BY <1>3, <1>8, <2>1
<1>10. ASSUME NEW i \in DOMAIN entries, entries[i].family = family
       PROVE  \E k \in 1..Len(rules) : /\ rules[k].covers = entries[i].covers
                                       /\ rules[k].readable = entries[i].readable
  <2>1. PICK k \in DOMAIN left : left[k] = entries[i]
    BY <1>2, <1>3, <1>10
  <2>q. QED
    BY <1>4, <1>7, <1>8, <2>1
<1>q. QED
  <2>1. \A k \in 1..Len(rules) : rules[k].match = "to" /\ rules[k].target = target
    BY <1>8
  <2>q. QED
    BY <1>7, <1>9, <1>10, <2>1 DEF rules, OfEntries

PolicySet == [blacklist : Seq(Entry), whitelist : Seq(Entry)]

\* The first rules, if any, are those of the blacklist; the last one matches every
\* packet; the others, if any, accept: and they are there when there is a whitelist.
Shape(p, family, rules, n, first) ==
    /\ rules \in Seq(RuleSet) /\ n \in Nat /\ Len(rules) = n /\ first \in 0..(n - 1)
    /\ \A i \in 1..first : rules[i].target = "DROP"
    /\ \A i \in (first + 1)..(n - 1) : rules[i].target # "DROP"
    /\ rules[n].match = "all"
    /\ rules[n].target = (IF p.whitelist = <<>> THEN "RETURN" ELSE "DROP")
    /\ \A packet \in Packet : packet.family = family =>
          /\ (\E i \in 1..first : Matches(rules[i], packet)) <=> Covered(p.blacklist, packet)
          /\ p.whitelist # <<>> =>
                ((\E i \in (first + 1)..(n - 1) : Matches(rules[i], packet))
                    <=> Covered(p.whitelist, packet) \/ packet.to = "lo" \/ packet.established)
    /\ (\A i \in 1..n : rules[i].readable) =>
          /\ \A i \in DOMAIN p.blacklist : p.blacklist[i].family = family => p.blacklist[i].readable
          /\ \A i \in DOMAIN p.whitelist : p.whitelist[i].family = family => p.whitelist[i].readable

\* The rules of the addresses match what the entries of the family cover.
LEMMA AddressRulesMatch ==
    ASSUME NEW entries \in Seq(Entry), NEW family \in Family, NEW target \in {"ACCEPT", "DROP", "RETURN"},
           NEW packet \in Packet, packet.family = family
    PROVE  (\E k \in 1..Len(AddressRules(entries, family, target)) :
                  Matches(AddressRules(entries, family, target)[k], packet))
              <=> Covered(entries, packet)
<1> DEFINE rules == AddressRules(entries, family, target)
<1>1. OfEntries(entries, family, target, rules)
  BY AddressRulesShape
<1> HIDE DEF rules
<1>2. \A k \in 1..Len(rules) : Matches(rules[k], packet) <=> packet.to \in rules[k].covers
  BY <1>1 DEF Matches, OfEntries
<1>3. (\E k \in 1..Len(rules) : Matches(rules[k], packet)) <=> Covered(entries, packet)
  BY <1>1, <1>2 DEF Covered, OfEntries
<1>q. QED
  BY <1>3 DEF rules

\* Without a whitelist.
LEMMA BlacklistShape ==
    ASSUME NEW p \in PolicySet, NEW family \in Family, p.whitelist = <<>>,
           RulesForFamily(p, family) # <<>>
    PROVE  \E n, first : Shape(p, family, RulesForFamily(p, family), n, first)
<1> DEFINE drops == AddressRules(p.blacklist, family, "DROP")
           last == Rule("all", "RETURN")
           rules == RulesForFamily(p, family)
           m == Len(drops)
<1>0. p.blacklist \in Seq(Entry)
  BY DEF PolicySet
<1>1. OfEntries(p.blacklist, family, "DROP", drops)
  BY <1>0, AddressRulesShape
<1>2. \A packet \in Packet : packet.family = family =>
         ((\E k \in 1..m : Matches(drops[k], packet)) <=> Covered(p.blacklist, packet))
  BY <1>0, AddressRulesMatch
<1>3. rules = Append(drops, last)
  BY DEF RulesForFamily
<1>4. last \in RuleSet /\ last.match = "all" /\ last.target = "RETURN"
  BY DEF Rule, RuleSet
<1> HIDE DEF drops, last, rules, m
<1>5. /\ m \in Nat /\ rules \in Seq(RuleSet) /\ Len(rules) = m + 1 /\ rules[m + 1] = last
      /\ \A i \in 1..m : rules[i] = drops[i]
  <2>1. Len(drops) = m /\ m \in Nat
    BY <1>1 DEF m, OfEntries
  <2>q. QED
    BY <1>1, <1>3, <1>4, <2>1, AppendProperties DEF OfEntries
<1>6. Shape(p, family, rules, m + 1, m)
  <2>1. /\ m \in 0..((m + 1) - 1) /\ m + 1 \in Nat
        /\ \A i \in (m + 1)..((m + 1) - 1) : FALSE
    BY <1>5
  <2>2. \A packet \in Packet : packet.family = family =>
           ((\E i \in 1..m : Matches(rules[i], packet)) <=> Covered(p.blacklist, packet))
    BY <1>2, <1>5
  <2>3. ASSUME \A i \in 1..(m + 1) : rules[i].readable, NEW i \in DOMAIN p.blacklist, p.blacklist[i].family = family
        PROVE  p.blacklist[i].readable
    <3>1. PICK k \in 1..m : drops[k].readable = p.blacklist[i].readable
      BY <1>1, <2>3 DEF m, OfEntries
    <3>2. k \in 1..(m + 1) /\ rules[k] = drops[k]
      BY <1>5
    <3>q. QED
      BY <2>3, <3>1, <3>2
  <2>4. DOMAIN p.whitelist = {}
    OBVIOUS
  <2>5. \A i \in 1..m : rules[i].target = "DROP"
    BY <1>1, <1>5 DEF m, OfEntries
  <2>q. QED
    BY <1>4, <1>5, <2>1, <2>2, <2>3, <2>4, <2>5 DEF Shape
<1>q. QED
  BY <1>6 DEF rules

\* One sequence after another.
JoinedAs(S, s, q, both) ==
    /\ both \in Seq(S) /\ Len(both) = Len(s) + Len(q) /\ Len(s) \in Nat /\ Len(q) \in Nat
    /\ \A i \in 1..Len(s) : both[i] = s[i]
    /\ \A i \in 1..Len(q) : both[Len(s) + i] = q[i]

\* What a concatenation is.
LEMMA Concatenated ==
    ASSUME NEW S, NEW s \in Seq(S), NEW q \in Seq(S)
    PROVE  JoinedAs(S, s, q, s \o q)
<1>1. s \o q \in Seq(S) /\ Len(s \o q) = Len(s) + Len(q) /\ Len(s) \in Nat /\ Len(q) \in Nat
  OBVIOUS
<1>2. \A i \in 1..Len(s) : (s \o q)[i] = s[i]
  OBVIOUS
<1>3. \A i \in 1..Len(q) : (s \o q)[Len(s) + i] = q[i]
  OBVIOUS
<1>q. QED
  BY <1>1, <1>2, <1>3 DEF JoinedAs

\* Four parts, one after the other.
Parts(S, a, b, c, d, all) ==
    LET m == Len(a)
        k == Len(c)
    IN  /\ all \in Seq(S) /\ Len(all) = m + k + 3 /\ m \in Nat /\ k \in Nat
        /\ \A i \in 1..m : all[i] = a[i]
        /\ all[m + 1] = b[1] /\ all[m + 2] = b[2]
        /\ \A i \in 1..k : all[m + 2 + i] = c[i]
        /\ all[m + k + 3] = d[1]

\* So it is with two elements in the middle and one at the end.
LEMMA FourParts ==
    ASSUME NEW S, NEW a \in Seq(S), NEW b \in Seq(S), NEW c \in Seq(S), NEW d \in Seq(S),
           Len(b) = 2, Len(d) = 1
    PROVE  Parts(S, a, b, c, d, a \o b \o c \o d)
<1>1. PICK ab \in Seq(S) : ab = a \o b /\ JoinedAs(S, a, b, ab)
  <2>1. JoinedAs(S, a, b, a \o b)
    BY Concatenated
  <2>q. QED
    BY <2>1 DEF JoinedAs
<1>2. PICK abc \in Seq(S) : abc = ab \o c /\ JoinedAs(S, ab, c, abc)
  <2>1. JoinedAs(S, ab, c, ab \o c)
    BY Concatenated
  <2>q. QED
    BY <2>1 DEF JoinedAs
<1>3. PICK all \in Seq(S) : all = abc \o d /\ JoinedAs(S, abc, d, all)
  <2>1. JoinedAs(S, abc, d, abc \o d)
    BY Concatenated
  <2>q. QED
    BY <2>1 DEF JoinedAs
<1> DEFINE m == Len(a)
           k == Len(c)
<1>4. m \in Nat /\ k \in Nat /\ Len(ab) = m + 2 /\ Len(abc) = m + 2 + k
  BY <1>1, <1>2 DEF JoinedAs
<1>5. \A i \in 1..m : all[i] = a[i]
  <2> SUFFICES ASSUME NEW i \in 1..m PROVE all[i] = a[i]
    OBVIOUS
  <2>1. i \in 1..(m + 2) /\ i \in 1..(m + 2 + k)
    BY <1>4
  <2>q. QED
    BY <1>1, <1>2, <1>3, <1>4, <2>1 DEF JoinedAs
<1>6. all[m + 1] = b[1] /\ all[m + 2] = b[2]
  <2>1. ab[m + 1] = b[1] /\ ab[m + 2] = b[2]
    BY <1>1, <1>4 DEF JoinedAs
  <2>2. m + 1 \in 1..(m + 2) /\ m + 2 \in 1..(m + 2) /\ m + 1 \in 1..(m + 2 + k) /\ m + 2 \in 1..(m + 2 + k)
    BY <1>4
  <2>3. abc[m + 1] = ab[m + 1] /\ abc[m + 2] = ab[m + 2]
    BY <1>2, <1>4, <2>2 DEF JoinedAs
  <2>4. all[m + 1] = abc[m + 1] /\ all[m + 2] = abc[m + 2]
    BY <1>3, <1>4, <2>2 DEF JoinedAs
  <2>q. QED
    BY <2>1, <2>3, <2>4
<1>7. \A i \in 1..k : all[m + 2 + i] = c[i]
  <2> SUFFICES ASSUME NEW i \in 1..k PROVE all[m + 2 + i] = c[i]
    OBVIOUS
  <2>1. m + 2 + i \in 1..(m + 2 + k)
    BY <1>4
  <2>2. abc[m + 2 + i] = c[i]
    BY <1>2, <1>4 DEF JoinedAs
  <2>3. all[m + 2 + i] = abc[m + 2 + i]
    BY <1>3, <1>4, <2>1 DEF JoinedAs
  <2>q. QED
    BY <2>2, <2>3
<1>8. all[m + k + 3] = d[1] /\ Len(all) = m + k + 3
  <2>1. all[(m + 2 + k) + 1] = d[1] /\ Len(all) = (m + 2 + k) + 1
    BY <1>3, <1>4 DEF JoinedAs
  <2>q. QED
    BY <1>4, <2>1
<1>9. Parts(S, a, b, c, d, all)
  BY <1>4, <1>5, <1>6, <1>7, <1>8 DEF Parts
<1>q. QED
  BY <1>1, <1>2, <1>3, <1>9

\* With a whitelist.
LEMMA WhitelistShape ==
    ASSUME NEW p \in PolicySet, NEW family \in Family, p.whitelist # <<>>
    PROVE  /\ RulesForFamily(p, family) # <<>>
           /\ \E n, first : Shape(p, family, RulesForFamily(p, family), n, first)
<1> DEFINE drops == AddressRules(p.blacklist, family, "DROP")
           accepts == AddressRules(p.whitelist, family, "ACCEPT")
           open == <<Rule("lo", "ACCEPT"), Rule("established", "ACCEPT")>>
           last == Rule("all", "DROP")
           rules == RulesForFamily(p, family)
           m == Len(drops)
           k == Len(accepts)
           n == m + k + 3
<1>0. p.blacklist \in Seq(Entry) /\ p.whitelist \in Seq(Entry)
  BY DEF PolicySet
<1>1. OfEntries(p.blacklist, family, "DROP", drops)
  BY <1>0, AddressRulesShape
<1>2. OfEntries(p.whitelist, family, "ACCEPT", accepts)
  BY <1>0, AddressRulesShape
<1>3. \A packet \in Packet : packet.family = family =>
         /\ (\E i \in 1..m : Matches(drops[i], packet)) <=> Covered(p.blacklist, packet)
         /\ (\E i \in 1..k : Matches(accepts[i], packet)) <=> Covered(p.whitelist, packet)
  BY <1>0, AddressRulesMatch
<1>4. rules = drops \o open \o accepts \o <<last>>
  BY DEF RulesForFamily
<1>5. /\ Rule("lo", "ACCEPT") \in RuleSet /\ Rule("established", "ACCEPT") \in RuleSet /\ last \in RuleSet
      /\ last.match = "all" /\ last.target = "DROP"
      /\ Rule("lo", "ACCEPT").match = "lo" /\ Rule("lo", "ACCEPT").target = "ACCEPT"
      /\ Rule("established", "ACCEPT").match = "established" /\ Rule("established", "ACCEPT").target = "ACCEPT"
  BY DEF Rule, RuleSet
<1>6. /\ open \in Seq(RuleSet) /\ Len(open) = 2 /\ <<last>> \in Seq(RuleSet) /\ Len(<<last>>) = 1
      /\ open[1] = Rule("lo", "ACCEPT") /\ open[2] = Rule("established", "ACCEPT") /\ <<last>>[1] = last
  <2> HIDE DEF last
  <2>q. QED
    BY <1>5
<1>7. drops \in Seq(RuleSet) /\ accepts \in Seq(RuleSet)
  BY <1>1, <1>2 DEF OfEntries
<1> HIDE DEF drops, accepts, open, last, rules
<1>8. /\ rules \in Seq(RuleSet) /\ Len(rules) = n /\ m \in Nat /\ k \in Nat
      /\ \A i \in 1..m : rules[i] = drops[i]
      /\ rules[m + 1] = Rule("lo", "ACCEPT") /\ rules[m + 2] = Rule("established", "ACCEPT")
      /\ \A i \in 1..k : rules[m + 2 + i] = accepts[i]
      /\ rules[n] = last
  <2>1. Parts(RuleSet, drops, open, accepts, <<last>>, drops \o open \o accepts \o <<last>>)
    BY <1>6, <1>7, FourParts
  <2>2. n = m + k + 3
    OBVIOUS
  <2> HIDE DEF n
  <2>q. QED
    BY <1>4, <1>6, <2>1, <2>2 DEF Parts, m, k
<1> HIDE DEF m, k
<1>9. /\ \A i \in 1..m : drops[i].target = "DROP"
      /\ \A i \in 1..k : accepts[i].target = "ACCEPT"
  BY <1>1, <1>2 DEF OfEntries, m, k
<1>10. Shape(p, family, rules, n, m)
  <2>1. m \in 0..(n - 1) /\ n \in Nat
    BY <1>8
  <2>2. \A i \in 1..m : rules[i].target = "DROP"
    BY <1>8, <1>9
  <2>3. ASSUME NEW i \in (m + 1)..(n - 1)
        PROVE  i = m + 1 \/ i = m + 2 \/ \E j \in 1..k : i = m + 2 + j
    <3>1. CASE i > m + 2
      <4>1. i - (m + 2) \in 1..k /\ i = m + 2 + (i - (m + 2))
        BY <1>8, <2>3, <3>1
      <4>q. QED
        BY <4>1
    <3>q. QED
      BY <1>8, <2>3, <3>1
  <2>4. \A i \in (m + 1)..(n - 1) : rules[i].target # "DROP"
    BY <1>5, <1>8, <1>9, <2>3
  <2>5. rules[n].match = "all" /\ rules[n].target = "DROP"
    BY <1>5, <1>8
  <2>6. ASSUME NEW packet \in Packet, packet.family = family
        PROVE  /\ (\E i \in 1..m : Matches(rules[i], packet)) <=> Covered(p.blacklist, packet)
               /\ (\E i \in (m + 1)..(n - 1) : Matches(rules[i], packet))
                     <=> Covered(p.whitelist, packet) \/ packet.to = "lo" \/ packet.established
    <3>1. (\E i \in 1..m : Matches(rules[i], packet)) <=> Covered(p.blacklist, packet)
      BY <1>3, <1>8, <2>6 DEF m
    <3>2. /\ Matches(rules[m + 1], packet) <=> packet.to = "lo"
          /\ Matches(rules[m + 2], packet) <=> packet.established
      BY <1>5, <1>8 DEF Matches
    <3>3. (\E i \in 1..k : Matches(rules[m + 2 + i], packet)) <=> Covered(p.whitelist, packet)
      BY <1>3, <1>8, <2>6 DEF k
    <3>4. m + 1 \in (m + 1)..(n - 1) /\ m + 2 \in (m + 1)..(n - 1)
          /\ \A i \in 1..k : m + 2 + i \in (m + 1)..(n - 1)
      BY <1>8
    <3>q. QED
      BY <2>3, <3>1, <3>2, <3>3, <3>4
  <2>7. ASSUME \A i \in 1..n : rules[i].readable
        PROVE  /\ \A i \in DOMAIN p.blacklist : p.blacklist[i].family = family => p.blacklist[i].readable
               /\ \A i \in DOMAIN p.whitelist : p.whitelist[i].family = family => p.whitelist[i].readable
    <3>1. \A i \in 1..m : i \in 1..n /\ rules[i] = drops[i]
      BY <1>8
    <3>2. \A i \in 1..k : m + 2 + i \in 1..n /\ rules[m + 2 + i] = accepts[i]
      BY <1>8
    <3>3. (\A i \in 1..m : drops[i].readable) /\ \A i \in 1..k : accepts[i].readable
      BY <2>7, <3>1, <3>2
    <3>q. QED
      <4>1. ASSUME NEW i \in DOMAIN p.blacklist, p.blacklist[i].family = family PROVE p.blacklist[i].readable
        <5>1. PICK j \in 1..m : drops[j].readable = p.blacklist[i].readable
          BY <1>1, <4>1 DEF OfEntries, m
        <5>q. QED
          BY <3>3, <5>1
      <4>2. ASSUME NEW i \in DOMAIN p.whitelist, p.whitelist[i].family = family PROVE p.whitelist[i].readable
        <5>1. PICK j \in 1..k : accepts[j].readable = p.whitelist[i].readable
          BY <1>2, <4>2 DEF OfEntries, k
        <5>q. QED
          BY <3>3, <5>1
      <4>q. QED
        BY <4>1, <4>2
  <2> HIDE DEF n
  <2>q. QED
    BY <1>8, <2>1, <2>2, <2>4, <2>5, <2>6, <2>7 DEF Shape
<1>11. n # 0
  BY <1>8
<1>12. rules # <<>>
  BY <1>8, <1>11
<1>q. QED
  BY <1>10, <1>12 DEF rules

\* Among the first m rules, one that drops is the first to match.
Dropped(rules, m, packet) ==
    \E i \in 1..m : /\ Matches(rules[i], packet) /\ rules[i].target = "DROP"
                    /\ \A j \in 1..i - 1 : ~Matches(rules[j], packet)

\* What some of the rules drop, more of them drop.
LEMMA DroppedByMore ==
    ASSUME NEW rules, NEW m \in Int, NEW n \in Int, m <= n, NEW packet, Dropped(rules, m, packet)
    PROVE  Dropped(rules, n, packet)
<1>1. \A i \in 1..m : i \in 1..n
  OBVIOUS
<1>q. QED
  BY <1>1 DEF Dropped

\* All the rules drop what the policy does not allow.
LEMMA RulesDecide ==
    ASSUME NEW p, NEW family, NEW rules, NEW n, NEW first, Shape(p, family, rules, n, first),
           NEW packet \in Packet, packet.family = family
    PROVE  Dropped(rules, n, packet) <=> ~Allowed(p, packet)
<1> DEFINE T == {i \in 1..n : Matches(rules[i], packet)}
<1>1. /\ n \in Nat /\ first \in 0..(n - 1)
      /\ \A i \in 1..first : rules[i].target = "DROP"
      /\ \A i \in (first + 1)..(n - 1) : rules[i].target # "DROP"
      /\ rules[n].match = "all"
      /\ rules[n].target = (IF p.whitelist = <<>> THEN "RETURN" ELSE "DROP")
      /\ (\E i \in 1..first : Matches(rules[i], packet)) <=> Covered(p.blacklist, packet)
      /\ p.whitelist # <<>> =>
            ((\E i \in (first + 1)..(n - 1) : Matches(rules[i], packet))
                <=> Covered(p.whitelist, packet) \/ packet.to = "lo" \/ packet.established)
  BY DEF Shape
<1>2. n \in T
  <2>1. Matches(rules[n], packet)
    BY <1>1 DEF Matches
  <2>q. QED
    BY <1>1, <2>1
<1>3. PICK x \in T : \A y \in T : x <= y
  <2>1. T \subseteq Nat /\ T # {}
    BY <1>1, <1>2
  <2> HIDE DEF T
  <2>q. QED
    BY <2>1, LeastNumber
<1>4. x \in 1..n /\ Matches(rules[x], packet) /\ \A j \in 1..(x - 1) : ~Matches(rules[j], packet)
  <2>1. ASSUME NEW j \in 1..(x - 1) PROVE ~Matches(rules[j], packet)
    <3>1. j \in 1..n /\ ~ (x <= j)
      BY <1>1, <2>1
    <3>q. QED
      BY <1>3, <3>1
  <2>q. QED
    BY <1>3, <2>1
<1>5. Dropped(rules, n, packet) <=> rules[x].target = "DROP"
  <2>1. ASSUME NEW i \in 1..n, Matches(rules[i], packet), \A j \in 1..i - 1 : ~Matches(rules[j], packet)
        PROVE  i = x
    <3>1. x <= i
      BY <1>3, <2>1
    <3>2. ~ (x \in 1..i - 1)
      BY <1>4, <2>1
    <3>q. QED
      BY <1>1, <1>4, <2>1, <3>1, <3>2
  <2>q. QED
    BY <1>4, <2>1 DEF Dropped
<1>6. CASE x \in 1..first
  BY <1>1, <1>4, <1>5, <1>6 DEF Allowed
<1>7. CASE x \in (first + 1)..(n - 1)
  <2>1. ~Covered(p.blacklist, packet)
    BY <1>1, <1>4, <1>7
  <2>q. QED
    BY <1>1, <1>4, <1>5, <1>7, <2>1 DEF Allowed
<1>8. CASE x = n
  <2>1. ~Covered(p.blacklist, packet)
    BY <1>1, <1>4, <1>8
  <2>2. ~ \E i \in (first + 1)..(n - 1) : Matches(rules[i], packet)
    BY <1>1, <1>4, <1>8
  <2>q. QED
    BY <1>1, <1>4, <1>5, <1>8, <2>1, <2>2 DEF Allowed
<1>9. x \in 1..first \/ x \in (first + 1)..(n - 1) \/ x = n
  BY <1>1, <1>4
<1>q. QED
  BY <1>6, <1>7, <1>8, <1>9

\* Without rules everything is allowed.
LEMMA NoRulesAllow ==
    ASSUME NEW p \in PolicySet, NEW family \in Family, RulesForFamily(p, family) = <<>>
    PROVE  /\ p.whitelist = <<>>
           /\ \A i \in DOMAIN p.blacklist : p.blacklist[i].family # family
           /\ \A packet \in Packet : packet.family = family => Allowed(p, packet)
<1> DEFINE drops == AddressRules(p.blacklist, family, "DROP")
<1>0. p.blacklist \in Seq(Entry)
  BY DEF PolicySet
<1>1. p.whitelist = <<>>
  BY WhitelistShape
<1>2. OfEntries(p.blacklist, family, "DROP", drops)
  BY <1>0, AddressRulesShape
<1>3. drops = <<>>
  <2>1. drops \in Seq(RuleSet)
    BY <1>2 DEF OfEntries
  <2>2. drops = <<>> \/ Append(drops, Rule("all", "RETURN")) = <<>>
    BY <1>1 DEF RulesForFamily
  <2> HIDE DEF drops
  <2>3. Rule("all", "RETURN") \in RuleSet
    BY DEF Rule, RuleSet
  <2>q. QED
    BY <2>1, <2>2, <2>3, AppendProperties
<1>4. Len(drops) = 0
  <2> HIDE DEF drops
  <2>q. QED
    BY <1>3
<1>5. \A i \in DOMAIN p.blacklist : p.blacklist[i].family # family
  <2> HIDE DEF drops
  <2>q. QED
    BY <1>2, <1>4 DEF OfEntries
<1>6. \A packet \in Packet : packet.family = family => ~Covered(p.blacklist, packet)
  BY <1>5 DEF Covered
<1>q. QED
  BY <1>1, <1>5, <1>6 DEF Allowed

CommandSet == [family : Family, op : {"new", "flush", "unhook", "hook", "append"}, rule : RuleSet]

\* The rules of a family, whatever the policy.
LEMMA RulesType ==
    ASSUME NEW p \in PolicySet, NEW family \in Family
    PROVE  RulesForFamily(p, family) \in Seq(RuleSet)
<1>1. CASE RulesForFamily(p, family) = <<>>
  BY <1>1
<1>2. CASE RulesForFamily(p, family) # <<>>
  <2>1. PICK n, first : Shape(p, family, RulesForFamily(p, family), n, first)
    BY <1>2, BlacklistShape, WhitelistShape
  <2>q. QED
    BY <2>1 DEF Shape
<1>q. QED
  BY <1>1, <1>2

\* Four commands prepare a chain that has rules, and one appends each of them.
FamilyScript(family, rules, commands) ==
    /\ commands \in Seq(CommandSet)
    /\ Len(commands) = IF rules = <<>> THEN 0 ELSE Len(rules) + 4
    /\ \A i \in 1..Len(commands) : commands[i].family = family
    /\ rules # <<>> =>
          /\ commands[1].op = "new" /\ commands[2].op = "flush"
          /\ commands[3].op = "unhook" /\ commands[4].op = "hook"
          /\ \A i \in 1..Len(rules) : commands[4 + i].op = "append" /\ commands[4 + i].rule = rules[i]

\* So does the script of a family.
LEMMA ScriptOfFamily ==
    ASSUME NEW p \in PolicySet, NEW family \in Family
    PROVE  FamilyScript(family, RulesForFamily(p, family), ScriptForFamily(p, family))
<1> DEFINE rules == RulesForFamily(p, family)
           commands == ScriptForFamily(p, family)
           ops == <<"new", "flush", "unhook", "hook">>
           make(op, rule) == [family |-> family, op |-> op, rule |-> rule]
           prepare == [i \in 1..4 |-> make(ops[i], Rule("all", "RETURN"))]
           appends == [i \in DOMAIN rules |-> make("append", rules[i])]
<1>1. rules \in Seq(RuleSet)
  BY RulesType
<1>2. commands = IF rules = <<>> THEN <<>> ELSE prepare \o appends
  BY DEF ScriptForFamily
<1> HIDE DEF rules, commands
<1>3. CASE rules = <<>>
  BY <1>2, <1>3 DEF FamilyScript, rules, commands
<1>4. CASE rules # <<>>
  <2>1. Rule("all", "RETURN") \in RuleSet
    BY DEF Rule, RuleSet
  <2>2. \A i \in 1..4 : ops[i] \in {"new", "flush", "unhook", "hook"}
    OBVIOUS
  <2>3. /\ prepare \in Seq(CommandSet) /\ Len(prepare) = 4
        /\ \A i \in 1..4 : prepare[i].family = family /\ prepare[i].op = ops[i]
    <3>1. \A i \in 1..4 : make(ops[i], Rule("all", "RETURN")) \in CommandSet
      BY <2>1, <2>2 DEF CommandSet
    <3>2. prepare \in [1..4 -> CommandSet]
      BY <3>1
    <3>3. prepare \in Seq(CommandSet) /\ Len(prepare) = 4
      <4> DEFINE four == 4
      <4>1. prepare \in [1..four -> CommandSet] /\ four \in Nat
        BY <3>2
      <4> HIDE DEF prepare, four
      <4>2. prepare \in Seq(CommandSet) /\ Len(prepare) = four
        BY <4>1
      <4>q. QED
        BY <4>2 DEF four
    <3>4. \A i \in 1..4 : prepare[i].family = family /\ prepare[i].op = ops[i]
      OBVIOUS
    <3>q. QED
      BY <3>3, <3>4
  <2>4. /\ appends \in Seq(CommandSet) /\ Len(appends) = Len(rules)
        /\ \A i \in 1..Len(rules) : /\ appends[i].family = family /\ appends[i].op = "append"
                                    /\ appends[i].rule = rules[i]
    <3>1. DOMAIN rules = 1..Len(rules) /\ Len(rules) \in Nat /\ \A i \in 1..Len(rules) : rules[i] \in RuleSet
      BY <1>1
    <3>2. \A i \in 1..Len(rules) : make("append", rules[i]) \in CommandSet
      BY <3>1 DEF CommandSet
    <3>3. appends \in [1..Len(rules) -> CommandSet]
      BY <3>1, <3>2
    <3>4. appends \in Seq(CommandSet) /\ Len(appends) = Len(rules)
      <4> HIDE DEF appends
      <4>q. QED
        BY <3>1, <3>3
    <3>5. \A i \in 1..Len(rules) : /\ appends[i].family = family /\ appends[i].op = "append"
                                   /\ appends[i].rule = rules[i]
      BY <3>1
    <3>q. QED
      BY <3>4, <3>5
  <2>5. JoinedAs(CommandSet, prepare, appends, commands)
    <3> HIDE DEF prepare, appends
    <3>1. JoinedAs(CommandSet, prepare, appends, prepare \o appends)
      BY <2>3, <2>4, Concatenated
    <3>q. QED
      BY <1>2, <1>4, <3>1
  <2>6. ops[1] = "new" /\ ops[2] = "flush" /\ ops[3] = "unhook" /\ ops[4] = "hook"
    OBVIOUS
  <2> HIDE DEF prepare, appends, ops
  <2>7. commands \in Seq(CommandSet) /\ Len(commands) = Len(rules) + 4 /\ Len(rules) \in Nat
    BY <2>3, <2>4, <2>5 DEF JoinedAs
  <2>8. /\ commands[1].op = "new" /\ commands[2].op = "flush"
        /\ commands[3].op = "unhook" /\ commands[4].op = "hook"
    BY <2>3, <2>5, <2>6 DEF JoinedAs
  <2>9. \A i \in 1..Len(rules) : commands[4 + i].op = "append" /\ commands[4 + i].rule = rules[i]
    BY <2>3, <2>4, <2>5 DEF JoinedAs
  <2>10. ASSUME NEW i \in 1..Len(commands) PROVE commands[i].family = family
    <3>1. CASE i \in 1..4
      BY <2>3, <2>5, <3>1 DEF JoinedAs
    <3>2. CASE i \notin 1..4
      <4>1. i - 4 \in 1..Len(rules) /\ i = 4 + (i - 4)
        BY <2>7, <3>2
      <4>2. commands[4 + (i - 4)] = appends[i - 4]
        BY <2>3, <2>4, <2>5, <4>1 DEF JoinedAs
      <4>q. QED
        BY <2>4, <4>1, <4>2
    <3>q. QED
      BY <3>1, <3>2
  <2>q. QED
    BY <1>4, <2>7, <2>8, <2>9, <2>10 DEF FamilyScript, rules, commands
<1>q. QED
  BY <1>3, <1>4

\* How many of the first k commands of the script are of a family.
Done(p, family, k) ==
    LET a == Len(ScriptForFamily(p, "iptables"))
    IN  IF family = "iptables" THEN (IF k <= a THEN k ELSE a) ELSE (IF k <= a THEN 0 ELSE k - a)

Begun(rules, m) == [i \in 1..m |-> rules[i]]

\* What they make of the tables.
TablesAfter(p, k) ==
    [family \in Family |->
        [hooked |-> Done(p, family, k) >= 4,
         chain |-> Begun(RulesForFamily(p, family), Done(p, family, k) - 4)]]

\* The whole script.
LEMMA ScriptOfPolicy ==
    ASSUME NEW p \in PolicySet
    PROVE  JoinedAs(CommandSet, ScriptForFamily(p, "iptables"), ScriptForFamily(p, "ip6tables"),
                  BuildIptablesScript(p))
<1>1. ScriptForFamily(p, "iptables") \in Seq(CommandSet) /\ ScriptForFamily(p, "ip6tables") \in Seq(CommandSet)
  BY ScriptOfFamily DEF Family, FamilyScript
<1>q. QED
  BY <1>1, Concatenated DEF BuildIptablesScript

\* The next command is the next of its family, and leaves the other alone.
NextOf(p, family, k) ==
    LET d == Done(p, family, k)
    IN  /\ d \in Nat /\ d < Len(ScriptForFamily(p, family))
        /\ BuildIptablesScript(p)[k + 1] = ScriptForFamily(p, family)[d + 1]
        /\ Done(p, family, k + 1) = d + 1
        /\ \A other \in Family : other # family => Done(p, other, k + 1) = Done(p, other, k)

\* Every command of the script is of a family.
LEMMA NextCommand ==
    ASSUME NEW p \in PolicySet, NEW k \in Nat, k < Len(BuildIptablesScript(p))
    PROVE  \E family \in Family : NextOf(p, family, k)
<1> DEFINE four == ScriptForFamily(p, "iptables")
           six == ScriptForFamily(p, "ip6tables")
           all == BuildIptablesScript(p)
<1>1. JoinedAs(CommandSet, four, six, all)
  BY ScriptOfPolicy
<1> HIDE DEF four, six, all
<1>2. k < Len(all)
  BY DEF all
<1>3. Len(four) \in Nat /\ Len(six) \in Nat /\ Len(all) = Len(four) + Len(six)
  BY <1>1 DEF JoinedAs
<1>4. CASE k < Len(four)
  <2>1. k + 1 \in 1..Len(four)
    BY <1>3, <1>4
  <2>2. all[k + 1] = four[k + 1]
    BY <1>1, <2>1 DEF JoinedAs
  <2>3. Done(p, "iptables", k) = k /\ Done(p, "iptables", k + 1) = k + 1
        /\ Done(p, "ip6tables", k) = 0 /\ Done(p, "ip6tables", k + 1) = 0
    BY <1>3, <1>4 DEF Done, four
  <2>4. NextOf(p, "iptables", k)
    BY <1>4, <2>2, <2>3 DEF NextOf, Family, four, all
  <2>q. QED
    BY <2>4 DEF Family
<1>5. CASE k >= Len(four)
  <2>1. (k - Len(four)) + 1 \in 1..Len(six) /\ k + 1 = Len(four) + ((k - Len(four)) + 1)
    BY <1>2, <1>3, <1>5
  <2>2. all[k + 1] = six[(k - Len(four)) + 1]
    BY <1>1, <2>1 DEF JoinedAs
  <2>3. Done(p, "ip6tables", k) = k - Len(four) /\ Done(p, "ip6tables", k + 1) = (k - Len(four)) + 1
        /\ Done(p, "iptables", k) = Len(four) /\ Done(p, "iptables", k + 1) = Len(four)
    BY <1>3, <1>5 DEF Done, four
  <2>4. (k - Len(four)) < Len(six) /\ k - Len(four) \in Nat
    BY <1>2, <1>3, <1>5
  <2>5. NextOf(p, "ip6tables", k)
    BY <2>2, <2>3, <2>4 DEF NextOf, Family, six, all
  <2>q. QED
    BY <2>5 DEF Family
<1>q. QED
  BY <1>3, <1>4, <1>5

\* At first nothing has been done, and at last everything.
LEMMA DoneBounds ==
    ASSUME NEW p \in PolicySet, NEW family \in Family
    PROVE  /\ Done(p, family, 0) = 0
           /\ \A k \in 0..Len(BuildIptablesScript(p)) : Done(p, family, k) \in 0..Len(ScriptForFamily(p, family))
           /\ Done(p, family, Len(BuildIptablesScript(p))) = Len(ScriptForFamily(p, family))
<1> DEFINE four == ScriptForFamily(p, "iptables")
           six == ScriptForFamily(p, "ip6tables")
           all == BuildIptablesScript(p)
<1>1. Len(four) \in Nat /\ Len(six) \in Nat /\ Len(all) = Len(four) + Len(six)
  BY ScriptOfPolicy DEF JoinedAs
<1> HIDE DEF four, six, all
<1>2. CASE family = "iptables"
  BY <1>1, <1>2 DEF Done, four, all
<1>3. CASE family = "ip6tables"
  BY <1>1, <1>3 DEF Done, four, six, all
<1>q. QED
  BY <1>2, <1>3 DEF Family

\* A rule more of a chain that has been begun.
LEMMA BegunMore ==
    ASSUME NEW rules \in Seq(RuleSet), NEW m \in Int
    PROVE  /\ m <= 0 => Begun(rules, m) = <<>>
           /\ 0 <= m /\ m < Len(rules) => Append(Begun(rules, m), rules[m + 1]) = Begun(rules, m + 1)
<1>1. ASSUME m <= 0 PROVE Begun(rules, m) = <<>>
  BY <1>1 DEF Begun
<1>2. ASSUME 0 <= m, m < Len(rules) PROVE Append(Begun(rules, m), rules[m + 1]) = Begun(rules, m + 1)
  <2>0. m \in Nat /\ \A i \in 1..(m + 1) : rules[i] \in RuleSet
    BY <1>2, ElementOfSeq
  <2>1. ASSUME NEW n \in Nat, n <= m + 1
        PROVE  Begun(rules, n) \in Seq(RuleSet) /\ Len(Begun(rules, n)) = n
    <3>1. Begun(rules, n) \in [1..n -> RuleSet]
      BY <2>0, <2>1 DEF Begun
    <3>q. QED
      BY <2>1, <3>1
  <2>2. /\ Begun(rules, m) \in Seq(RuleSet) /\ Len(Begun(rules, m)) = m
        /\ Begun(rules, m + 1) \in Seq(RuleSet) /\ Len(Begun(rules, m + 1)) = m + 1
    BY <2>0, <2>1
  <2>3. /\ Append(Begun(rules, m), rules[m + 1]) \in Seq(RuleSet)
        /\ Len(Append(Begun(rules, m), rules[m + 1])) = m + 1
        /\ \A i \in 1..m : Append(Begun(rules, m), rules[m + 1])[i] = Begun(rules, m)[i]
        /\ Append(Begun(rules, m), rules[m + 1])[m + 1] = rules[m + 1]
    BY <2>0, <2>2, AppendProperties
  <2>4. ASSUME NEW i \in 1..(m + 1)
        PROVE  Append(Begun(rules, m), rules[m + 1])[i] = Begun(rules, m + 1)[i]
    <3>1. Begun(rules, m + 1)[i] = rules[i]
      BY DEF Begun
    <3>2. i \in 1..m => Begun(rules, m)[i] = rules[i]
      BY DEF Begun
    <3>q. QED
      BY <2>0, <2>3, <3>1, <3>2
  <2>q. QED
    BY <2>2, <2>3, <2>4, SeqEqual
<1>q. QED
  BY <1>1, <1>2

\* What passes in between.
LEMMA PassesAfter ==
    ASSUME NEW p \in PolicySet, NEW k \in 0..Len(BuildIptablesScript(p)), NEW packet \in Packet
    PROVE  /\ packet.family \in Family
           /\ Passes(TablesAfter(p, k), packet) <=>
                 \/ ~ (Done(p, packet.family, k) >= 4)
                 \/ ~Dropped(RulesForFamily(p, packet.family), Done(p, packet.family, k) - 4, packet)
<1> DEFINE family == packet.family
           m == Done(p, family, k) - 4
           rules == RulesForFamily(p, family)
           out == TablesAfter(p, k)
<1>1. family \in Family
  BY DEF Packet
<1>2. out[family].hooked = (Done(p, family, k) >= 4) /\ out[family].chain = Begun(rules, m)
  BY <1>1 DEF TablesAfter
<1>3. DOMAIN Begun(rules, m) = 1..m /\ \A i \in 1..m : Begun(rules, m)[i] = rules[i]
  BY DEF Begun
<1>d. m \in Int
  <2>1. Done(p, family, k) \in 0..Len(ScriptForFamily(p, family)) /\ Len(ScriptForFamily(p, family)) \in Nat
    BY <1>1, DoneBounds, ScriptOfFamily DEF FamilyScript
  <2>q. QED
    BY <2>1
<1> HIDE DEF m, rules, out
<1>4. \A i \in 1..m : \A j \in 1..i - 1 : j \in 1..m
  BY <1>d
<1>5. (\A i \in {i \in DOMAIN Begun(rules, m) : /\ Matches(Begun(rules, m)[i], packet)
                                               /\ \A j \in 1..i - 1 : ~Matches(Begun(rules, m)[j], packet)} :
            Begun(rules, m)[i].target # "DROP") <=> ~Dropped(rules, m, packet)
  BY <1>3, <1>4 DEF Dropped
<1>6. Passes(out, packet) <=> ~ (Done(p, family, k) >= 4) \/ ~Dropped(rules, m, packet)
  BY <1>2, <1>5 DEF Passes
<1>q. QED
  BY <1>1, <1>6 DEF m, rules, out

\* From one command to the next nothing more passes; what the policy allows does
\* all along; and in the end nothing else.
LEMMA PassesLess ==
    ASSUME NEW p \in PolicySet, NEW packet \in Packet
    PROVE  /\ \A k \in 0..Len(BuildIptablesScript(p)) :
                 Allowed(p, packet) => Passes(TablesAfter(p, k), packet)
           /\ \A k \in 0..Len(BuildIptablesScript(p)) :
                 k + 1 \in 0..Len(BuildIptablesScript(p)) /\ Passes(TablesAfter(p, k + 1), packet)
                    => Passes(TablesAfter(p, k), packet)
           /\ Passes(TablesAfter(p, Len(BuildIptablesScript(p))), packet) => Allowed(p, packet)
<1> DEFINE family == packet.family
           rules == RulesForFamily(p, family)
           size == Len(BuildIptablesScript(p))
           done(k) == Done(p, family, k)
<1>1. family \in Family
  BY DEF Packet
<1>2. /\ rules \in Seq(RuleSet) /\ Len(rules) \in Nat
      /\ Len(ScriptForFamily(p, family)) = IF rules = <<>> THEN 0 ELSE Len(rules) + 4
  BY <1>1, RulesType, ScriptOfFamily DEF FamilyScript
<1>3. /\ \A k \in 0..size : done(k) \in 0..Len(ScriptForFamily(p, family))
      /\ done(size) = Len(ScriptForFamily(p, family))
  BY <1>1, DoneBounds
<1>4. size \in Nat
  BY ScriptOfPolicy DEF JoinedAs
<1>5. \A k \in 0..size : Passes(TablesAfter(p, k), packet) <=>
                            ~ (done(k) >= 4) \/ ~Dropped(rules, done(k) - 4, packet)
  BY PassesAfter
<1>6. \A k \in 0..size : k + 1 \in 0..size => done(k) <= done(k + 1)
  <2> SUFFICES ASSUME NEW k \in 0..size, k + 1 \in 0..size PROVE done(k) <= done(k + 1)
    OBVIOUS
  <2>1. PICK other \in Family : NextOf(p, other, k)
    <3>1. k \in Nat /\ k < size
      BY <1>4
    <3>q. QED
      BY <3>1, NextCommand
  <2>2. done(k + 1) = done(k) + 1 \/ done(k + 1) = done(k)
    BY <1>1, <2>1 DEF NextOf
  <2>3. done(k) \in Int
    BY <1>2, <1>3
  <2> HIDE DEF done
  <2>q. QED
    BY <2>2, <2>3
<1>7. CASE rules = <<>>
  <2>1. Allowed(p, packet)
    BY <1>1, <1>7, NoRulesAllow
  <2>2. \A k \in 0..size : done(k) = 0
    BY <1>2, <1>3, <1>7
  <2> HIDE DEF done, size, rules
  <2>3. \A k \in 0..size : Passes(TablesAfter(p, k), packet)
    BY <1>5, <2>2
  <2>q. QED
    BY <2>1, <2>3 DEF size
<1>8. CASE rules # <<>>
  <2>1. PICK n, first : Shape(p, family, rules, n, first)
    BY <1>1, <1>8, BlacklistShape, WhitelistShape
  <2>2. n = Len(rules) /\ n \in Nat
    BY <2>1 DEF Shape
  <2>3. Dropped(rules, n, packet) <=> ~Allowed(p, packet)
    BY <2>1, RulesDecide
  <2> HIDE DEF done, size, rules, family
  <2>4. (\A k \in 0..size : done(k) \in 0..(n + 4)) /\ done(size) = n + 4
    BY <1>2, <1>3, <1>8, <2>2
  <2>5. ASSUME NEW k \in 0..size, Allowed(p, packet) PROVE Passes(TablesAfter(p, k), packet)
    <3>1. done(k) - 4 \in Int /\ n \in Int /\ done(k) - 4 <= n
      BY <2>2, <2>4
    <3>2. ~Dropped(rules, done(k) - 4, packet)
      BY <2>3, <2>5, <3>1, DroppedByMore
    <3>q. QED
      BY <1>5, <3>2
  <2>6. ASSUME NEW k \in 0..size, k + 1 \in 0..size, Passes(TablesAfter(p, k + 1), packet)
        PROVE  Passes(TablesAfter(p, k), packet)
    <3>1. /\ done(k) \in 0..(n + 4) /\ done(k + 1) \in 0..(n + 4) /\ done(k) <= done(k + 1)
      BY <1>6, <2>4, <2>6
    <3>2. ~ (done(k + 1) >= 4) \/ ~Dropped(rules, done(k + 1) - 4, packet)
      BY <1>5, <2>6
    <3>3. done(k) - 4 \in Int /\ done(k + 1) - 4 \in Int /\ done(k) - 4 <= done(k + 1) - 4
      BY <2>2, <3>1
    <3>4. Dropped(rules, done(k) - 4, packet) => Dropped(rules, done(k + 1) - 4, packet)
      BY <3>3, DroppedByMore
    <3>5. done(k) >= 4 => done(k + 1) >= 4
      BY <2>2, <3>1
    <3>q. QED
      BY <1>5, <3>2, <3>4, <3>5
  <2>7. ASSUME Passes(TablesAfter(p, size), packet) PROVE Allowed(p, packet)
    <3>1. size \in 0..size /\ done(size) >= 4 /\ done(size) - 4 = n
      BY <1>4, <2>2, <2>4
    <3>2. ~Dropped(rules, done(size) - 4, packet)
      BY <1>5, <2>7, <3>1
    <3>q. QED
      BY <2>3, <3>1, <3>2
  <2>q. QED
    BY <2>5, <2>6, <2>7 DEF size
<1>q. QED
  BY <1>7, <1>8

\* k commands of the script have been run.
HasRun(k) ==
    LET all == BuildIptablesScript(policy)
    IN  /\ k \in 0..Len(all)
        /\ script \in Seq(CommandSet) /\ Len(script) = Len(all) - k
        /\ \A i \in 1..Len(script) : script[i] = all[k + i]
        /\ \A i \in 1..k : all[i].rule.readable
        /\ tables = TablesAfter(policy, k)

\* The inductive invariant of NetworkPolicy.
PolicyInvariant ==
    /\ policy \in PolicySet /\ scriptStep \in {"new", "running", "applied", "failed"}
    /\ scriptStep = "new" => tables = NoRules
    /\ scriptStep \in {"running", "applied"} => \E k \in 0..Len(BuildIptablesScript(policy)) : HasRun(k)
    /\ scriptStep = "applied" => script = <<>>

\* OUTPUT and the chain of a family, and what a command changes of them.
Table(hooked, chain) == [hooked |-> hooked, chain |-> chain]
WithChain(table, chain) == [table EXCEPT !.chain = chain]
WithHook(table, hooked) == [table EXCEPT !.hooked = hooked]

\* A chain whose rules are begun grows by the command that comes next.
LEMMA TablesGrow ==
    ASSUME policy \in PolicySet, NEW k \in Nat, NEW family \in Family, NextOf(policy, family, k),
           tables = TablesAfter(policy, k), Run(BuildIptablesScript(policy)[k + 1])
    PROVE  tables' = TablesAfter(policy, k + 1)
<1> DEFINE d == Done(policy, family, k)
           rules == RulesForFamily(policy, family)
           commands == ScriptForFamily(policy, family)
           next == BuildIptablesScript(policy)[k + 1]
           after == TablesAfter(policy, k + 1)
           hookedNow == d >= 4
           hookedThen == d + 1 >= 4
<1>1. rules \in Seq(RuleSet) /\ FamilyScript(family, rules, commands)
  BY RulesType, ScriptOfFamily
<1>2. /\ d \in Nat /\ d < Len(commands) /\ next = commands[d + 1]
      /\ Done(policy, family, k + 1) = d + 1
      /\ \A other \in Family : other # family => Done(policy, other, k + 1) = Done(policy, other, k)
  BY DEF NextOf
<1>3. /\ DOMAIN tables = Family /\ DOMAIN after = Family
      /\ tables = [other \in Family |-> tables[other]] /\ after = [other \in Family |-> after[other]]
  BY DEF TablesAfter
<1>4. \A other \in Family : other # family => after[other] = tables[other]
  BY <1>2 DEF TablesAfter
<1>5. /\ tables[family] = [hooked |-> hookedNow, chain |-> Begun(rules, d - 4)]
      /\ after[family] = [hooked |-> hookedThen, chain |-> Begun(rules, (d + 1) - 4)]
  BY <1>2 DEF TablesAfter
<1> HIDE DEF d
<1>b. /\ d <= 3 => hookedNow = FALSE
      /\ d <= 2 => hookedThen = FALSE
      /\ d >= 3 => hookedThen = TRUE
      /\ d >= 4 => hookedNow = TRUE
  BY <1>2
<1> HIDE DEF d, rules, commands, next, after
<1>5a. PICK now, thereafter :
           /\ tables[family] = Table(now, Begun(rules, d - 4))
           /\ after[family] = Table(thereafter, Begun(rules, (d + 1) - 4))
           /\ d <= 3 => now = FALSE
           /\ d <= 2 => thereafter = FALSE
           /\ d >= 3 => thereafter = TRUE
           /\ d >= 4 => now = TRUE
  <2> DEFINE now == tables[family].hooked
             thereafter == after[family].hooked
  <2>1. /\ now = hookedNow /\ tables[family] = Table(now, Begun(rules, d - 4))
        /\ thereafter = hookedThen /\ after[family] = Table(thereafter, Begun(rules, (d + 1) - 4))
    BY <1>5 DEF Table
  <2> HIDE DEF now, thereafter, hookedNow, hookedThen
  <2>2. /\ d <= 3 => now = FALSE
        /\ d <= 2 => thereafter = FALSE
        /\ d >= 3 => thereafter = TRUE
        /\ d >= 4 => now = TRUE
    BY Zenon, <1>b, <2>1
  <2>q. QED
    BY Zenon, <2>1, <2>2
<1>6. /\ rules # <<>> /\ Len(commands) = Len(rules) + 4 /\ Len(rules) \in Nat
      /\ next.family = family
      /\ d = 0 => next.op = "new"
      /\ d = 1 => next.op = "flush"
      /\ d = 2 => next.op = "unhook"
      /\ d = 3 => next.op = "hook"
      /\ d >= 4 => next.op = "append" /\ next.rule = rules[d - 3]
  <2>1. rules # <<>> /\ Len(commands) = Len(rules) + 4 /\ Len(rules) \in Nat
    BY <1>1, <1>2 DEF FamilyScript
  <2>2. d + 1 \in 1..Len(commands)
    BY <1>2, <2>1
  <2>3. d >= 4 => d - 3 \in 1..Len(rules) /\ d + 1 = 4 + (d - 3)
    BY <1>2, <2>1
  <2>4. next.family = family
    BY <1>1, <1>2, <2>2 DEF FamilyScript
  <2>5. /\ d = 0 => next.op = "new"
        /\ d = 1 => next.op = "flush"
        /\ d = 2 => next.op = "unhook"
        /\ d = 3 => next.op = "hook"
    BY <1>1, <1>2, <2>1 DEF FamilyScript
  <2>6. d >= 4 => next.op = "append" /\ next.rule = rules[d - 3]
    <3> SUFFICES ASSUME d >= 4 PROVE next.op = "append" /\ next.rule = rules[d - 3]
      OBVIOUS
    <3>1. commands[4 + (d - 3)].op = "append" /\ commands[4 + (d - 3)].rule = rules[d - 3]
      BY <1>1, <2>1, <2>3 DEF FamilyScript
    <3>q. QED
      BY <1>2, <2>3, <3>1
  <2>q. QED
    BY <2>1, <2>4, <2>5, <2>6
<1>7. Run(next)
  BY DEF next
<1>8. /\ d <= 3 => Begun(rules, d - 4) = <<>>
      /\ d <= 3 => Begun(rules, (d + 1) - 4) = <<>>
      /\ d >= 4 => Append(Begun(rules, d - 4), rules[d - 3]) = Begun(rules, (d + 1) - 4)
  <2>1. d - 4 \in Int /\ (d + 1) - 4 \in Int /\ (d - 4) + 1 = (d + 1) - 4 /\ (d - 4) + 1 = d - 3
    BY <1>2
  <2>2. d >= 4 => 0 <= d - 4 /\ d - 4 < Len(rules)
    BY <1>2, <1>6
  <2>3. d <= 3 => d - 4 <= 0 /\ (d + 1) - 4 <= 0
    BY <1>2
  <2>q. QED
    BY <1>1, <2>1, <2>2, <2>3, BegunMore
<1>f. /\ tables[family].chain = Begun(rules, d - 4)
      /\ \A new : WithChain(tables[family], new) = Table(now, new)
      /\ \A new : WithHook(tables[family], new) = Table(new, Begun(rules, d - 4))
  <2>1. tables[family] = Table(now, Begun(rules, d - 4))
    BY Zenon, <1>5a
  <2> DEFINE table == tables[family]
             chain == Begun(rules, d - 4)
  <2>2. table = Table(now, chain)
    BY <2>1
  <2> HIDE DEF table, chain
  <2>3. table.chain = chain
    BY <2>2 DEF Table
  <2>4. \A new : WithChain(table, new) = Table(now, new)
    BY <2>2 DEF Table, WithChain
  <2>5. \A new : WithHook(table, new) = Table(new, chain)
    BY <2>2 DEF Table, WithHook
  <2>q. QED
    BY <2>3, <2>4, <2>5 DEF table, chain
<1>9. tables' = [other \in Family |-> tables'[other]] /\ tables'[family] = after[family]
      /\ \A other \in Family : other # family => tables'[other] = tables[other]
  <2>1. CASE d = 0
    <3>1. tables' = tables
      BY <1>6, <1>7, <2>1 DEF Run
    <3>2. tables[family] = after[family]
      <4>1. now = FALSE /\ thereafter = FALSE
        BY <1>2, <1>5a, <2>1
      <4>2. Begun(rules, d - 4) = Begun(rules, (d + 1) - 4)
        BY <1>2, <1>8, <2>1
      <4>q. QED
        BY Zenon, <1>5a, <4>1, <4>2
    <3>q. QED
      BY Zenon, <1>3, <3>1, <3>2
  <2>2. CASE d = 1
    <3>1. tables' = [tables EXCEPT ![family].chain = <<>>]
      BY <1>6, <1>7, <2>2 DEF Run
    <3>2. tables'[family] = WithChain(tables[family], <<>>)
      BY <1>3, <3>1 DEF WithChain, WithHook
    <3>3. WithChain(tables[family], <<>>) = Table(now, <<>>)
      BY Zenon, <1>f
    <3>4. Table(now, <<>>) = after[family]
      <4>1. now = FALSE /\ thereafter = FALSE
        BY <1>2, <1>5a, <2>2
      <4>2. Begun(rules, (d + 1) - 4) = <<>>
        BY <1>2, <1>8, <2>2
      <4>q. QED
        BY Zenon, <1>5a, <4>1, <4>2
    <3>5. /\ tables' = [other \in Family |-> tables'[other]]
          /\ \A other \in Family : other # family => tables'[other] = tables[other]
      BY <1>3, <3>1
    <3>6. tables'[family] = after[family]
      BY Zenon, <3>2, <3>3, <3>4
    <3>q. QED
      BY Zenon, <3>5, <3>6
  <2>3. CASE d = 2
    <3>1. tables' = [tables EXCEPT ![family].hooked = FALSE]
      BY <1>6, <1>7, <2>3 DEF Run
    <3>2. tables'[family] = WithHook(tables[family], FALSE)
      BY <1>3, <3>1 DEF WithChain, WithHook
    <3>3. WithHook(tables[family], FALSE) = Table(FALSE, Begun(rules, d - 4))
      BY Zenon, <1>f
    <3>4. Table(FALSE, Begun(rules, d - 4)) = after[family]
      <4>1. thereafter = FALSE
        BY <1>2, <1>5a, <2>3
      <4>2. Begun(rules, d - 4) = Begun(rules, (d + 1) - 4)
        BY <1>2, <1>8, <2>3
      <4>q. QED
        BY Zenon, <1>5a, <4>1, <4>2
    <3>5. /\ tables' = [other \in Family |-> tables'[other]]
          /\ \A other \in Family : other # family => tables'[other] = tables[other]
      BY <1>3, <3>1
    <3>6. tables'[family] = after[family]
      BY Zenon, <3>2, <3>3, <3>4
    <3>q. QED
      BY Zenon, <3>5, <3>6
  <2>4. CASE d = 3
    <3>1. tables' = [tables EXCEPT ![family].hooked = TRUE]
      BY <1>6, <1>7, <2>4 DEF Run
    <3>2. tables'[family] = WithHook(tables[family], TRUE)
      BY <1>3, <3>1 DEF WithChain, WithHook
    <3>3. WithHook(tables[family], TRUE) = Table(TRUE, Begun(rules, d - 4))
      BY Zenon, <1>f
    <3>4. Table(TRUE, Begun(rules, d - 4)) = after[family]
      <4>1. thereafter = TRUE
        BY <1>2, <1>5a, <2>4
      <4>2. Begun(rules, d - 4) = Begun(rules, (d + 1) - 4)
        BY <1>2, <1>8, <2>4
      <4>q. QED
        BY Zenon, <1>5a, <4>1, <4>2
    <3>5. /\ tables' = [other \in Family |-> tables'[other]]
          /\ \A other \in Family : other # family => tables'[other] = tables[other]
      BY <1>3, <3>1
    <3>6. tables'[family] = after[family]
      BY Zenon, <3>2, <3>3, <3>4
    <3>q. QED
      BY Zenon, <3>5, <3>6
  <2>5. CASE d >= 4
    <3>1. tables' = [tables EXCEPT ![family].chain = Append(Begun(rules, d - 4), rules[d - 3])]
      <4>1. tables[family].chain = Begun(rules, d - 4)
        BY Zenon, <1>f
      <4>q. QED
        BY <1>6, <1>7, <2>5, <4>1 DEF Run, AppendRule
    <3>2. tables'[family] = WithChain(tables[family], Append(Begun(rules, d - 4), rules[d - 3]))
      BY <1>3, <3>1 DEF WithChain, WithHook
    <3>3. WithChain(tables[family], Append(Begun(rules, d - 4), rules[d - 3])) = Table(now, Append(Begun(rules, d - 4), rules[d - 3]))
      BY Zenon, <1>f
    <3>4. Table(now, Append(Begun(rules, d - 4), rules[d - 3])) = after[family]
      <4>1. now = TRUE /\ thereafter = TRUE
        BY <1>2, <1>5a, <2>5
      <4>2. Append(Begun(rules, d - 4), rules[d - 3]) = Begun(rules, (d + 1) - 4)
        BY <1>2, <1>8, <2>5
      <4>q. QED
        BY Zenon, <1>5a, <4>1, <4>2
    <3>5. /\ tables' = [other \in Family |-> tables'[other]]
          /\ \A other \in Family : other # family => tables'[other] = tables[other]
      BY <1>3, <3>1
    <3>6. tables'[family] = after[family]
      BY Zenon, <3>2, <3>3, <3>4
    <3>q. QED
      BY Zenon, <3>5, <3>6
  <2>q. QED
    BY <1>2, <2>1, <2>2, <2>3, <2>4, <2>5
<1>10. tables' = after
  BY <1>3, <1>4, <1>9
<1>q. QED
  BY <1>10 DEF after

\* It holds in the initial state.
LEMMA PolicyInitially == PolicyInit => PolicyInvariant
<1>1. <<>> \in Seq(Entry)
  OBVIOUS
<1>2. EmptyPolicy \in PolicySet
  BY <1>1 DEF EmptyPolicy, PolicySet
<1>q. QED
  BY <1>2 DEF PolicyInit, PolicyInvariant

\* Before the first command nothing has been done.
LEMMA NothingRun ==
    ASSUME NEW p \in PolicySet
    PROVE  TablesAfter(p, 0) = NoRules
<1>1. ASSUME NEW family \in Family
      PROVE  Done(p, family, 0) = 0 /\ Begun(RulesForFamily(p, family), 0 - 4) = <<>>
  BY DoneBounds, BegunMore, RulesType
<1>2. \A family \in Family : /\ (Done(p, family, 0) >= 4) = FALSE
                             /\ Begun(RulesForFamily(p, family), Done(p, family, 0) - 4) = <<>>
  BY <1>1
<1>q. QED
  BY Zenon, <1>2 DEF TablesAfter, NoRules

\* To begin with a policy keeps it.
LEMMA ApplyKeeps == PolicyInvariant /\ ApplyNetworkPolicy => PolicyInvariant'
<1> SUFFICES ASSUME PolicyInvariant, ApplyNetworkPolicy PROVE PolicyInvariant'
  OBVIOUS
<1> DEFINE all == BuildIptablesScript(policy')
<1>1. policy' \in PolicySet
  <2>1. ASSUME NEW n \in Nat, NEW list \in ListsUpTo(n) PROVE list \in Seq(Entry)
    <3>1. PICK k \in 0..n : list \in [1..k -> Entry]
      BY <2>1 DEF ListsUpTo
    <3>q. QED
      BY <3>1
  <2>2. PICK b \in 0..MaxEntries : \E blacklist \in ListsUpTo(b), whitelist \in ListsUpTo(MaxEntries - b) :
             policy' = [blacklist |-> blacklist, whitelist |-> whitelist]
    BY DEF ApplyNetworkPolicy
  <2>3. b \in Nat /\ MaxEntries - b \in Nat
    BY NetworkPolicyAssumption
  <2>q. QED
    BY <2>1, <2>2, <2>3 DEF PolicySet
<1>2. all \in Seq(CommandSet) /\ Len(all) \in Nat
  <2>1. JoinedAs(CommandSet, ScriptForFamily(policy', "iptables"), ScriptForFamily(policy', "ip6tables"), all)
    BY <1>1, ScriptOfPolicy
  <2> HIDE DEF all
  <2>q. QED
    BY <2>1 DEF JoinedAs
<1>3. script' = all /\ tables' = NoRules /\ scriptStep' = "running"
  BY DEF ApplyNetworkPolicy, PolicyInvariant
<1>4. tables' = TablesAfter(policy', 0)
  BY <1>1, <1>3, NothingRun
<1>5. HasRun(0)'
  <2>1. \A i \in 1..Len(script') : script'[i] = all[0 + i]
    BY <1>3
  <2> HIDE DEF all
  <2>2. /\ 0 \in 0..Len(all) /\ script' \in Seq(CommandSet) /\ Len(script') = Len(all) - 0
        /\ \A i \in 1..0 : all[i].rule.readable
    BY <1>2, <1>3
  <2>q. QED
    BY <1>4, <2>1, <2>2 DEF HasRun, all
<1>q. QED
  <2>1. 0 \in 0..Len(all)
    BY <1>2
  <2>q. QED
    BY <1>1, <1>3, <1>5, <2>1 DEF PolicyInvariant

\* One command more.
LEMMA RunKeeps == PolicyInvariant /\ RunCommand => PolicyInvariant'
<1> SUFFICES ASSUME PolicyInvariant, RunCommand PROVE PolicyInvariant'
  OBVIOUS
<1> DEFINE all == BuildIptablesScript(policy)
<1>1. /\ policy \in PolicySet /\ policy' = policy
      /\ scriptStep = "running" /\ scriptStep' = "running"
  BY DEF PolicyInvariant, RunCommand
<1>2. PICK k \in 0..Len(all) : HasRun(k)
  BY <1>1 DEF PolicyInvariant
<1>3. Len(all) \in Nat
  BY <1>1, ScriptOfPolicy DEF JoinedAs
<1> HIDE DEF all
<1>4. /\ script \in Seq(CommandSet) /\ Len(script) = Len(all) - k
      /\ \A i \in 1..Len(script) : script[i] = all[k + i]
      /\ \A i \in 1..k : all[i].rule.readable
      /\ tables = TablesAfter(policy, k)
  BY <1>2 DEF HasRun, all
<1>5. /\ script # <<>> /\ Head(script).rule.readable /\ Run(Head(script)) /\ script' = Tail(script)
  BY DEF RunCommand
<1>6. /\ k \in Nat /\ k < Len(all) /\ k + 1 \in 0..Len(all)
      /\ Head(script) = all[k + 1]
      /\ script' \in Seq(CommandSet) /\ Len(script') = Len(all) - (k + 1)
      /\ \A i \in 1..Len(script') : script'[i] = script[i + 1]
  BY <1>3, <1>4, <1>5
<1>7. \A i \in 1..Len(script') : script'[i] = all[(k + 1) + i]
  <2> SUFFICES ASSUME NEW i \in 1..Len(script') PROVE script'[i] = all[(k + 1) + i]
    OBVIOUS
  <2>1. i + 1 \in 1..Len(script) /\ k + (i + 1) = (k + 1) + i
    BY <1>3, <1>4, <1>6
  <2>2. script[i + 1] = all[k + (i + 1)]
    BY <1>4, <2>1
  <2>q. QED
    BY <1>6, <2>1, <2>2
<1>8. \A i \in 1..(k + 1) : all[i].rule.readable
  <2> SUFFICES ASSUME NEW i \in 1..(k + 1) PROVE all[i].rule.readable
    OBVIOUS
  <2>1. CASE i \in 1..k
    BY Zenon, <1>4, <2>1
  <2>2. CASE i = k + 1
    BY Zenon, <1>5, <1>6, <2>2
  <2>q. QED
    BY <1>6, <2>1, <2>2
<1>9. tables' = TablesAfter(policy, k + 1)
  <2>1. PICK family \in Family : NextOf(policy, family, k)
    BY <1>1, <1>6, NextCommand DEF all
  <2>2. Run(BuildIptablesScript(policy)[k + 1])
    BY <1>5, <1>6 DEF all
  <2>q. QED
    BY Zenon, <1>1, <1>4, <1>6, <2>1, <2>2, TablesGrow
<1>10. HasRun(k + 1)'
  BY Zenon, <1>1, <1>6, <1>7, <1>8, <1>9 DEF HasRun, all
<1>q. QED
  BY Zenon, <1>1, <1>6, <1>10 DEF PolicyInvariant, all

\* The other steps change neither the rules nor what is left of the script, or
\* end with the container.
LEMMA OthersKeep ==
    PolicyInvariant /\ (ScriptFails \/ ScriptEnds \/ NextContainer \/ UNCHANGED policyVars) => PolicyInvariant'
<1>1. ASSUME PolicyInvariant, ScriptFails PROVE PolicyInvariant'
  BY <1>1 DEF PolicyInvariant, ScriptFails
<1>2. ASSUME PolicyInvariant, UNCHANGED policyVars PROVE PolicyInvariant'
  BY <1>2 DEF PolicyInvariant, HasRun, policyVars
<1>3. ASSUME PolicyInvariant, ScriptEnds PROVE PolicyInvariant'
  <2>1. \E k \in 0..Len(BuildIptablesScript(policy)) : HasRun(k)
    BY <1>3 DEF PolicyInvariant, ScriptEnds
  <2>2. policy' = policy /\ script' = script /\ tables' = tables /\ script = <<>> /\ scriptStep' = "applied"
    BY <1>3 DEF ScriptEnds
  <2>3. \E k \in 0..Len(BuildIptablesScript(policy')) : HasRun(k)'
    BY <2>1, <2>2 DEF HasRun
  <2>q. QED
    BY <1>3, <2>2, <2>3 DEF PolicyInvariant
<1>4. ASSUME NextContainer PROVE PolicyInvariant'
  <2>1. <<>> \in Seq(Entry)
    OBVIOUS
  <2>2. policy' \in PolicySet
    BY <1>4, <2>1 DEF NextContainer, EmptyPolicy, PolicySet
  <2>q. QED
    BY <1>4, <2>2 DEF NextContainer, PolicyInvariant
<1>q. QED
  BY <1>1, <1>2, <1>3, <1>4

\* The policy is of addresses, and so many commands of its script have been run.
LEMMA PolicyInvariantHolds == PolicySpec => []PolicyInvariant
<1>1. PolicyInvariant /\ [PolicyNext]_policyVars => PolicyInvariant'
  BY ApplyKeeps, RunKeeps, OthersKeep DEF PolicyNext
<1>q. QED
  BY <1>1, PolicyInitially, PTL DEF PolicySpec

\* iptables has read every entry of a policy whose script has been run to the end.
LEMMA AllReadable ==
    ASSUME NEW p \in PolicySet,
           \A i \in 1..Len(BuildIptablesScript(p)) : BuildIptablesScript(p)[i].rule.readable
    PROVE  /\ \A i \in DOMAIN p.blacklist : p.blacklist[i].readable
           /\ \A i \in DOMAIN p.whitelist : p.whitelist[i].readable
<1> DEFINE four == ScriptForFamily(p, "iptables")
           six == ScriptForFamily(p, "ip6tables")
           all == BuildIptablesScript(p)
<1>1. JoinedAs(CommandSet, four, six, all)
  BY ScriptOfPolicy
<1>2. \A i \in 1..Len(all) : all[i].rule.readable
  OBVIOUS
<1>3. ASSUME NEW family \in Family, NEW i \in 1..Len(ScriptForFamily(p, family))
      PROVE  ScriptForFamily(p, family)[i].rule.readable
  <2> HIDE DEF four, six, all
  <2>1. CASE family = "iptables"
    <3>1. i \in 1..Len(four)
      BY <2>1 DEF four
    <3>2. i \in 1..Len(all) /\ all[i] = four[i]
      BY <1>1, <3>1 DEF JoinedAs
    <3>3. four[i].rule.readable
      BY Zenon, <1>2, <3>2
    <3>q. QED
      BY Zenon, <2>1, <3>3 DEF four
  <2>2. CASE family = "ip6tables"
    <3>1. i \in 1..Len(six)
      BY <2>2 DEF six
    <3>2. Len(four) + i \in 1..Len(all) /\ all[Len(four) + i] = six[i]
      BY <1>1, <3>1 DEF JoinedAs
    <3>3. six[i].rule.readable
      BY Zenon, <1>2, <3>2
    <3>q. QED
      BY Zenon, <2>2, <3>3 DEF six
  <2>q. QED
    BY <2>1, <2>2 DEF Family
<1>4. ASSUME NEW family \in Family, NEW i \in 1..Len(RulesForFamily(p, family))
      PROVE  RulesForFamily(p, family)[i].readable
  <2> DEFINE rules == RulesForFamily(p, family)
             commands == ScriptForFamily(p, family)
  <2>1. FamilyScript(family, rules, commands) /\ rules \in Seq(RuleSet)
    BY ScriptOfFamily, RulesType
  <2>2. i \in 1..Len(rules)
    OBVIOUS
  <2> HIDE DEF rules, commands
  <2>3. rules # <<>> /\ Len(rules) \in Nat
    BY <2>1, <2>2
  <2>4. 4 + i \in 1..Len(commands) /\ commands[4 + i].rule = rules[i]
    BY <2>1, <2>2, <2>3 DEF FamilyScript
  <2>5. commands[4 + i].rule.readable
    BY Zenon, <1>3, <2>4 DEF commands
  <2>q. QED
    BY Zenon, <2>4, <2>5 DEF rules
<1>5. ASSUME NEW family \in Family
      PROVE  /\ \A i \in DOMAIN p.blacklist : p.blacklist[i].family = family => p.blacklist[i].readable
             /\ \A i \in DOMAIN p.whitelist : p.whitelist[i].family = family => p.whitelist[i].readable
  <2>1. CASE RulesForFamily(p, family) = <<>>
    <3>1. p.whitelist = <<>> /\ \A i \in DOMAIN p.blacklist : p.blacklist[i].family # family
      BY <2>1, NoRulesAllow
    <3>q. QED
      BY <3>1
  <2>2. CASE RulesForFamily(p, family) # <<>>
    <3>1. PICK n, first : Shape(p, family, RulesForFamily(p, family), n, first)
      BY <2>2, BlacklistShape, WhitelistShape
    <3>2. \A i \in 1..n : RulesForFamily(p, family)[i].readable
      <4>1. n = Len(RulesForFamily(p, family))
        BY <3>1 DEF Shape
      <4>q. QED
        BY Zenon, <1>4, <4>1
    <3>q. QED
      BY Zenon, <3>1, <3>2 DEF Shape
  <2>q. QED
    BY <2>1, <2>2
<1>6. \A entries \in Seq(Entry) : \A i \in DOMAIN entries : entries[i].family \in Family
  <2> SUFFICES ASSUME NEW entries \in Seq(Entry), NEW i \in DOMAIN entries
               PROVE  entries[i].family \in Family
    OBVIOUS
  <2>1. entries[i] \in Entry
    OBVIOUS
  <2>q. QED
    BY <2>1, EntryFields
<1>7. p.blacklist \in Seq(Entry) /\ p.whitelist \in Seq(Entry)
  BY DEF PolicySet
<1>q. QED
  BY Zenon, <1>5, <1>6, <1>7

\* When ApplyNetworkPolicy succeeds, what leaves the container is what the policy
\* allows, whatever the number of entries, their order and overlaps, and iptables
\* has read each of them (buildIptablesScript, network_policy.go:59-113).
THEOREM PolicyEnforcedHolds == PolicySpec => []PolicyEnforced
<1>1. PolicyInvariant => PolicyEnforced
  <2> SUFFICES ASSUME PolicyInvariant, scriptStep = "applied" PROVE PolicyEnforced
    BY DEF PolicyEnforced
  <2> DEFINE all == BuildIptablesScript(policy)
  <2>1. policy \in PolicySet /\ script = <<>>
    BY DEF PolicyInvariant
  <2>2. PICK k \in 0..Len(all) : HasRun(k)
    BY DEF PolicyInvariant
  <2>3. k = Len(all) /\ k \in Nat
    <3>1. Len(all) \in Nat
      BY <2>1, ScriptOfPolicy DEF JoinedAs
    <3>2. Len(script) = Len(all) - k
      BY <2>2 DEF HasRun
    <3> HIDE DEF all
    <3>q. QED
      BY <2>1, <3>1, <3>2
  <2>4. /\ \A i \in 1..Len(all) : all[i].rule.readable
        /\ tables = TablesAfter(policy, Len(all))
    BY Zenon, <2>2, <2>3 DEF HasRun
  <2>5. ASSUME NEW packet \in Packet PROVE Passes(tables, packet) <=> Allowed(policy, packet)
    <3>1. Allowed(policy, packet) => Passes(TablesAfter(policy, Len(all)), packet)
      <4>1. Len(all) \in 0..Len(all)
        <5> HIDE DEF all
        <5>q. QED
          BY <2>3
      <4>q. QED
        BY <2>1, <4>1, PassesLess
    <3>2. Passes(TablesAfter(policy, Len(all)), packet) => Allowed(policy, packet)
      BY <2>1, PassesLess
    <3>q. QED
      BY Zenon, <2>4, <3>1, <3>2
  <2>6. /\ \A i \in DOMAIN policy.blacklist : policy.blacklist[i].readable
        /\ \A i \in DOMAIN policy.whitelist : policy.whitelist[i].readable
    BY Zenon, <2>1, <2>4, AllReadable
  <2>q. QED
    BY Zenon, <2>5, <2>6 DEF PolicyEnforced
<1>q. QED
  BY <1>1, PolicyInvariantHolds, PTL

\* While the script runs beside the container's processes, none of its commands
\* lets anything pass that the one before did not, and none stops what the policy
\* allows: the chain is hooked before it has rules, and the blacklist comes first
\* (buildIptablesScript and buildIptablesRulesForFamily, network_policy.go:59-113).
THEOREM OnlyTightensHolds == PolicySpec => OnlyTightens
<1> DEFINE Tightens ==
             scriptStep = "running" =>
                \A packet \in Packet :
                    /\ Passes(tables', packet) => Passes(tables, packet)
                    /\ Allowed(policy, packet) => Passes(tables', packet)
<1>1. ASSUME PolicyInvariant, PolicyInvariant', [PolicyNext]_policyVars PROVE [Tightens]_policyVars
  <2> SUFFICES ASSUME scriptStep = "running", policyVars' # policyVars,
                      NEW packet \in Packet
               PROVE  /\ Passes(tables', packet) => Passes(tables, packet)
                      /\ Allowed(policy, packet) => Passes(tables', packet)
    OBVIOUS
  <2> DEFINE all == BuildIptablesScript(policy)
  <2>1. policy \in PolicySet
    BY <1>1 DEF PolicyInvariant
  <2>2. PICK k \in 0..Len(all) : HasRun(k)
    BY <1>1 DEF PolicyInvariant
  <2>3. tables = TablesAfter(policy, k)
    BY Zenon, <2>2 DEF HasRun
  <2>4. CASE RunCommand
    <3>1. Len(all) \in Nat
      BY <2>1, ScriptOfPolicy DEF JoinedAs
    <3>2. /\ script \in Seq(CommandSet) /\ Len(script) = Len(all) - k
          /\ \A i \in 1..Len(script) : script[i] = all[k + i]
      BY Zenon, <2>2 DEF HasRun
    <3>3. script # <<>> /\ Run(Head(script))
      BY <2>4 DEF RunCommand
    <3> HIDE DEF all
    <3>4. /\ k \in Nat /\ k < Len(all) /\ k + 1 \in 0..Len(all)
          /\ Head(script) = all[k + 1]
      BY <3>1, <3>2, <3>3
    <3>5. tables' = TablesAfter(policy, k + 1)
      <4>1. PICK family \in Family : NextOf(policy, family, k)
        BY <2>1, <3>4, NextCommand DEF all
      <4>2. Run(BuildIptablesScript(policy)[k + 1])
        BY <3>3, <3>4 DEF all
      <4>q. QED
        BY Zenon, <2>1, <2>3, <3>4, <4>1, <4>2, TablesGrow
    <3>6. /\ Passes(TablesAfter(policy, k + 1), packet) => Passes(TablesAfter(policy, k), packet)
          /\ Allowed(policy, packet) => Passes(TablesAfter(policy, k + 1), packet)
      BY Zenon, <2>1, <3>4, PassesLess DEF all
    <3>q. QED
      BY Zenon, <2>3, <3>5, <3>6
  <2>5. CASE ScriptFails \/ ScriptEnds
    <3>1. tables' = tables
      BY <2>5 DEF ScriptFails, ScriptEnds
    <3>2. Allowed(policy, packet) => Passes(TablesAfter(policy, k), packet)
      BY Zenon, <2>1, PassesLess
    <3>q. QED
      BY Zenon, <2>3, <3>1, <3>2
  <2>6. ~ApplyNetworkPolicy /\ ~NextContainer
    BY DEF ApplyNetworkPolicy, NextContainer
  <2>q. QED
    BY <1>1, <2>4, <2>5, <2>6 DEF PolicyNext
<1>2. PolicyInvariant /\ PolicyInvariant' /\ [PolicyNext]_policyVars => [Tightens]_policyVars
  BY <1>1
<1>q. QED
  BY <1>2, PolicyInvariantHolds, PTL DEF PolicySpec, OnlyTightens

-----------------------------------------------------------------------------
(***************************************************************************)
(* Paths: what they lead to has only names in it.                          *)
(***************************************************************************)

\* What stands between two slashes, and what names something there.
Part == STRING \cup {"workspace", "chat"}
Named == Part \ {"", ".", ".."}

\* One more part of a path.
Onto(path, part) ==
    IF part \in {"", "."} THEN path
    ELSE IF part = ".." THEN SubSeq(path, 1, Len(path) - 1)
    ELSE Append(path, part)

\* What PlaceOf computes, for the first n parts of a path.
Walk(raw, n, place) ==
    place = [i \in 0..n |-> IF i = 0 THEN <<>> ELSE Onto(place[i - 1], raw[i])]

\* It can be computed for one part more.
LEMMA WalkFurther ==
    ASSUME NEW raw, NEW n \in Nat, NEW place, Walk(raw, n, place)
    PROVE  \E more : Walk(raw, n + 1, more)
<1> DEFINE last == Onto(place[n], raw[n + 1])
           more == [i \in 0..(n + 1) |-> IF i = n + 1 THEN last ELSE place[i]]
<1>1. ASSUME NEW i \in 0..(n + 1)
      PROVE  more[i] = IF i = 0 THEN <<>> ELSE Onto(more[i - 1], raw[i])
  <2> HIDE DEF last
  <2>1. CASE i = n + 1
    <3>1. i # 0 /\ i - 1 = n /\ n \in 0..(n + 1) /\ n # n + 1
      BY <2>1
    <3>2. more[i] = last /\ more[i - 1] = place[n]
      BY <2>1, <3>1
    <3>q. QED
      BY <2>1, <3>1, <3>2 DEF last
  <2>2. CASE i \in 1..n
    <3>1. i # 0 /\ i # n + 1 /\ i - 1 # n + 1 /\ i - 1 \in 0..(n + 1) /\ i \in 0..n
      BY <2>2
    <3>2. more[i] = place[i] /\ more[i - 1] = place[i - 1]
      BY <3>1
    <3>3. place[i] = Onto(place[i - 1], raw[i])
      BY <3>1 DEF Walk
    <3>q. QED
      BY <3>1, <3>2, <3>3
  <2>3. CASE i = 0
    <3>1. i # n + 1 /\ i \in 0..n
      BY <2>3
    <3>2. more[i] = place[i] /\ place[i] = <<>>
      BY <2>3, <3>1 DEF Walk
    <3>q. QED
      BY <2>3, <3>2
  <2>q. QED
    BY <2>1, <2>2, <2>3
<1>2. more = [i \in 0..(n + 1) |-> more[i]]
  OBVIOUS
<1>3. [i \in 0..(n + 1) |-> more[i]] =
          [i \in 0..(n + 1) |-> IF i = 0 THEN <<>> ELSE Onto(more[i - 1], raw[i])]
  <2> HIDE DEF more
  <2>q. QED
    BY <1>1
<1>q. QED
  <2> HIDE DEF more
  <2>1. Walk(raw, n + 1, more)
    BY <1>2, <1>3 DEF Walk
  <2>q. QED
    BY <2>1

\* So PlaceOf has its value.
LEMMA PlaceWalk ==
    ASSUME NEW raw \in Seq(Part)
    PROVE  \E place : Walk(raw, Len(raw), place) /\ PlaceOf(raw) = place[Len(raw)]
<1> DEFINE T == {n \in Nat : \E place : Walk(raw, n, place)}
<1>1. 0 \in T
  <2>1. Walk(raw, 0, [i \in 0..0 |-> <<>>])
    BY DEF Walk
  <2>q. QED
    BY <2>1
<1>2. ASSUME NEW n \in T, n \in Nat PROVE n + 1 \in T
  BY <1>2, WalkFurther
<1>3. Nat \subseteq T
  <2> HIDE DEF T
  <2>q. QED
    BY <1>1, <1>2, NumbersInduction
<1>4. \E place : Walk(raw, Len(raw), place)
  BY <1>3
<1>q. QED
  BY Zenon, <1>4 DEF PlaceOf, Walk, Onto

\* One more part leaves only names, and is added if it is one.
LEMMA OntoNamed ==
    ASSUME NEW path \in Seq(Named), NEW part \in Part
    PROVE  /\ Onto(path, part) \in Seq(Named)
           /\ part \in Named => Onto(path, part) = Append(path, part)
<1>1. CASE part \in {"", "."}
  BY <1>1 DEF Onto, Named
<1>2. CASE part = ".."
  <2>1. SubSeq(path, 1, Len(path) - 1) \in Seq(Named)
    <3>1. Len(path) - 1 \in Int /\ \A i \in 1..(Len(path) - 1) : path[i] \in Named
      BY ElementOfSeq
    <3>q. QED
      BY <3>1, SubSeqProperties
  <2>q. QED
    BY <1>2, <2>1 DEF Onto, Named
<1>3. CASE part \in Named
  BY <1>3, AppendProperties DEF Onto, Named
<1>q. QED
  BY <1>1, <1>2, <1>3 DEF Named

\* What a path leads to has only names in it.
LEMMA PlaceNamed ==
    ASSUME NEW raw \in Seq(Part)
    PROVE  PlaceOf(raw) \in Seq(Named)
<1>1. PICK place : Walk(raw, Len(raw), place) /\ PlaceOf(raw) = place[Len(raw)]
  BY PlaceWalk
<1> DEFINE T == {n \in Nat : n <= Len(raw) => place[n] \in Seq(Named)}
<1>2. 0 \in T
  BY <1>1 DEF Walk
<1>3. ASSUME NEW n \in T, n \in Nat PROVE n + 1 \in T
  <2>1. CASE n + 1 <= Len(raw)
    <3>1. n + 1 \in 0..Len(raw) /\ n + 1 # 0 /\ (n + 1) - 1 = n /\ n + 1 \in 1..Len(raw)
          /\ place[n] \in Seq(Named)
      BY <1>3, <2>1
    <3>2. place[n + 1] = Onto(place[n], raw[n + 1])
      BY <1>1, <3>1 DEF Walk
    <3>3. raw[n + 1] \in Part
      BY <3>1, ElementOfSeq
    <3>4. place[n + 1] \in Seq(Named)
      BY <3>1, <3>2, <3>3, OntoNamed
    <3>q. QED
      BY <1>3, <3>4
  <2>q. QED
    BY <1>3, <2>1
<1>4. Nat \subseteq T
  <2> HIDE DEF T
  <2>q. QED
    BY <1>2, <1>3, NumbersInduction
<1>q. QED
  BY <1>1, <1>4

\* A path that has only names in it leads where it says.
LEMMA PlaceOfNamed ==
    ASSUME NEW path \in Seq(Named)
    PROVE  PlaceOf(path) = path
<1>0. path \in Seq(Part)
  BY SeqMonotonic DEF Named
<1>1. PICK place : Walk(path, Len(path), place) /\ PlaceOf(path) = place[Len(path)]
  BY <1>0, PlaceWalk
<1> DEFINE Follows(n) == /\ place[n] \in Seq(Named) /\ Len(place[n]) = n
                         /\ \A i \in 1..n : place[n][i] = path[i]
           T == {n \in Nat : n <= Len(path) => Follows(n)}
<1>2. 0 \in T
  <2>1. place[0] = <<>>
    BY <1>1 DEF Walk
  <2>2. Follows(0)
    BY <2>1
  <2>q. QED
    BY <2>2
<1>3. ASSUME NEW n \in T, n \in Nat PROVE n + 1 \in T
  <2>1. CASE n + 1 <= Len(path)
    <3>1. n + 1 \in 0..Len(path) /\ n + 1 # 0 /\ (n + 1) - 1 = n /\ n + 1 \in 1..Len(path)
          /\ Follows(n)
      BY <1>3, <2>1
    <3>2. place[n + 1] = Onto(place[n], path[n + 1])
      BY <1>1, <3>1 DEF Walk
    <3>3. path[n + 1] \in Named /\ path[n + 1] \in Part
      BY <3>1, ElementOfSeq DEF Named
    <3>4. place[n + 1] = Append(place[n], path[n + 1])
      BY <3>1, <3>2, <3>3, OntoNamed
    <3>5. Follows(n + 1)
      BY <3>1, <3>3, <3>4, AppendProperties
    <3>q. QED
      BY <1>3, <3>5
  <2>q. QED
    BY <1>3, <2>1
<1>4. Nat \subseteq T
  <2> HIDE DEF T
  <2>q. QED
    BY <1>2, <1>3, NumbersInduction
<1>5. Follows(Len(path))
  BY <1>4
<1>q. QED
  BY <1>1, <1>5, SeqEqual

\* A prefix has the same parts, as far as it goes.
LEMMA PrefixParts ==
    ASSUME NEW s \in Seq(Named), NEW t \in Seq(Named)
    PROVE  PathContains(s, t) <=> Len(s) <= Len(t) /\ \A i \in 1..Len(s) : s[i] = t[i]
<1>1. SubSeq(s, 1, Len(s)) = s
  BY SubSeqFull
<1>2. ASSUME Len(s) <= Len(t)
      PROVE  SubSeq(t, 1, Len(s)) = s <=> \A i \in 1..Len(s) : s[i] = t[i]
  <2>0. Len(s) \in Nat /\ 1 \in Int /\ Len(s) \in Int /\ Len(t) \in Nat
    OBVIOUS
  <2>1. \A i \in 1..Len(s) : t[i] \in Named
    BY <1>2, <2>0, ElementOfSeq
  <2>2. /\ SubSeq(t, 1, Len(s)) \in Seq(Named)
        /\ Len(SubSeq(t, 1, Len(s))) = IF 1 <= Len(s) THEN Len(s) - 1 + 1 ELSE 0
        /\ \A i \in 1..(Len(s) - 1 + 1) : SubSeq(t, 1, Len(s))[i] = t[1 + i - 1]
    BY <2>0, <2>1, SubSeqProperties
  <2>3. Len(SubSeq(t, 1, Len(s))) = Len(s) /\ \A i \in 1..Len(s) : SubSeq(t, 1, Len(s))[i] = t[i]
    BY <2>0, <2>2
  <2>q. QED
    BY <2>2, <2>3, SeqEqual
<1>q. QED
  BY <1>1, <1>2 DEF PathContains, IsPrefix

\* Of two directories above the same path, one contains the other.
LEMMA PrefixesOverlap ==
    ASSUME NEW s \in Seq(Named), NEW t \in Seq(Named), NEW path \in Seq(Named),
           PathContains(s, path), PathContains(t, path)
    PROVE  Overlaps(s, t)
<1>0. Len(s) \in Nat /\ Len(t) \in Nat /\ Len(path) \in Nat
  OBVIOUS
<1>1. /\ Len(s) <= Len(path) /\ \A i \in 1..Len(s) : s[i] = path[i]
      /\ Len(t) <= Len(path) /\ \A i \in 1..Len(t) : t[i] = path[i]
  BY PrefixParts
<1>2. CASE Len(s) <= Len(t)
  <2>1. \A i \in 1..Len(s) : s[i] = t[i]
    BY <1>0, <1>1, <1>2
  <2>q. QED
    BY <1>2, <2>1, PrefixParts DEF Overlaps
<1>3. CASE Len(t) <= Len(s)
  <2>1. \A i \in 1..Len(t) : t[i] = s[i]
    BY <1>0, <1>1, <1>3
  <2>q. QED
    BY <1>3, <2>1, PrefixParts DEF Overlaps
<1>q. QED
  BY <1>0, <1>2, <1>3

\* A path of one name has nothing above it but itself and the root.
LEMMA AboveTop ==
    ASSUME NEW s \in Seq(Named), NEW top \in Seq(Named), Len(top) = 1, s # <<>>,
           PathContains(s, top)
    PROVE  s = top
<1>1. Len(s) \in Nat /\ Len(s) # 0
  BY EmptySeq
<1>2. Len(s) <= 1 /\ \A i \in 1..Len(s) : s[i] = top[i]
  BY PrefixParts
<1>q. QED
  BY <1>1, <1>2, SeqEqual

\* What lies properly below another path is longer.
LEMMA BelowIsLonger ==
    ASSUME NEW s \in Seq(Named), NEW t \in Seq(Named), PathContains(s, t), s # t
    PROVE  Len(s) < Len(t)
<1>1. Len(s) \in Nat /\ Len(t) \in Nat /\ Len(s) <= Len(t) /\ \A i \in 1..Len(s) : s[i] = t[i]
  BY PrefixParts
<1>2. Len(s) # Len(t)
  BY <1>1, SeqEqual
<1>q. QED
  BY <1>1, <1>2

\* The workspace and the chat are two places of one name each.
LEMMA TopPlaces ==
    /\ Workspace \in Seq(Named) /\ Len(Workspace) = 1 /\ Workspace # <<>>
    /\ Chat \in Seq(Named) /\ Len(Chat) = 1 /\ Chat # <<>>
    /\ Workspace # Chat
<1>1. "workspace" \in Named /\ "chat" \in Named /\ "workspace" # "chat"
  BY DEF Named, Part
<1>2. Workspace[1] = "workspace" /\ Chat[1] = "chat"
  BY DEF Workspace, Chat
<1>q. QED
  BY <1>1, <1>2 DEF Workspace, Chat

-----------------------------------------------------------------------------
(***************************************************************************)
(* Sequences of mounts.                                                    *)
(***************************************************************************)

MountPlace == Seq(Named) \ {<<>>}

Mounted == [of : {"environment", "request", "hub", "mask"}, destination : MountPlace]

\* No two of them are at one place.
Apart(s) == \A i, j \in DOMAIN s : s[i].destination = s[j].destination => i = j

\* A request, whose paths are as they were written.
MountRequest ==
    [environment : Seq(RawPath), mounts : Seq(RawPath), masks : Seq(RawPath),
     protocol : Protocol, label : Protocol, cwd : RawPath]

\* Every path leads to a place.
LEMMA CleanPlace ==
    ASSUME NEW raw \in RawPath
    PROVE  Clean(raw) \in MountPlace /\ PlaceOf(raw) = Clean(raw)
<1>1. raw \in Seq(STRING) /\ PlaceOf(raw) # <<>>
  BY SessionMountsAssumption
<1>2. raw \in Seq(Part)
  BY <1>1, SeqMonotonic DEF Part
<1>q. QED
  BY <1>1, <1>2, PlaceNamed DEF Clean, MountPlace

\* A place leads to itself.
LEMMA PlaceStays ==
    ASSUME NEW place \in MountPlace
    PROVE  PlaceOf(place) = place
BY PlaceOfNamed DEF MountPlace

\* An element of a sequence of mounts.
LEMMA MountedAt ==
    ASSUME NEW s \in Seq(Mounted), NEW i \in DOMAIN s
    PROVE  /\ s[i] \in Mounted /\ s[i].destination \in MountPlace /\ s[i].destination \in Seq(Named)
           /\ s[i].destination # <<>> /\ i \in 1..Len(s) /\ i \in Nat
<1>1. i \in 1..Len(s) /\ s[i] \in Mounted
  BY ElementOfSeq
<1>q. QED
  BY <1>1 DEF Mounted, MountPlace

\* One sequence of mounts after another.
LEMMA MountsJoined ==
    ASSUME NEW s \in Seq(Mounted), NEW t \in Seq(Mounted), Apart(s), Apart(t),
           \A i \in DOMAIN s, j \in DOMAIN t : s[i].destination # t[j].destination
    PROVE  /\ s \o t \in Seq(Mounted) /\ Apart(s \o t)
           /\ Range(s \o t) = Range(s) \cup Range(t)
           /\ s # <<>> => s \o t # <<>> /\ (s \o t)[1] = s[1]
<1> DEFINE u == s \o t
           m == Len(s)
           n == Len(t)
<1>1. m \in Nat /\ n \in Nat /\ DOMAIN s = 1..m /\ DOMAIN t = 1..n
  OBVIOUS
<1>2. u \in Seq(Mounted) /\ Len(u) = m + n /\ DOMAIN u = 1..(m + n)
  BY ConcatProperties
<1>3. \A i \in 1..(m + n) : u[i] = IF i <= m THEN s[i] ELSE t[i - m]
  BY ConcatProperties
<1> HIDE DEF u, m, n
<1>4. \A i \in 1..m : i \in 1..(m + n) /\ u[i] = s[i]
  BY <1>1, <1>3
<1>5. \A j \in 1..n : j + m \in 1..(m + n) /\ u[j + m] = t[j]
  BY <1>1, <1>3
<1>6. \A k \in 1..(m + n) : (k \in 1..m /\ u[k] = s[k])
                            \/ (k - m \in 1..n /\ u[k] = t[k - m])
  BY <1>1, <1>3
<1>7. Apart(u)
  <2> SUFFICES ASSUME NEW k \in 1..(m + n), NEW l \in 1..(m + n),
                      u[k].destination = u[l].destination
               PROVE  k = l
    BY <1>2 DEF Apart
  <2>1. CASE k \in 1..m /\ u[k] = s[k] /\ l \in 1..m /\ u[l] = s[l]
    BY <1>1, <2>1 DEF Apart
  <2>2. CASE k - m \in 1..n /\ u[k] = t[k - m] /\ l - m \in 1..n /\ u[l] = t[l - m]
    <3>1. k - m = l - m
      BY <1>1, <2>2 DEF Apart
    <3>q. QED
      BY <1>1, <3>1
  <2>q. QED
    BY <1>1, <1>6, <2>1, <2>2
<1>8. Range(u) = Range(s) \cup Range(t)
  <2>1. Range(u) \subseteq Range(s) \cup Range(t)
    BY <1>1, <1>2, <1>6 DEF Range
  <2>2. Range(s) \subseteq Range(u)
    BY <1>1, <1>2, <1>4 DEF Range
  <2>3. Range(t) \subseteq Range(u)
    BY <1>1, <1>2, <1>5 DEF Range
  <2>q. QED
    BY <2>1, <2>2, <2>3
<1>9. s # <<>> => u # <<>> /\ u[1] = s[1]
  <2> SUFFICES ASSUME s # <<>> PROVE u # <<>> /\ u[1] = s[1]
    OBVIOUS
  <2>1. m \in Nat \ {0}
    BY EmptySeq DEF m
  <2>2. 1 \in 1..m /\ m + n # 0
    BY <1>1, <2>1
  <2>q. QED
    BY <1>2, <1>4, <2>2
<1>q. QED
  BY <1>2, <1>7, <1>8, <1>9 DEF u

\* What Selected leaves is what is wanted.
LEMMA SelectedRange ==
    ASSUME NEW s \in Seq(Mounted), NEW wanted
    PROVE  /\ Selected(s, wanted) \in Seq(Mounted)
           /\ Range(Selected(s, wanted)) = Range(s) \cap wanted
<1> DEFINE left == Selected(s, wanted)
<1>1. Leaves(Mounted, s, wanted, left)
  BY SelectedElements
<1>2. left \in Seq(Mounted \cap wanted)
  BY <1>1 DEF Leaves
<1> HIDE DEF left
<1>3. left \in Seq(Mounted)
  BY <1>2, SeqMonotonic
<1>4. Range(left) = Range(s) \cap wanted
  BY <1>1 DEF Leaves, Range
<1>q. QED
  BY <1>3, <1>4 DEF left

\* It leaves mounts apart.
LEMMA SelectedApart ==
    ASSUME NEW wanted, NEW s \in Seq(Mounted), Apart(s)
    PROVE  Apart(Selected(s, wanted))
<1> DEFINE T == {n \in Nat : \A t \in Seq(Mounted) :
                     Len(t) = n /\ Apart(t) => Apart(Selected(t, wanted))}
<1>1. 0 \in T
  <2>1. \A t \in Seq(Mounted) : Len(t) = 0 => t = <<>>
    OBVIOUS
  <2>2. Apart(Selected(<<>>, wanted))
    BY SelectedEmpty DEF Apart
  <2>q. QED
    BY <2>1, <2>2
<1>2. ASSUME NEW n \in T, n \in Nat PROVE n + 1 \in T
  <2>1. ASSUME NEW t \in Seq(Mounted), Len(t) = n + 1, Apart(t)
        PROVE  Apart(Selected(t, wanted))
    <3>0. t # <<>>
      BY <1>2, <2>1
    <3>1. PICK front \in Seq(Mounted), e \in Mounted : Len(front) = n /\ t = Append(front, e)
      BY <1>2, <2>1, <3>0, HasLast
    <3>2. /\ DOMAIN front = 1..n /\ DOMAIN t = 1..(n + 1) /\ t[n + 1] = e
          /\ \A i \in 1..n : i \in 1..(n + 1) /\ i # n + 1 /\ t[i] = front[i]
          /\ n + 1 \in 1..(n + 1)
      BY <1>2, <2>1, <3>1, AppendProperties
    <3>3. Apart(front) /\ \A i \in DOMAIN front : front[i].destination # e.destination
      BY <2>1, <3>2 DEF Apart
    <3> DEFINE left == Selected(front, wanted)
               m == Len(left)
    <3>4. Apart(left)
      BY <1>2, <3>1, <3>3
    <3>5. Leaves(Mounted, front, wanted, left) /\ left \in Seq(Mounted)
      BY SelectedElements, SelectedRange
    <3>6. \A k \in DOMAIN left : left[k].destination # e.destination
      BY <3>3, <3>5 DEF Leaves
    <3>7. Selected(t, wanted) = IF e \in wanted THEN Append(left, e) ELSE left
      BY <3>1, SelectedAppend
    <3> HIDE DEF left
    <3>8. /\ m \in Nat /\ DOMAIN left = 1..m /\ DOMAIN Append(left, e) = 1..(m + 1)
          /\ Append(left, e)[m + 1] = e
          /\ \A k \in 1..m : Append(left, e)[k] = left[k]
          /\ \A k \in 1..(m + 1) : k \in 1..m \/ k = m + 1
      BY <3>5, AppendProperties
    <3>9. Apart(Append(left, e))
      <4> HIDE DEF m
      <4>q. QED
        BY <3>4, <3>6, <3>8 DEF Apart
    <3>q. QED
      BY <3>4, <3>7, <3>9
  <2>q. QED
    BY <1>2, <2>1
<1>3. Nat \subseteq T
  <2> HIDE DEF T
  <2>q. QED
    BY <1>1, <1>2, NumbersInduction
<1>q. QED
  BY <1>3

-----------------------------------------------------------------------------
(***************************************************************************)
(* What is made of an accepted request.                                    *)
(***************************************************************************)

\* Mounts at paths as they were written, which all lead to places.
AtPaths(of, paths) == [i \in DOMAIN paths |-> Mount(of, Clean(paths[i]))]

\* Each is a mount at the place its path leads to.
LEMMA AtPathsMounted ==
    ASSUME NEW of \in {"environment", "request", "hub", "mask"}, NEW paths \in Seq(RawPath)
    PROVE  /\ AtPaths(of, paths) \in Seq(Mounted)
           /\ DOMAIN AtPaths(of, paths) = DOMAIN paths
           /\ \A i \in DOMAIN paths : /\ AtPaths(of, paths)[i].of = of
                                      /\ AtPaths(of, paths)[i].destination = Clean(paths[i])
<1> DEFINE n == Len(paths)
           s == AtPaths(of, paths)
<1>1. n \in Nat /\ DOMAIN paths = 1..n
  OBVIOUS
<1>2. \A i \in 1..n : paths[i] \in RawPath
  BY ElementOfSeq
<1>3. \A i \in 1..n : Clean(paths[i]) \in MountPlace
  BY <1>2, CleanPlace
<1> HIDE DEF n
<1>4. \A i \in 1..n : Mount(of, Clean(paths[i])) \in Mounted
  BY <1>3 DEF Mount, Mounted
<1>5. s = [i \in 1..n |-> Mount(of, Clean(paths[i]))]
  BY <1>1 DEF AtPaths
<1>6. s \in [1..n -> Mounted]
  BY <1>4, <1>5
<1>7. s \in Seq(Mounted) /\ DOMAIN s = 1..n
  BY <1>1, <1>6
<1>8. \A i \in 1..n : s[i].of = of /\ s[i].destination = Clean(paths[i])
  BY <1>5 DEF Mount
<1>q. QED
  BY <1>1, <1>7, <1>8

\* Paths that lead to different places give mounts that are apart.
LEMMA AtPathsApart ==
    ASSUME NEW of \in {"environment", "request", "hub", "mask"}, NEW paths \in Seq(RawPath),
           Distinct(Cleaned(paths))
    PROVE  Apart(AtPaths(of, paths))
<1>1. \A i, j \in DOMAIN paths : Clean(paths[i]) = Clean(paths[j]) => i = j
  BY DEF Distinct, Cleaned
<1>q. QED
  BY <1>1, AtPathsMounted DEF Apart

\* Of what is distinct together, each part is distinct, and the parts have nothing in common.
LEMMA DistinctParts ==
    ASSUME NEW p \in Seq(RawPath), NEW q \in Seq(RawPath), Distinct(Cleaned(p) \o Cleaned(q))
    PROVE  /\ Distinct(Cleaned(p)) /\ Distinct(Cleaned(q))
           /\ \A i \in DOMAIN p, j \in DOMAIN q : Clean(p[i]) # Clean(q[j])
<1> DEFINE m == Len(p)
           n == Len(q)
           s == Cleaned(p)
           t == Cleaned(q)
           u == s \o t
<1>1. m \in Nat /\ n \in Nat /\ DOMAIN p = 1..m /\ DOMAIN q = 1..n
  OBVIOUS
<1>2. /\ \A i \in 1..m : Clean(p[i]) \in MountPlace
      /\ \A i \in 1..n : Clean(q[i]) \in MountPlace
  BY CleanPlace, ElementOfSeq
<1> HIDE DEF m, n
<1>3. /\ s \in [1..m -> MountPlace] /\ t \in [1..n -> MountPlace]
      /\ \A i \in 1..m : s[i] = Clean(p[i])
      /\ \A i \in 1..n : t[i] = Clean(q[i])
  BY <1>1, <1>2 DEF Cleaned
<1> HIDE DEF s, t
<1>4. s \in Seq(MountPlace) /\ t \in Seq(MountPlace) /\ Len(s) = m /\ Len(t) = n
      /\ DOMAIN s = 1..m /\ DOMAIN t = 1..n
  <2>1. s \in Seq(MountPlace) /\ DOMAIN s = 1..m /\ Len(s) = m
    BY <1>1, <1>3
  <2>2. t \in Seq(MountPlace) /\ DOMAIN t = 1..n /\ Len(t) = n
    BY <1>1, <1>3
  <2>q. QED
    BY <2>1, <2>2
<1>5. /\ DOMAIN u = 1..(m + n)
      /\ \A i \in 1..(m + n) : u[i] = IF i <= m THEN s[i] ELSE t[i - m]
  <2>1. /\ u \in Seq(MountPlace) /\ Len(u) = Len(s) + Len(t)
        /\ \A i \in 1..(Len(s) + Len(t)) : u[i] = IF i <= Len(s) THEN s[i] ELSE t[i - Len(s)]
    BY <1>4, ConcatProperties
  <2>q. QED
    BY <1>4, <2>1
<1>6. Distinct(u)
  BY DEF s, t
<1> HIDE DEF u
<1>7. \A i \in 1..m : i \in 1..(m + n) /\ u[i] = s[i]
  BY <1>1, <1>5
<1>8. \A j \in 1..n : j + m \in 1..(m + n) /\ u[j + m] = t[j] /\ \A i \in 1..m : i # j + m
  BY <1>1, <1>5
<1>9. \A i, j \in 1..(m + n) : u[i] = u[j] => i = j
  BY <1>5, <1>6 DEF Distinct
<1>10. \A i, j \in 1..m : s[i] = s[j] => i = j
  BY <1>7, <1>9
<1>11. \A i, j \in 1..n : t[i] = t[j] => i = j
  <2> SUFFICES ASSUME NEW i \in 1..n, NEW j \in 1..n, t[i] = t[j] PROVE i = j
    OBVIOUS
  <2>1. i + m = j + m
    BY <1>8, <1>9
  <2>q. QED
    BY <1>1, <2>1
<1>12. \A i \in 1..m, j \in 1..n : s[i] # t[j]
  BY <1>7, <1>8, <1>9
<1>q. QED
  BY <1>1, <1>3, <1>4, <1>10, <1>11, <1>12 DEF Distinct, s, t

\* The mounts of an accepted request: at most one at each place, one at the
\* workspace, and that one is not the environment's.
MergedSound(merged) ==
    /\ merged \in Seq(Mounted) /\ Apart(merged)
    /\ \E i \in DOMAIN merged : merged[i].destination = Workspace
    /\ \A i \in DOMAIN merged :
          /\ merged[i].of \in {"environment", "request", "hub"}
          /\ merged[i].of = "hub" => merged[i].destination = Workspace
          /\ merged[i].of = "environment" => merged[i].destination # Workspace

\* What MountsAcceptable lets through is merged into such mounts.
LEMMA MergedIsSound ==
    ASSUME NEW r \in MountRequest, MountsAcceptable(r)
    PROVE  MergedSound(BuildSessionMounts(r))
<1> DEFINE e == AtPaths("environment", r.environment)
           q == AtPaths("request", r.mounts)
           both == e \o q
           hub == Mount("hub", Workspace)
<1>1. r.environment \in Seq(RawPath) /\ r.mounts \in Seq(RawPath)
  BY DEF MountRequest
<1>2. /\ \A i \in DOMAIN r.environment : Clean(r.environment[i]) # Workspace
      /\ Distinct(Cleaned(r.environment) \o Cleaned(r.mounts))
  BY DEF MountsAcceptable, Cleaned
<1>3. /\ Distinct(Cleaned(r.environment)) /\ Distinct(Cleaned(r.mounts))
      /\ \A i \in DOMAIN r.environment, j \in DOMAIN r.mounts :
            Clean(r.environment[i]) # Clean(r.mounts[j])
  BY <1>1, <1>2, DistinctParts
<1>4. /\ e \in Seq(Mounted) /\ Apart(e) /\ DOMAIN e = DOMAIN r.environment
      /\ \A i \in DOMAIN e : e[i].of = "environment" /\ e[i].destination = Clean(r.environment[i])
  BY <1>1, <1>3, AtPathsMounted, AtPathsApart
<1>5. /\ q \in Seq(Mounted) /\ Apart(q) /\ DOMAIN q = DOMAIN r.mounts
      /\ \A i \in DOMAIN q : q[i].of = "request" /\ q[i].destination = Clean(r.mounts[i])
  BY <1>1, <1>3, AtPathsMounted, AtPathsApart
<1>6. BuildSessionMounts(r) = IF Workspace \in Destinations(q) THEN both ELSE Append(both, hub)
  BY DEF BuildSessionMounts, AtPaths
<1> HIDE DEF e, q
<1>7. both \in Seq(Mounted) /\ Apart(both) /\ Range(both) = Range(e) \cup Range(q)
  BY <1>3, <1>4, <1>5, MountsJoined
<1>8. \A i \in DOMAIN both : /\ both[i].of \in {"environment", "request"}
                             /\ both[i].of = "environment" => both[i].destination # Workspace
                             /\ Workspace \notin Destinations(q) => both[i].destination # Workspace
  <2> SUFFICES ASSUME NEW i \in DOMAIN both
               PROVE  /\ both[i].of \in {"environment", "request"}
                      /\ both[i].of = "environment" => both[i].destination # Workspace
                      /\ Workspace \notin Destinations(q) => both[i].destination # Workspace
    OBVIOUS
  <2>1. both[i] \in Range(e) \/ both[i] \in Range(q)
    BY <1>7 DEF Range
  <2> HIDE DEF both
  <2>2. CASE both[i] \in Range(e)
    BY <1>2, <1>4, <2>2 DEF Range
  <2>3. CASE both[i] \in Range(q)
    BY <1>5, <2>3 DEF Range, Destinations
  <2>q. QED
    BY <2>1, <2>2, <2>3
<1>9. CASE Workspace \in Destinations(q)
  <2>1. PICK j \in DOMAIN q : q[j].destination = Workspace
    BY <1>9 DEF Destinations
  <2>2. q[j] \in Range(both)
    BY <1>7, <2>1 DEF Range
  <2>3. PICK i \in DOMAIN both : both[i] = q[j]
    BY <2>2 DEF Range
  <2> HIDE DEF both
  <2>4. BuildSessionMounts(r) = both
    BY <1>6, <1>9
  <2>q. QED
    BY <1>7, <1>8, <2>1, <2>3, <2>4 DEF MergedSound
<1>10. CASE Workspace \notin Destinations(q)
  <2> DEFINE n == Len(both)
             all == Append(both, hub)
  <2>1. hub \in Mounted /\ hub.of = "hub" /\ hub.destination = Workspace
    BY TopPlaces DEF Mount, Mounted, MountPlace
  <2> HIDE DEF both, hub
  <2>2. /\ all \in Seq(Mounted) /\ DOMAIN all = 1..(n + 1) /\ DOMAIN both = 1..n /\ n \in Nat
        /\ all[n + 1] = hub /\ \A i \in 1..n : all[i] = both[i]
    BY <1>7, <2>1, AppendProperties
  <2> HIDE DEF all, n
  <2>3. \A i \in 1..(n + 1) : i \in 1..n \/ i = n + 1
    BY <2>2
  <2>4. n + 1 \in 1..(n + 1)
    BY <2>2
  <2>5. \A i \in 1..n : both[i].destination # hub.destination
    BY <1>8, <1>10, <2>1, <2>2
  <2>6. Apart(all)
    BY <1>7, <2>2, <2>3, <2>5 DEF Apart
  <2>7. \E i \in DOMAIN all : all[i].destination = Workspace
    BY <2>1, <2>2, <2>4
  <2>8. \A i \in DOMAIN all :
            /\ all[i].of \in {"environment", "request", "hub"}
            /\ all[i].of = "hub" => all[i].destination = Workspace
            /\ all[i].of = "environment" => all[i].destination # Workspace
    BY <1>8, <2>1, <2>2, <2>3
  <2>9. BuildSessionMounts(r) = all
    BY <1>6, <1>10 DEF all
  <2>q. QED
    BY <2>2, <2>6, <2>7, <2>8, <2>9 DEF MergedSound
<1>q. QED
  BY <1>9, <1>10

\* Its masks: they lie below the workspace, and apart from each other and from every
\* mount but that of the workspace.
MasksSound(masks, merged) ==
    /\ masks \in Seq(Mounted) /\ Apart(masks)
    /\ \A k \in DOMAIN masks :
          /\ masks[k].of = "mask"
          /\ PathContains(Workspace, masks[k].destination) /\ masks[k].destination # Workspace
          /\ \A i \in DOMAIN merged :
                merged[i].destination # Workspace =>
                    ~Overlaps(masks[k].destination, merged[i].destination)

\* What MasksAcceptable lets through is such masks.
LEMMA MasksAreSound ==
    ASSUME NEW r \in MountRequest, MasksAcceptable(r)
    PROVE  MasksSound(AtPaths("mask", r.masks), BuildSessionMounts(r))
<1> DEFINE masks == AtPaths("mask", r.masks)
           merged == BuildSessionMounts(r)
<1>1. r.masks \in Seq(RawPath)
  BY DEF MountRequest
<1>2. /\ Distinct(Cleaned(r.masks))
      /\ \A k \in DOMAIN r.masks :
            /\ PathContains(Workspace, Clean(r.masks[k])) /\ Clean(r.masks[k]) # Workspace
            /\ \A destination \in Destinations(merged) \ {Workspace} :
                  ~Overlaps(Clean(r.masks[k]), destination)
  BY DEF MasksAcceptable, Cleaned
<1> HIDE DEF merged
<1>3. /\ masks \in Seq(Mounted) /\ DOMAIN masks = DOMAIN r.masks
      /\ \A k \in DOMAIN masks : masks[k].of = "mask" /\ masks[k].destination = Clean(r.masks[k])
  BY <1>1, AtPathsMounted
<1>4. Apart(masks)
  BY <1>1, <1>2, AtPathsApart
<1>5. \A i \in DOMAIN merged : merged[i].destination \in Destinations(merged)
  BY DEF Destinations
<1> HIDE DEF masks
<1>6. MasksSound(masks, merged)
  BY <1>2, <1>3, <1>4, <1>5 DEF MasksSound
<1>q. QED
  BY <1>6 DEF masks, merged

\* What contains a path, or lies in it, is not apart from it: a path is in itself.
LEMMA OverlapsItself ==
    ASSUME NEW place \in MountPlace
    PROVE  Overlaps(place, place)
BY PrefixParts DEF Overlaps, MountPlace

\* The mounts at some places, which are taken out of a sequence in their order.
At(s, paths) == {mount \in Range(s) : mount.destination \in paths}

Picked(left, s, paths) ==
    /\ left \in Seq(Mounted) /\ Apart(left) /\ Range(left) = At(s, paths)
    /\ \A k \in DOMAIN left : left[k] \in Range(s) /\ left[k].destination \in paths

\* Selected takes them out.
LEMMA SelectedAt ==
    ASSUME NEW s \in Seq(Mounted), Apart(s), NEW paths
    PROVE  Picked(Selected(s, At(s, paths)), s, paths)
<1> DEFINE left == Selected(s, At(s, paths))
<1>1. left \in Seq(Mounted) /\ Apart(left) /\ Range(left) = Range(s) \cap At(s, paths)
  BY SelectedRange, SelectedApart
<1> HIDE DEF left
<1>2. Range(left) = At(s, paths)
  BY <1>1 DEF At
<1>3. \A k \in DOMAIN left : left[k] \in At(s, paths)
  BY <1>2 DEF Range
<1>4. Picked(left, s, paths)
  BY <1>1, <1>2, <1>3 DEF Picked, At
<1>q. QED
  BY <1>4 DEF left

\* What the engine is given: the mounts and the masks, all apart, the workspace first.
LaidOut(c, merged, masks) ==
    /\ c \in Seq(Mounted) /\ Apart(c)
    /\ Range(c) = Range(merged) \cup Range(masks)
    /\ c # <<>> /\ c[1].destination = Workspace

\* CreateArguments lays them out like that: it reorders, and neither drops nor repeats.
LEMMA ArgumentsLaidOut ==
    ASSUME NEW r \in MountRequest, MountsAcceptable(r), MasksAcceptable(r)
    PROVE  LaidOut(CreateArguments(r), BuildSessionMounts(r), AtPaths("mask", r.masks))
<1> DEFINE merged == BuildSessionMounts(r)
           masks == AtPaths("mask", r.masks)
           at(paths) == Selected(merged, At(merged, paths))
           others == Destinations(merged) \ {Workspace, Chat}
           first == at({Workspace})
           chat == at({Chat})
           rest == at(others)
<1>1. MergedSound(merged) /\ MasksSound(masks, merged)
  BY MergedIsSound, MasksAreSound
<1>2. CreateArguments(r) = first \o masks \o chat \o rest
  BY DEF CreateArguments, AtPaths, At
<1> HIDE DEF merged, masks
<1>3. merged \in Seq(Mounted) /\ Apart(merged)
  BY <1>1 DEF MergedSound
<1>4. /\ masks \in Seq(Mounted) /\ Apart(masks)
      /\ \A k \in DOMAIN masks :
            /\ masks[k].destination # Workspace /\ masks[k].destination \in MountPlace
            /\ \A i \in DOMAIN merged : merged[i].destination # masks[k].destination
  <2>1. masks \in Seq(Mounted) /\ Apart(masks)
    BY <1>1 DEF MasksSound
  <2>2. ASSUME NEW k \in DOMAIN masks
        PROVE  /\ masks[k].destination # Workspace /\ masks[k].destination \in MountPlace
               /\ \A i \in DOMAIN merged : merged[i].destination # masks[k].destination
    <3>1. masks[k].destination # Workspace /\ masks[k].destination \in MountPlace
      BY <1>1, <2>1, MountedAt DEF MasksSound
    <3>2. Overlaps(masks[k].destination, masks[k].destination)
      BY <3>1, OverlapsItself
    <3>q. QED
      BY <1>1, <3>1, <3>2 DEF MasksSound
  <2>q. QED
    BY <2>1, <2>2
<1>5. Picked(first, merged, {Workspace})
  BY <1>3, SelectedAt
<1>6. Picked(chat, merged, {Chat})
  BY <1>3, SelectedAt
<1>7. Picked(rest, merged, others)
  BY <1>3, SelectedAt
<1> HIDE DEF first, chat, rest
<1>8. first # <<>>
  <2>1. At(merged, {Workspace}) # {}
    BY <1>1 DEF MergedSound, At, Range
  <2>2. Range(<<>>) = {}
    BY DEF Range
  <2>q. QED
    BY <1>5, <2>1, <2>2 DEF Picked
<1>9. first[1].destination = Workspace
  <2>1. 1 \in DOMAIN first
    BY <1>5, <1>8, EmptySeq DEF Picked
  <2>q. QED
    BY <1>5, <2>1 DEF Picked
<1>10. At(merged, {Workspace}) \cup At(merged, {Chat}) \cup At(merged, others) = Range(merged)
  <2>1. \A mount \in Range(merged) : mount.destination \in Destinations(merged)
    BY DEF Range, Destinations
  <2>q. QED
    BY <2>1 DEF At
<1>11. \A mount \in Range(merged), k \in DOMAIN masks : masks[k].destination # mount.destination
  BY <1>4 DEF Range
<1> DEFINE two == first \o masks
           three == two \o chat
           four == three \o rest
<1>12. /\ two \in Seq(Mounted) /\ Apart(two) /\ Range(two) = Range(first) \cup Range(masks)
       /\ two # <<>> /\ two[1] = first[1]
  BY <1>4, <1>5, <1>8, MountsJoined DEF Picked
<1> HIDE DEF two
<1>13. \A k \in DOMAIN two : \/ two[k].destination = Workspace
                            \/ \E j \in DOMAIN masks : two[k] = masks[j]
  <2>1. \A k \in DOMAIN two : two[k] \in Range(first) \/ two[k] \in Range(masks)
    BY <1>12 DEF Range
  <2>q. QED
    BY <1>5, <2>1 DEF Range, Picked
<1>14. \A k \in DOMAIN two, j \in DOMAIN chat : two[k].destination # chat[j].destination
  BY <1>6, <1>11, <1>13, TopPlaces DEF Picked
<1>15. /\ three \in Seq(Mounted) /\ Apart(three) /\ Range(three) = Range(two) \cup Range(chat)
       /\ three # <<>> /\ three[1] = two[1]
  BY <1>6, <1>12, <1>14, MountsJoined DEF Picked
<1> HIDE DEF three
<1>16. \A k \in DOMAIN three : \/ three[k].destination \in {Workspace, Chat}
                              \/ \E j \in DOMAIN masks : three[k] = masks[j]
  <2>1. \A k \in DOMAIN three : three[k] \in Range(two) \/ three[k] \in Range(chat)
    BY <1>15 DEF Range
  <2>q. QED
    BY <1>6, <1>13, <2>1 DEF Range, Picked
<1>17. \A k \in DOMAIN three, j \in DOMAIN rest : three[k].destination # rest[j].destination
  BY <1>7, <1>11, <1>16 DEF Picked
<1>18. /\ four \in Seq(Mounted) /\ Apart(four) /\ Range(four) = Range(three) \cup Range(rest)
       /\ four # <<>> /\ four[1] = three[1]
  BY <1>7, <1>15, <1>17, MountsJoined DEF Picked
<1>19. Range(four) = Range(merged) \cup Range(masks)
  BY <1>5, <1>6, <1>7, <1>10, <1>12, <1>15, <1>18 DEF Picked
<1>20. CreateArguments(r) = four
  BY <1>2 DEF four, three, two
<1> HIDE DEF four
<1>21. LaidOut(four, merged, masks)
  BY <1>9, <1>12, <1>15, <1>18, <1>19 DEF LaidOut
<1>q. QED
  BY <1>20, <1>21 DEF merged, masks

-----------------------------------------------------------------------------
(***************************************************************************)
(* What is created is what its request was accepted for.                   *)
(***************************************************************************)

\* What is created is made of the request, which has passed every check.
MountsInvariant ==
    created # Refused =>
        /\ mountRequest \in MountRequest
        /\ MountsAcceptable(mountRequest) /\ MasksAcceptable(mountRequest)
        /\ DualRootAcceptable(mountRequest)
        /\ created = CreateArguments(mountRequest)

\* The parts of a sequence of paths are sequences of paths.
LEMMA PartOfPaths ==
    ASSUME NEW n \in Nat, NEW paths \in [1..n -> RawPath], NEW i \in 0..n, NEW j \in i..n
    PROVE  SubSeq(paths, i + 1, j) \in Seq(RawPath)
<1>1. /\ i + 1 \in Int /\ j \in Int
      /\ \A k \in (i + 1)..j : paths[k] \in RawPath
  OBVIOUS
<1>q. QED
  BY <1>1, SubSeqProperties

\* Each step keeps the invariant.
LEMMA MountsInvariantStep ==
    MountsInvariant /\ [MountsNext]_mountVars => MountsInvariant'
<1> SUFFICES ASSUME MountsInvariant, [MountsNext]_mountVars PROVE MountsInvariant'
  OBVIOUS
<1>1. CASE CreateSession
  <2>1. PICK n \in 0..MaxPaths : \E paths \in [1..n -> RawPath], i \in 0..n : \E j \in i..n :
        \E protocol, label \in Protocol, cwd \in RawPath :
           mountRequest' = [environment |-> SubSeq(paths, 1, i), mounts |-> SubSeq(paths, i + 1, j),
                       masks |-> SubSeq(paths, j + 1, n), protocol |-> protocol, label |-> label, cwd |-> cwd]
    BY <1>1 DEF CreateSession
  <2>2. PICK paths \in [1..n -> RawPath], i \in 0..n : \E j \in i..n :
        \E protocol, label \in Protocol, cwd \in RawPath :
           mountRequest' = [environment |-> SubSeq(paths, 1, i), mounts |-> SubSeq(paths, i + 1, j),
                       masks |-> SubSeq(paths, j + 1, n), protocol |-> protocol, label |-> label, cwd |-> cwd]
    BY <2>1
  <2>3. PICK j \in i..n, protocol \in Protocol, label \in Protocol, cwd \in RawPath :
           mountRequest' = [environment |-> SubSeq(paths, 1, i), mounts |-> SubSeq(paths, i + 1, j),
                       masks |-> SubSeq(paths, j + 1, n), protocol |-> protocol, label |-> label, cwd |-> cwd]
    BY <2>2
  <2>4. n \in Nat /\ 0 \in 0..n /\ i \in 0..n /\ j \in 0..n /\ n \in j..n /\ 0 + 1 = 1 /\ i \in 0..n
    BY <2>1, <2>3, SessionMountsAssumption
  <2>5. SubSeq(paths, 1, i) \in Seq(RawPath)
    <3>1. SubSeq(paths, 0 + 1, i) \in Seq(RawPath)
      BY <2>4, PartOfPaths
    <3>q. QED
      BY <2>4, <3>1
  <2>6. SubSeq(paths, i + 1, j) \in Seq(RawPath) /\ SubSeq(paths, j + 1, n) \in Seq(RawPath)
    BY <2>4, <2>3, PartOfPaths
  <2>7. mountRequest' \in MountRequest
    BY <2>3, <2>5, <2>6 DEF MountRequest
  <2>8. created' = IF /\ MountsAcceptable(mountRequest') /\ MasksAcceptable(mountRequest')
                      /\ DualRootAcceptable(mountRequest')
                   THEN CreateArguments(mountRequest') ELSE Refused
    BY <1>1 DEF CreateSession
  <2>q. QED
    BY <2>7, <2>8 DEF MountsInvariant, Refused
<1>2. CASE NextSession
  BY <1>2 DEF NextSession, MountsInvariant, Refused
<1>3. CASE UNCHANGED mountVars
  BY <1>3 DEF mountVars, MountsInvariant, Refused, MountsAcceptable, MasksAcceptable,
              DualRootAcceptable, CreateArguments
<1>q. QED
  BY <1>1, <1>2, <1>3 DEF MountsNext

\* The facts about what is created that both properties follow from.
CreatedSound ==
    /\ LaidOut(created, BuildSessionMounts(mountRequest), AtPaths("mask", mountRequest.masks))
    /\ MergedSound(BuildSessionMounts(mountRequest))
    /\ MasksSound(AtPaths("mask", mountRequest.masks), BuildSessionMounts(mountRequest))
    /\ mountRequest \in MountRequest /\ DualRootAcceptable(mountRequest)

\* They hold whenever anything is created.
LEMMA CreatedIsSound ==
    ASSUME MountsInvariant, created # Refused
    PROVE  CreatedSound
BY ArgumentsLaidOut, MergedIsSound, MasksAreSound DEF MountsInvariant, CreatedSound

\* Each thing created is a mount or a mask, and is at the place it names.
LEMMA CreatedAt ==
    ASSUME CreatedSound, NEW k \in DOMAIN created
    PROVE  /\ created[k] \in Mounted /\ created[k].destination \in MountPlace
           /\ created[k].destination \in Seq(Named) /\ created[k].destination # <<>>
           /\ PlaceOf(created[k].destination) = created[k].destination
           /\ k \in 1..Len(created) /\ k \in Nat
           /\ \/ \E i \in DOMAIN BuildSessionMounts(mountRequest) :
                    created[k] = BuildSessionMounts(mountRequest)[i]
              \/ \E i \in DOMAIN AtPaths("mask", mountRequest.masks) :
                    created[k] = AtPaths("mask", mountRequest.masks)[i]
<1> DEFINE merged == BuildSessionMounts(mountRequest)
           masks == AtPaths("mask", mountRequest.masks)
<1>1. created \in Seq(Mounted) /\ Range(created) = Range(merged) \cup Range(masks)
  BY DEF CreatedSound, LaidOut
<1>2. /\ created[k] \in Mounted /\ created[k].destination \in MountPlace
      /\ created[k].destination \in Seq(Named) /\ created[k].destination # <<>>
      /\ k \in 1..Len(created) /\ k \in Nat
  BY <1>1, MountedAt
<1>3. PlaceOf(created[k].destination) = created[k].destination
  BY <1>2, PlaceStays
<1> HIDE DEF merged, masks
<1>4. created[k] \in Range(merged) \/ created[k] \in Range(masks)
  BY <1>1 DEF Range
<1>5. \/ \E i \in DOMAIN merged : created[k] = merged[i]
      \/ \E i \in DOMAIN masks : created[k] = masks[i]
  BY <1>4 DEF Range
<1>q. QED
  BY <1>2, <1>3, <1>5 DEF merged, masks

\* The workspace comes first.
LEMMA WorkspaceFirst ==
    ASSUME CreatedSound
    PROVE  /\ 1 \in DOMAIN created /\ created[1].destination = Workspace
           /\ \A k \in DOMAIN created : created[k].destination = Workspace => k = 1
<1>1. /\ created \in Seq(Mounted) /\ Apart(created) /\ created # <<>>
      /\ created[1].destination = Workspace
  BY DEF CreatedSound, LaidOut
<1>2. 1 \in DOMAIN created
  BY <1>1, EmptySeq
<1>q. QED
  BY <1>1, <1>2 DEF Apart

\* What is not a mask is a mount of the request, of its environment or of the hub;
\* the hub has only the workspace, and the environment everything but that.
LEMMA CreatedOf ==
    ASSUME CreatedSound, NEW k \in DOMAIN created
    PROVE  /\ created[k].of = "mask" =>
                 /\ PathContains(Workspace, created[k].destination)
                 /\ created[k].destination # Workspace
           /\ created[k].of # "mask" =>
                 /\ created[k].of \in {"environment", "request", "hub"}
                 /\ created[k].of = "hub" => created[k].destination = Workspace
                 /\ created[k].of = "environment" => created[k].destination # Workspace
BY CreatedAt DEF CreatedSound, MergedSound, MasksSound

\* A mask is apart from every mount but that of the workspace.
LEMMA CreatedApart ==
    ASSUME CreatedSound, NEW k \in DOMAIN created, NEW l \in DOMAIN created,
           created[k].of = "mask", created[l].of # "mask", created[l].destination # Workspace
    PROVE  ~Overlaps(created[k].destination, created[l].destination)
<1> DEFINE merged == BuildSessionMounts(mountRequest)
           masks == AtPaths("mask", mountRequest.masks)
<1>1. MergedSound(merged) /\ MasksSound(masks, merged)
  BY DEF CreatedSound
<1>2. /\ \/ \E i \in DOMAIN merged : created[k] = merged[i]
         \/ \E i \in DOMAIN masks : created[k] = masks[i]
      /\ \/ \E i \in DOMAIN merged : created[l] = merged[i]
         \/ \E i \in DOMAIN masks : created[l] = masks[i]
  BY CreatedAt
<1> HIDE DEF merged, masks
<1>3. PICK i \in DOMAIN masks : created[k] = masks[i]
  BY <1>1, <1>2 DEF MergedSound
<1>4. PICK j \in DOMAIN merged : created[l] = merged[j]
  BY <1>1, <1>2 DEF MasksSound
<1>q. QED
  BY <1>1, <1>3, <1>4 DEF MasksSound

\* If only one thing created is over a path, that is what is seen there.
LEMMA SeenAlone ==
    ASSUME NEW path, NEW k \in DOMAIN created, NEW deeperLater,
           \A i \in DOMAIN created : PathContains(PlaceOf(created[i].destination), path) <=> i = k
    PROVE  SeenAt(path, deeperLater) = {created[k]}
<1> DEFINE over == {i \in DOMAIN created : PathContains(PlaceOf(created[i].destination), path)}
<1>1. over = {k}
  OBVIOUS
<1> HIDE DEF over
<1>2. {l \in over : \A j \in over \ {l} : After(l, j, deeperLater)} = {k}
  BY <1>1
<1>3. SeenAt(path, deeperLater) =
          {created[i] : i \in {l \in over : \A j \in over \ {l} : After(l, j, deeperLater)}}
  BY DEF SeenAt, over
<1>q. QED
  BY <1>2, <1>3

\* At a place of one name, that is the only thing created there.
LEMMA SeenAtTop ==
    ASSUME CreatedSound, NEW top \in MountPlace, Len(top) = 1, NEW k \in DOMAIN created,
           created[k].destination = top, NEW deeperLater
    PROVE  SeenAt(top, deeperLater) = {created[k]}
<1>1. Apart(created)
  BY DEF CreatedSound, LaidOut
<1>2. top \in Seq(Named)
  BY DEF MountPlace
<1>3. ASSUME NEW i \in DOMAIN created
      PROVE  PathContains(PlaceOf(created[i].destination), top) <=> i = k
  <2>1. /\ PlaceOf(created[i].destination) = created[i].destination
        /\ created[i].destination \in Seq(Named) /\ created[i].destination # <<>>
    BY CreatedAt
  <2>2. PathContains(created[i].destination, top) => created[i].destination = top
    BY <1>2, <2>1, AboveTop
  <2>3. PathContains(top, top)
    BY <1>2, PrefixParts
  <2>q. QED
    BY <1>1, <2>1, <2>2, <2>3 DEF Apart
<1>q. QED
  BY <1>3, SeenAlone

\* As many places as there are things created.
LEMMA PlacesCounted ==
    ASSUME CreatedSound
    PROVE  Cardinality({PlaceOf(destination) : destination \in Destinations(created)}) = Len(created)
<1> DEFINE P == {PlaceOf(destination) : destination \in Destinations(created)}
           n == Len(created)
           f == [k \in 1..n |-> created[k].destination]
<1>1. created \in Seq(Mounted) /\ Apart(created)
  BY DEF CreatedSound, LaidOut
<1>2. n \in Nat /\ DOMAIN created = 1..n
  BY <1>1
<1> HIDE DEF n
<1>3. P = {created[k].destination : k \in 1..n}
  <2>1. \A k \in DOMAIN created : PlaceOf(created[k].destination) = created[k].destination
    BY CreatedAt
  <2>q. QED
    BY <1>2, <2>1 DEF Destinations
<1> HIDE DEF P
<1>4. f \in Bijection(1..n, P)
  <2>1. f \in [1..n -> P] /\ \A p \in P : \E k \in 1..n : f[k] = p
    BY <1>3
  <2>2. \A k, l \in 1..n : f[k] = f[l] => k = l
    BY <1>1, <1>2 DEF Apart
  <2>q. QED
    BY <2>1, <2>2 DEF Bijection, Injection, Surjection, IsInjective
<1>5. ExistsBijection(1..n, P)
  BY <1>4 DEF ExistsBijection
<1>6. IsFiniteSet(1..n) /\ Cardinality(1..n) = n
  <2>1. Cardinality(1..n) = IF 1 > n THEN 0 ELSE n - 1 + 1
    BY <1>2, FS_Interval
  <2>q. QED
    BY <1>2, <2>1, FS_Interval
<1>7. Cardinality(P) = n
  BY <1>5, <1>6, FS_Bijection
<1>q. QED
  BY <1>7 DEF P, n

\* There is one mount at each place, and the right one at the workspace and the chat.
LEMMA LayoutIsSound ==
    ASSUME CreatedSound
    PROVE  LayoutSound
<1> SUFFICES ASSUME NEW deeperLater \in BOOLEAN
             PROVE  /\ SeenAt(Workspace, deeperLater) \in
                          {{Mount("hub", Workspace)}, {Mount("request", Workspace)}}
                    /\ mountRequest.protocol = DualRoot =>
                          \E of \in {"environment", "request"} :
                              SeenAt(Chat, deeperLater) = {Mount(of, Chat)}
  BY PlacesCounted DEF LayoutSound
<1>1. Workspace \in MountPlace /\ Chat \in MountPlace /\ Len(Workspace) = 1 /\ Len(Chat) = 1 /\ Workspace # Chat
  BY TopPlaces DEF MountPlace
<1>2. 1 \in DOMAIN created /\ created[1].destination = Workspace /\ created[1] \in Mounted
  BY WorkspaceFirst, CreatedAt
<1>3. SeenAt(Workspace, deeperLater) = {created[1]}
  BY <1>1, <1>2, SeenAtTop
<1>4. created[1].of \in {"hub", "request"}
  BY <1>2, CreatedOf
<1>5. created[1] = Mount(created[1].of, Workspace)
  BY <1>2 DEF Mounted, Mount
<1>6. SeenAt(Workspace, deeperLater) \in {{Mount("hub", Workspace)}, {Mount("request", Workspace)}}
  BY <1>3, <1>4, <1>5
<1>7. ASSUME mountRequest.protocol = DualRoot
      PROVE  \E of \in {"environment", "request"} : SeenAt(Chat, deeperLater) = {Mount(of, Chat)}
  <2>1. Chat \in Destinations(BuildSessionMounts(mountRequest))
    BY <1>7 DEF CreatedSound, DualRootAcceptable, DualRoot
  <2>2. PICK i \in DOMAIN BuildSessionMounts(mountRequest) :
            BuildSessionMounts(mountRequest)[i].destination = Chat
    BY <2>1 DEF Destinations
  <2>3. BuildSessionMounts(mountRequest)[i] \in Range(created)
    BY <2>2 DEF CreatedSound, LaidOut, Range
  <2>4. PICK k \in DOMAIN created : created[k] = BuildSessionMounts(mountRequest)[i]
    BY <2>3 DEF Range
  <2>5. created[k].destination = Chat /\ created[k] \in Mounted
    BY <2>2, <2>4, CreatedAt
  <2>6. created[k].of \in {"environment", "request"}
    BY <1>1, <2>2, <2>4, <2>5, CreatedOf DEF CreatedSound, MergedSound
  <2>7. created[k] = Mount(created[k].of, Chat)
    BY <2>5 DEF Mounted, Mount
  <2>8. SeenAt(Chat, deeperLater) = {created[k]}
    BY <1>1, <2>5, SeenAtTop
  <2>q. QED
    BY <2>6, <2>7, <2>8
<1>q. QED
  BY <1>6, <1>7

\* What is seen is over the path, and on top of all else that is.
LEMMA SeenOnTop ==
    ASSUME NEW path, NEW deeperLater, NEW seen \in SeenAt(path, deeperLater)
    PROVE  \E k \in DOMAIN created :
              /\ seen = created[k] /\ PathContains(PlaceOf(created[k].destination), path)
              /\ \A j \in DOMAIN created :
                    PathContains(PlaceOf(created[j].destination), path) /\ j # k =>
                        After(k, j, deeperLater)
BY Zenon DEF SeenAt

\* The topmost mount at or below a mask is a mask, and none is on top of another mount.
LEMMA MasksDoHide ==
    ASSUME CreatedSound
    PROVE  MasksHide
<1>1. ASSUME NEW deeperLater \in BOOLEAN, NEW i \in DOMAIN mountRequest.masks, NEW raw \in RawPath,
             PathContains(PlaceOf(mountRequest.masks[i]), PlaceOf(raw)),
             NEW seen \in SeenAt(PlaceOf(raw), deeperLater)
      PROVE  seen.of = "mask"
  <2> DEFINE path == PlaceOf(raw)
             mask == Clean(mountRequest.masks[i])
  <2>1. path \in Seq(Named)
    BY CleanPlace DEF MountPlace
  <2>2. PathContains(mask, path)
    BY <1>1 DEF Clean
  <2>3. PICK k \in DOMAIN created :
              /\ seen = created[k] /\ PathContains(PlaceOf(created[k].destination), path)
              /\ \A j \in DOMAIN created :
                    PathContains(PlaceOf(created[j].destination), path) /\ j # k =>
                        After(k, j, deeperLater)
    BY SeenOnTop
  <2>4. mountRequest.masks \in Seq(RawPath)
    BY DEF CreatedSound, MountRequest
  <2>5. /\ i \in DOMAIN AtPaths("mask", mountRequest.masks)
        /\ AtPaths("mask", mountRequest.masks)[i].of = "mask"
        /\ AtPaths("mask", mountRequest.masks)[i].destination = mask
    BY <2>4, AtPathsMounted
  <2>6. AtPaths("mask", mountRequest.masks)[i] \in Range(created)
    BY <2>5 DEF CreatedSound, LaidOut, Range
  <2>7. PICK m \in DOMAIN created : created[m].of = "mask" /\ created[m].destination = mask
    BY <2>5, <2>6 DEF Range
  <2> HIDE DEF path, mask
  <2> SUFFICES ASSUME created[k].of # "mask" PROVE FALSE
    BY <2>3
  <2>8. /\ created[k].destination \in Seq(Named)
        /\ PlaceOf(created[k].destination) = created[k].destination
        /\ mask \in Seq(Named) /\ PlaceOf(created[m].destination) = mask
        /\ k \in Nat /\ m \in 1..Len(created) /\ m \in Nat
    BY <2>7, CreatedAt
  <2>9. Overlaps(mask, created[k].destination)
    BY <2>1, <2>2, <2>3, <2>8, PrefixesOverlap
  <2>10. created[k].destination = Workspace /\ k = 1
    BY <2>7, <2>9, CreatedApart, WorkspaceFirst
  <2>11. Len(Workspace) = 1 /\ Len(Workspace) < Len(mask)
    BY <2>7, <2>8, CreatedOf, TopPlaces, BelowIsLonger
  <2>12. After(k, m, deeperLater)
    BY <2>2, <2>3, <2>7, <2>8
  <2>13. Len(mask) \in Nat
    BY <2>8
  <2>q. QED
    BY <2>7, <2>8, <2>10, <2>11, <2>12, <2>13 DEF After
<1>2. ASSUME NEW deeperLater \in BOOLEAN, NEW destination \in Destinations(created),
             NEW seen \in SeenAt(PlaceOf(destination), deeperLater), seen.of = "mask"
      PROVE  Mount("mask", destination) \in Range(created)
  <2>1. PICK l \in DOMAIN created : created[l].destination = destination
    BY DEF Destinations
  <2>2. PICK k \in DOMAIN created :
              seen = created[k] /\ PathContains(PlaceOf(created[k].destination), PlaceOf(destination))
    BY SeenOnTop
  <2>3. /\ created[k].of = "mask" /\ PathContains(created[k].destination, destination)
        /\ created[k].destination \in Seq(Named) /\ destination \in Seq(Named)
    BY <1>2, <2>1, <2>2, CreatedAt
  <2>4. PathContains(Workspace, created[k].destination) /\ created[k].destination # Workspace
    BY <2>3, CreatedOf
  <2>5. destination # Workspace
    BY <2>3, <2>4, TopPlaces, AboveTop, CreatedAt
  <2>6. created[l].of = "mask"
    BY <2>1, <2>3, <2>5, CreatedApart DEF Overlaps
  <2>7. created[l] = Mount("mask", destination)
    BY <2>1, <2>6, CreatedAt DEF Mounted, Mount
  <2>q. QED
    BY <2>1, <2>7 DEF Range
<1>q. QED
  BY <1>1, <1>2 DEF MasksHide

\* What a session is created with is laid out as its request was accepted for, and
\* its masks hide what they are to hide, for requests of any number of paths.
THEOREM MountsSoundHolds == MountsSpec => []MountsSound
<1>1. MountsInit => MountsInvariant
  BY DEF MountsInit, MountsInvariant
<1>2. MountsInvariant => MountsSound
  <2>1. created = Refused => MountsSound
    BY DEF MountsSound, LayoutSound, MasksHide
  <2>q. QED
    BY <2>1, CreatedIsSound, LayoutIsSound, MasksDoHide DEF MountsSound
<1>q. QED
  BY <1>1, <1>2, MountsInvariantStep, PTL DEF MountsSpec
=============================================================================
