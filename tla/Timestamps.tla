------------------------------ MODULE Timestamps ------------------------------
(***************************************************************************)
(* Times as internal/store/sqlite.go stores and orders them: RFC3339Nano   *)
(* text, which drops the zeros at the end of the fraction and, when none   *)
(* is left, its point.  The "Z" that ends the text sorts after a digit and *)
(* after the point, so a text comes after every longer one that begins     *)
(* like it: "...:05Z" after "...:05.9Z", "...:05.1Z" after "...:05.12Z".   *)
(***************************************************************************)
EXTENDS Naturals

CONSTANT Units   \* the second, its tenth, its hundredth ..., in ticks of the clock

ASSUME TimestampsAssumption ==
    /\ Units \subseteq Nat \ {0}
    /\ \A u, v \in Units : u % v = 0 \/ v % u = 0

\* a's text ends at the digit of unit u, where b's begins like it and goes on.
CutShort(a, b) == \E u \in Units : a % u = 0 /\ a < b /\ b < a + u

\* Does a's text sort after b's?
SortsAfter(a, b) == CutShort(a, b) \/ (a > b /\ ~CutShort(b, a))
===============================================================================
