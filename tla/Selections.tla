------------------------------ MODULE Selections ------------------------------
(***************************************************************************)
(* What is left of a sequence when only some of its elements are kept, in  *)
(* their order: slices.DeleteFunc, or what one of several goroutines has   *)
(* sent to a channel they share.  (SelectSeq, with a set for its test: the *)
(* provers cannot instantiate an operator that is a parameter.)            *)
(***************************************************************************)
EXTENDS Naturals, Sequences

\* The elements of s that are in wanted.
Selected(s, wanted) ==
    LET taken[n \in 0..Len(s)] ==
            IF n = 0 THEN <<>>
            ELSE IF s[n] \in wanted THEN Append(taken[n - 1], s[n]) ELSE taken[n - 1]
    IN  taken[Len(s)]
===============================================================================
