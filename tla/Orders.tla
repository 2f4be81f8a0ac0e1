-------------------------------- MODULE Orders --------------------------------
(***************************************************************************)
(* sorted(): the members of a set one after the other.                     *)
(***************************************************************************)
EXTENDS Integers, FiniteSets

\* Before orders the members of S, of which there are finitely many: any two of
\* them one way.
Sorted(S, Before(_, _)) ==
    LET Place(x) == Cardinality({y \in S : Before(y, x)}) + 1
    IN [n \in 1 .. Cardinality(S) |-> CHOOSE x \in S : Place(x) = n]
=============================================================================
