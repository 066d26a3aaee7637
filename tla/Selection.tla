------------------------------ MODULE Selection ------------------------------
(***************************************************************************)
(* What is left of a list when some of its members are dropped, in the     *)
(* order they were in.  SelectSeq says the same of a predicate; it is      *)
(* built into the provers, which know nothing of it.                       *)
(***************************************************************************)
EXTENDS Integers, Sequences, FiniteSets

\* The member of a set of places that has n of them up to itself.
Ranked(K, n) == CHOOSE i \in K : Cardinality({j \in K : j <= i}) = n

\* The members of s that are in T.
Picked(s, T) ==
    LET K == {i \in DOMAIN s : s[i] \in T}
    IN  [n \in 1 .. Cardinality(K) |-> s[Ranked(K, n)]]

\* The members of s but x.
Without(s, x) == Picked(s, {s[i] : i \in DOMAIN s} \ {x})
=============================================================================
