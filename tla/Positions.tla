------------------------------- MODULE Positions -------------------------------
(***************************************************************************)
(* The elements of a sequence at some of its positions, in their order: what *)
(* a filter over an array or the removal of a key from a Map leaves.  Stated *)
(* by counting and not by recursion, so that proofs can speak of it.         *)
(***************************************************************************)
EXTENDS Naturals, Sequences, FiniteSets

Before(I, i) == {k \in I : k <= i}

\* The position that has n positions of I up to it, itself included.
Nth(I, n) == CHOOSE i \in I : Cardinality(Before(I, i)) = n

Chosen(s, I) == [n \in 1..Cardinality(I) |-> s[Nth(I, n)]]
=============================================================================
