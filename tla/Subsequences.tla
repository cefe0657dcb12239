---------------------------- MODULE Subsequences ----------------------------
(***************************************************************************)
(* The elements of a sequence at some of its indices, in their order: what *)
(* a loop over a container keeps when it skips the others.                 *)
(***************************************************************************)
EXTENDS Integers, FiniteSets, Sequences

\* The n-th smallest of a finite set of numbers, counted from 1.
NthOf(I, n) == CHOOSE i \in I : Cardinality({j \in I : j < i}) = n - 1

\* The elements of s at the indices in I.
At(s, I) == [n \in 1 .. Cardinality(I) |-> s[NthOf(I, n)]]

\* The elements of s that pass a test.
Passing(s, Test(_)) == At(s, {i \in DOMAIN s : Test(s[i])})
=============================================================================
