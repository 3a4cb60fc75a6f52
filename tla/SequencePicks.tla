---------------------------- MODULE SequencePicks ---------------------------
(***************************************************************************)
(* The part of a list a loop keeps, in the order of the list.              *)
(***************************************************************************)
EXTENDS Integers, FiniteSets

\* The place of i among the places in I.
Rank(I, i) == Cardinality({j \in I : j <= i})

\* The entries of s at the places in I.
Picked(s, I) == [k \in 1..Cardinality(I) |-> s[CHOOSE i \in I : Rank(I, i) = k]]
=============================================================================
