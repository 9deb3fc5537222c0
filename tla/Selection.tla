-------------------------------- MODULE Selection --------------------------------
(* The elements of a sequence that satisfy a condition, given by their places. *)
EXTENDS Naturals, Sequences, FiniteSets

\* How many of some places are at i or before it.
UpTo(places, i) == Cardinality({j \in places : j <= i})

\* The elements of s at some of its places, in their order.
Chosen(s, places) == [k \in 1..Cardinality(places) |-> s[CHOOSE i \in places : UpTo(places, i) = k]]
================================================================================
