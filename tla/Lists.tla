------------------------------- MODULE Lists --------------------------------
(***************************************************************************)
(* Parts of lists.  They are defined by places and not by recursion along  *)
(* the list, as SelectSeq is, so that what they return can be proved.      *)
(***************************************************************************)
EXTENDS Naturals, FiniteSets

\* The members of a finite set of numbers, from the smallest one on: the n-th
\* is the one that n members do not exceed.
Sorted(S) ==
  [n \in 1 .. Cardinality(S) |->
     CHOOSE i \in S : Cardinality({j \in S : j <= i}) = n]

\* The elements of list s at the places in I, in the order they have in s.
Selected(s, I) == [n \in 1 .. Cardinality(I) |-> s[Sorted(I)[n]]]
=============================================================================
