---------------------------- MODULE Subsequences ----------------------------
(***************************************************************************)
(* Filters of sequences, as Vec::retain, drain and Iterator::filter use    *)
(* them: the chosen elements stay, in their order.  They are written with  *)
(* the rank of an index, and not by recursion, so that what they yield can *)
(* be proved.                                                              *)
(***************************************************************************)
EXTENDS Naturals, Sequences, FiniteSets

\* How many of the indices I lie at or before i.
Rank(I, i) == Cardinality({j \in I : j <= i})

\* The elements of q at the indices I: the k-th is at the index of rank k.
Subsequence(q, I) ==
    [k \in 1 .. Cardinality(I) |-> q[CHOOSE i \in I : Rank(I, i) = k]]

\* The indices of q that hold a member of K.
Kept(q, K) == {i \in DOMAIN q : q[i] \in K}

\* The subsequence of q with the members of K.
Retain(q, K) == Subsequence(q, Kept(q, K))
=============================================================================
