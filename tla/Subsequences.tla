---------------------------- MODULE Subsequences ----------------------------
(***************************************************************************)
(* Filtering a sequence, as Array.prototype.filter does, by the set of the *)
(* elements that stay.  SelectSeq does the same by a predicate; it is      *)
(* defined by recursion, which puts what it returns out of a proof's reach.*)
(***************************************************************************)
EXTENDS Naturals, Sequences, FiniteSets

\* The elements of s that are in S, in the order they have in s: the k-th is the one
\* that k - 1 others come before.
Keep(s, S) ==
    LET I == {i \in DOMAIN s : s[i] \in S}
    IN  [k \in 1 .. Cardinality(I) |->
           s[CHOOSE i \in I : Cardinality({j \in I : j < i}) = k - 1]]
=============================================================================
