------------------------------- MODULE Order -------------------------------
(* Sets of numbers in ascending order, and parts of a sequence in the      *)
(* order of the sequence, without recursion.                               *)
EXTENDS Integers, FiniteSets

(* The k-th is the one that k - 1 others come before. *)
InOrder(S) ==
    [k \in 1 .. Cardinality(S) |->
        CHOOSE n \in S : Cardinality({m \in S : m < n}) = k - 1]

(* The elements of s at the positions I, in the order of s. *)
At(s, I) == LET at == InOrder(I) IN [k \in DOMAIN at |-> s[at[k]]]

(* The elements of s that are in T, in the order of s. *)
Only(s, T) == At(s, {i \in DOMAIN s : s[i] \in T})

(* Each element of s once, where it occurs first. *)
Distinct(s) == At(s, {i \in DOMAIN s : \A j \in DOMAIN s : j < i => s[j] # s[i]})
=============================================================================
