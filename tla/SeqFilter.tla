----------------------------- MODULE SeqFilter -----------------------------
(***************************************************************************)
(* A sequence less some of its elements: SelectSeq, said by where the      *)
(* elements that stay are, so that it can be reasoned about.  The element  *)
(* that comes k-th is the one with k elements that stay up to and          *)
(* including itself.                                                       *)
(***************************************************************************)
EXTENDS Integers, Sequences, FiniteSets

UpTo(A, i)    == {j \in A : j <= i}
Nth(A, k)     == CHOOSE i \in A : Cardinality(UpTo(A, i)) = k
Picked(s, A)  == [k \in 1..Cardinality(A) |-> s[Nth(A, k)]]  \* at the positions A

Staying(s, K) == {i \in 1..Len(s) : s[i] \in K}
Filter(s, K)  == Picked(s, Staying(s, K))                     \* those in K
=============================================================================
