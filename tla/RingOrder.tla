----------------------------- MODULE RingOrder ------------------------------
(***************************************************************************)
(* The contents of a ring buffer as a sequence, for the modules that show  *)
(* a ring to be a queue.  An entry of the ring is known by how far it is   *)
(* ahead of the reader; neither recursion nor a sort is used, so that what *)
(* a step does to the sequence can be proved.                              *)
(***************************************************************************)
EXTENDS Integers, FiniteSets

(* The i-th of the distances in S.                                         *)
Nth(S, i) == CHOOSE x \in S : Cardinality({y \in S : y <= x}) = i

(* What is at the distances in S, c[x] at x, the nearest first.            *)
InOrder(S, c) == [i \in 1 .. Cardinality(S) |-> c[Nth(S, i)]]

=============================================================================
