----------------------------- MODULE MCRadix64 ------------------------------
(* Radix64 with two entries to a node: page ids that share a Leaf, a Mid, or *)
(* nothing, and one beyond the last.                                         *)
EXTENDS Radix64, TLC

Symmetry == Permutations(Mid) \cup Permutations(Leaf) \cup Permutations(Value)
=============================================================================
