------------------------------ MODULE MCLinks -------------------------------
(* Links with few threads, spans and objects. *)
EXTENDS Links, TLC

Symmetry == Permutations(Thread) \cup Permutations(Span)
=============================================================================
