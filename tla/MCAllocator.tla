---------------------------- MODULE MCAllocator -----------------------------
(* Allocator on small instances: the threads, the page runs, the objects of  *)
(* a span and the classes are interchangeable.                               *)
EXTENDS Allocator, TLC

Symmetry == Permutations(Thread) \cup Permutations(Slot) \cup Permutations(Place) \cup Permutations(Class)
=============================================================================
