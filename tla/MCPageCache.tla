---------------------------- MODULE MCPageCache -----------------------------
(* PageCache on small address spaces.  With NPAGES = 4 a chunk is 3 pages    *)
(* long: it splits 1+2, 2+1 and 1+1+1, and the limit on a merged span bites  *)
(* as soon as two chunks touch.                                              *)
EXTENDS PageCache, TLC

SpanSymmetry == Permutations(SpanId)
=============================================================================
