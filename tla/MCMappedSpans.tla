--------------------------- MODULE MCMappedSpans ----------------------------
(* MappedSpans in a small address space, counted in units of the smallest    *)
(* system page: a page of the allocator is two of them, a pool's chunk two   *)
(* pages, a Span object two units and a ThreadCache three.                    *)
EXTENDS MappedSpans, TLC

Pools == {"spanPool", "tcPool"}
Sizes == [p \in Pools |-> IF p = "spanPool" THEN 2 ELSE 3]
=============================================================================
