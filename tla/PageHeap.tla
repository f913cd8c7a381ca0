------------------------------ MODULE PageHeap ------------------------------
(***************************************************************************)
(* What the page layer promises its two callers (CentralCache.cpp:22-26    *)
(* and 100-102, ConcurrentAlloc.h:17-21 and 41-44), and nothing of how it  *)
(* keeps the promise: a request for k pages is answered with k pages no    *)
(* other caller holds, and what a caller holds changes only when that      *)
(* caller asks for it or gives it back.  PageCache implements this.        *)
(***************************************************************************)
EXTENDS Naturals

VARIABLE heap   \* the extents <<first page, number of pages>> callers hold

Extents == Nat \X (Nat \ {0})

Disjoint(e, f) == e[1] + e[2] <= f[1] \/ f[1] + f[2] <= e[1]

HeapInit == heap = {}

Alloc(e) ==
    /\ e \in Extents
    /\ \A f \in heap : Disjoint(e, f)
    /\ heap' = heap \cup {e}

Free(e) ==
    /\ e \in heap
    /\ heap' = heap \ {e}

HeapNext == \/ \E f \in heap : Free(f)
            \/ \E e \in heap' : Alloc(e)

HeapSpec == HeapInit /\ [][HeapNext]_heap
=============================================================================
