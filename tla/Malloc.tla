------------------------------- MODULE Malloc -------------------------------
(***************************************************************************)
(* The contract of ConcurrentAlloc and ConcurrentFree (verify.cpp:12-25):  *)
(* a block handed out overlaps no block that is still out, and goes back   *)
(* once.  Allocator implements it.                                         *)
(***************************************************************************)
EXTENDS Integers

CONSTANTS Block, Overlaps(_, _)

VARIABLES
    live,   \* the blocks handed out and not yet given back
    out     \* how many they are, so that a block handed out twice shows

MallocInit == live = {} /\ out = 0

Alloc(b) ==
    /\ b \in Block
    /\ \A x \in live : ~Overlaps(x, b)
    /\ live' = live \cup {b}
    /\ out' = out + 1

Free(b) ==
    /\ b \in live
    /\ live' = live \ {b}
    /\ out' = out - 1

MallocNext == \E b \in live \cup live' : Alloc(b) \/ Free(b)

MallocSpec == MallocInit /\ [][MallocNext]_<<live, out>>
=============================================================================
