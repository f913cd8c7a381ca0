---------------------------- MODULE SystemMemory ----------------------------
(***************************************************************************)
(* SystemAlloc and SystemFree (Common.h:75-101): the process's address     *)
(* space as mmap and munmap change it, address by address.                 *)
(***************************************************************************)
EXTENDS Integers

CONSTANTS
    PAGE,       \* 1 << PAGE_SHIFT, 8 KB
    Granule,    \* the system's own page: what mmap's answers are multiples of
    LastByte    \* bound: the last address; 0 is nullptr

ASSUME MemoryAssumption ==
    /\ PAGE \in Nat \ {0}
    /\ Granule \in Nat \ {0}
    /\ LastByte \in Nat

Address == 0 .. LastByte

VARIABLE owner  \* the mapping an address is in, named by its start, or 0

Bytes(start, length) == start .. (start + length - 1)
Belong(bytes, to) == \A a \in bytes : a \in Address /\ owner[a] = to

\* Where mmap can put a mapping.
Room(length) ==
    {p \in Address \ {0} : p % Granule = 0 /\ Belong(Bytes(p, length), 0)}

SystemAlloc_Unscaled(p, kpage) ==
    /\ p \in Room(kpage)
    /\ owner' = [a \in Address |-> IF a \in Bytes(p, kpage) THEN p ELSE owner[a]]
SystemAlloc(p, kpage) ==
    /\ p \in Room(kpage * PAGE)
    /\ owner' = [a \in Address |-> IF a \in Bytes(p, kpage * PAGE) THEN p ELSE owner[a]]

\* munmap takes whatever is mapped in its range.
SystemFree(p, kpage) ==
    owner' = [a \in Address |-> IF a \in Bytes(p, kpage * PAGE) THEN 0 ELSE owner[a]]
=============================================================================
