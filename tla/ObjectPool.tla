----------------------------- MODULE ObjectPool -----------------------------
(***************************************************************************)
(* ObjectPool<T> (ObjectPool.h): fixed-size objects cut off 128 KB chunks, *)
(* and deleted ones used again.  Every operation holds the pool's mutex to *)
(* its end, but for the construction of the object it returns.             *)
(*                                                                         *)
(* Abstracted: which deleted object is used again first.                   *)
(***************************************************************************)
EXTENDS SystemMemory

CONSTANTS
    Pool,       \* the pools of the program
    SizeOf,     \* sizeof(T) of each
    PTR,        \* sizeof(void* )
    CHUNK       \* 128 * 1024

ASSUME PoolAssumption ==
    /\ SizeOf \in [Pool -> Nat \ {0}]
    /\ PTR \in Nat \ {0}
    /\ CHUNK \in Nat \ {0}
    /\ CHUNK % PAGE = 0
    /\ \A p \in Pool : SizeOf[p] <= CHUNK /\ SizeOf[p] >= PTR

VARIABLES
    memory,     \* _memory: where the next object is cut off
    remain,     \* _remainBytes
    freeList,   \* the deleted objects
    given,      \* history: the objects in use
    threw       \* history: SystemAlloc has thrown in this pool

poolVars == <<memory, remain, freeList, given, threw>>

PoolInit ==
    /\ memory = [p \in Pool |-> 0]
    /\ remain = [p \in Pool |-> 0]
    /\ freeList = [p \in Pool |-> {}]
    /\ given = [p \in Pool |-> {}]
    /\ threw = [p \in Pool |-> FALSE]

\* T's of less than a pointer would take a pointer's room.
ObjSize(p) == IF SizeOf[p] < PTR THEN PTR ELSE SizeOf[p]

\* New, when an object was deleted before.
Recycle(p, obj) ==
    /\ obj \in freeList[p]
    /\ freeList' = [freeList EXCEPT ![p] = @ \ {obj}]
    /\ UNCHANGED <<owner, memory, remain>>

\* New, when the chunk has room for one more.
HasRoom_NotEmpty(p) == remain[p] > 0
HasRoom(p) == remain[p] >= SizeOf[p]

Carve(p, obj) ==
    /\ freeList[p] = {}
    /\ HasRoom(p)
    /\ obj = memory[p]
    /\ memory' = [memory EXCEPT ![p] = obj + ObjSize(p)]
    /\ remain' = [remain EXCEPT ![p] = @ - ObjSize(p)]
    /\ UNCHANGED <<owner, freeList>>

\* New, from a chunk mapped for it; the end of the last chunk is forgotten.
Refill(p, obj) ==
    /\ freeList[p] = {}
    /\ ~HasRoom(p)
    /\ SystemAlloc(obj, CHUNK \div PAGE)
    /\ memory' = [memory EXCEPT ![p] = obj + ObjSize(p)]
    /\ remain' = [remain EXCEPT ![p] = CHUNK - ObjSize(p)]
    /\ UNCHANGED freeList

New(p, obj) ==
    /\ Recycle(p, obj) \/ Carve(p, obj) \/ Refill(p, obj)
    /\ given' = [given EXCEPT ![p] = @ \cup {obj}]
    /\ UNCHANGED threw

\* What New can return.
Candidates(p) == freeList[p] \cup {memory[p]} \cup Room(CHUNK)

\* SystemAlloc throws out of New, which has set _remainBytes already.
NewThrows(p) ==
    /\ freeList[p] = {}
    /\ ~HasRoom(p)
    /\ remain' = [remain EXCEPT ![p] = CHUNK]
    /\ threw' = [threw EXCEPT ![p] = TRUE]
    /\ UNCHANGED <<owner, memory, freeList, given>>

Delete(p, obj) ==
    /\ given' = [given EXCEPT ![p] = @ \ {obj}]
    /\ freeList' = [freeList EXCEPT ![p] = @ \cup {obj}]
    /\ UNCHANGED <<memory, remain, threw>>
=============================================================================
