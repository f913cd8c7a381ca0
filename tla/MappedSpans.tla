---------------------------- MODULE MappedSpans -----------------------------
(***************************************************************************)
(* Who maps memory, and what becomes of it: PageCache for its chunks and   *)
(* for large blocks (PageCache.cpp:31-40, 86-90, 99-105), its pool of Span *)
(* objects, and the pool of ThreadCaches that a thread's first small block *)
(* calls (ConcurrentAlloc.h:28-31).                                        *)
(*                                                                         *)
(* Addresses become page numbers by >> PAGE_SHIFT and back by <<, and what *)
(* a number leads back to is the block its caller is given.                *)
(*                                                                         *)
(* Abstracted: a chunk is one span, nobody cuts it (PageCache does).       *)
(***************************************************************************)
EXTENDS ObjectPool

CONSTANTS
    NPAGES,
    LargeSizes,  \* bound: the large blocks, in pages
    MaxThreads   \* bound: the threads that ever allocate

ASSUME SpansAssumption ==
    /\ Pool = {"spanPool", "tcPool"}
    /\ NPAGES \in Nat /\ NPAGES >= 2
    /\ LargeSizes \subseteq {k \in Nat : k >= NPAGES}

VARIABLES
    pc,         \* where NewSpan is: "idle", "span", or "thrown" with the mutex held
    ptr, want,  \* its locals
    spans,      \* the spans: object, _pageId, _n, and the mapping made for it
    threads     \* how many threads have a ThreadCache

vars == <<owner, poolVars, pc, ptr, want, spans, threads>>

PageOf(a) == a \div PAGE
Start(s) == s.pageId * PAGE
Extent(s) == Bytes(Start(s), s.n * PAGE)

Init ==
    /\ owner = [a \in Address |-> 0]
    /\ PoolInit
    /\ pc = "idle"
    /\ ptr = 0 /\ want = 0
    /\ spans = {}
    /\ threads = 0

\* NewSpan for a large block, or for a chunk: SystemAlloc first ...
NewSpan(k) ==
    /\ pc = "idle"
    /\ \E a \in Room(k * PAGE) : SystemAlloc(a, k) /\ ptr' = a
    /\ want' = k
    /\ pc' = "span"
    /\ UNCHANGED <<poolVars, spans, threads>>

\* ... then _spanPool.New, and the span has its first page and its length.
NameSpan ==
    /\ pc = "span"
    /\ \E obj \in Candidates("spanPool") :
          /\ New("spanPool", obj)
          /\ spans' = spans \cup {[obj |-> obj, pageId |-> PageOf(ptr), n |-> want, at |-> ptr]}
    /\ pc' = "idle"
    /\ ptr' = 0 /\ want' = 0
    /\ UNCHANGED threads

\* SystemAlloc throws in NewSpan or in the pool: the mutex stays locked, and
\* what was mapped for the span is lost.
NewSpanThrows ==
    /\ \/ pc = "idle" /\ UNCHANGED poolVars
       \/ pc = "span" /\ NewThrows("spanPool")
    /\ pc' = "thrown"
    /\ UNCHANGED <<owner, ptr, want, spans, threads>>

\* ReleaseSpanToPageCache of a large block.
Unmap_OnePageLess(s) == SystemFree(Start(s), s.n - 1)
Unmap_OnePageMore(s) == SystemFree(Start(s), s.n + 1)
Unmap(s) == SystemFree(Start(s), s.n)

ReleaseLarge(s) ==
    /\ pc = "idle"
    /\ s.n >= NPAGES
    /\ Unmap(s)
    /\ Delete("spanPool", s.obj)
    /\ spans' = spans \ {s}
    /\ UNCHANGED <<pc, ptr, want, threads>>

\* A thread's first small block, with no mutex but the pool's.
NewThread ==
    /\ threads < MaxThreads
    /\ threads' = threads + 1
    /\ \E obj \in Candidates("tcPool") : New("tcPool", obj)
    /\ UNCHANGED <<pc, ptr, want, spans>>

\* bad_alloc leaves ConcurrentAlloc, with nothing locked: the caller may try
\* again.
NewThreadThrows ==
    /\ threads < MaxThreads
    /\ NewThrows("tcPool")
    /\ UNCHANGED <<pc, ptr, want, spans, threads>>

\* PageCache is shut for good, and every thread has its cache.
MutexHeldForever == pc = "thrown" /\ threads = MaxThreads /\ UNCHANGED vars

Next ==
    \/ \E k \in LargeSizes \cup {NPAGES - 1} : NewSpan(k)
    \/ NameSpan \/ NewSpanThrows
    \/ \E s \in spans : ReleaseLarge(s)
    \/ NewThread \/ NewThreadThrows
    \/ MutexHeldForever

Spec == Init /\ [][Next]_vars

-----------------------------------------------------------------------------
(* Properties.                                                               *)

\* The objects of a pool, used or deleted.
Objects(p) == given[p] \cup freeList[p]
Object(p, obj) == Bytes(obj, ObjSize(p))

\* "3. the whole requested extent is writable" (verify.cpp:18): a span lies in
\* the memory that was mapped for it, from its first address to its last.
SpansMapped == \A s \in spans : Belong(Extent(s), s.at)

\* munmap takes the block that is released and nothing of anybody else's.
UnmapsItsOwn ==
    [][ \A a \in Address : owner[a] # 0 /\ owner'[a] = 0 =>
            \E s \in spans \ spans' : owner[a] = s.at ]_vars

\* Nothing stays mapped that no span and no pool uses: what is mapped is in a
\* span, in the one being made or lost to a throw, or in a chunk of a pool.
NothingLeaks ==
    \A a \in Address : owner[a] # 0 =>
        \/ \E s \in spans : a \in Extent(s)
        \/ owner[a] = ptr
        \/ \E p \in Pool : owner[a] \in Objects(p)

\* An object of a pool is memory the pool mapped, and shares it with no other.
InChunk(p, obj) ==
    \E start \in Address :
        /\ start # 0 /\ start <= obj /\ obj + ObjSize(p) <= start + CHUNK
        /\ Belong(Bytes(start, CHUNK), start)

Apart(p) ==
    \A x, y \in Objects(p) : x # y => x + ObjSize(p) <= y \/ y + ObjSize(p) <= x

PoolSound(p) == Apart(p) /\ \A obj \in Objects(p) : InChunk(p, obj)

\* "Allocates objects of type T" (ObjectPool.h:9-10), every time it is asked.
PoolsSound == \A p \in Pool : PoolSound(p)

\* So it is until SystemAlloc throws, and for Span objects even then: the
\* throw leaves PageCache's mutex locked, and nobody asks again.
PoolsSoundUntilThrow == \A p \in Pool : (p = "tcPool" => ~threw[p]) => PoolSound(p)
=============================================================================
