----------------------------- MODULE PageCache ------------------------------
(***************************************************************************)
(* PageCache (PageCache.h, PageCache.cpp): the allocator's page layer.  It *)
(* hands out runs of pages as Span objects, splits a longer free run to    *)
(* answer a shorter request, maps 1 MB chunks when it has none, and glues  *)
(* a returned span to its free neighbours, which it finds through the map  *)
(* from page number to Span object.                                        *)
(*                                                                         *)
(* NewSpan and ReleaseSpanToPageCache run under PageCache::_mtx, which the *)
(* CALLERS lock and unlock, so there is one operation at a time and pc is  *)
(* its position; pc = "idle" is the mutex being free.  The callers' own    *)
(* line "span->_isUse = true" (CentralCache.cpp:24, ConcurrentAlloc.h:19)  *)
(* belongs to the same critical section and is part of the steps that      *)
(* return a span.                                                          *)
(*                                                                         *)
(* Abstracted: the order of the spans in a bucket (PopFront returns any of *)
(* them), and which dead Span object the pool hands out next.              *)
(***************************************************************************)
EXTENDS Integers, FiniteSets

CONSTANTS
    NPAGES,      \* Common.h: 129.  Free spans are 1 .. NPAGES-1 pages long
    SpanId,      \* the addresses Span objects can have
    Null,        \* nullptr
    LastPage,    \* bound: pages are 0 .. LastPage
    ChunkBases,  \* first pages at which mmap may place NPAGES-1 pages
    LargeBases,  \* first pages at which mmap may place a large request
    LargeSizes   \* the large requests, in pages

Page == 0 .. LastPage
ChunkSize == NPAGES - 1

ASSUME SizesAssumption ==
    /\ NPAGES \in Nat /\ NPAGES >= 2
    /\ LastPage \in Nat
    /\ LargeSizes \subseteq {k \in Nat : k >= NPAGES}
    /\ Null \notin SpanId

\* mmap never returns page 0, and what it returns ends below LastPage.
ASSUME PlacementAssumption ==
    /\ ChunkBases \subseteq Page \ {0}
    /\ LargeBases \subseteq Page \ {0}
    /\ \A b \in ChunkBases : b + ChunkSize <= LastPage
    /\ \A b \in LargeBases, k \in LargeSizes : b + k <= LastPage

VARIABLES
    idSpanMap,   \* _idSpanMap: page -> Span object or Null
    pageId,      \* Span::_pageId of each Span object, dead ones included
    n,           \* Span::_n
    isUse,       \* Span::_isUse
    spanList,    \* _spanList[1 .. NPAGES-1]: the free spans of each length
    live,        \* Span objects obtained from _spanPool and not yet deleted
    held,        \* the spans callers have been given and not yet returned
    os,          \* what each page was mapped for: "none", "chunk" or "large"
    pc,          \* where the operation that holds _mtx is
    want,        \* NewSpan's argument k
    cur          \* ReleaseSpanToPageCache's argument span

spanVars == <<pageId, n, isUse, live>>
vars == <<idSpanMap, pageId, n, isUse, spanList, live, held, os, pc, want, cur>>

Pages(first, k) == first .. (first + k - 1)
ChunkMayCover(p) == \E b \in ChunkBases : p \in Pages(b, ChunkSize)
Extent(s) == Pages(pageId[s], n[s])

-----------------------------------------------------------------------------
(* The pieces the operations are made of. *)

\* TCMalloc_PageMapRadix64::get: nullptr for a page never set.
MapObjectToSpan(p) == IF p \in Page THEN idSpanMap[p] ELSE Null

\* _idSpanMap.set on every page of a set.
MapPages(m, pages, s) == [p \in Page |-> IF p \in pages THEN s ELSE m[p]]

\* Where mmap can still place k pages.
Room(bases, k) == {b \in bases : \A p \in Pages(b, k) : os[p] = "none"}

\* The .set loop over the pages of a span that is handed out.
MapAll_AllButLast(m, first, k, s) == MapPages(m, first .. (first + k - 2), s)
MapAll(m, first, k, s) == MapPages(m, Pages(first, k), s)

\* The two .set calls on the first and the last page of a free span.
MapEnds(m, first, k, s) == MapPages(m, {first, first + k - 1}, s)

\* SystemAlloc and SystemFree: mmap and munmap of a run of pages.
SystemAlloc(base, k, use) == os' = [p \in Page |-> IF p \in Pages(base, k) THEN use ELSE os[p]]
SystemFree(base, k) == os' = [p \in Page |-> IF p \in Pages(base, k) THEN "none" ELSE os[p]]

\* PushFront, and PopFront or Erase.
Push(lists, k, s) == [lists EXCEPT ![k] = @ \cup {s}]
Erase(lists, k, s) == [lists EXCEPT ![k] = @ \ {s}]

\* No free span is long enough for k pages: NewSpan falls through to step 4.
NothingFits_Longer(k) == \A i \in (k + 1) .. ChunkSize : spanList[i] = {}
NothingFits(k) == \A i \in k .. ChunkSize : spanList[i] = {}

\* Every bucket from k up to, not including, i is empty.
FirstAtLeast(k, i) == spanList[i] # {} /\ \A j \in k .. (i - 1) : spanList[j] = {}

\* The three conditions that let a merge loop swallow the neighbour it.
CanMerge_InUse(it) == it # Null /\ n[cur] + n[it] <= NPAGES - 1
CanMerge(it) == it # Null /\ n[cur] + n[it] <= NPAGES - 1 /\ ~isUse[it]

\* What _n becomes when cur swallows it.
MergedLength(it) == n[cur] + n[it]

\* What is left of a span whose first k pages are carved off.
Remainder(s, k) == [first |-> pageId[s] + k, n |-> n[s] - k]

LeftNeighbour_Itself == MapObjectToSpan(pageId[cur])
LeftNeighbour == MapObjectToSpan(pageId[cur] - 1)
RightNeighbour == MapObjectToSpan(pageId[cur] + n[cur])

-----------------------------------------------------------------------------
Init ==
    /\ idSpanMap = [p \in Page |-> Null]
    /\ pageId = [s \in SpanId |-> 0]
    /\ n = [s \in SpanId |-> 0]
    /\ isUse = [s \in SpanId |-> FALSE]
    /\ spanList = [i \in 1 .. ChunkSize |-> {}]
    /\ live = {}
    /\ held = {}
    /\ os = [p \in Page |-> "none"]
    /\ pc = "idle"
    /\ want = 0
    /\ cur = Null

\* A caller locks _mtx and asks for k < NPAGES pages.
NewSpan(k) ==
    /\ pc = "idle"
    /\ pc' = "new"
    /\ want' = k
    /\ UNCHANGED <<idSpanMap, spanVars, spanList, held, os, cur>>

\* Step 1: k >= NPAGES pages come straight from mmap, and only the FIRST
\* page enters the map.
NewSpanLarge(k) ==
    /\ pc = "idle"
    /\ \E base \in Room(LargeBases, k), s \in SpanId \ live :
          /\ SystemAlloc(base, k, "large")
          /\ pageId' = [pageId EXCEPT ![s] = base]
          /\ n' = [n EXCEPT ![s] = k]
          /\ isUse' = [isUse EXCEPT ![s] = TRUE]
          /\ live' = live \cup {s}
          /\ held' = held \cup {s}
          /\ idSpanMap' = MapPages(idSpanMap, {base}, s)
    /\ UNCHANGED <<spanList, pc, want, cur>>

\* Step 2: the bucket for k has a span; every one of its pages is mapped.
TakeExact ==
    /\ pc \in {"new", "again"}
    /\ \E s \in spanList[want] :
          /\ spanList' = Erase(spanList, want, s)
          /\ idSpanMap' = MapAll(idSpanMap, pageId[s], n[s], s)
          /\ isUse' = [isUse EXCEPT ![s] = TRUE]
          /\ held' = held \cup {s}
    /\ pc' = "idle"
    /\ want' = 0
    /\ UNCHANGED <<pageId, n, live, os, cur>>

\* Step 3: the front of the shortest longer span becomes the new span; the
\* rest stays free, in the bucket of its new length, with its ends mapped.
SplitLarger ==
    /\ pc \in {"new", "again"}
    /\ spanList[want] = {}
    /\ \E i \in (want + 1) .. ChunkSize :
       /\ FirstAtLeast(want + 1, i)
       /\ \E larger \in spanList[i], s \in SpanId \ live :
          LET first == pageId[larger]
              rest  == Remainder(larger, want)
          IN /\ pageId' = [pageId EXCEPT ![s] = first, ![larger] = rest.first]
             /\ n' = [n EXCEPT ![s] = want, ![larger] = rest.n]
             /\ isUse' = [isUse EXCEPT ![s] = TRUE]
             /\ live' = live \cup {s}
             /\ held' = held \cup {s}
             /\ spanList' = Push(Erase(spanList, i, larger), rest.n, larger)
             /\ idSpanMap' = MapAll(MapEnds(idSpanMap, rest.first, rest.n, larger),
                                    first, want, s)
    /\ pc' = "idle"
    /\ want' = 0
    /\ UNCHANGED <<os, cur>>

\* Step 4: a chunk of NPAGES-1 pages from mmap joins the longest bucket, NOT
\* in the map, and NewSpan(k) is called again.
GrowHeap ==
    /\ pc \in {"new", "again"}
    /\ NothingFits(want)
    /\ \E base \in Room(ChunkBases, ChunkSize), s \in SpanId \ live :
          /\ SystemAlloc(base, ChunkSize, "chunk")
          /\ pageId' = [pageId EXCEPT ![s] = base]
          /\ n' = [n EXCEPT ![s] = ChunkSize]
          /\ isUse' = [isUse EXCEPT ![s] = FALSE]
          /\ live' = live \cup {s}
          /\ spanList' = Push(spanList, ChunkSize, s)
    /\ pc' = "again"
    /\ UNCHANGED <<idSpanMap, held, want, cur>>

\* SystemAlloc has no room and throws bad_alloc (Common.h:86) through NewSpan
\* and through the caller, which locked _mtx by hand: nothing unlocks it.
GrowThrows ==
    /\ pc \in {"new", "again"}
    /\ NothingFits(want)
    /\ Room(ChunkBases, ChunkSize) = {}
    /\ pc' = "thrown"
    /\ want' = 0
    /\ UNCHANGED <<idSpanMap, spanVars, spanList, held, os, cur>>

LargeThrows(k) ==
    /\ pc = "idle"
    /\ Room(LargeBases, k) = {}
    /\ pc' = "thrown"
    /\ UNCHANGED <<idSpanMap, spanVars, spanList, held, os, want, cur>>

\* Everybody waits for that mutex from then on.
MutexHeldForever == pc = "thrown" /\ UNCHANGED vars

\* ReleaseSpanToPageCache of a span of NPAGES pages or more: munmap.  The map
\* keeps its entry for the first page, and the Span object goes to the pool,
\* whose link overwrites _pageId.
ReleaseLarge(s) ==
    /\ pc = "idle"
    /\ s \in held
    /\ n[s] >= NPAGES
    /\ SystemFree(pageId[s], n[s])
    /\ pageId' = [pageId EXCEPT ![s] = 0]
    /\ live' = live \ {s}
    /\ held' = held \ {s}
    /\ UNCHANGED <<idSpanMap, n, isUse, spanList, pc, want, cur>>

\* Any other span enters the merge loops.
ReleaseSmall(s) ==
    /\ pc = "idle"
    /\ s \in held
    /\ n[s] < NPAGES
    /\ pc' = "left"
    /\ cur' = s
    /\ held' = held \ {s}
    /\ UNCHANGED <<idSpanMap, spanVars, spanList, os, want>>

\* The neighbour leaves its bucket, cur grows over it, its object is deleted.
Swallow(it, first) ==
    /\ spanList' = Erase(spanList, n[it], it)
    /\ pageId' = [pageId EXCEPT ![cur] = first, ![it] = 0]
    /\ n' = [n EXCEPT ![cur] = MergedLength(it)]
    /\ live' = live \ {it}
    /\ UNCHANGED <<idSpanMap, isUse, held, os, pc, want, cur>>

MergeLeft ==
    /\ pc = "left"
    /\ CanMerge(LeftNeighbour)
    /\ Swallow(LeftNeighbour, pageId[LeftNeighbour])

LeftDone ==
    /\ pc = "left"
    /\ ~CanMerge(LeftNeighbour)
    /\ pc' = "right"
    /\ UNCHANGED <<idSpanMap, spanVars, spanList, held, os, want, cur>>

MergeRight ==
    /\ pc = "right"
    /\ CanMerge(RightNeighbour)
    /\ Swallow(RightNeighbour, pageId[cur])

\* Nothing more to swallow: the span is free, listed and its ends are mapped.
FinishRelease ==
    /\ pc = "right"
    /\ ~CanMerge(RightNeighbour)
    /\ isUse' = [isUse EXCEPT ![cur] = FALSE]
    /\ spanList' = Push(spanList, n[cur], cur)
    /\ idSpanMap' = MapEnds(idSpanMap, pageId[cur], n[cur], cur)
    /\ pc' = "idle"
    /\ cur' = Null
    /\ UNCHANGED <<pageId, n, live, held, os, want>>

\* The steps the holder of _mtx takes on its own.
Continue == \/ TakeExact \/ SplitLarger \/ GrowHeap \/ GrowThrows
            \/ MergeLeft \/ LeftDone \/ MergeRight \/ FinishRelease

Next ==
    \/ \E k \in 1 .. ChunkSize : NewSpan(k)
    \/ \E k \in LargeSizes : NewSpanLarge(k)
    \/ \E s \in held : ReleaseLarge(s)
    \/ \E s \in held : ReleaseSmall(s)
    \/ \E k \in LargeSizes : LargeThrows(k)
    \/ Continue
    \/ MutexHeldForever

Spec == Init /\ [][Next]_vars

-----------------------------------------------------------------------------
(* What must hold.                                                         *)

TypeOK ==
    /\ idSpanMap \in [Page -> SpanId \cup {Null}]
    /\ pageId \in [SpanId -> Nat]
    /\ n \in [SpanId -> Nat]
    /\ isUse \in [SpanId -> BOOLEAN]
    /\ spanList \in [1 .. ChunkSize -> SUBSET SpanId]
    /\ live \subseteq SpanId
    /\ held \subseteq live
    /\ os \in [Page -> {"none", "chunk", "large"}]
    /\ pc \in {"idle", "new", "again", "left", "right", "thrown"}
    /\ want \in 0 .. ChunkSize
    /\ cur \in SpanId \cup {Null}
    /\ pc \in {"new", "again"} => want # 0
    /\ pc \in {"left", "right"} <=> cur # Null

Apart(s, t) == pageId[s] + n[s] <= pageId[t] \/ pageId[t] + n[t] <= pageId[s]

\* No page belongs to two spans, free or handed out, at any step of a merge
\* or a split: two live blocks can then never share a byte (verify.cpp:19).
SpansDisjoint == \A s, t \in live : s # t => Apart(s, t)

\* The callers' part of it (verify.cpp:18, "the whole requested extent is
\* writable"): every page of a span somebody holds is mapped.
HeldMapped == \A s \in held : \A p \in Extent(s) : p \in Page /\ os[p] # "none"

\* A span never reaches over memory the process has not mapped, nor from a
\* chunk into a large allocation: a merge stops at the end of what it knows.
SpansMapped ==
    \A s \in live :
        /\ n[s] >= 1 /\ pageId[s] >= 1 /\ pageId[s] + n[s] <= LastPage
        /\ \A p \in Extent(s) : os[p] = IF n[s] < NPAGES THEN "chunk" ELSE "large"

\* Splitting and merging lose no page: every page of every chunk is in a span.
NoPageLost == \A p \in Page : os[p] = "chunk" => \E s \in live : p \in Extent(s)

\* Bucket i holds spans of exactly i pages that nobody uses, and a live span is
\* in its bucket, in a caller's hands, or being released - nowhere else.
Buckets ==
    /\ \A i \in 1 .. ChunkSize : \A s \in spanList[i] :
          s \in live /\ n[s] = i /\ ~isUse[s] /\ s \notin held
    /\ \A s \in held : isUse[s]
    /\ \A s \in live : s \in held \/ s = cur \/ (n[s] < NPAGES /\ s \in spanList[n[s]])
    /\ cur # Null => cur \in live /\ cur \notin held /\ n[cur] < NPAGES /\ isUse[cur]

\* ConcurrentFree and ReleaseListToSpans look a block's span up by its page:
\* every page of a handed-out span leads to that span (of a large one, the
\* first page, the only address its caller has), so assert(false) in
\* MapObjectToSpan (PageCache.cpp:22) is out of reach.
HeldFound ==
    \A s \in held :
        /\ MapObjectToSpan(pageId[s]) = s
        /\ n[s] < NPAGES => \A p \in Extent(s) : MapObjectToSpan(p) = s

\* A free span is found from either side, once the NewSpan that grew the heap
\* has gone through its recursive call.
FreeEndsFound ==
    \A i \in 1 .. ChunkSize : \A s \in spanList[i] :
        \/ pc = "again" /\ i = ChunkSize
        \/ /\ MapObjectToSpan(pageId[s]) = s
           /\ MapObjectToSpan(pageId[s] + n[s] - 1) = s

\* The recursive NewSpan of PageCache.cpp:91 finds the chunk just pushed, and
\* nothing shorter: the recursion never grows the heap twice.
GrowsOnce ==
    pc = "again" =>
        /\ \A j \in want .. (ChunkSize - 1) : spanList[j] = {}
        /\ \E s \in SpanId : spanList[ChunkSize] = {s}

\* Whatever the merge loops swallow is a live free span, in the bucket they
\* erase it from, that ends where cur begins or begins where cur ends.
MergesNeighbours ==
    /\ pc = "left" /\ CanMerge(LeftNeighbour) =>
          LET it == LeftNeighbour IN
          it \in live /\ it \in spanList[n[it]] /\ pageId[it] + n[it] = pageId[cur]
    /\ pc = "right" /\ CanMerge(RightNeighbour) =>
          LET it == RightNeighbour IN
          it \in live /\ it \in spanList[n[it]] /\ pageId[cur] + n[cur] = pageId[it]

\* The map knows pages of chunks and first pages of large spans, no others.
MapKnows ==
    \A p \in Page :
        /\ idSpanMap[p] # Null => p \in LargeBases \/ os[p] = "chunk"
        /\ os[p] = "chunk" => ChunkMayCover(p)

\* README.md:151: a returned span merges with its free neighbours - when its
\* release ends, no free span it could have swallowed touches it.
CoalescedOnRelease ==
    [][ \A s \in live : pc = "right" /\ pc' = "idle" /\ s # cur /\ ~isUse[s] =>
            \/ n[cur] + n[s] > ChunkSize
            \/ pageId[s] + n[s] # pageId[cur] /\ pageId[cur] + n[cur] # pageId[s]
      ]_vars

\* Steps the operation under way still has: the recursive NewSpan is the last
\* one, and every round of a merge loop needs a live span to swallow.
StepsLeft ==
    IF pc \in {"idle", "thrown"} THEN 0
    ELSE IF pc = "again" THEN 1
    ELSE IF pc = "new" THEN 2
    ELSE Cardinality(live) + IF pc = "right" THEN 1 ELSE 2

\* Everyone else waits for the mutex meanwhile: every step of a request or a
\* release brings its end nearer, so the recursion and the merge loops end
\* (PageCache.cpp:91, 107-164); nothing deadlocks, so there is such a step.
OperationsEnd == [][pc \notin {"idle", "thrown"} => StepsLeft' < StepsLeft]_vars

\* The page layer seen by its callers: PageHeap, with the held spans' extents.
Heap == INSTANCE PageHeap WITH heap <- {<<pageId[s], n[s]>> : s \in held}
ImplementsPageHeap == Heap!HeapSpec

-----------------------------------------------------------------------------
(* What the proofs rest on. *)

\* mmap never placed a large request so that a chunk touches its first page.
\* It holds where no request reaches NPAGES pages (LargeBases = {}); where it
\* fails, the map entry that ReleaseLarge leaves behind misleads the merges.
Isolated == \A b \in LargeBases : ~ChunkMayCover(b - 1) /\ ~ChunkMayCover(b + 1)

Inv == /\ TypeOK /\ SpansDisjoint /\ SpansMapped /\ NoPageLost /\ Buckets
       /\ HeldFound /\ FreeEndsFound /\ GrowsOnce /\ MapKnows
=============================================================================
