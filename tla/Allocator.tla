----------------------------- MODULE Allocator ------------------------------
(***************************************************************************)
(* ConcurrentAlloc and ConcurrentFree (ConcurrentAlloc.h) run by several   *)
(* threads over their ThreadCaches (ThreadCache.cpp) and the one           *)
(* CentralCache (CentralCache.cpp), with every mutex as a variable and a   *)
(* step between any two critical sections.                                 *)
(*                                                                         *)
(* The page layer is seen through PageHeap, which PageCache implements:    *)
(* NewSpan answers with a page run nobody holds.  A page run is a Slot     *)
(* here, and a block the slot it lies in, the class the slot was cut for   *)
(* and its place in it, so two blocks of one slot overlap when they are    *)
(* equal or of different classes.  Free lists are sets: their order is     *)
(* abstracted, their lengths are not.                                      *)
(***************************************************************************)
EXTENDS Integers, FiniteSets, FiniteSetsExt

CONSTANTS
    Thread,      \* the callers
    Slot,        \* bound: the page runs there are
    Place,       \* the objects GetOneSpan carves out of a span (SizeClass!CarveCount)
    Class,       \* the size classes in use
    Big,         \* the requests above MAX_BYTES
    None,
    NumMove,     \* SizeClass::NumMoveSize
    Calls,       \* bound: the calls a thread makes, or None for no bound
    AnyoneFrees, \* whether threads free that never allocated a small block
    MaxEnds      \* bound: the threads that end

ASSUME ConstantsAssumption ==
    /\ IsFiniteSet(Slot) /\ IsFiniteSet(Place) /\ Place # {}
    /\ None \notin Thread \cup Slot \cup Place \cup Class \cup {Big}
    /\ Big \notin Class
    /\ NumMove \in Nat /\ NumMove >= 2
    /\ Calls \in Nat \cup {None} /\ None \notin Nat
    /\ AnyoneFrees \in BOOLEAN
    /\ MaxEnds \in Nat

VARIABLES
    pc,          \* where each thread is in its call
    arg,         \* the class the call is about
    batch,       \* FetchRangeObj's batchNum
    chain,       \* what ReleaseListToSpans still has to give back
    span,        \* the span in the thread's hands, in no list
    tls,         \* the threads whose pTLSThreadCache is set
    cache,       \* ThreadCache::_freeList[c] of each thread
    maxSize,     \* FreeList::_maxSize
    bucketOwner, \* _spanLists[c]._mtx
    pageOwner,   \* PageCache::_mtx
    bucket,      \* _spanLists[c]: the spans of each class
    spanFree,    \* Span::_freeList
    useCount,    \* Span::_useCount
    objSize,     \* Span::_objSize, as a class
    owned,       \* the slots NewSpan has handed out
    live,        \* the blocks callers hold
    out,         \* how many blocks were handed out and not given back
    left,        \* the calls each thread may still make
    stranded,    \* the objects in the caches of threads that have ended
    ends         \* how many threads have ended

calls == <<pc, arg, batch, chain, span>>
caches == <<tls, cache, maxSize>>
locks == <<bucketOwner, pageOwner>>
spans == <<bucket, spanFree, useCount, objSize>>
blocks == <<live, out>>
ended == <<stranded, ends>>
vars == <<calls, caches, locks, spans, owned, blocks, left, ended>>

Object(s, c) == [slot : {s}, class : {c}, place : Place]
BigBlock(s) == [slot |-> s, class |-> Big, place |-> None]
Block == [slot : Slot, class : Class, place : Place] \cup {BigBlock(s) : s \in Slot}
Overlaps(a, b) == a.slot = b.slot /\ (a = b \/ a.class # b.class)

-----------------------------------------------------------------------------
Init ==
    /\ pc = [t \in Thread |-> "idle"]
    /\ arg = [t \in Thread |-> None]
    /\ batch = [t \in Thread |-> 0]
    /\ chain = [t \in Thread |-> {}]
    /\ span = [t \in Thread |-> None]
    /\ tls = {}
    /\ cache = [t \in Thread |-> [c \in Class |-> {}]]
    /\ maxSize = [t \in Thread |-> [c \in Class |-> 1]]
    /\ bucketOwner = [c \in Class |-> None]
    /\ pageOwner = None
    /\ bucket = [c \in Class |-> {}]
    /\ spanFree = [s \in Slot |-> {}]
    /\ useCount = [s \in Slot |-> 0]
    /\ objSize = [s \in Slot |-> None]
    /\ owned = {}
    /\ live = {}
    /\ out = 0
    /\ left = [t \in Thread |-> Calls]
    /\ stranded = {}
    /\ ends = 0

At(t, where) == pc[t] = where
Goto(t, where) == pc' = [pc EXCEPT ![t] = where]
Return(t) == Goto(t, "idle") /\ arg' = [arg EXCEPT ![t] = None]

\* A thread begins a call about class c.
Enter(t) ==
    /\ At(t, "idle")
    /\ left[t] # 0
    /\ left' = [left EXCEPT ![t] = IF @ = None THEN None ELSE @ - 1]

\* Bound: a call that may need a span begins only while a slot is left for it;
\* what happens when memory runs out is PageCache's GrowThrows.
Seeking == {t \in Thread : pc[t] \in {"fetch", "scan", "newLock", "new"}}
RoomLeft == Cardinality(Slot \ owned) > Cardinality(Seeking)

HandOut(o) == live' = live \cup {o} /\ out' = out + 1
GiveIn(o) == live' = live \ {o} /\ out' = out - 1

LockBucket(t) ==
    /\ bucketOwner[arg[t]] = None
    /\ bucketOwner' = [bucketOwner EXCEPT ![arg[t]] = t]
UnlockBucket_Not(t) == UNCHANGED bucketOwner
UnlockBucket(t) == bucketOwner' = [bucketOwner EXCEPT ![arg[t]] = None]

\* Before NewSpan and before ReleaseSpanToPageCache.
LockPages(t) ==
    /\ \/ At(t, "newLock") /\ Goto(t, "new")
       \/ At(t, "retLock") /\ Goto(t, "ret")
    /\ pageOwner = None
    /\ pageOwner' = t
    /\ UNCHANGED <<arg, batch, chain, span, caches, bucketOwner, spans, owned, blocks, left>>
UnlockPages == pageOwner' = None

-----------------------------------------------------------------------------
(* ConcurrentAlloc of a small block: ThreadCache::Allocate.                  *)

\* min(NumMoveSize, MaxSize), and the cap, which rises when it was the smaller.
BatchFor(t, c) == Min({NumMove, maxSize[t][c]})
CapAfterMiss_Always(t, c) == maxSize[t][c] + 1
CapAfterMiss(t, c) ==
    IF BatchFor(t, c) = maxSize[t][c] THEN maxSize[t][c] + 1 ELSE maxSize[t][c]

\* The thread's list has one.
AllocHit(t, c) ==
    /\ Enter(t)
    /\ \E o \in cache[t][c] :
          /\ cache' = [cache EXCEPT ![t][c] = @ \ {o}]
          /\ HandOut(o)
    /\ UNCHANGED <<calls, tls, maxSize, locks, spans, owned>>

\* It has none, or the thread no cache yet: FetchFromCentralCache sets the batch.
AllocMiss(t, c) ==
    /\ Enter(t)
    /\ RoomLeft
    /\ cache[t][c] = {}
    /\ tls' = tls \cup {t}
    /\ arg' = [arg EXCEPT ![t] = c]
    /\ batch' = [batch EXCEPT ![t] = BatchFor(t, c)]
    /\ maxSize' = [maxSize EXCEPT ![t][c] = CapAfterMiss(t, c)]
    /\ Goto(t, "fetch")
    /\ UNCHANGED <<chain, span, cache, locks, spans, owned, blocks>>

\* FetchRangeObj locks the bucket.
FetchLock(t) ==
    /\ At(t, "fetch")
    /\ LockBucket(t)
    /\ Goto(t, "scan")
    /\ UNCHANGED <<arg, batch, chain, span, caches, pageOwner, spans, owned, blocks, left>>

\* What is left on the free list, and what _useCount rises by (actualNum).
AfterTaking_KeepsOne(free, taken) == free \ (taken \ {CHOOSE o \in taken : TRUE})
AfterTaking(free, taken) == free \ taken

Uses_Batch(t, taken) == batch[t]
Uses(t, taken) == Cardinality(taken)

\* Up to batch objects leave the free list of s: the caller gets one, its
\* thread's list the rest, and the bucket is unlocked.
TakeFrom(t, s) ==
    LET c == arg[t] IN
    /\ \E taken \in kSubset(Min({batch[t], Cardinality(spanFree[s])}), spanFree[s]) :
          /\ spanFree' = [spanFree EXCEPT ![s] = AfterTaking(@, taken)]
          /\ useCount' = [useCount EXCEPT ![s] = @ + Uses(t, taken)]
          /\ \E o \in taken :
                /\ HandOut(o)
                /\ cache' = [cache EXCEPT ![t][c] = @ \cup (taken \ {o})]
    /\ UnlockBucket(t)
    /\ Return(t)
    /\ batch' = [batch EXCEPT ![t] = 0]

\* GetOneSpan finds a span with free objects.
ScanHit(t) ==
    /\ At(t, "scan")
    /\ \E s \in bucket[arg[t]] : spanFree[s] # {} /\ TakeFrom(t, s)
    /\ UNCHANGED <<chain, span, tls, maxSize, pageOwner, bucket, objSize, owned, left>>

\* It finds none and lets go of the bucket.
ScanMiss_KeepsBucket(t) ==
    /\ At(t, "scan")
    /\ \A s \in bucket[arg[t]] : spanFree[s] = {}
    /\ Goto(t, "newLock")
    /\ UNCHANGED <<arg, batch, chain, span, caches, locks, spans, owned, blocks, left>>
ScanMiss(t) ==
    /\ At(t, "scan")
    /\ \A s \in bucket[arg[t]] : spanFree[s] = {}
    /\ UnlockBucket(t)
    /\ Goto(t, "newLock")
    /\ UNCHANGED <<arg, batch, chain, span, caches, pageOwner, spans, owned, blocks, left>>

\* Under the PageCache's mutex: NewSpan, then the span's _objSize.
NewSpan(t, s) ==
    /\ At(t, "new")
    /\ arg[t] # Big
    /\ s \notin owned
    /\ owned' = owned \cup {s}
    /\ objSize' = [objSize EXCEPT ![s] = arg[t]]
    /\ span' = [span EXCEPT ![t] = s]
    /\ UnlockPages
    /\ Goto(t, "carve")
    /\ UNCHANGED <<arg, batch, chain, caches, bucketOwner, bucket, spanFree, useCount, blocks, left>>

\* The objects are linked with no mutex held.
Carve(t) ==
    /\ At(t, "carve")
    /\ spanFree' = [spanFree EXCEPT ![span[t]] = Object(span[t], arg[t])]
    /\ Goto(t, "relock")
    /\ UNCHANGED <<arg, batch, chain, span, caches, locks, bucket, useCount, objSize, owned,
                   blocks, left>>

\* The bucket again: PushFront, and the objects come from the new span.
Relock(t) ==
    /\ At(t, "relock")
    /\ LockBucket(t)
    /\ Goto(t, "take")
    /\ UNCHANGED <<arg, batch, chain, span, caches, pageOwner, spans, owned, blocks, left>>

Take(t) ==
    /\ At(t, "take")
    /\ bucket' = [bucket EXCEPT ![arg[t]] = @ \cup {span[t]}]
    /\ TakeFrom(t, span[t])
    /\ span' = [span EXCEPT ![t] = None]
    /\ UNCHANGED <<chain, tls, maxSize, pageOwner, objSize, owned, left>>

-----------------------------------------------------------------------------
(* ConcurrentAlloc of a large block.                                         *)

AllocBig(t) ==
    /\ Enter(t)
    /\ RoomLeft
    /\ arg' = [arg EXCEPT ![t] = Big]
    /\ Goto(t, "newLock")
    /\ UNCHANGED <<batch, chain, span, caches, locks, spans, owned, blocks>>

NewBigSpan(t, s) ==
    /\ At(t, "new")
    /\ arg[t] = Big
    /\ s \notin owned
    /\ owned' = owned \cup {s}
    /\ objSize' = [objSize EXCEPT ![s] = Big]
    /\ HandOut(BigBlock(s))
    /\ UnlockPages
    /\ Return(t)
    /\ UNCHANGED <<batch, chain, span, caches, bucketOwner, bucket, spanFree, useCount, left>>

-----------------------------------------------------------------------------
(* ConcurrentFree of a small block, whose class is looked up in its span     *)
(* with no mutex held: ThreadCache::Deallocate.                              *)

TooLong_Beyond(length, cap) == length > cap
TooLong(length, cap) == length >= cap

FreeToCache(t, o) ==
    LET c == objSize[o.slot]
        list == cache[t][c] \cup {o}
    IN
    /\ Enter(t)
    /\ t \in tls
    /\ c # Big
    /\ GiveIn(o)
    /\ ~TooLong(Cardinality(list), maxSize[t][c])
    /\ cache' = [cache EXCEPT ![t][c] = list]
    /\ UNCHANGED <<calls, tls, maxSize, locks, spans, owned>>

\* ListTooLong: MaxSize objects leave the list for ReleaseListToSpans.
FreeAndFlush(t, o) ==
    LET c == objSize[o.slot]
        list == cache[t][c] \cup {o}
    IN
    /\ Enter(t)
    /\ t \in tls
    /\ c # Big
    /\ GiveIn(o)
    /\ TooLong(Cardinality(list), maxSize[t][c])
    /\ \E flushed \in kSubset(maxSize[t][c], list) :
          /\ chain' = [chain EXCEPT ![t] = flushed]
          /\ cache' = [cache EXCEPT ![t][c] = list \ flushed]
    /\ arg' = [arg EXCEPT ![t] = c]
    /\ Goto(t, "release")
    /\ UNCHANGED <<batch, span, tls, maxSize, locks, spans, owned>>

\* assert(pTLSThreadCache) fails and the process ends there.
FreeWithoutCache(t, o) ==
    /\ AnyoneFrees
    /\ Enter(t)
    /\ t \notin tls
    /\ objSize[o.slot] # Big
    /\ Goto(t, "assert")
    /\ UNCHANGED <<arg, batch, chain, span, caches, locks, spans, owned, blocks>>

\* ReleaseListToSpans locks the bucket, first and after every span it returns.
ReleaseLock(t) ==
    /\ At(t, "release")
    /\ LockBucket(t)
    /\ Goto(t, "giveBack")
    /\ UNCHANGED <<arg, batch, chain, span, caches, pageOwner, spans, owned, blocks, left>>

Unused_TooEarly(count) == count <= 1
Unused(count) == count = 0

\* One object goes back to its span, which stays in use.
GiveBack(t, o) ==
    LET s == o.slot IN
    /\ At(t, "giveBack")
    /\ ~Unused(useCount[s] - 1)
    /\ chain' = [chain EXCEPT ![t] = @ \ {o}]
    /\ spanFree' = [spanFree EXCEPT ![s] = @ \cup {o}]
    /\ useCount' = [useCount EXCEPT ![s] = @ - 1]
    /\ UNCHANGED <<pc, arg, batch, span, caches, locks, bucket, objSize, owned, blocks, left>>

\* It was the last one out: the span leaves its bucket, which is let go.
GiveBackLast(t, o) ==
    LET s == o.slot IN
    /\ At(t, "giveBack")
    /\ Unused(useCount[s] - 1)
    /\ chain' = [chain EXCEPT ![t] = @ \ {o}]
    /\ useCount' = [useCount EXCEPT ![s] = @ - 1]
    /\ bucket' = [bucket EXCEPT ![arg[t]] = @ \ {s}]
    /\ spanFree' = [spanFree EXCEPT ![s] = {}]
    /\ span' = [span EXCEPT ![t] = s]
    /\ UnlockBucket(t)
    /\ Goto(t, "retLock")
    /\ UNCHANGED <<arg, batch, caches, pageOwner, objSize, owned, blocks, left>>

\* ReleaseSpanToPageCache under the PageCache's mutex; a small block's list
\* is walked on, a large block's free is over.
ReturnSpan(t) ==
    /\ At(t, "ret")
    /\ owned' = owned \ {span[t]}
    /\ span' = [span EXCEPT ![t] = None]
    /\ UnlockPages
    /\ \/ arg[t] # Big /\ Goto(t, "release") /\ UNCHANGED arg
       \/ arg[t] = Big /\ Return(t)
    /\ UNCHANGED <<batch, chain, caches, bucketOwner, spans, blocks, left>>

ReleaseDone(t) ==
    /\ At(t, "giveBack")
    /\ chain[t] = {}
    /\ UnlockBucket(t)
    /\ Return(t)
    /\ UNCHANGED <<batch, chain, span, caches, pageOwner, spans, owned, blocks, left>>

-----------------------------------------------------------------------------
\* ConcurrentFree of a large block.
FreeBig(t, o) ==
    /\ Enter(t)
    /\ objSize[o.slot] = Big
    /\ GiveIn(o)
    /\ arg' = [arg EXCEPT ![t] = Big]
    /\ span' = [span EXCEPT ![t] = o.slot]
    /\ Goto(t, "retLock")
    /\ UNCHANGED <<batch, chain, caches, locks, spans, owned>>

Begin(t) ==
    /\ \/ \E c \in Class : AllocHit(t, c) \/ AllocMiss(t, c)
       \/ AllocBig(t)
       \/ \E o \in live : \/ FreeToCache(t, o) \/ FreeAndFlush(t, o)
                          \/ FreeWithoutCache(t, o) \/ FreeBig(t, o)
    /\ UNCHANGED ended

Continue(t) ==
    /\ \/ LockPages(t)
       \/ FetchLock(t) \/ ScanHit(t) \/ ScanMiss(t)
       \/ \E s \in Slot : NewSpan(t, s) \/ NewBigSpan(t, s)
       \/ Carve(t) \/ Relock(t) \/ Take(t)
       \/ ReleaseLock(t) \/ ReleaseDone(t)
       \/ \E o \in chain[t] : GiveBack(t, o) \/ GiveBackLast(t, o)
       \/ ReturnSpan(t)
    /\ UNCHANGED ended

\* The thread ends and another takes its place: pTLSThreadCache goes with it,
\* the ThreadCache it pointed to and the objects in it stay where they are.
End(t) ==
    /\ At(t, "idle")
    /\ t \in tls
    /\ ends < MaxEnds
    /\ ends' = ends + 1
    /\ stranded' = stranded \cup UNION {cache[t][c] : c \in Class}
    /\ tls' = tls \ {t}
    /\ cache' = [cache EXCEPT ![t] = [c \in Class |-> {}]]
    /\ maxSize' = [maxSize EXCEPT ![t] = [c \in Class |-> 1]]
    /\ UNCHANGED <<calls, locks, spans, owned, blocks, left>>

\* A failed assertion ends the process; with no call under way it may end too,
\* and must when the callers have made their calls or the bounds are reached.
Aborted == \E t \in Thread : At(t, "assert")
AllIdle == \A t \in Thread : At(t, "idle")

Next ==
    \/ ~Aborted /\ \E t \in Thread : Begin(t) \/ Continue(t) \/ End(t)
    \/ (Aborted \/ AllIdle) /\ UNCHANGED vars

Spec == Init /\ [][Next]_vars

\* The scheduler runs every thread; nothing makes a thread begin a call.
FairSpec == Spec /\ \A t \in Thread : WF_vars(Continue(t))

-----------------------------------------------------------------------------
(* Properties.                                                               *)

\* The objects of s that are not on its free list: with callers, in thread
\* caches, on their way back, or stranded.
Cached == UNION {cache[t][c] : t \in Thread, c \in Class}
GoingBack == UNION {chain[t] : t \in Thread}
Outstanding(s) == {o \in live \cup Cached \cup GoingBack \cup stranded : o.slot = s}

Carved == {s \in Slot : \/ \E c \in Class : s \in bucket[c]
                        \/ \E t \in Thread : span[t] = s /\ At(t, "relock")
                        \/ \E t \in Thread : span[t] = s /\ At(t, "take")}

\* The type of every variable (ThreadCache.h, CentralCache.h, Span in Common.h).
TypeOK ==
    /\ pc \in [Thread -> {"idle", "fetch", "scan", "newLock", "new", "carve", "relock", "take",
                          "release", "giveBack", "retLock", "ret", "assert"}]
    /\ arg \in [Thread -> Class \cup {Big, None}]
    /\ batch \in [Thread -> 0 .. NumMove]
    /\ chain \in [Thread -> SUBSET Block]
    /\ span \in [Thread -> Slot \cup {None}]
    /\ tls \subseteq Thread
    /\ cache \in [Thread -> [Class -> SUBSET Block]]
    /\ maxSize \in [Thread -> [Class -> 1 .. NumMove + 1]]
    /\ bucketOwner \in [Class -> Thread \cup {None}]
    /\ pageOwner \in Thread \cup {None}
    /\ bucket \in [Class -> SUBSET Slot]
    /\ spanFree \in [Slot -> SUBSET Block]
    /\ useCount \in [Slot -> Nat]
    /\ objSize \in [Slot -> Class \cup {Big, None}]
    /\ owned \subseteq Slot
    /\ live \subseteq Block
    /\ out \in Nat
    /\ left \in [Thread -> Nat \cup {None}]
    /\ stranded \subseteq Block
    /\ ends \in 0 .. MaxEnds

\* No object is in two hands: with a caller, in one thread's list, on one
\* thread's chain or on its span's free list (verify.cpp:19-23, "no two
\* simultaneously live blocks share a byte", over every path an object takes).
OnePlace ==
    /\ \A s \in Slot : spanFree[s] \cap Outstanding(s) = {}
    /\ \A t \in Thread, c \in Class :
          /\ cache[t][c] \cap live = {}
          /\ \A u \in Thread :
                /\ cache[t][c] \cap chain[u] = {}
                /\ \A d \in Class : <<t, c>> # <<u, d>> => cache[t][c] \cap cache[u][d] = {}
    /\ \A t \in Thread :
          /\ chain[t] \cap live = {}
          /\ \A u \in Thread \ {t} : chain[t] \cap chain[u] = {}
    /\ stranded \cap (live \cup Cached \cup GoingBack) = {}

\* No object is lost: what a carved span's free list lacks is outstanding, and
\* _useCount counts exactly that (CentralCache.cpp:58-71, 83-90).
NothingLost ==
    \A s \in Carved :
        /\ spanFree[s] \cup Outstanding(s) = Object(s, objSize[s])
        /\ useCount[s] = Cardinality(Outstanding(s))

\* A span that went back, or is on its way to the PageCache in some thread's
\* hands after its bucket was unlocked, is out of every bucket and nobody holds
\* an object of it; and no unused span is left behind in a bucket
\* (CentralCache.cpp:91-104).
ReturnedUnused ==
    /\ \A c \in Class : \A s \in bucket[c] : useCount[s] > 0
    /\ \A s \in Slot :
          (s \notin owned \/ \E t \in Thread : span[t] = s /\ pc[t] \in {"retLock", "ret"}) =>
              /\ Outstanding(s) = {}
              /\ \A c \in Class : s \notin bucket[c]

\* The class looked up with no mutex held is the class the object was carved
\* for, as long as anybody can look it up (ConcurrentAlloc.h:36-37,
\* CentralCache.cpp:25).
ClassHolds ==
    /\ \A o \in live : objSize[o.slot] = o.class
    /\ \A t \in Thread, c \in Class : \A o \in cache[t][c] : o.class = c /\ objSize[o.slot] = c
    /\ \A t \in Thread : \A o \in chain[t] : o.class = arg[t] /\ objSize[o.slot] = arg[t]

\* A thread hoards less than MaxSize objects of a class between two calls, and
\* the slow start stops one past NumMoveSize (ThreadCache.cpp:26-35, 80-83).
ShortLists ==
    \A t \in Thread, c \in Class :
        /\ Cardinality(cache[t][c]) < maxSize[t][c]
        /\ maxSize[t][c] <= NumMove + 1

\* A thread that ends takes at most NumMoveSize objects of a class with it:
\* nothing gives its ThreadCache back (ConcurrentAlloc.h:28-31), and what the
\* list may hold bounds what is lost for good (ThreadCache.cpp:32-35, 80-83).
StrandedFew ==
    \A c \in Class : Cardinality({o \in stranded : o.class = c}) <= ends * NumMove

\* What ListTooLong hands over is always the whole list, as the comment on
\* FreeList::PopRange says (Common.h:152-157).
FlushesAll ==
    [][\A t \in Thread :
          chain[t] = {} /\ chain'[t] # {} => cache'[t][arg'[t]] = {}]_vars

\* What the next step of a call under way needs: the mutex it locks, objects to
\* take, a slot to get.
Busy(t) == pc[t] \notin {"idle", "assert"}
WantsBucket(t) == pc[t] \in {"fetch", "relock", "release"}
WantsPages(t) == pc[t] \in {"newLock", "retLock"}
CanGo(t) ==
    /\ WantsBucket(t) => bucketOwner[arg[t]] = None
    /\ WantsPages(t) => pageOwner = None
    /\ pc[t] \in {"scan", "take"} => batch[t] >= 1
    /\ pc[t] = "take" => spanFree[span[t]] # {}
    /\ pc[t] = "new" => Slot \ owned # {}

WaitsFor(t, h) ==
    \/ WantsBucket(t) /\ bucketOwner[arg[t]] = h
    \/ WantsPages(t) /\ pageOwner = h

\* Nobody is stuck, be the others as busy as they like: a call that cannot take
\* its next step waits for a mutex, and the call that has locked it can.  Each
\* path lets go of the one kind of mutex before it asks for the other, and of
\* the bucket before it asks for it again (CentralCache.cpp:19-22, 26, 42, 71,
\* 99-107), by hand.
NoDeadlock ==
    \A t \in Thread : Busy(t) =>
        CanGo(t) \/ \E h \in Thread : WaitsFor(t, h) /\ Busy(h) /\ CanGo(h)

\* Blocks handed out never overlap and go back once: the contract.
Contract == INSTANCE Malloc
ImplementsMalloc == Contract!MallocSpec

\* Every call a thread begins returns, whatever the others do.
CallsReturn == \A t \in Thread : ~At(t, "idle") ~> At(t, "idle")

\* verify.cpp:24, "cross-thread free works": no free runs into the assertion of
\* ConcurrentAlloc.h:47.
AnyThreadMayFree == \A t \in Thread : ~At(t, "assert")
=============================================================================
