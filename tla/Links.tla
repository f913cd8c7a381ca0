------------------------------- MODULE Links --------------------------------
(***************************************************************************)
(* One size class with its pointers: the rings SpanList strings Spans on   *)
(* (Common.h:317-378), the chains of free objects whose first word is the  *)
(* link (FreeList, Common.h:105-180, and Span::_freeList), and the loops   *)
(* of CentralCache that walk and cut them (CentralCache.cpp:9-109).        *)
(*                                                                         *)
(* A critical section of the bucket is one step, but that ReleaseListTo-   *)
(* Spans takes a step for each object and lets go of the bucket in the     *)
(* middle.  What a thread does with its own list is one step.              *)
(*                                                                         *)
(* Abstracted: PageCache only keeps spans of this class's length on a ring *)
(* and makes others when it likes (its splits and merges are PageCache's); *)
(* the page map finds the span of every object (HeldFound there).          *)
(***************************************************************************)
EXTENDS Integers, FiniteSets, Sequences

CONSTANTS
    Thread,
    Span,         \* bound: the Span objects
    PerSpan,      \* the objects a span is cut into
    NumMoveSize,  \* the most objects a thread fetches at once
    Null,
    Data          \* what a user writes over the first word of an object

Block == Span \X (1 .. PerSpan)
Heads == {"bucket", "pages"}  \* the _head of the bucket's ring and of PageCache's

ASSUME LinksAssumption ==
    /\ IsFiniteSet(Span)
    /\ PerSpan \in Nat \ {0} /\ NumMoveSize \in Nat /\ NumMoveSize >= 2
    /\ {Null, Data} \cap (Block \cup Span \cup Heads) = {} /\ Null # Data
    /\ Heads \cap Span = {}

VARIABLES
    links,     \* _next and _prev of each Span
    unused,    \* the Span objects PageCache has not made yet
    freeList,  \* Span::_freeList
    useCount,  \* Span::_useCount
    word,      \* the first word of each object
    list,      \* FreeList::_freelist, of each thread
    size,      \* FreeList::_size
    maxSize,   \* FreeList::_maxSize
    user,      \* the objects handed out
    mtx,       \* who holds the bucket's mutex
    pc,        \* "idle", "new" (has newSpan), "release", "return" (has span)
    span,      \* the local newSpan or span
    start      \* the local start of ReleaseListToSpans

central == <<links, unused, freeList, useCount, mtx>>
cache == <<list, size, maxSize>>
locals == <<pc, span, start>>
vars == <<central, word, cache, user, locals>>

Init ==
    /\ links = [next |-> [x \in Span \cup Heads |-> IF x \in Heads THEN x ELSE Null],
                prev |-> [x \in Span \cup Heads |-> IF x \in Heads THEN x ELSE Null]]
    /\ unused = Span
    /\ freeList = [s \in Span |-> Null]
    /\ useCount = [s \in Span |-> 0]
    /\ word = [b \in Block |-> Data]
    /\ list = [t \in Thread |-> Null]
    /\ size = [t \in Thread |-> 0]
    /\ maxSize = [t \in Thread |-> 1]
    /\ user = {}
    /\ mtx = Null
    /\ pc = [t \in Thread |-> "idle"]
    /\ span = [t \in Thread |-> Null]
    /\ start = [t \in Thread |-> Null]

-----------------------------------------------------------------------------
(* Rings and chains.                                                         *)

Insert(l, pos, s) ==
    [next |-> [l.next EXCEPT ![s] = pos, ![l.prev[pos]] = s],
     prev |-> [l.prev EXCEPT ![s] = l.prev[pos], ![pos] = s]]

Begin(l, h) == l.next[h]
PushFront(l, h, s) == Insert(l, Begin(l, h), s)

Erase_OneWay(l, s) ==
    [next |-> [l.next EXCEPT ![l.prev[s]] = l.next[s], ![s] = Null],
     prev |-> [l.prev EXCEPT ![s] = Null]]
Erase(l, s) ==
    [next |-> [l.next EXCEPT ![l.prev[s]] = l.next[s], ![s] = Null],
     prev |-> [l.prev EXCEPT ![l.next[s]] = l.prev[s], ![s] = Null]]

\* The members of a set a walk meets before it leaves the set, in order.
Path(step, from, set) ==
    LET walk[i \in 0 .. Cardinality(set)] ==
            IF i = 0 THEN from
            ELSE IF walk[i - 1] \in set THEN step[walk[i - 1]] ELSE Null
        inside == {i \in DOMAIN walk : \A j \in 0 .. i : walk[j] \in set}
    IN  [i \in 1 .. Cardinality(inside) |-> walk[i - 1]]

Chain(from) == Path(word, from, Block)
Ring(h) == Path(links.next, Begin(links, h), Span)

\* The first n objects of a chain, cut off the rest.
Cut(w, end) == [w EXCEPT ![end] = Null]

-----------------------------------------------------------------------------
(* Allocate.                                                                 *)

Pop(t) ==
    /\ pc[t] = "idle"
    /\ list[t] # Null
    /\ list' = [list EXCEPT ![t] = word[list[t]]]
    /\ size' = [size EXCEPT ![t] = @ - 1]
    /\ user' = user \cup {list[t]}
    /\ word' = [word EXCEPT ![list[t]] = Data]
    /\ UNCHANGED <<central, maxSize, locals>>

Smaller(a, b) == IF a < b THEN a ELSE b

\* The loop of FetchRangeObj stops after batchNum objects or at the last one.
Batch(t, s) == Smaller(Smaller(NumMoveSize, maxSize[t]), Len(Chain(freeList[s])))

\* What PushRange adds to _size.
Pushed_Asked(t, n) == Smaller(NumMoveSize, maxSize[t]) - 1
Pushed(t, n) == n - 1

\* The slow start of FetchFromCentralCache.
Grow(t) == IF maxSize[t] <= NumMoveSize THEN maxSize[t] + 1 ELSE maxSize[t]

\* FetchRangeObj once it has a span, and the rest of FetchFromCentralCache: the
\* first object is the user's, PushRange takes the others to an empty list.
Take(t, s) ==
    LET n     == Batch(t, s)
        first == freeList[s]
        end   == Chain(first)[n]
    IN  /\ freeList' = [freeList EXCEPT ![s] = word[end]]
        /\ useCount' = [useCount EXCEPT ![s] = @ + n]
        /\ word' = [Cut(word, end) EXCEPT ![first] = Data]
        /\ list' = [list EXCEPT ![t] = IF n > 1 THEN word[first] ELSE @]
        /\ size' = [size EXCEPT ![t] = @ + Pushed(t, n)]
        /\ maxSize' = [maxSize EXCEPT ![t] = Grow(t)]
        /\ user' = user \cup {first}

\* GetOneSpan finds a span with free objects ...
Fetch(t) ==
    /\ pc[t] = "idle"
    /\ list[t] = Null
    /\ mtx = Null
    /\ LET spans == Ring("bucket")
       IN  \E i \in DOMAIN spans :
              /\ freeList[spans[i]] # Null
              /\ \A j \in 1 .. (i - 1) : freeList[spans[j]] = Null
              /\ Take(t, spans[i])
    /\ UNCHANGED <<links, unused, mtx, locals>>

\* The chain of a new span: every object leads to the next one.
CarveChain(w, s) ==
    [b \in Block |-> IF b[1] # s THEN w[b]
                     ELSE IF b[2] < PerSpan THEN <<s, b[2] + 1>> ELSE Null]

\* ... or lets go of the bucket and cuts a new one, from PageCache's ring or not.
Carve(t) ==
    /\ pc[t] = "idle"
    /\ list[t] = Null
    /\ mtx = Null
    /\ \A i \in DOMAIN Ring("bucket") : freeList[Ring("bucket")[i]] = Null
    /\ \E s \in Span :
          /\ \/ s \in unused /\ unused' = unused \ {s} /\ UNCHANGED links
             \/ s = Begin(links, "pages") /\ links' = Erase(links, s) /\ UNCHANGED unused
          /\ freeList' = [freeList EXCEPT ![s] = <<s, 1>>]
          /\ word' = CarveChain(word, s)
          /\ span' = [span EXCEPT ![t] = s]
    /\ pc' = [pc EXCEPT ![t] = "new"]
    /\ UNCHANGED <<useCount, mtx, cache, user, start>>

FetchNew(t) ==
    /\ pc[t] = "new"
    /\ mtx = Null
    /\ links' = PushFront(links, "bucket", span[t])
    /\ Take(t, span[t])
    /\ pc' = [pc EXCEPT ![t] = "idle"]
    /\ span' = [span EXCEPT ![t] = Null]
    /\ UNCHANGED <<unused, mtx, start>>

-----------------------------------------------------------------------------
(* Deallocate.                                                               *)

\* Push, and PopRange of maxSize objects once there are as many.
Free(t, b) ==
    /\ pc[t] = "idle"
    /\ b \in user
    /\ user' = user \ {b}
    /\ LET pushed == [word EXCEPT ![b] = list[t]]
           end    == Path(pushed, b, Block)[maxSize[t]]
       IN  IF size[t] + 1 < maxSize[t]
           THEN /\ word' = pushed
                /\ list' = [list EXCEPT ![t] = b]
                /\ size' = [size EXCEPT ![t] = @ + 1]
                /\ UNCHANGED locals
           ELSE /\ word' = Cut(pushed, end)
                /\ list' = [list EXCEPT ![t] = pushed[end]]
                /\ size' = [size EXCEPT ![t] = @ + 1 - maxSize[t]]
                /\ start' = [start EXCEPT ![t] = b]
                /\ pc' = [pc EXCEPT ![t] = "release"]
                /\ UNCHANGED span
    /\ UNCHANGED <<central, maxSize>>

\* One turn of ReleaseListToSpans' loop; it leaves the bucket's mutex locked,
\* but to return a span that has all its objects.
Following_ReadLate(s, b) == freeList[s]
Following(s, b) == word[b]

GiveBack(t) ==
    /\ pc[t] = "release"
    /\ start[t] # Null
    /\ mtx \in {Null, t}
    /\ LET b == start[t]
           s == b[1]
       IN  /\ start' = [start EXCEPT ![t] = Following(s, b)]
           /\ word' = [word EXCEPT ![b] = freeList[s]]
           /\ useCount' = [useCount EXCEPT ![s] = @ - 1]
           /\ IF useCount[s] = 1
              THEN /\ links' = Erase(links, s)
                   /\ freeList' = [freeList EXCEPT ![s] = Null]
                   /\ span' = [span EXCEPT ![t] = s]
                   /\ pc' = [pc EXCEPT ![t] = "return"]
                   /\ mtx' = Null
              ELSE /\ freeList' = [freeList EXCEPT ![s] = b]
                   /\ mtx' = t
                   /\ UNCHANGED <<links, span, pc>>
    /\ UNCHANGED <<unused, cache, user>>

\* ReleaseSpanToPageCache, with PageCache's mutex.
Return(t) ==
    /\ pc[t] = "return"
    /\ links' = PushFront(links, "pages", span[t])
    /\ span' = [span EXCEPT ![t] = Null]
    /\ pc' = [pc EXCEPT ![t] = "release"]
    /\ UNCHANGED <<unused, freeList, useCount, word, cache, user, mtx, start>>

\* The last unlock, after a lock if a span was the last thing given back.
Released(t) ==
    /\ pc[t] = "release"
    /\ start[t] = Null
    /\ mtx \in {Null, t}
    /\ mtx' = Null
    /\ pc' = [pc EXCEPT ![t] = "idle"]
    /\ UNCHANGED <<links, unused, freeList, useCount, word, cache, user, span, start>>

-----------------------------------------------------------------------------
Step(t) ==
    \/ Pop(t) \/ Fetch(t) \/ Carve(t) \/ FetchNew(t)
    \/ \E b \in user : Free(t, b)
    \/ GiveBack(t) \/ Return(t) \/ Released(t)

Next == \E t \in Thread : Step(t)

Spec == Init /\ [][Next]_vars

-----------------------------------------------------------------------------
(* Properties.                                                               *)

\* What the pointers stand for.
RingOf == [h \in Heads |-> Ring(h)]
FreeOf == [s \in Span |-> Chain(freeList[s])]
ListOf == [t \in Thread |-> Chain(list[t])]
GoingOf == [t \in Thread |-> Chain(start[t])]

\* The pointers are the lists they stand for: a walk meets what was put there,
\* in order and once, ends at nullptr, and a span returns when all its objects
\* are in its chain, which _useCount tells (CentralCache.cpp:89-92).
Abstract == INSTANCE Lists WITH
    ring <- RingOf, free <- FreeOf, list <- ListOf, going <- GoingOf
ImplementsLists == Abstract!ListsSpec

\* The rings close, and the same way round in both directions: any span can be
\* taken out wherever it is (Common.h:365-373).
RingsClosed ==
    /\ \A x, y \in Span \cup Heads : links.next[x] = y <=> links.prev[y] = x
    /\ \A h \in Heads : Begin(links, h) # h =>
          Ring(h) # <<>> /\ links.next[Ring(h)[Len(Ring(h))]] = h

\* The counters agree with the chains: _size and _useCount are all that tells
\* PopRange how far to walk, and a span that it has all its objects back.
InBucket(s) == \E i \in DOMAIN Ring("bucket") : Ring("bucket")[i] = s
Counted ==
    /\ \A t \in Thread : size[t] = Len(Chain(list[t])) /\ size[t] <= maxSize[t]
    /\ \A s \in Span : useCount[s] = IF InBucket(s) THEN PerSpan - Len(Chain(freeList[s])) ELSE 0
=============================================================================
