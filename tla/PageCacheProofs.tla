-------------------------- MODULE PageCacheProofs --------------------------
(***************************************************************************)
(* For every page size limit, every set of Span objects, every address     *)
(* space and every placement of chunks and large requests in which no      *)
(* chunk touches the first page of a large request (Isolated), PageCache   *)
(* keeps Inv, and with it every safety property of the module.             *)
(*                                                                         *)
(* Inv is inductive.  The heart of the argument is NeighbourLemma: the     *)
(* page next to the released span either never entered the map, or lies in *)
(* a chunk; then some live span covers it (NoPageLost), ends there because *)
(* spans are disjoint, and is found there because the ends of a free span  *)
(* and all pages of a held one are mapped.                                 *)
(***************************************************************************)
EXTENDS PageCache, FiniteSetTheorems, TLAPS

\* Two runs of pages without a common page lie one after the other.
LEMMA RunsApart ==
    ASSUME NEW a \in Nat, NEW k \in Nat, k >= 1,
           NEW b \in Nat, NEW l \in Nat, l >= 1,
           \A p \in Pages(a, k) : p \notin Pages(b, l)
    PROVE  a + k <= b \/ b + l <= a
<1>1. a \in Pages(a, k) /\ b \in Pages(b, l)
  BY DEF Pages
<1>2. a \in Pages(b, l) \/ b \in Pages(a, k) \/ a + k <= b \/ b + l <= a
  BY DEF Pages
<1>3. QED
  BY <1>1, <1>2

\* Two adjacent runs make one.
LEMMA RunsJoin ==
    ASSUME NEW a \in Nat, NEW k \in Nat, NEW l \in Nat
    PROVE  /\ \A p \in Pages(a, k + l) : p \in Pages(a, k) \/ p \in Pages(a + k, l)
           /\ \A p \in Pages(a, k) : p \in Pages(a, k + l)
           /\ \A p \in Pages(a + k, l) : p \in Pages(a, k + l)
BY DEF Pages

\* Initially there is nothing to be wrong.
LEMMA InitInv == Init => Inv
BY SizesAssumption
   DEF Init, Inv, TypeOK, SpansDisjoint, SpansMapped, NoPageLost, Buckets, HeldFound,
       FreeEndsFound, GrowsOnce, MapKnows, Page, ChunkSize

\* The pages of live spans: inside Page, first and last included, never shared.
LEMMA LiveExtents ==
    ASSUME Inv, NEW t \in live
    PROVE  /\ t \in SpanId /\ pageId[t] \in Nat /\ n[t] \in Nat /\ n[t] >= 1 /\ pageId[t] >= 1
           /\ pageId[t] \in Extent(t) /\ pageId[t] + n[t] - 1 \in Extent(t)
           /\ Extent(t) \subseteq Page
           /\ \A s \in live : s # t => \A p \in Extent(t) : p \notin Extent(s)
<1>1. t \in SpanId /\ pageId[t] \in Nat /\ n[t] \in Nat /\ n[t] >= 1 /\ pageId[t] >= 1
      /\ pageId[t] + n[t] <= LastPage
  BY DEF Inv, TypeOK, SpansMapped
<1>2. pageId[t] \in Extent(t) /\ pageId[t] + n[t] - 1 \in Extent(t)
  BY <1>1 DEF Extent, Pages
<1>3. Extent(t) \subseteq Page
  BY <1>1, SizesAssumption DEF Extent, Pages, Page
<1>4. ASSUME NEW s \in live, s # t, NEW p \in Extent(t) PROVE p \notin Extent(s)
  <2>1. pageId[s] \in Nat /\ n[s] \in Nat
    BY DEF Inv, TypeOK
  <2>2. Apart(s, t)
    BY <1>4 DEF Inv, SpansDisjoint
  <2>3. QED
    BY <1>1, <1>4, <2>1, <2>2 DEF Apart, Extent, Pages
<1>5. QED
  BY <1>1, <1>2, <1>3, <1>4

\* A span that is being released sits in a chunk, and the page on either side
\* of it cannot be the first page of a large request.
LEMMA BesideCur ==
    ASSUME Isolated, Inv, cur # Null, NEW p \in Page, MapObjectToSpan(p) # Null,
           p = pageId[cur] - 1 \/ p = pageId[cur] + n[cur]
    PROVE  os[p] = "chunk"
<1>1. cur \in live /\ n[cur] < NPAGES /\ pageId[cur] \in Nat /\ n[cur] \in Nat
  BY DEF Inv, Buckets, TypeOK
<1>2. /\ n[cur] >= 1 /\ pageId[cur] >= 1 /\ pageId[cur] + n[cur] <= LastPage
      /\ \A q \in Extent(cur) : os[q] = "chunk"
  BY <1>1 DEF Inv, SpansMapped
<1>3. PICK q \in Extent(cur) : p = q - 1 \/ p = q + 1
  BY <1>1, <1>2 DEF Extent, Pages
<1>4. q \in Page /\ q \in Nat
  BY <1>1, <1>2, SizesAssumption DEF Extent, Pages, Page
<1>5. ChunkMayCover(q)
  BY <1>2, <1>4 DEF Inv, MapKnows
<1>6. p \notin LargeBases
  <2>1. q = p + 1 \/ q = p - 1
    BY <1>3, <1>4 DEF Page
  <2>2. QED
    BY <2>1, <1>5 DEF Isolated
<1>7. idSpanMap[p] # Null
  BY DEF MapObjectToSpan
<1>8. QED
  BY <1>6, <1>7 DEF Inv, MapKnows

\* What a merge loop swallows is a live free span next to cur.
LEMMA NeighbourLemma ==
    ASSUME Isolated, Inv, cur # Null, pc \in {"left", "right"},
           NEW p \in {pageId[cur] - 1, pageId[cur] + n[cur]},
           CanMerge(MapObjectToSpan(p))
    PROVE  LET it == MapObjectToSpan(p)
           IN  /\ it \in live /\ it # cur /\ it \notin held
               /\ n[it] \in 1 .. ChunkSize /\ it \in spanList[n[it]]
               /\ p \in Extent(it)
               /\ p = pageId[cur] - 1 => pageId[it] + n[it] = pageId[cur]
               /\ p = pageId[cur] + n[cur] => pageId[cur] + n[cur] = pageId[it]
<1> DEFINE it == MapObjectToSpan(p)
<1>0. p \in Page /\ it = idSpanMap[p] /\ it # Null
  BY DEF CanMerge, MapObjectToSpan
<1>1. cur \in live /\ n[cur] < NPAGES /\ pageId[cur] \in Nat /\ n[cur] \in Nat /\ isUse[cur]
  BY DEF Inv, Buckets, TypeOK
<1>2. n[cur] >= 1 /\ pageId[cur] >= 1
  BY <1>1 DEF Inv, SpansMapped
<1>3. os[p] = "chunk"
  BY <1>0, BesideCur
<1>4. PICK u \in live : p \in Extent(u)
  BY <1>0, <1>3 DEF Inv, NoPageLost
<1>5. u \in SpanId /\ pageId[u] \in Nat /\ n[u] \in Nat /\ n[u] >= 1
  BY DEF Inv, TypeOK, SpansMapped
<1>6. p \notin Extent(cur)
  BY <1>0, <1>1, <1>2 DEF Extent, Pages
<1>7. u # cur
  BY <1>4, <1>6
<1>8. Apart(u, cur)
  BY <1>1, <1>7 DEF Inv, SpansDisjoint
<1>9. /\ p = pageId[cur] - 1 => pageId[u] + n[u] = pageId[cur] /\ p = pageId[u] + n[u] - 1
      /\ p = pageId[cur] + n[cur] => pageId[cur] + n[cur] = pageId[u] /\ p = pageId[u]
  BY <1>1, <1>2, <1>4, <1>5, <1>6, <1>8 DEF Apart, Extent, Pages
<1>10. n[u] < NPAGES
  BY <1>3, <1>4 DEF Inv, SpansMapped
<1>11. u \in held \/ u \in spanList[n[u]]
  BY <1>7 DEF Inv, Buckets
<1>12. n[u] \in 1 .. ChunkSize
  BY <1>5, <1>10, SizesAssumption DEF ChunkSize
<1>13. it = u
  <2>1. CASE u \in held
    BY <2>1, <1>4, <1>10 DEF Inv, HeldFound
  <2>2. CASE u \in spanList[n[u]]
    <3>1. MapObjectToSpan(pageId[u]) = u /\ MapObjectToSpan(pageId[u] + n[u] - 1) = u
      BY <2>2, <1>12 DEF Inv, FreeEndsFound
    <3>2. QED
      BY <3>1, <1>9
  <2>3. QED
    BY <1>11, <2>1, <2>2
<1>14. ~isUse[u]
  BY <1>13 DEF CanMerge
<1>15. u \notin held
  BY <1>14 DEF Inv, Buckets
<1>16. QED
  BY <1>4, <1>7, <1>9, <1>11, <1>12, <1>13, <1>15

-----------------------------------------------------------------------------
(* One lemma per action: it keeps Inv. *)

\* Only pc and want change: NewSpan's caller has the mutex.
LEMMA NewSpanKeepsInv ==
    ASSUME Inv, NEW k \in 1 .. ChunkSize, NewSpan(k)
    PROVE  Inv'
BY SizesAssumption
   DEF NewSpan, spanVars, Inv, TypeOK, SpansDisjoint, SpansMapped, NoPageLost, Buckets, HeldFound,
       FreeEndsFound, GrowsOnce, MapKnows, Apart, Extent, Pages, MapObjectToSpan, ChunkSize

\* The two ways to throw change pc and want alone.
LEMMA ThrowsKeepInv ==
    ASSUME Inv, GrowThrows \/ \E k \in LargeSizes : LargeThrows(k)
    PROVE  Inv'
<1>1. pc # "again"
  <2>1. ASSUME pc = "again", GrowThrows PROVE FALSE
    <3>1. ChunkSize \in want .. ChunkSize
      BY SizesAssumption DEF Inv, TypeOK, ChunkSize
    <3>2. spanList[ChunkSize] = {}
      BY <2>1, <3>1 DEF GrowThrows, NothingFits
    <3>3. QED
      BY <2>1, <3>2 DEF Inv, GrowsOnce
  <2>2. QED
    BY <2>1 DEF LargeThrows
<1>2. /\ pc' = "thrown" /\ want' \in {0, want} /\ cur = Null
      /\ UNCHANGED <<idSpanMap, pageId, n, isUse, live, spanList, held, os, cur>>
  BY DEF GrowThrows, LargeThrows, spanVars, Inv, TypeOK
<1>3. TypeOK'
  BY <1>2, SizesAssumption DEF Inv, TypeOK, ChunkSize
<1>4. SpansDisjoint' /\ SpansMapped' /\ NoPageLost' /\ Buckets'
  BY <1>2 DEF Inv, SpansDisjoint, SpansMapped, NoPageLost, Buckets, Apart, Extent
<1>5. HeldFound' /\ GrowsOnce' /\ MapKnows'
  BY <1>2 DEF Inv, HeldFound, GrowsOnce, MapKnows, Extent, MapObjectToSpan
<1>6. FreeEndsFound'
  BY <1>1, <1>2 DEF Inv, FreeEndsFound, MapObjectToSpan
<1>7. QED
  BY <1>3, <1>4, <1>5, <1>6 DEF Inv

\* A large span occupies pages that were unmapped, so no span had them.
LEMMA NewSpanLargeKeepsInv ==
    ASSUME Inv, NEW k \in LargeSizes, NewSpanLarge(k)
    PROVE  Inv'
<1>1. PICK base \in Room(LargeBases, k), s \in SpanId \ live :
          /\ SystemAlloc(base, k, "large")
          /\ pageId' = [pageId EXCEPT ![s] = base]
          /\ n' = [n EXCEPT ![s] = k]
          /\ isUse' = [isUse EXCEPT ![s] = TRUE]
          /\ live' = live \cup {s}
          /\ held' = held \cup {s}
          /\ idSpanMap' = MapPages(idSpanMap, {base}, s)
  BY DEF NewSpanLarge
<1>2. pc = "idle" /\ UNCHANGED <<spanList, pc, want, cur>>
  BY DEF NewSpanLarge
<1>3. /\ base \in LargeBases /\ base \in Page /\ base >= 1 /\ base \in Nat
      /\ k \in Nat /\ k >= NPAGES /\ k >= 1 /\ base + k <= LastPage
      /\ \A p \in Pages(base, k) : os[p] = "none"
  BY SizesAssumption, PlacementAssumption DEF Room, Page
<1>4. \A p \in Pages(base, k) : p \in Page
  BY <1>3, SizesAssumption DEF Pages, Page
<1>5. \A t \in live : /\ pageId[t] \in Nat /\ n[t] \in Nat /\ n[t] >= 1 /\ t \in SpanId /\ t # s
                      /\ base + k <= pageId[t] \/ pageId[t] + n[t] <= base
  <2> SUFFICES ASSUME NEW t \in live PROVE
        /\ pageId[t] \in Nat /\ n[t] \in Nat /\ n[t] >= 1 /\ t \in SpanId /\ t # s
        /\ base + k <= pageId[t] \/ pageId[t] + n[t] <= base
    OBVIOUS
  <2>1. pageId[t] \in Nat /\ n[t] \in Nat /\ n[t] >= 1 /\ t \in SpanId /\ t # s
    BY <1>1 DEF Inv, TypeOK, SpansMapped
  <2>2. \A p \in Extent(t) : os[p] # "none"
    BY DEF Inv, SpansMapped
  <2>3. \A p \in Pages(base, k) : p \notin Pages(pageId[t], n[t])
    BY <1>3, <2>2 DEF Extent
  <2>4. QED
    BY <1>3, <2>1, <2>3, RunsApart
<1>6. \A t \in live : pageId'[t] = pageId[t] /\ n'[t] = n[t] /\ isUse'[t] = isUse[t] /\ Extent(t)' = Extent(t)
  BY <1>1, <1>5 DEF Inv, TypeOK, Extent
<1>7. pageId'[s] = base /\ n'[s] = k /\ isUse'[s] = TRUE
  BY <1>1 DEF Inv, TypeOK
<1>8. \A p \in Page : os'[p] = IF p \in Pages(base, k) THEN "large" ELSE os[p]
  BY <1>1 DEF SystemAlloc
<1>9. \A p \in Page : idSpanMap'[p] = IF p = base THEN s ELSE idSpanMap[p]
  BY <1>1 DEF MapPages
<1>10. TypeOK'
  BY <1>1, <1>2, <1>3 DEF Inv, TypeOK, SystemAlloc, MapPages
<1>11. SpansDisjoint'
  BY <1>1, <1>5, <1>6, <1>7 DEF Inv, SpansDisjoint, Apart
<1>12. SpansMapped'
  <2>1. \A t \in live : \A p \in Extent(t) : p \notin Pages(base, k) /\ p \in Page
    BY <1>3, <1>5, SizesAssumption DEF Extent, Pages, Inv, SpansMapped, Page
  <2>2. ASSUME NEW t \in live
        PROVE  /\ n'[t] >= 1 /\ pageId'[t] >= 1 /\ pageId'[t] + n'[t] <= LastPage
               /\ \A p \in Extent(t)' : os'[p] = IF n'[t] < NPAGES THEN "chunk" ELSE "large"
    BY <1>6, <1>8, <2>1, <2>2 DEF Inv, SpansMapped
  <2>3. /\ n'[s] >= 1 /\ pageId'[s] >= 1 /\ pageId'[s] + n'[s] <= LastPage
        /\ ~(n'[s] < NPAGES)
        /\ \A p \in Extent(s)' : os'[p] = "large"
    BY <1>3, <1>4, <1>7, <1>8, SizesAssumption DEF Extent
  <2>4. QED
    BY <1>1, <2>2, <2>3 DEF SpansMapped
<1>13. NoPageLost'
  BY <1>1, <1>6, <1>8 DEF Inv, NoPageLost
<1>14. Buckets'
  BY <1>1, <1>2, <1>5, <1>6, <1>7 DEF Inv, Buckets, TypeOK
<1>15. HeldFound' /\ FreeEndsFound'
  <2>1. \A t \in live : base \notin Extent(t)
    BY <1>3, <1>5 DEF Extent, Pages
  <2>2. \A t \in live : pageId[t] \in Extent(t) /\ pageId[t] + n[t] - 1 \in Extent(t)
    BY <1>5 DEF Extent, Pages
  <2>3. \A t \in live : \A p \in Extent(t) : MapObjectToSpan(p)' = MapObjectToSpan(p)
    BY <1>9, <2>1 DEF MapObjectToSpan
  <2>4. MapObjectToSpan(base)' = s
    BY <1>3, <1>9 DEF MapObjectToSpan
  <2>5. HeldFound'
    <3> SUFFICES ASSUME NEW t \in held'
                 PROVE  /\ MapObjectToSpan(pageId[t])' = t
                        /\ n'[t] < NPAGES => \A p \in Extent(t)' : MapObjectToSpan(p)' = t
      BY DEF HeldFound
    <3>1. CASE t = s
      BY <3>1, <2>4, <1>7, <1>3, SizesAssumption
    <3>2. CASE t \in held
      BY <3>2, <1>6, <2>2, <2>3 DEF Inv, TypeOK, HeldFound
    <3>3. QED
      BY <3>1, <3>2, <1>1
  <2>6. FreeEndsFound'
    <3>1. \A i \in 1 .. ChunkSize : \A t \in spanList[i] : t \in live
      BY DEF Inv, Buckets
    <3>2. QED
      BY <1>2, <1>6, <2>2, <2>3, <3>1 DEF Inv, FreeEndsFound
  <2>7. QED
    BY <2>5, <2>6
<1>16. GrowsOnce' /\ MapKnows'
  BY <1>1, <1>2, <1>3, <1>8, <1>9 DEF Inv, GrowsOnce, MapKnows, TypeOK, ChunkMayCover
<1>17. QED
  BY <1>10, <1>11, <1>12, <1>13, <1>14, <1>15, <1>16 DEF Inv

\* The span leaves its bucket with every page in the map; pages of other spans
\* are not touched.
LEMMA TakeExactKeepsInv ==
    ASSUME Inv, TakeExact
    PROVE  Inv'
<1>1. PICK s \in spanList[want] :
          /\ spanList' = Erase(spanList, want, s)
          /\ idSpanMap' = MapAll(idSpanMap, pageId[s], n[s], s)
          /\ isUse' = [isUse EXCEPT ![s] = TRUE]
          /\ held' = held \cup {s}
  BY DEF TakeExact
<1>2. /\ pc \in {"new", "again"} /\ pc' = "idle" /\ want' = 0
      /\ UNCHANGED <<pageId, n, live, os, cur>> /\ cur = Null
  BY DEF TakeExact, Inv, TypeOK
<1>3. /\ want \in 1 .. ChunkSize /\ ChunkSize \in Nat
  BY <1>2, SizesAssumption DEF Inv, TypeOK, ChunkSize
<1>4. s \in live /\ s \in SpanId /\ n[s] = want /\ n[s] \in Nat /\ n[s] >= 1 /\ pageId[s] \in Nat
      /\ n[s] < NPAGES /\ s \notin held /\ ~isUse[s]
  BY <1>3, SizesAssumption DEF Inv, Buckets, TypeOK, ChunkSize
<1>5. \A p \in Page : idSpanMap'[p] = IF p \in Extent(s) THEN s ELSE idSpanMap[p]
  BY <1>1 DEF MapAll, MapPages, Extent
<1>6. \A t \in live : t # s => \A p \in Extent(t) : p \notin Extent(s)
  BY <1>4, LiveExtents
<1>7. \A t \in live : pageId[t] \in Extent(t) /\ pageId[t] + n[t] - 1 \in Extent(t)
  BY LiveExtents
<1>8. \A t \in live : \A p \in Extent(t) : p \in Page
  BY LiveExtents
<1>9. \A t \in live : t # s => \A p \in Extent(t) : MapObjectToSpan(p)' = MapObjectToSpan(p)
  BY <1>5, <1>6 DEF MapObjectToSpan
<1>10. \A p \in Extent(s) : MapObjectToSpan(p)' = s
  BY <1>4, <1>5, <1>8 DEF MapObjectToSpan
<1>11. TypeOK'
  BY <1>1, <1>2, <1>3, <1>4 DEF Inv, TypeOK, Erase, MapAll, MapPages
<1>12. SpansDisjoint' /\ SpansMapped' /\ NoPageLost'
  BY <1>2 DEF Inv, SpansDisjoint, SpansMapped, NoPageLost, Apart, Extent
<1>13. \A i \in 1 .. ChunkSize : spanList'[i] \subseteq spanList[i] /\ s \notin spanList'[i]
       /\ \A t \in live : t # s /\ t \in spanList[i] => t \in spanList'[i]
  BY <1>1, <1>3, <1>4 DEF Inv, TypeOK, Erase, Buckets
<1>14. Buckets'
  <2>1. \A t \in live : t # s => isUse'[t] = isUse[t]
    BY <1>1 DEF Inv, TypeOK
  <2>2. isUse'[s] = TRUE
    BY <1>1, <1>4 DEF Inv, TypeOK
  <2>3. \A i \in 1 .. ChunkSize : \A t \in spanList'[i] :
           t \in live /\ n[t] = i /\ ~isUse'[t] /\ t \notin held'
    BY <1>1, <1>13, <2>1 DEF Inv, Buckets
  <2>4. \A t \in held' : isUse'[t]
    BY <1>1, <2>1, <2>2 DEF Inv, Buckets, TypeOK
  <2>5. ASSUME NEW t \in live
        PROVE  t \in held' \/ t = cur \/ (n[t] < NPAGES /\ t \in spanList'[n[t]])
    <3>1. n[t] \in Nat /\ n[t] >= 1
      BY DEF Inv, TypeOK, SpansMapped
    <3>2. n[t] < NPAGES => n[t] \in 1 .. ChunkSize
      BY <3>1, SizesAssumption DEF ChunkSize
    <3>3. QED
      BY <1>1, <1>13, <3>2 DEF Inv, Buckets
  <2>6. QED
    BY <1>2, <2>3, <2>4, <2>5 DEF Buckets
<1>15. HeldFound'
  BY <1>1, <1>2, <1>4, <1>7, <1>9, <1>10 DEF Inv, HeldFound, TypeOK, Extent
<1>16. FreeEndsFound'
  <2> SUFFICES ASSUME NEW i \in 1 .. ChunkSize, NEW t \in spanList'[i]
               PROVE  /\ MapObjectToSpan(pageId[t])' = t
                      /\ MapObjectToSpan(pageId[t] + n[t] - 1)' = t
    BY <1>2 DEF FreeEndsFound
  <2>1. t \in spanList[i] /\ t # s /\ t \in live /\ n[t] = i
    BY <1>13 DEF Inv, Buckets
  <2>2. ~(pc = "again" /\ i = ChunkSize)
    <3>1. ASSUME pc = "again", i = ChunkSize PROVE FALSE
      <4>1. \A j \in want .. (ChunkSize - 1) : spanList[j] = {}
        BY <3>1 DEF Inv, GrowsOnce
      <4>2. want = ChunkSize
        BY <1>3, <4>1
      <4>3. QED
        BY <1>4, <2>1, <3>1, <4>2 DEF Inv, GrowsOnce
    <3>2. QED
      BY <3>1
  <2>3. QED
    BY <1>2, <1>7, <1>9, <2>1, <2>2 DEF Inv, FreeEndsFound
<1>17. GrowsOnce' /\ MapKnows'
  <2>1. \A p \in Extent(s) : os[p] = "chunk"
    BY <1>4 DEF Inv, SpansMapped
  <2>2. QED
    BY <1>2, <1>5, <2>1 DEF Inv, GrowsOnce, MapKnows
<1>18. QED
  BY <1>11, <1>12, <1>14, <1>15, <1>16, <1>17 DEF Inv

\* A chunk occupies pages that were unmapped; it is listed, alone in the
\* buckets that matter, and not in the map until the recursive call.
LEMMA GrowHeapKeepsInv ==
    ASSUME Inv, GrowHeap
    PROVE  Inv'
<1>1. PICK base \in Room(ChunkBases, ChunkSize), s \in SpanId \ live :
          /\ SystemAlloc(base, ChunkSize, "chunk")
          /\ pageId' = [pageId EXCEPT ![s] = base]
          /\ n' = [n EXCEPT ![s] = ChunkSize]
          /\ isUse' = [isUse EXCEPT ![s] = FALSE]
          /\ live' = live \cup {s}
          /\ spanList' = Push(spanList, ChunkSize, s)
  BY DEF GrowHeap
<1>2. /\ pc \in {"new", "again"} /\ pc' = "again" /\ NothingFits(want)
      /\ UNCHANGED <<idSpanMap, held, want, cur>> /\ cur = Null
  BY DEF GrowHeap, Inv, TypeOK
<1>3. /\ base \in ChunkBases /\ base \in Page /\ base >= 1 /\ base \in Nat
      /\ ChunkSize \in Nat /\ ChunkSize >= 1 /\ ChunkSize < NPAGES /\ base + ChunkSize <= LastPage
      /\ want \in 1 .. ChunkSize
      /\ \A p \in Pages(base, ChunkSize) : os[p] = "none"
  BY <1>2, SizesAssumption, PlacementAssumption DEF Room, Page, ChunkSize, Inv, TypeOK
<1>4. \A p \in Pages(base, ChunkSize) : p \in Page
  BY <1>3, SizesAssumption DEF Pages, Page
<1>5. \A t \in live : /\ pageId[t] \in Nat /\ n[t] \in Nat /\ n[t] >= 1 /\ t \in SpanId /\ t # s
                      /\ base + ChunkSize <= pageId[t] \/ pageId[t] + n[t] <= base
  <2> SUFFICES ASSUME NEW t \in live PROVE
        /\ pageId[t] \in Nat /\ n[t] \in Nat /\ n[t] >= 1 /\ t \in SpanId /\ t # s
        /\ base + ChunkSize <= pageId[t] \/ pageId[t] + n[t] <= base
    OBVIOUS
  <2>1. pageId[t] \in Nat /\ n[t] \in Nat /\ n[t] >= 1 /\ t \in SpanId /\ t # s
    BY <1>1 DEF Inv, TypeOK, SpansMapped
  <2>2. \A p \in Extent(t) : os[p] # "none"
    BY DEF Inv, SpansMapped
  <2>3. \A p \in Pages(base, ChunkSize) : p \notin Pages(pageId[t], n[t])
    BY <1>3, <2>2 DEF Extent
  <2>4. QED
    BY <1>3, <2>1, <2>3, RunsApart
<1>6. \A t \in live : pageId'[t] = pageId[t] /\ n'[t] = n[t] /\ isUse'[t] = isUse[t] /\ Extent(t)' = Extent(t)
  BY <1>1, <1>5 DEF Inv, TypeOK, Extent
<1>7. pageId'[s] = base /\ n'[s] = ChunkSize /\ isUse'[s] = FALSE /\ Extent(s)' = Pages(base, ChunkSize)
  BY <1>1 DEF Inv, TypeOK, Extent
<1>8. \A p \in Page : os'[p] = IF p \in Pages(base, ChunkSize) THEN "chunk" ELSE os[p]
  BY <1>1 DEF SystemAlloc
<1>9. /\ spanList'[ChunkSize] = spanList[ChunkSize] \cup {s}
      /\ \A i \in 1 .. ChunkSize : i # ChunkSize => spanList'[i] = spanList[i]
      /\ \A j \in want .. ChunkSize : spanList[j] = {}
  BY <1>1, <1>2, <1>3 DEF Push, Inv, TypeOK, NothingFits
<1>10. spanList[ChunkSize] = {} /\ spanList'[ChunkSize] = {s}
  BY <1>3, <1>9
<1>11. TypeOK'
  BY <1>1, <1>2, <1>3 DEF Inv, TypeOK, SystemAlloc, Push
<1>12. SpansDisjoint'
  BY <1>1, <1>5, <1>6, <1>7 DEF Inv, SpansDisjoint, Apart
<1>13. SpansMapped'
  <2>1. \A t \in live : \A p \in Extent(t) : p \notin Pages(base, ChunkSize) /\ p \in Page
    BY <1>3, <1>5, SizesAssumption DEF Extent, Pages, Inv, SpansMapped, Page
  <2>2. ASSUME NEW t \in live
        PROVE  /\ n'[t] >= 1 /\ pageId'[t] >= 1 /\ pageId'[t] + n'[t] <= LastPage
               /\ \A p \in Extent(t)' : os'[p] = IF n'[t] < NPAGES THEN "chunk" ELSE "large"
    BY <1>6, <1>8, <2>1, <2>2 DEF Inv, SpansMapped
  <2>3. /\ n'[s] >= 1 /\ pageId'[s] >= 1 /\ pageId'[s] + n'[s] <= LastPage
        /\ n'[s] < NPAGES
        /\ \A p \in Extent(s)' : os'[p] = "chunk"
    BY <1>3, <1>4, <1>7, <1>8
  <2>4. QED
    BY <1>1, <2>2, <2>3 DEF SpansMapped
<1>14. NoPageLost'
  <2> SUFFICES ASSUME NEW p \in Page, os'[p] = "chunk" PROVE \E t \in live' : p \in Extent(t)'
    BY DEF NoPageLost
  <2>1. CASE p \in Pages(base, ChunkSize)
    BY <1>1, <1>7, <2>1
  <2>2. CASE p \notin Pages(base, ChunkSize)
    <3>1. PICK t \in live : p \in Extent(t)
      BY <1>8, <2>2 DEF Inv, NoPageLost
    <3> QED BY <1>1, <1>6, <3>1
  <2> QED BY <2>1, <2>2
<1>15. Buckets'
  <2>1. \A i \in 1 .. ChunkSize : \A t \in spanList'[i] :
           t \in live' /\ n'[t] = i /\ ~isUse'[t] /\ t \notin held'
    <3> SUFFICES ASSUME NEW i \in 1 .. ChunkSize, NEW t \in spanList'[i]
                 PROVE  t \in live' /\ n'[t] = i /\ ~isUse'[t] /\ t \notin held'
      OBVIOUS
    <3>1. CASE i = ChunkSize
      BY <1>1, <1>2, <1>7, <1>10, <3>1 DEF Inv, TypeOK
    <3>2. CASE i # ChunkSize
      <4>1. t \in spanList[i] /\ t \in live /\ n[t] = i /\ ~isUse[t] /\ t \notin held
        BY <1>9, <3>2 DEF Inv, Buckets
      <4>2. QED
        BY <1>1, <1>2, <1>6, <4>1
    <3>3. QED
      BY <3>1, <3>2
  <2>2. \A t \in held' : isUse'[t]
    BY <1>2, <1>6 DEF Inv, Buckets, TypeOK
  <2>3. ASSUME NEW t \in live'
        PROVE  t \in held' \/ t = cur' \/ (n'[t] < NPAGES /\ t \in spanList'[n'[t]])
    <3>1. CASE t = s
      BY <1>3, <1>7, <1>10, <3>1
    <3>2. CASE t \in live
      <4>1. n[t] < NPAGES => n[t] \in 1 .. ChunkSize
        BY <1>5, <3>2, SizesAssumption DEF ChunkSize
      <4>2. QED
        BY <1>2, <1>6, <1>9, <1>10, <3>2, <4>1 DEF Inv, Buckets
    <3>3. QED
      BY <1>1, <3>1, <3>2
  <2>4. QED
    BY <1>2, <2>1, <2>2, <2>3 DEF Buckets
<1>16. HeldFound'
  BY <1>2, <1>6 DEF Inv, HeldFound, TypeOK, MapObjectToSpan
<1>17. FreeEndsFound'
  <2> SUFFICES ASSUME NEW i \in 1 .. ChunkSize, NEW t \in spanList'[i], i # ChunkSize
               PROVE  /\ MapObjectToSpan(pageId[t])' = t
                      /\ MapObjectToSpan(pageId[t] + n[t] - 1)' = t
    BY <1>2 DEF FreeEndsFound
  <2>1. t \in spanList[i] /\ t \in live
    BY <1>9 DEF Inv, Buckets
  <2>2. MapObjectToSpan(pageId[t]) = t /\ MapObjectToSpan(pageId[t] + n[t] - 1) = t
    BY <2>1 DEF Inv, FreeEndsFound
  <2>3. QED
    BY <1>2, <1>6, <2>1, <2>2 DEF MapObjectToSpan
<1>18. GrowsOnce'
  <2>1. \A j \in want .. (ChunkSize - 1) : j \in 1 .. ChunkSize /\ j # ChunkSize /\ j \in want .. ChunkSize
    BY <1>3
  <2>2. QED
    BY <1>2, <1>9, <1>10, <2>1 DEF GrowsOnce
<1>19. MapKnows'
  BY <1>2, <1>3, <1>8 DEF Inv, MapKnows, ChunkMayCover
<1>20. QED
  BY <1>11, <1>12, <1>13, <1>14, <1>15, <1>16, <1>17, <1>18, <1>19 DEF Inv

\* The new span takes the front of the longer one, which keeps the rest: the
\* two lie where the one lay, so nobody else notices.
LEMMA SplitLargerKeepsInv ==
    ASSUME Inv, SplitLarger
    PROVE  Inv'
<1>0. PICK i \in (want + 1) .. ChunkSize :
          /\ FirstAtLeast(want + 1, i)
          /\ \E larger \in spanList[i], s \in SpanId \ live :
             /\ pageId' = [pageId EXCEPT ![s] = pageId[larger], ![larger] = pageId[larger] + want]
             /\ n' = [n EXCEPT ![s] = want, ![larger] = n[larger] - want]
             /\ isUse' = [isUse EXCEPT ![s] = TRUE]
             /\ live' = live \cup {s}
             /\ held' = held \cup {s}
             /\ spanList' = Push(Erase(spanList, i, larger), n[larger] - want, larger)
             /\ idSpanMap' = MapAll(MapEnds(idSpanMap, pageId[larger] + want, n[larger] - want, larger),
                                    pageId[larger], want, s)
  BY DEF SplitLarger, Remainder
<1>1. PICK larger \in spanList[i], s \in SpanId \ live :
          /\ pageId' = [pageId EXCEPT ![s] = pageId[larger], ![larger] = pageId[larger] + want]
          /\ n' = [n EXCEPT ![s] = want, ![larger] = n[larger] - want]
          /\ isUse' = [isUse EXCEPT ![s] = TRUE]
          /\ live' = live \cup {s}
          /\ held' = held \cup {s}
          /\ spanList' = Push(Erase(spanList, i, larger), n[larger] - want, larger)
          /\ idSpanMap' = MapAll(MapEnds(idSpanMap, pageId[larger] + want, n[larger] - want, larger),
                                 pageId[larger], want, s)
  BY <1>0
<1>2. /\ pc \in {"new", "again"} /\ spanList[want] = {} /\ pc' = "idle" /\ want' = 0
      /\ UNCHANGED <<os, cur>> /\ cur = Null
  BY DEF SplitLarger, Inv, TypeOK
<1>3. want \in 1 .. ChunkSize /\ ChunkSize \in Nat /\ i \in 1 .. ChunkSize /\ want < i /\ i < NPAGES
  BY <1>2, SizesAssumption DEF Inv, TypeOK, ChunkSize
<1>4. /\ larger \in live /\ larger \in SpanId /\ n[larger] = i /\ ~isUse[larger] /\ larger \notin held
      /\ pageId[larger] \in Nat /\ pageId[larger] >= 1 /\ larger # s /\ s \in SpanId /\ s \notin live
      /\ pageId[larger] + i <= LastPage
  BY <1>1, <1>3 DEF Inv, Buckets, TypeOK, SpansMapped
<1> DEFINE first == pageId[larger]
           rest  == i - want
<1>5. rest \in 1 .. ChunkSize /\ rest < i
  BY <1>3
<1>6. /\ pageId'[s] = first /\ n'[s] = want /\ isUse'[s] = TRUE
      /\ pageId'[larger] = first + want /\ n'[larger] = rest /\ isUse'[larger] = FALSE
      /\ \A t \in live : t # larger => pageId'[t] = pageId[t] /\ n'[t] = n[t]
      /\ \A t \in live : isUse'[t] = isUse[t]
  BY <1>1, <1>4 DEF Inv, TypeOK
<1>7. /\ \A p \in Extent(s)' : p \in first .. (first + want - 1) /\ p \in Extent(larger)
      /\ \A p \in Extent(larger)' : p \in (first + want) .. (first + i - 1) /\ p \in Extent(larger)
      /\ \A p \in Extent(larger) : p \in Extent(s)' \/ p \in Extent(larger)'
      /\ \A p \in Extent(s)' : p \notin Extent(larger)'
      /\ first + want \in Extent(larger)' /\ first + i - 1 \in Extent(larger)'
      /\ first \in Extent(s)'
  BY <1>3, <1>4, <1>6 DEF Extent, Pages
<1>8. \A t \in live : t # larger => Extent(t)' = Extent(t) /\ \A p \in Extent(t) : p \notin Extent(larger)
  BY <1>4, <1>6, LiveExtents DEF Extent
<1>9. \A p \in Page : idSpanMap'[p] = IF p \in Extent(s)' THEN s
                                     ELSE IF p \in {first + want, first + i - 1} THEN larger
                                     ELSE idSpanMap[p]
  <2>1. (first + want) + (n[larger] - want) - 1 = first + i - 1
    BY <1>3, <1>4
  <2>2. QED
    BY <1>1, <1>6, <2>1 DEF MapAll, MapEnds, MapPages, Extent
<1>10. TypeOK'
  <2>1. pageId' \in [SpanId -> Nat] /\ n' \in [SpanId -> Nat]
    <3>1. n[larger] - want \in Nat /\ want \in Nat /\ pageId[larger] \in Nat
      BY <1>3, <1>4
    <3>2. pageId[larger] + want \in Nat
      BY <3>1
    <3>3. QED
      BY <1>1, <1>4, <3>1, <3>2 DEF Inv, TypeOK
  <2>2. spanList' \in [1 .. ChunkSize -> SUBSET SpanId]
    BY <1>1, <1>4 DEF Inv, TypeOK, Push, Erase
  <2>3. idSpanMap' \in [Page -> SpanId \cup {Null}]
    BY <1>1, <1>4 DEF Inv, TypeOK, MapAll, MapEnds, MapPages
  <2>4. isUse' \in [SpanId -> BOOLEAN] /\ live' \subseteq SpanId /\ held' \subseteq live'
    BY <1>1 DEF Inv, TypeOK
  <2>5. /\ pc' \in {"idle", "new", "again", "left", "right", "thrown"} /\ want' \in 0 .. ChunkSize
        /\ os' \in [Page -> {"none", "chunk", "large"}] /\ cur' \in SpanId \cup {Null}
        /\ pc' \in {"new", "again"} => want' # 0
        /\ pc' \in {"left", "right"} <=> cur' # Null
    BY <1>2, <1>3 DEF Inv, TypeOK
  <2>6. QED
    BY <2>1, <2>2, <2>3, <2>4, <2>5 DEF TypeOK
<1>11. SpansDisjoint'
  <2>1. ASSUME NEW t \in live, t # larger
        PROVE  Apart(t, s)' /\ Apart(t, larger)' /\ Apart(s, t)' /\ Apart(larger, t)'
    <3>1. Apart(t, larger)
      BY <1>4, <2>1 DEF Inv, SpansDisjoint
    <3>2. pageId[t] \in Nat /\ n[t] \in Nat
      BY DEF Inv, TypeOK
    <3>3. QED
      BY <1>3, <1>4, <1>6, <2>1, <3>1, <3>2 DEF Apart
  <2>2. Apart(s, larger)' /\ Apart(larger, s)'
    BY <1>3, <1>4, <1>6 DEF Apart
  <2>3. ASSUME NEW t \in live, NEW u \in live, t # larger, u # larger, t # u PROVE Apart(t, u)'
    BY <1>6, <2>3 DEF Inv, SpansDisjoint, Apart
  <2>4. QED
    BY <1>1, <2>1, <2>2, <2>3 DEF SpansDisjoint
<1>12. SpansMapped'
  <2>1. \A p \in Extent(larger) : os'[p] = "chunk"
    BY <1>2, <1>3, <1>4 DEF Inv, SpansMapped
  <2>2. /\ n'[s] >= 1 /\ pageId'[s] >= 1 /\ pageId'[s] + n'[s] <= LastPage /\ n'[s] < NPAGES
        /\ n'[larger] >= 1 /\ pageId'[larger] >= 1 /\ pageId'[larger] + n'[larger] <= LastPage
        /\ n'[larger] < NPAGES
    BY <1>3, <1>4, <1>6, SizesAssumption
  <2>3. \A t \in live : t # larger =>
           /\ n'[t] >= 1 /\ pageId'[t] >= 1 /\ pageId'[t] + n'[t] <= LastPage
           /\ \A p \in Extent(t)' : os'[p] = IF n'[t] < NPAGES THEN "chunk" ELSE "large"
    BY <1>2, <1>6, <1>8 DEF Inv, SpansMapped
  <2>4. QED
    BY <1>1, <1>7, <2>1, <2>2, <2>3 DEF SpansMapped
<1>13. NoPageLost'
  BY <1>1, <1>2, <1>4, <1>7, <1>8 DEF Inv, NoPageLost
<1>14. /\ \A j \in 1 .. ChunkSize : \A t \in spanList'[j] :
             (t = larger /\ j = rest) \/ (t # larger /\ t \in spanList[j])
       /\ \A j \in 1 .. ChunkSize : \A t \in spanList[j] : t # larger => t \in spanList'[j]
       /\ larger \in spanList'[rest]
  BY <1>1, <1>3, <1>4, <1>5 DEF Push, Erase, Inv, TypeOK, Buckets
<1>15. Buckets'
  <2>1. ASSUME NEW j \in 1 .. ChunkSize, NEW t \in spanList'[j]
        PROVE  t \in live' /\ n'[t] = j /\ ~isUse'[t] /\ t \notin held'
    <3>1. CASE t = larger
      BY <1>1, <1>4, <1>6, <1>14, <3>1
    <3>2. CASE t # larger
      <4>1. t \in live /\ n[t] = j /\ ~isUse[t] /\ t \notin held
        BY <1>14, <3>2 DEF Inv, Buckets
      <4>2. QED
        BY <1>1, <1>6, <3>2, <4>1
    <3>3. QED
      BY <3>1, <3>2
  <2>2. \A t \in held' : isUse'[t]
    BY <1>1, <1>6 DEF Inv, Buckets, TypeOK
  <2>3. ASSUME NEW t \in live'
        PROVE  t \in held' \/ t = cur' \/ (n'[t] < NPAGES /\ t \in spanList'[n'[t]])
    <3>1. CASE t = s
      BY <1>1, <3>1
    <3>2. CASE t = larger
      BY <1>3, <1>5, <1>6, <1>14, <3>2, SizesAssumption
    <3>3. CASE t \in live /\ t # larger
      <4>1. n[t] < NPAGES => n[t] \in 1 .. ChunkSize
        BY <3>3, LiveExtents, SizesAssumption DEF ChunkSize
      <4>2. QED
        BY <1>1, <1>2, <1>6, <1>14, <3>3, <4>1 DEF Inv, Buckets
    <3>4. QED
      BY <1>1, <3>1, <3>2, <3>3
  <2>4. QED
    BY <1>2, <2>1, <2>2, <2>3 DEF Buckets
<1>16. \A t \in live : t # larger => \A p \in Extent(t) : MapObjectToSpan(p)' = MapObjectToSpan(p)
  BY <1>7, <1>8, <1>9 DEF MapObjectToSpan
<1>17. /\ \A p \in Extent(s)' : MapObjectToSpan(p)' = s
       /\ first + want \in Page /\ idSpanMap'[first + want] = larger
       /\ first + i - 1 \in Page /\ idSpanMap'[first + i - 1] = larger
  <2>1. \A p \in Extent(larger) : p \in Page
    BY <1>4, LiveExtents
  <2>2. \A p \in Extent(s)' : p \in Page /\ idSpanMap'[p] = s
    BY <1>7, <1>9, <2>1
  <2>3. /\ first + want \in Page /\ first + want \notin Extent(s)'
        /\ first + i - 1 \in Page /\ first + i - 1 \notin Extent(s)'
    BY <1>7, <2>1
  <2>4. idSpanMap'[first + want] = larger /\ idSpanMap'[first + i - 1] = larger
    BY <1>9, <2>3
  <2>5. QED
    BY <2>2, <2>3, <2>4 DEF MapObjectToSpan
<1>18. HeldFound'
  <2> SUFFICES ASSUME NEW t \in held'
               PROVE  /\ MapObjectToSpan(pageId[t])' = t
                      /\ n'[t] < NPAGES => \A p \in Extent(t)' : MapObjectToSpan(p)' = t
    BY DEF HeldFound
  <2>1. CASE t = s
    BY <1>6, <1>7, <1>17, <2>1
  <2>2. CASE t \in held
    <3>1. t \in live /\ t # larger
      BY <1>4, <2>2 DEF Inv, TypeOK
    <3>2. QED
      BY <1>6, <1>8, <1>16, <2>2, <3>1, LiveExtents DEF Inv, HeldFound
  <2>3. QED
    BY <1>1, <2>1, <2>2
<1>19. FreeEndsFound'
  <2> SUFFICES ASSUME NEW j \in 1 .. ChunkSize, NEW t \in spanList'[j]
               PROVE  /\ MapObjectToSpan(pageId[t])' = t
                      /\ MapObjectToSpan(pageId[t] + n[t] - 1)' = t
    BY DEF FreeEndsFound
  <2>1. CASE t = larger
    <3>1. pageId'[t] = first + want /\ pageId'[t] + n'[t] - 1 = first + i - 1
      BY <1>3, <1>4, <1>6, <2>1
    <3>2. QED
      BY <1>17, <2>1, <3>1 DEF MapObjectToSpan
  <2>2. CASE t # larger
    <3>1. t \in spanList[j] /\ t \in live
      BY <1>14, <2>2 DEF Inv, Buckets
    <3>2. ~(pc = "again" /\ j = ChunkSize)
      <4>1. ASSUME pc = "again", j = ChunkSize PROVE FALSE
        <5>1. i = ChunkSize
          BY <1>0, <1>3, <4>1 DEF Inv, GrowsOnce, FirstAtLeast
        <5>2. QED
          BY <1>1, <2>2, <3>1, <4>1, <5>1 DEF Inv, GrowsOnce
      <4>2. QED
        BY <4>1
    <3>3. MapObjectToSpan(pageId[t]) = t /\ MapObjectToSpan(pageId[t] + n[t] - 1) = t
      BY <3>1, <3>2 DEF Inv, FreeEndsFound
    <3>4. pageId[t] \in Extent(t) /\ pageId[t] + n[t] - 1 \in Extent(t)
      BY <3>1, LiveExtents
    <3>5. pageId'[t] = pageId[t] /\ n'[t] = n[t]
      BY <1>6, <2>2, <3>1
    <3>6. \A p \in Extent(t) : p \in Page => idSpanMap'[p] = idSpanMap[p]
      BY <1>16, <2>2, <3>1 DEF MapObjectToSpan
    <3>7. QED
      BY <3>3, <3>4, <3>5, <3>6 DEF MapObjectToSpan
  <2>3. QED
    BY <2>1, <2>2
<1>20. GrowsOnce' /\ MapKnows'
  <2>1. \A p \in Extent(larger) : os[p] = "chunk"
    BY <1>3, <1>4 DEF Inv, SpansMapped
  <2>2. \A p \in Page : idSpanMap'[p] # idSpanMap[p] => p \in Extent(larger)
    BY <1>7, <1>9
  <2>3. QED
    BY <1>2, <2>1, <2>2 DEF Inv, GrowsOnce, MapKnows
<1>21. QED
  BY <1>10, <1>11, <1>12, <1>13, <1>15, <1>18, <1>19, <1>20 DEF Inv

\* Unmapping takes only the pages of the span, none of them a chunk's.
LEMMA ReleaseLargeKeepsInv ==
    ASSUME Inv, NEW s \in held, ReleaseLarge(s)
    PROVE  Inv'
<1>1. /\ pc = "idle" /\ n[s] >= NPAGES /\ SystemFree(pageId[s], n[s])
      /\ pageId' = [pageId EXCEPT ![s] = 0] /\ live' = live \ {s} /\ held' = held \ {s}
      /\ UNCHANGED <<idSpanMap, n, isUse, spanList, pc, want, cur>>
  BY DEF ReleaseLarge
<1>2. s \in live /\ s \in SpanId /\ cur = Null /\ n[s] \in Nat
  BY <1>1 DEF Inv, TypeOK
<1>3. \A t \in live' : /\ t \in live /\ t # s /\ pageId'[t] = pageId[t] /\ Extent(t)' = Extent(t)
                       /\ \A p \in Extent(t) : p \notin Extent(s)
  BY <1>1, <1>2, LiveExtents DEF Inv, TypeOK, Extent
<1>4. \A p \in Extent(s) : os[p] = "large"
  <2>1. ~(n[s] < NPAGES)
    BY <1>1, <1>2, SizesAssumption
  <2>2. QED
    BY <1>2, <2>1 DEF Inv, SpansMapped
<1>5. \A p \in Page : os'[p] = IF p \in Extent(s) THEN "none" ELSE os[p]
  BY <1>1 DEF SystemFree, Extent
<1>6. TypeOK'
  BY <1>1, <1>2 DEF Inv, TypeOK, SystemFree
<1>7. SpansDisjoint'
  BY <1>1, <1>3 DEF Inv, SpansDisjoint, Apart
<1>8. SpansMapped'
  <2>1. \A t \in live' : \A p \in Extent(t) : os'[p] = os[p]
    BY <1>3, <1>5, LiveExtents
  <2>2. QED
    BY <1>1, <1>3, <2>1 DEF Inv, SpansMapped
<1>9. NoPageLost'
  <2> SUFFICES ASSUME NEW p \in Page, os'[p] = "chunk" PROVE \E t \in live' : p \in Extent(t)'
    BY DEF NoPageLost
  <2>1. p \notin Extent(s) /\ os[p] = "chunk"
    BY <1>5
  <2>2. PICK t \in live : p \in Extent(t)
    BY <2>1 DEF Inv, NoPageLost
  <2>3. QED
    BY <1>1, <1>3, <2>1, <2>2
<1>10. \A i \in 1 .. ChunkSize : s \notin spanList[i]
  BY DEF Inv, Buckets
<1>11. Buckets' /\ HeldFound' /\ FreeEndsFound'
  <2>1. \A i \in 1 .. ChunkSize : \A t \in spanList[i] : t \in live'
    BY <1>1, <1>10 DEF Inv, Buckets
  <2>2. Buckets'
    BY <1>1, <1>2, <1>10, <2>1 DEF Inv, Buckets
  <2>3. \A p : MapObjectToSpan(p)' = MapObjectToSpan(p)
    BY <1>1 DEF MapObjectToSpan
  <2>4. HeldFound'
    BY <1>1, <1>3, <2>3 DEF Inv, HeldFound, TypeOK
  <2>5. FreeEndsFound'
    <3> SUFFICES ASSUME NEW i \in 1 .. ChunkSize, NEW t \in spanList[i]
                 PROVE  /\ MapObjectToSpan(pageId[t])' = t
                        /\ MapObjectToSpan(pageId[t] + n[t] - 1)' = t
      BY <1>1 DEF FreeEndsFound
    <3>1. pageId'[t] = pageId[t] /\ n'[t] = n[t]
      BY <1>1, <1>3, <2>1
    <3>2. MapObjectToSpan(pageId[t]) = t /\ MapObjectToSpan(pageId[t] + n[t] - 1) = t
      BY <1>1 DEF Inv, FreeEndsFound
    <3>3. QED
      BY <1>1, <3>1, <3>2 DEF MapObjectToSpan
  <2>6. QED
    BY <2>2, <2>4, <2>5
<1>12. GrowsOnce' /\ MapKnows'
  BY <1>1, <1>4, <1>5 DEF Inv, GrowsOnce, MapKnows
<1>13. QED
  BY <1>6, <1>7, <1>8, <1>9, <1>11, <1>12 DEF Inv

\* The span changes hands: from its caller to the merge loops.
LEMMA ReleaseSmallKeepsInv ==
    ASSUME Inv, NEW s \in held, ReleaseSmall(s)
    PROVE  Inv'
<1>1. /\ pc = "idle" /\ pc' = "left" /\ cur' = s /\ held' = held \ {s} /\ n[s] < NPAGES
      /\ UNCHANGED <<idSpanMap, pageId, n, isUse, live, spanList, os, want>> /\ cur = Null
      /\ s \in live /\ s \in SpanId /\ s # Null
  BY SizesAssumption DEF ReleaseSmall, spanVars, Inv, TypeOK
<1>2. TypeOK'
  BY <1>1 DEF Inv, TypeOK
<1>3. SpansDisjoint' /\ SpansMapped' /\ NoPageLost' /\ MapKnows' /\ GrowsOnce'
  BY <1>1 DEF Inv, SpansDisjoint, SpansMapped, NoPageLost, MapKnows, GrowsOnce, Apart, Extent
<1>4. Buckets'
  BY <1>1, SizesAssumption DEF Inv, Buckets, TypeOK
<1>5. HeldFound' /\ FreeEndsFound'
  BY <1>1 DEF Inv, HeldFound, FreeEndsFound, Extent, MapObjectToSpan
<1>6. QED
  BY <1>2, <1>3, <1>4, <1>5 DEF Inv

\* The left loop ends.
LEMMA LeftDoneKeepsInv ==
    ASSUME Inv, LeftDone
    PROVE  Inv'
<1>1. /\ pc = "left" /\ pc' = "right" /\ cur # Null
      /\ UNCHANGED <<idSpanMap, pageId, n, isUse, live, held, cur, spanList, os, want>>
  BY DEF LeftDone, spanVars, Inv, TypeOK
<1>2. TypeOK'
  BY <1>1 DEF Inv, TypeOK
<1>3. SpansDisjoint' /\ SpansMapped' /\ NoPageLost' /\ MapKnows' /\ GrowsOnce' /\ Buckets'
  BY <1>1 DEF Inv, SpansDisjoint, SpansMapped, NoPageLost, MapKnows, GrowsOnce, Buckets, Apart, Extent
<1>4. HeldFound' /\ FreeEndsFound'
  BY <1>1 DEF Inv, HeldFound, FreeEndsFound, Extent, MapObjectToSpan
<1>5. QED
  BY <1>2, <1>3, <1>4 DEF Inv

\* A swallowed neighbour's pages become cur's, the only span that changes.
LEMMA SwallowKeepsInv ==
    ASSUME Inv, cur # Null, pc \in {"left", "right"}, NEW it, NEW first,
           it \in live, it # cur, it \notin held, n[it] \in 1 .. ChunkSize, it \in spanList[n[it]],
           n[cur] + n[it] <= NPAGES - 1,
           \/ first = pageId[it] /\ pageId[it] + n[it] = pageId[cur]
           \/ first = pageId[cur] /\ pageId[cur] + n[cur] = pageId[it],
           Swallow(it, first)
    PROVE  Inv'
<1>1. /\ spanList' = Erase(spanList, n[it], it)
      /\ pageId' = [pageId EXCEPT ![cur] = first, ![it] = 0]
      /\ n' = [n EXCEPT ![cur] = n[cur] + n[it]]
      /\ live' = live \ {it}
      /\ UNCHANGED <<idSpanMap, isUse, held, os, pc, want, cur>>
  BY DEF Swallow, MergedLength
<1>2. cur \in live /\ cur \notin held /\ n[cur] < NPAGES /\ isUse[cur] /\ cur \in SpanId /\ it \in SpanId
  BY DEF Inv, Buckets, TypeOK
<1>3. /\ pageId[cur] \in Nat /\ n[cur] \in Nat /\ pageId[cur] >= 1 /\ n[cur] >= 1
      /\ pageId[it] \in Nat /\ n[it] \in Nat /\ pageId[it] >= 1 /\ n[it] >= 1
      /\ pageId[cur] + n[cur] <= LastPage /\ pageId[it] + n[it] <= LastPage
      /\ n[it] < NPAGES /\ first \in Nat /\ first >= 1
  BY <1>2, SizesAssumption DEF Inv, TypeOK, SpansMapped, ChunkSize
<1>4. /\ pageId'[cur] = first /\ n'[cur] = n[cur] + n[it]
      /\ \A t \in live' : t \in live /\ t # it
      /\ \A t \in live' : t # cur => pageId'[t] = pageId[t] /\ n'[t] = n[t] /\ Extent(t)' = Extent(t)
  BY <1>1, <1>2 DEF Inv, TypeOK, Extent
<1>5. /\ \A p \in Extent(cur)' : p \in Extent(cur) \/ p \in Extent(it)
      /\ \A p \in Extent(cur) : p \in Extent(cur)'
      /\ \A p \in Extent(it) : p \in Extent(cur)'
  <2>1. Extent(cur)' = Pages(first, n[cur] + n[it]) /\ n[cur] + n[it] = n[it] + n[cur]
    BY <1>1, <1>3, <1>4 DEF Extent
  <2>2. CASE first = pageId[it] /\ pageId[it] + n[it] = pageId[cur]
    BY <1>3, <2>1, <2>2, RunsJoin DEF Extent
  <2>3. CASE first = pageId[cur] /\ pageId[cur] + n[cur] = pageId[it]
    BY <1>3, <2>1, <2>3, RunsJoin DEF Extent
  <2>4. QED
    BY <2>2, <2>3
<1>6. TypeOK'
  <2>1. pageId' \in [SpanId -> Nat] /\ n' \in [SpanId -> Nat]
    BY <1>1, <1>2, <1>3 DEF Inv, TypeOK
  <2>2. spanList' \in [1 .. ChunkSize -> SUBSET SpanId]
    BY <1>1 DEF Inv, TypeOK, Erase
  <2>3. QED
    BY <1>1, <2>1, <2>2 DEF Inv, TypeOK
<1>7. SpansDisjoint'
  <2>1. ASSUME NEW t \in live', t # cur PROVE Apart(t, cur)' /\ Apart(cur, t)'
    <3>1. Apart(t, cur) /\ Apart(t, it)
      BY <1>2, <1>4, <2>1 DEF Inv, SpansDisjoint
    <3>2. pageId[t] \in Nat /\ n[t] \in Nat /\ n[t] >= 1
      BY <1>4, LiveExtents
    <3>3. pageId[t] + n[t] <= first \/ first + (n[cur] + n[it]) <= pageId[t]
      BY <1>3, <3>1, <3>2 DEF Apart
    <3>4. QED
      BY <1>1, <1>4, <2>1, <3>3 DEF Apart
  <2>2. ASSUME NEW t \in live', NEW u \in live', t # cur, u # cur, t # u PROVE Apart(t, u)'
    BY <1>4, <2>2 DEF Inv, SpansDisjoint, Apart
  <2>3. QED
    BY <1>1, <2>1, <2>2 DEF SpansDisjoint
<1>8. SpansMapped'
  <2>1. \A p \in Extent(cur)' : os'[p] = "chunk"
    BY <1>1, <1>2, <1>3, <1>5 DEF Inv, SpansMapped
  <2>2. n'[cur] >= 1 /\ pageId'[cur] >= 1 /\ pageId'[cur] + n'[cur] <= LastPage /\ n'[cur] < NPAGES
    BY <1>3, <1>4, SizesAssumption
  <2>3. ASSUME NEW t \in live', t # cur
        PROVE  /\ n'[t] >= 1 /\ pageId'[t] >= 1 /\ pageId'[t] + n'[t] <= LastPage
               /\ \A p \in Extent(t)' : os'[p] = IF n'[t] < NPAGES THEN "chunk" ELSE "large"
    <3>1. t \in live /\ pageId'[t] = pageId[t] /\ n'[t] = n[t] /\ Extent(t)' = Extent(t) /\ os' = os
      BY <1>1, <1>4, <2>3
    <3>2. /\ n[t] >= 1 /\ pageId[t] >= 1 /\ pageId[t] + n[t] <= LastPage
          /\ \A p \in Extent(t) : os[p] = IF n[t] < NPAGES THEN "chunk" ELSE "large"
      BY <3>1 DEF Inv, SpansMapped
    <3> QED BY <3>1, <3>2
  <2>4. QED
    BY <1>1, <2>1, <2>2, <2>3 DEF SpansMapped
<1>9. NoPageLost'
  <2> SUFFICES ASSUME NEW p \in Page, os[p] = "chunk" PROVE \E t \in live' : p \in Extent(t)'
    BY <1>1 DEF NoPageLost
  <2>1. PICK t \in live : p \in Extent(t)
    BY DEF Inv, NoPageLost
  <2>2. CASE t = it \/ t = cur
    BY <1>1, <1>2, <1>5, <2>1, <2>2
  <2>3. CASE t # it /\ t # cur
    BY <1>1, <1>4, <2>1, <2>3
  <2>4. QED
    BY <2>2, <2>3
<1>10. /\ \A i \in 1 .. ChunkSize : \A t \in spanList'[i] : t \in spanList[i] /\ t # it /\ t # cur
       /\ \A i \in 1 .. ChunkSize : \A t \in spanList[i] : t # it => t \in spanList'[i]
  BY <1>1, <1>2 DEF Erase, Inv, TypeOK, Buckets
<1>11. Buckets'
  <2>1. ASSUME NEW i \in 1 .. ChunkSize, NEW t \in spanList'[i]
        PROVE  t \in live' /\ n'[t] = i /\ ~isUse'[t] /\ t \notin held'
    <3>1. t \in spanList[i] /\ t # it /\ t # cur
      BY <1>10
    <3>2. t \in live /\ n[t] = i /\ ~isUse[t] /\ t \notin held
      BY <3>1 DEF Inv, Buckets
    <3>3. QED
      BY <1>1, <1>4, <3>1, <3>2
  <2>2. ASSUME NEW t \in live'
        PROVE  t \in held' \/ t = cur' \/ (n'[t] < NPAGES /\ t \in spanList'[n'[t]])
    <3>1. n[t] < NPAGES => n[t] \in 1 .. ChunkSize
      BY <1>4, LiveExtents, SizesAssumption DEF ChunkSize
    <3>2. QED
      BY <1>1, <1>4, <1>10, <3>1 DEF Inv, Buckets
  <2>3. cur' \in live' /\ cur' \notin held' /\ n'[cur'] < NPAGES /\ isUse'[cur']
    BY <1>1, <1>2, <1>3, <1>4, SizesAssumption
  <2>4. \A t \in held' : isUse'[t]
    BY <1>1 DEF Inv, Buckets
  <2>5. QED
    BY <2>1, <2>2, <2>3, <2>4 DEF Buckets
<1>12. HeldFound'
  <2>1. \A t \in held' : t \in live' /\ t # cur
    BY <1>1, <1>2 DEF Inv, TypeOK
  <2>2. \A p : MapObjectToSpan(p)' = MapObjectToSpan(p)
    BY <1>1 DEF MapObjectToSpan
  <2>3. QED
    BY <1>1, <1>4, <2>1, <2>2 DEF Inv, HeldFound
<1>13. FreeEndsFound'
  <2> SUFFICES ASSUME NEW i \in 1 .. ChunkSize, NEW t \in spanList'[i]
               PROVE  /\ MapObjectToSpan(pageId[t])' = t
                      /\ MapObjectToSpan(pageId[t] + n[t] - 1)' = t
    BY DEF FreeEndsFound
  <2>1. t \in spanList[i] /\ t # it /\ t # cur /\ t \in live
    BY <1>10 DEF Inv, Buckets
  <2>2. pageId'[t] = pageId[t] /\ n'[t] = n[t]
    BY <1>1, <1>4, <2>1
  <2>3. MapObjectToSpan(pageId[t]) = t /\ MapObjectToSpan(pageId[t] + n[t] - 1) = t
    BY <2>1 DEF Inv, FreeEndsFound
  <2>4. QED
    BY <1>1, <2>2, <2>3 DEF MapObjectToSpan
<1>14. GrowsOnce' /\ MapKnows'
  BY <1>1 DEF Inv, GrowsOnce, MapKnows
<1>15. QED
  BY <1>6, <1>7, <1>8, <1>9, <1>11, <1>12, <1>13, <1>14 DEF Inv

\* Both merge loops swallow by NeighbourLemma.
LEMMA MergeKeepsInv ==
    ASSUME Isolated, Inv, MergeLeft \/ MergeRight
    PROVE  Inv'
<1>1. cur # Null /\ pc \in {"left", "right"} /\ n[cur] \in Nat /\ pageId[cur] \in Nat
  BY SizesAssumption DEF MergeLeft, MergeRight, Inv, TypeOK
<1>2. CASE MergeLeft
  <2> DEFINE p == pageId[cur] - 1
             it == MapObjectToSpan(p)
  <2>1. CanMerge(it) /\ Swallow(it, pageId[it])
    BY <1>2 DEF MergeLeft, LeftNeighbour
  <2>2. /\ it \in live /\ it # cur /\ it \notin held
        /\ n[it] \in 1 .. ChunkSize /\ it \in spanList[n[it]]
        /\ pageId[it] + n[it] = pageId[cur]
    BY <1>1, <2>1, NeighbourLemma
  <2>3. n[cur] + n[it] <= NPAGES - 1
    BY <2>1 DEF CanMerge
  <2> HIDE DEF it
  <2>4. QED
    BY <1>1, <2>1, <2>2, <2>3, SwallowKeepsInv
<1>3. CASE MergeRight
  <2> DEFINE p == pageId[cur] + n[cur]
             it == MapObjectToSpan(p)
  <2>1. CanMerge(it) /\ Swallow(it, pageId[cur])
    BY <1>3 DEF MergeRight, RightNeighbour
  <2>2. /\ it \in live /\ it # cur /\ it \notin held
        /\ n[it] \in 1 .. ChunkSize /\ it \in spanList[n[it]]
        /\ pageId[cur] + n[cur] = pageId[it]
    BY <1>1, <2>1, NeighbourLemma
  <2>3. n[cur] + n[it] <= NPAGES - 1
    BY <2>1 DEF CanMerge
  <2> HIDE DEF it
  <2>4. QED
    BY <1>1, <2>1, <2>2, <2>3, SwallowKeepsInv
<1>4. QED
  BY <1>2, <1>3

\* The released span is listed under its length and found at both ends.
LEMMA FinishReleaseKeepsInv ==
    ASSUME Inv, FinishRelease
    PROVE  Inv'
<1>1. /\ pc = "right" /\ pc' = "idle" /\ cur # Null /\ cur' = Null
      /\ isUse' = [isUse EXCEPT ![cur] = FALSE]
      /\ spanList' = Push(spanList, n[cur], cur)
      /\ idSpanMap' = MapEnds(idSpanMap, pageId[cur], n[cur], cur)
      /\ UNCHANGED <<pageId, n, live, held, os, want>>
  BY DEF FinishRelease, Inv, TypeOK
<1>2. cur \in live /\ cur \notin held /\ n[cur] < NPAGES /\ cur \in SpanId
  BY <1>1 DEF Inv, Buckets, TypeOK
<1>3. /\ pageId[cur] \in Nat /\ n[cur] \in 1 .. ChunkSize
      /\ pageId[cur] \in Extent(cur) /\ pageId[cur] + n[cur] - 1 \in Extent(cur)
      /\ pageId[cur] \in Page /\ pageId[cur] + n[cur] - 1 \in Page
  BY <1>2, LiveExtents, SizesAssumption DEF ChunkSize
<1>4. \A p \in Page : idSpanMap'[p] = IF p \in {pageId[cur], pageId[cur] + n[cur] - 1} THEN cur
                                     ELSE idSpanMap[p]
  BY <1>1 DEF MapEnds, MapPages
<1>5. \A t \in live : t # cur => \A p \in Extent(t) : MapObjectToSpan(p)' = MapObjectToSpan(p)
  <2>1. \A t \in live : t # cur => \A p \in Extent(t) : p \notin {pageId[cur], pageId[cur] + n[cur] - 1}
    BY <1>2, <1>3, LiveExtents
  <2>2. QED
    BY <1>4, <2>1 DEF MapObjectToSpan
<1>6. idSpanMap'[pageId[cur]] = cur /\ idSpanMap'[pageId[cur] + n[cur] - 1] = cur
  BY <1>3, <1>4
<1>7. TypeOK'
  BY <1>1, <1>2 DEF Inv, TypeOK, Push, MapEnds, MapPages
<1>8. SpansDisjoint' /\ SpansMapped' /\ NoPageLost' /\ GrowsOnce'
  BY <1>1 DEF Inv, SpansDisjoint, SpansMapped, NoPageLost, GrowsOnce, Apart, Extent
<1>9. /\ \A i \in 1 .. ChunkSize : \A t \in spanList'[i] : t \in spanList[i] \/ (t = cur /\ i = n[cur])
      /\ \A i \in 1 .. ChunkSize : spanList[i] \subseteq spanList'[i]
      /\ cur \in spanList'[n[cur]]
      /\ isUse'[cur] = FALSE /\ \A t \in live : t # cur => isUse'[t] = isUse[t]
  BY <1>1, <1>2, <1>3 DEF Push, Inv, TypeOK
<1>10. Buckets'
  <2>1. ASSUME NEW i \in 1 .. ChunkSize, NEW t \in spanList'[i]
        PROVE  t \in live' /\ n'[t] = i /\ ~isUse'[t] /\ t \notin held'
    BY <1>1, <1>2, <1>9 DEF Inv, Buckets
  <2>2. \A t \in held' : isUse'[t]
    BY <1>1, <1>2, <1>9 DEF Inv, Buckets, TypeOK
  <2>3. ASSUME NEW t \in live'
        PROVE  t \in held' \/ t = cur' \/ (n'[t] < NPAGES /\ t \in spanList'[n'[t]])
    <3>1. n[t] < NPAGES => n[t] \in 1 .. ChunkSize
      BY <1>1, LiveExtents, SizesAssumption DEF ChunkSize
    <3>2. QED
      BY <1>1, <1>2, <1>9, <3>1 DEF Inv, Buckets
  <2>4. QED
    BY <1>1, <2>1, <2>2, <2>3 DEF Buckets
<1>11. HeldFound'
  <2>1. \A t \in held : t \in live /\ t # cur /\ pageId[t] \in Extent(t)
    BY <1>2, LiveExtents DEF Inv, TypeOK
  <2>2. \A t \in live : Extent(t)' = Extent(t)
    BY <1>1 DEF Extent
  <2>3. QED
    BY <1>1, <1>5, <2>1, <2>2 DEF Inv, HeldFound
<1>12. FreeEndsFound'
  <2> SUFFICES ASSUME NEW i \in 1 .. ChunkSize, NEW t \in spanList'[i]
               PROVE  /\ MapObjectToSpan(pageId[t])' = t
                      /\ MapObjectToSpan(pageId[t] + n[t] - 1)' = t
    BY DEF FreeEndsFound
  <2>1. CASE t = cur
    BY <1>1, <1>3, <1>6, <2>1 DEF MapObjectToSpan
  <2>2. CASE t # cur
    <3>1. t \in spanList[i] /\ t \in live
      BY <1>9, <2>2 DEF Inv, Buckets
    <3>2. MapObjectToSpan(pageId[t]) = t /\ MapObjectToSpan(pageId[t] + n[t] - 1) = t
      BY <1>1, <3>1 DEF Inv, FreeEndsFound
    <3>3. pageId[t] \in Extent(t) /\ pageId[t] + n[t] - 1 \in Extent(t)
      BY <3>1, LiveExtents
    <3>4. QED
      BY <1>1, <1>5, <2>2, <3>1, <3>2, <3>3 DEF MapObjectToSpan
  <2>3. QED
    BY <2>1, <2>2
<1>13. MapKnows'
  <2>1. \A p \in Extent(cur) : os[p] = "chunk"
    BY <1>2 DEF Inv, SpansMapped
  <2>2. QED
    BY <1>1, <1>3, <1>4, <2>1 DEF Inv, MapKnows
<1>14. QED
  BY <1>7, <1>8, <1>10, <1>11, <1>12, <1>13 DEF Inv

-----------------------------------------------------------------------------
\* Inv is inductive.
THEOREM Safety ==
    ASSUME Isolated
    PROVE  Spec => []Inv
<1>1. Inv /\ UNCHANGED vars => Inv'
  BY DEF vars, Inv, TypeOK, SpansDisjoint, SpansMapped, NoPageLost, Buckets, HeldFound,
         FreeEndsFound, GrowsOnce, MapKnows, Apart, Extent, MapObjectToSpan
<1>2. Inv /\ Next => Inv'
  BY NewSpanKeepsInv, NewSpanLargeKeepsInv, ReleaseLargeKeepsInv, ReleaseSmallKeepsInv,
     ThrowsKeepInv, TakeExactKeepsInv, SplitLargerKeepsInv, GrowHeapKeepsInv, MergeKeepsInv,
     LeftDoneKeepsInv, FinishReleaseKeepsInv, <1>1
     DEF Next, Continue, MutexHeldForever
<1>3. Inv /\ [Next]_vars => Inv'
  BY <1>1, <1>2
<1>4. QED
  BY InitInv, <1>3, PTL DEF Spec

\* What the merge loops take is always a free neighbour (README.md:151).
THEOREM MergesAreWithNeighbours ==
    ASSUME Isolated
    PROVE  Spec => []MergesNeighbours
<1>1. Inv => MergesNeighbours
  <2> SUFFICES ASSUME Inv PROVE MergesNeighbours
    OBVIOUS
  <2>1. ASSUME pc = "left", CanMerge(LeftNeighbour)
        PROVE  /\ LeftNeighbour \in live /\ LeftNeighbour \in spanList[n[LeftNeighbour]]
               /\ pageId[LeftNeighbour] + n[LeftNeighbour] = pageId[cur]
    <3>1. cur # Null
      BY <2>1 DEF Inv, TypeOK
    <3>2. QED
      BY <2>1, <3>1, NeighbourLemma DEF LeftNeighbour
  <2>2. ASSUME pc = "right", CanMerge(RightNeighbour)
        PROVE  /\ RightNeighbour \in live /\ RightNeighbour \in spanList[n[RightNeighbour]]
               /\ pageId[cur] + n[cur] = pageId[RightNeighbour]
    <3>1. cur # Null
      BY <2>2 DEF Inv, TypeOK
    <3>2. QED
      BY <2>2, <3>1, NeighbourLemma DEF RightNeighbour
  <2>3. QED
    BY <2>1, <2>2 DEF MergesNeighbours
<1>2. QED
  BY <1>1, Safety, PTL

-----------------------------------------------------------------------------
(* Every step of an operation brings its end nearer (PageCache.cpp:91,       *)
(* 107-164).                                                                 *)

\* What a merge loop swallows leaves live, which cur does not.
LEMMA SwallowShrinks ==
    ASSUME Isolated, IsFiniteSet(SpanId), Inv, MergeLeft \/ MergeRight
    PROVE  /\ Cardinality(live) \in Nat /\ Cardinality(live') = Cardinality(live) - 1
           /\ pc' = pc
<1>1. cur # Null /\ pc \in {"left", "right"} /\ live \subseteq SpanId
  BY DEF MergeLeft, MergeRight, Inv, TypeOK
<1>2. PICK it \in live : live' = live \ {it} /\ pc' = pc
  <2>1. CASE MergeLeft
    BY <1>1, <2>1, NeighbourLemma DEF MergeLeft, Swallow, LeftNeighbour
  <2>2. CASE MergeRight
    BY <1>1, <2>2, NeighbourLemma DEF MergeRight, Swallow, RightNeighbour
  <2>3. QED
    BY <2>1, <2>2
<1>3. IsFiniteSet(live)
  BY <1>1, FS_Subset
<1>4. QED
  BY <1>2, <1>3, FS_RemoveElement, FS_CardinalityType

\* A chunk that was just pushed answers the recursive call, so that the heap
\* is not grown again and nothing is thrown (GrowsOnce).
LEMMA RecursionEnds ==
    ASSUME Inv, pc = "again"
    PROVE  ~NothingFits(want)
<1>1. want \in 1 .. ChunkSize
  BY SizesAssumption DEF Inv, TypeOK, ChunkSize
<1>2. spanList[ChunkSize] # {}
  BY DEF Inv, GrowsOnce
<1>3. ChunkSize \in want .. ChunkSize
  BY <1>1, SizesAssumption DEF ChunkSize
<1>4. QED
  BY <1>2, <1>3 DEF NothingFits

THEOREM EveryOperationEnds ==
    ASSUME Isolated, IsFiniteSet(SpanId)
    PROVE  Spec => OperationsEnd
<1>1. ASSUME Inv, Inv', Next, pc \notin {"idle", "thrown"}
      PROVE  StepsLeft' < StepsLeft
  <2>1. Cardinality(live) \in Nat
    BY <1>1, FS_Subset, FS_CardinalityType DEF Inv, TypeOK
  <2>2. CASE TakeExact \/ SplitLarger
    BY <2>1, <2>2 DEF TakeExact, SplitLarger, StepsLeft
  <2>3. CASE GrowHeap \/ GrowThrows
    BY <1>1, <2>1, <2>3, RecursionEnds DEF GrowHeap, GrowThrows, StepsLeft
  <2>4. CASE MergeLeft \/ MergeRight
    BY <1>1, <2>1, <2>4, SwallowShrinks DEF MergeLeft, MergeRight, StepsLeft
  <2>5. CASE LeftDone
    BY <2>1, <2>5 DEF LeftDone, StepsLeft, spanVars
  <2>6. CASE FinishRelease
    BY <2>1, <2>6 DEF FinishRelease, StepsLeft
  <2>7. QED
    BY <1>1, <2>2, <2>3, <2>4, <2>5, <2>6
       DEF Next, Continue, NewSpan, NewSpanLarge, LargeThrows, ReleaseLarge, ReleaseSmall,
           MutexHeldForever
<1>2. Inv /\ Inv' /\ [Next]_vars => (pc \notin {"idle", "thrown"} => StepsLeft' < StepsLeft) \/ UNCHANGED vars
  BY <1>1
<1>3. QED
  BY <1>2, Safety, PTL DEF Spec, OperationsEnd

-----------------------------------------------------------------------------
(* A release leaves no free span beside the one it frees that it could still *)
(* have swallowed (README.md:151).                                           *)

\* What the left loop found stays so while the right loop runs.
LeftIsFull ==
    pc = "right" =>
        \A s \in live : s # cur /\ ~isUse[s] /\ pageId[s] + n[s] = pageId[cur]
                        => n[cur] + n[s] > ChunkSize

\* A free span beside cur is the one its map entry names.
LEMMA FreeNeighbourFound ==
    ASSUME Inv, pc \in {"left", "right"}, NEW s \in live, s # cur, ~isUse[s]
    PROVE  /\ pageId[s] + n[s] = pageId[cur] => LeftNeighbour = s
           /\ pageId[cur] + n[cur] = pageId[s] => RightNeighbour = s
           /\ s # Null
<1>1. s \notin held /\ n[s] < NPAGES /\ s \in spanList[n[s]]
  BY DEF Inv, Buckets
<1>2. n[s] \in 1 .. ChunkSize /\ pageId[s] \in Nat /\ pageId[cur] \in Nat /\ n[cur] \in Nat
  BY <1>1, SizesAssumption DEF Inv, TypeOK, SpansMapped, ChunkSize
<1>3. MapObjectToSpan(pageId[s]) = s /\ MapObjectToSpan(pageId[s] + n[s] - 1) = s
  BY <1>1, <1>2 DEF Inv, FreeEndsFound
<1>4. QED
  BY <1>2, <1>3, SizesAssumption DEF LeftNeighbour, RightNeighbour, Inv, TypeOK

THEOREM ReleaseCoalesces ==
    ASSUME Isolated
    PROVE  Spec => CoalescedOnRelease
<1>1. Init => LeftIsFull
  BY DEF Init, LeftIsFull
<1>2. ASSUME Inv, LeftIsFull, Next PROVE LeftIsFull'
  <2> SUFFICES ASSUME pc' = "right" PROVE LeftIsFull'
    BY DEF LeftIsFull
  <2>1. LeftDone \/ MergeRight
    BY <1>2 DEF Next, Continue, NewSpan, NewSpanLarge, LargeThrows, ReleaseLarge, ReleaseSmall,
                MutexHeldForever, TakeExact, SplitLarger, GrowHeap, GrowThrows, MergeLeft, Swallow,
                FinishRelease, vars
  <2>2. /\ cur \in SpanId /\ cur # Null /\ cur \in live /\ n[cur] \in Nat
        /\ \A s \in live : s \in SpanId /\ n[s] \in Nat
    BY <1>2, <2>1 DEF LeftDone, MergeRight, Inv, TypeOK, Buckets
  <2>3. CASE LeftDone
    <3>1. ASSUME NEW s \in live, s # cur, ~isUse[s], pageId[s] + n[s] = pageId[cur]
          PROVE  n[cur] + n[s] > ChunkSize
      <4>1. LeftNeighbour = s /\ s # Null
        BY <1>2, <2>3, <3>1, FreeNeighbourFound DEF LeftDone
      <4>2. QED
        BY <2>2, <2>3, <3>1, <4>1, SizesAssumption DEF LeftDone, CanMerge, ChunkSize
    <3>2. QED
      BY <2>3, <3>1 DEF LeftDone, LeftIsFull, spanVars
  <2>4. CASE MergeRight
    <3> DEFINE it == RightNeighbour
    <3>1. it \in live /\ it # cur /\ n[it] \in Nat
      BY <1>2, <2>2, <2>4, NeighbourLemma DEF MergeRight, RightNeighbour
    <3>2. /\ pc = "right" /\ cur' = cur /\ isUse' = isUse /\ live' = live \ {it}
          /\ pageId' = [pageId EXCEPT ![cur] = pageId[cur], ![it] = 0]
          /\ n' = [n EXCEPT ![cur] = n[cur] + n[it]]
      BY <2>4 DEF MergeRight, Swallow, MergedLength
    <3>3. ASSUME NEW s \in live', s # cur, ~isUse[s], pageId'[s] + n'[s] = pageId'[cur]
          PROVE  n'[cur] + n'[s] > ChunkSize
      <4>1. s \in live /\ s # it /\ n'[s] = n[s] /\ pageId'[s] = pageId[s]
        BY <2>2, <3>2, <3>3, <1>2 DEF Inv, TypeOK
      <4>2. pageId'[cur] = pageId[cur] /\ n'[cur] = n[cur] + n[it]
        BY <2>2, <3>1, <3>2, <1>2 DEF Inv, TypeOK
      <4>3. n[cur] + n[s] > ChunkSize
        BY <1>2, <3>2, <3>3, <4>1, <4>2 DEF LeftIsFull
      <4>4. QED
        BY <2>2, <3>1, <4>1, <4>2, <4>3, SizesAssumption DEF ChunkSize
    <3>4. QED
      BY <3>2, <3>3 DEF LeftIsFull
  <2>5. QED
    BY <2>1, <2>3, <2>4
<1>3. ASSUME Inv, LeftIsFull, Next, NEW s \in live, pc = "right", pc' = "idle", s # cur, ~isUse[s]
      PROVE  \/ n[cur] + n[s] > ChunkSize
             \/ pageId[s] + n[s] # pageId[cur] /\ pageId[cur] + n[cur] # pageId[s]
  <2>1. ~CanMerge(RightNeighbour)
    BY <1>3 DEF Next, Continue, NewSpan, NewSpanLarge, LargeThrows, ReleaseLarge, ReleaseSmall,
                MutexHeldForever, TakeExact, SplitLarger, GrowHeap, GrowThrows, MergeLeft, MergeRight,
                Swallow, LeftDone, FinishRelease
  <2>2. n[cur] \in Nat /\ n[s] \in Nat
    BY <1>3 DEF Inv, TypeOK
  <2>3. CASE pageId[cur] + n[cur] = pageId[s]
    BY <1>3, <2>1, <2>2, <2>3, FreeNeighbourFound, SizesAssumption DEF CanMerge, ChunkSize
  <2>4. CASE pageId[s] + n[s] = pageId[cur]
    BY <1>3, <2>4 DEF LeftIsFull
  <2>5. QED
    BY <2>3, <2>4
<1>4. LeftIsFull /\ UNCHANGED vars => LeftIsFull'
  BY DEF LeftIsFull, vars
<1>5. Spec => []LeftIsFull
  BY <1>1, <1>2, <1>4, Safety, PTL DEF Spec
<1>6. Inv /\ LeftIsFull /\ [Next]_vars =>
        \/ \A s \in live : pc = "right" /\ pc' = "idle" /\ s # cur /\ ~isUse[s] =>
              \/ n[cur] + n[s] > ChunkSize
              \/ pageId[s] + n[s] # pageId[cur] /\ pageId[cur] + n[cur] # pageId[s]
        \/ UNCHANGED vars
  BY <1>3
<1>7. QED
  BY <1>5, <1>6, Safety, PTL DEF Spec, CoalescedOnRelease

-----------------------------------------------------------------------------
(* PageCache implements PageHeap: handing a span out is Alloc, taking it     *)
(* back is Free, and splitting, growing and merging are invisible.           *)

\* A span that joins held, while the other held ones stay as they are.
LEMMA HandOutIsAlloc ==
    ASSUME Inv, Inv', NEW s \in SpanId, s \notin held, held' = held \cup {s},
           \A t \in held : pageId'[t] = pageId[t] /\ n'[t] = n[t]
    PROVE  Heap!HeapNext
<1> DEFINE e == <<pageId'[s], n'[s]>>
           before == {<<pageId[t], n[t]>> : t \in held}
           after  == {<<pageId'[t], n'[t]>> : t \in held'}
<1>1. s \in live' /\ \A t \in held : t \in live' /\ t # s
  BY DEF Inv, TypeOK
<1>2. pageId'[s] \in Nat /\ n'[s] \in Nat \ {0}
  BY <1>1 DEF Inv, TypeOK, SpansMapped
<1>3. e \in Heap!Extents
  BY <1>2 DEF Heap!Extents
<1>4. \A f \in before : Heap!Disjoint(e, f)
  <2> SUFFICES ASSUME NEW t \in held PROVE Heap!Disjoint(e, <<pageId[t], n[t]>>)
    OBVIOUS
  <2>1. pageId'[s] + n'[s] <= pageId'[t] \/ pageId'[t] + n'[t] <= pageId'[s]
    BY <1>1 DEF Inv, SpansDisjoint, Apart
  <2>2. QED
    BY <2>1 DEF Heap!Disjoint
<1>5. after = before \cup {e}
  OBVIOUS
<1>6. \E x \in after : x \in Heap!Extents /\ (\A f \in before : Heap!Disjoint(x, f)) /\ after = before \cup {x}
  <2>1. e \in after
    BY <1>5
  <2> HIDE DEF e, before, after
  <2>2. QED
    BY <1>3, <1>4, <1>5, <2>1
<1>7. QED
  BY <1>6 DEF Heap!HeapNext, Heap!Alloc

\* A span that leaves held, while the other held ones stay as they are.
LEMMA TakeBackIsFree ==
    ASSUME Inv, NEW s \in held, held' = held \ {s},
           \A t \in held' : pageId'[t] = pageId[t] /\ n'[t] = n[t]
    PROVE  Heap!HeapNext
<1> DEFINE e == <<pageId[s], n[s]>>
           before == {<<pageId[t], n[t]>> : t \in held}
           after  == {<<pageId'[t], n'[t]>> : t \in held'}
<1>1. \A t \in held' : <<pageId[t], n[t]>> # e
  <2> SUFFICES ASSUME NEW t \in held', <<pageId[t], n[t]>> = e PROVE FALSE
    OBVIOUS
  <2>1. t \in live /\ s \in live /\ t # s
    BY DEF Inv, TypeOK
  <2>2. Apart(s, t) /\ pageId[s] \in Nat /\ n[s] \in Nat /\ n[s] >= 1
    BY <2>1, LiveExtents DEF Inv, SpansDisjoint
  <2>3. pageId[t] = pageId[s] /\ n[t] = n[s]
    OBVIOUS
  <2>4. QED
    BY <2>2, <2>3 DEF Apart
<1>2. after = before \ {e}
  <2>1. after = {<<pageId[t], n[t]>> : t \in held'}
    OBVIOUS
  <2>2. QED
    BY <1>1, <2>1
<1>3. \E x \in before : after = before \ {x}
  <2>1. e \in before
    OBVIOUS
  <2> HIDE DEF e, before, after
  <2>2. QED
    BY <1>2, <2>1
<1>4. QED
  BY <1>3 DEF Heap!HeapNext, Heap!Free

\* Steps that leave the held spans as they are.
LEMMA ElseStutters ==
    ASSUME held' = held, \A t \in held : pageId'[t] = pageId[t] /\ n'[t] = n[t]
    PROVE  {<<pageId'[t], n'[t]>> : t \in held'} = {<<pageId[t], n[t]>> : t \in held}
OBVIOUS

THEOREM Refinement ==
    ASSUME Isolated
    PROVE  Spec => ImplementsPageHeap
<1> DEFINE heap == {<<pageId[s], n[s]>> : s \in held}
<1>1. Init => Heap!HeapInit
  BY DEF Init, Heap!HeapInit
<1>2. ASSUME Inv, Inv', Next PROVE Heap!HeapNext \/ UNCHANGED heap
  <2>0. held \subseteq live /\ live \subseteq SpanId /\ pageId \in [SpanId -> Nat] /\ n \in [SpanId -> Nat]
    BY <1>2 DEF Inv, TypeOK
  <2>1. ASSUME NEW k \in LargeSizes, NewSpanLarge(k) PROVE Heap!HeapNext
    <3>1. PICK s \in SpanId \ live : held' = held \cup {s} /\ (\E b : pageId' = [pageId EXCEPT ![s] = b])
                                  /\ n' = [n EXCEPT ![s] = k]
      BY <2>1 DEF NewSpanLarge
    <3>2. QED
      BY <1>2, <2>0, <3>1, HandOutIsAlloc
  <2>2. ASSUME TakeExact PROVE Heap!HeapNext
    <3>1. PICK s \in spanList[want] : held' = held \cup {s} /\ pageId' = pageId /\ n' = n
      BY <2>2 DEF TakeExact
    <3>2. want \in 1 .. ChunkSize
      BY <1>2, <2>2, SizesAssumption DEF TakeExact, Inv, TypeOK, ChunkSize
    <3>3. s \in SpanId /\ s \notin held
      BY <1>2, <3>2, <2>0 DEF Inv, Buckets
    <3>4. QED
      BY <1>2, <3>1, <3>3, HandOutIsAlloc
  <2>3. ASSUME SplitLarger PROVE Heap!HeapNext
    <3>1. PICK i \in (want + 1) .. ChunkSize : \E larger \in spanList[i], s \in SpanId \ live :
             /\ pageId' = [pageId EXCEPT ![s] = pageId[larger], ![larger] = Remainder(larger, want).first]
             /\ n' = [n EXCEPT ![s] = want, ![larger] = Remainder(larger, want).n]
             /\ held' = held \cup {s}
      BY <2>3 DEF SplitLarger
    <3>2. PICK larger \in spanList[i], s \in SpanId \ live :
             /\ pageId' = [pageId EXCEPT ![s] = pageId[larger], ![larger] = Remainder(larger, want).first]
             /\ n' = [n EXCEPT ![s] = want, ![larger] = Remainder(larger, want).n]
             /\ held' = held \cup {s}
      BY <3>1
    <3>3. i \in 1 .. ChunkSize
      BY <1>2, SizesAssumption DEF Inv, TypeOK, ChunkSize
    <3>4. larger \notin held
      BY <1>2, <3>3 DEF Inv, Buckets
    <3>5. QED
      BY <1>2, <2>0, <3>2, <3>4, HandOutIsAlloc
  <2>4. ASSUME NEW s \in held, ReleaseLarge(s) \/ ReleaseSmall(s) PROVE Heap!HeapNext
    <3>1. held' = held \ {s} /\ \A t \in held' : pageId'[t] = pageId[t] /\ n'[t] = n[t]
      BY <2>0, <2>4 DEF ReleaseLarge, ReleaseSmall, spanVars
    <3>2. QED
      BY <1>2, <3>1, TakeBackIsFree
  <2>5. ASSUME GrowHeap PROVE UNCHANGED heap
    <3>1. held' = held /\ \A t \in held : pageId'[t] = pageId[t] /\ n'[t] = n[t]
      BY <2>0, <2>5 DEF GrowHeap
    <3>2. QED
      BY <3>1, ElseStutters
  <2>6. ASSUME MergeLeft \/ MergeRight PROVE UNCHANGED heap
    <3>1. cur # Null /\ pc \in {"left", "right"} /\ cur \notin held
      BY <1>2, <2>6, SizesAssumption DEF MergeLeft, MergeRight, Inv, TypeOK, Buckets
    <3>2. CASE MergeLeft
      <4>1. LeftNeighbour \notin held
        BY <1>2, <3>1, <3>2, NeighbourLemma DEF MergeLeft, LeftNeighbour
      <4>2. held' = held /\ \A t \in held : pageId'[t] = pageId[t] /\ n'[t] = n[t]
        BY <2>0, <3>1, <3>2, <4>1 DEF MergeLeft, Swallow
      <4>3. QED
        BY <4>2, ElseStutters
    <3>3. CASE MergeRight
      <4>1. RightNeighbour \notin held
        BY <1>2, <3>1, <3>3, NeighbourLemma DEF MergeRight, RightNeighbour
      <4>2. held' = held /\ \A t \in held : pageId'[t] = pageId[t] /\ n'[t] = n[t]
        BY <2>0, <3>1, <3>3, <4>1 DEF MergeRight, Swallow
      <4>3. QED
        BY <4>2, ElseStutters
    <3>4. QED
      BY <2>6, <3>2, <3>3
  <2>7. ASSUME \/ \E k \in 1 .. ChunkSize : NewSpan(k)
               \/ \E k \in LargeSizes : LargeThrows(k)
               \/ GrowThrows \/ LeftDone \/ FinishRelease \/ MutexHeldForever
        PROVE  UNCHANGED heap
    BY <2>7 DEF NewSpan, LargeThrows, GrowThrows, LeftDone, FinishRelease, MutexHeldForever, spanVars, vars
  <2>8. QED
    BY <1>2, <2>1, <2>2, <2>3, <2>4, <2>5, <2>6, <2>7 DEF Next, Continue
<1>3. UNCHANGED vars => UNCHANGED heap
  BY DEF vars
<1>4. Inv /\ Inv' /\ [Next]_vars => [Heap!HeapNext]_heap
  BY <1>2, <1>3
<1>5. QED
  BY <1>1, <1>4, Safety, PTL DEF Spec, ImplementsPageHeap, Heap!HeapSpec
=============================================================================
