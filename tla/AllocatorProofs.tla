-------------------------- MODULE AllocatorProofs ---------------------------
(***************************************************************************)
(* The allocator hands out blocks that do not overlap, and loses none of   *)
(* the objects it carves: for any number of threads, size classes, page    *)
(* runs, objects in a run and batch limits.                                *)
(***************************************************************************)
EXTENDS Allocator, FiniteSetTheorems, TLAPS

-----------------------------------------------------------------------------
(* The inductive invariant.                                                  *)

\* TypeOK, but for the two counters, which are never negative only because of
\* what they count.
Where == {"idle", "fetch", "scan", "newLock", "new", "carve", "relock", "take",
          "release", "giveBack", "retLock", "ret", "assert"}
Types ==
    /\ pc \in [Thread -> Where]
    /\ arg \in [Thread -> Class \cup {Big, None}]
    /\ batch \in [Thread -> 0 .. NumMove]
    /\ chain \in [Thread -> SUBSET Block]
    /\ span \in [Thread -> Slot \cup {None}]
    /\ tls \subseteq Thread
    /\ cache \in [Thread -> [Class -> SUBSET Block]]
    /\ maxSize \in [Thread -> [Class -> 1 .. NumMove + 1]]
    /\ bucketOwner \in [Class -> Thread \cup {None}]
    /\ pageOwner \in Thread \cup {None}
    /\ bucket \in [Class -> SUBSET Slot]
    /\ spanFree \in [Slot -> SUBSET Block]
    /\ useCount \in [Slot -> Int]
    /\ objSize \in [Slot -> Class \cup {Big, None}]
    /\ owned \subseteq Slot
    /\ live \subseteq Block
    /\ out \in Int
    /\ left \in [Thread -> Nat \cup {None}]
    /\ stranded \subseteq Block
    /\ ends \in 0 .. MaxEnds

\* Where a thread is, and what it has in its hands there.
Fetching == {"fetch", "scan", "carve", "relock", "take"}
Asking == {"newLock", "new"}
Making == {"carve", "relock", "take"}
Flushing == {"release", "giveBack"}
Returning == {"retLock", "ret"}

PhaseOK(t) ==
    /\ pc[t] \in Fetching \cup Flushing => arg[t] \in Class
    /\ pc[t] \in Asking \cup Returning => arg[t] \in Class \cup {Big}
    /\ pc[t] \in Fetching \cup Asking /\ arg[t] # Big =>
          /\ batch[t] >= 1 /\ batch[t] <= maxSize[t][arg[t]]
          /\ cache[t][arg[t]] = {}
    /\ span[t] # None <=> pc[t] \in Making \cup Returning
    /\ chain[t] # {} => pc[t] \in Flushing \cup Returning /\ arg[t] \in Class

Phases == \A t \in Thread : PhaseOK(t)

\* Lists are of one class each.
Of(c) == [slot : Slot, class : {c}, place : Place]
Classes ==
    /\ \A t \in Thread, c \in Class : cache[t][c] \subseteq Of(c)
    /\ \A t \in Thread : chain[t] \subseteq Of(arg[t])
    /\ \A o \in stranded : o.class \in Class
    /\ \A s \in Slot : spanFree[s] \subseteq Object(s, objSize[s])

\* An object is out of its span when one of these holds it.
Held(o) ==
    \/ o \in live
    \/ o \in stranded
    \/ \E t \in Thread : o \in chain[t]
    \/ \E t \in Thread, c \in Class : o \in cache[t][c]

\* What is out belongs to a span that is in use and in its bucket, which is of
\* the object's class, and does not have the object on its free list.
HeldOK ==
    \A o \in Block : Held(o) =>
        /\ o.slot \in owned
        /\ objSize[o.slot] = o.class
        /\ o.class \in Class => o.slot \in bucket[o.class]
        /\ o \notin spanFree[o.slot]

\* OnePlace, without the free lists.
Disjoint ==
    /\ \A t, u \in Thread, c, d \in Class : <<t, c>> # <<u, d>> => cache[t][c] \cap cache[u][d] = {}
    /\ \A t, u \in Thread, c \in Class : cache[t][c] \cap chain[u] = {}
    /\ \A t, u \in Thread : t # u => chain[t] \cap chain[u] = {}
    /\ \A t \in Thread, c \in Class : cache[t][c] \cap (live \cup stranded) = {}
    /\ \A t \in Thread : chain[t] \cap (live \cup stranded) = {}
    /\ live \cap stranded = {}

\* A span is with the page layer, in one bucket, in one thread's hands or a
\* large block.
Clean(s) == spanFree[s] = {} /\ useCount[s] = 0
InBucket(s, c) ==
    /\ s \in owned
    /\ objSize[s] = c
    /\ spanFree[s] \cup Outstanding(s) = Object(s, c)
    /\ IsFiniteSet(Outstanding(s))
    /\ useCount[s] = Cardinality(Outstanding(s))
    /\ useCount[s] > 0
InHand(s, t) ==
    /\ s \in owned
    /\ \A c \in Class : s \notin bucket[c]
    /\ BigBlock(s) \notin live
    /\ useCount[s] = 0
    /\ pc[t] \in Making => objSize[s] = arg[t]
    /\ spanFree[s] = IF pc[t] \in {"relock", "take"} THEN Object(s, arg[t]) ELSE {}

Slots ==
    /\ \A s \in Slot \ owned : Clean(s)
    /\ \A c \in Class : \A s \in bucket[c] : InBucket(s, c)
    /\ \A t \in Thread : span[t] # None => InHand(span[t], t)
    /\ \A s \in Slot : BigBlock(s) \in live => Clean(s)
    /\ \A t, u \in Thread : span[t] # None /\ span[t] = span[u] => t = u

Counts ==
    /\ IsFiniteSet(live) /\ out = Cardinality(live)
    /\ \A t \in Thread, c \in Class : IsFiniteSet(cache[t][c]) /\ Cardinality(cache[t][c]) < maxSize[t][c]

Inv == Types /\ Phases /\ Classes /\ HeldOK /\ Disjoint /\ Slots /\ Counts

-----------------------------------------------------------------------------
(* Blocks.                                                                   *)

LEMMA Names ==
    /\ Big \notin Class /\ None \notin Class /\ Big # None
    /\ None \notin Thread /\ None \notin Slot /\ None \notin Place /\ None \notin Nat
    /\ NumMove \in Nat /\ NumMove >= 2 /\ MaxEnds \in Nat
    /\ IsFiniteSet(Slot) /\ IsFiniteSet(Place) /\ Place # {}
BY ConstantsAssumption

LEMMA Blocks ==
    /\ \A s \in Slot : BigBlock(s) \in Block /\ BigBlock(s).slot = s /\ BigBlock(s).class = Big
    /\ \A s \in Slot, c \in Class : Object(s, c) \subseteq Block
    /\ \A s \in Slot, c \in Class : Object(s, c) # {}
    /\ \A c \in Class : Of(c) \subseteq Block
    /\ \A o \in Block : /\ o.slot \in Slot /\ o.class \in Class \cup {Big}
                        /\ o.class = Big => o = BigBlock(o.slot)
    /\ \A o \in Block, c \in Class : o \in Of(c) <=> o.class = c
    /\ \A o \in Block, s \in Slot, c \in Class : o \in Object(s, c) <=> o.slot = s /\ o.class = c
<1>1. \A s \in Slot : BigBlock(s) \in Block /\ BigBlock(s).slot = s /\ BigBlock(s).class = Big
  BY DEF BigBlock, Block
<1>2. \A s \in Slot, c \in Class : Object(s, c) \subseteq Block
  BY DEF Object, Block
<1>3. \A c \in Class : Of(c) \subseteq Block
  BY DEF Of, Block
<1>4. ASSUME NEW o \in Block
      PROVE  /\ o.slot \in Slot /\ o.class \in Class \cup {Big}
             /\ o.class = Big => o = BigBlock(o.slot)
             /\ \A c \in Class : o \in Of(c) <=> o.class = c
             /\ \A s \in Slot, c \in Class : o \in Object(s, c) <=> o.slot = s /\ o.class = c
  <2>1. CASE o \in [slot : Slot, class : Class, place : Place]
    BY <2>1, Names DEF Of, Object
  <2>2. CASE o \in {BigBlock(s) : s \in Slot}
    BY <2>2, Names DEF Of, Object, BigBlock
  <2> QED BY <2>1, <2>2 DEF Block
<1>5. ASSUME NEW s \in Slot, NEW c \in Class PROVE Object(s, c) # {}
  <2>1. PICK p \in Place : TRUE
    BY Names
  <2>2. [slot |-> s, class |-> c, place |-> p] \in Object(s, c)
    BY DEF Object
  <2> QED BY <2>2
<1> QED BY <1>1, <1>2, <1>3, <1>4, <1>5

\* A span has finitely many objects.
LEMMA FewObjects ==
    ASSUME NEW s, NEW c
    PROVE  IsFiniteSet(Object(s, c))
<1> DEFINE f == [p \in Place |-> [slot |-> s, class |-> c, place |-> p]]
<1>1. f \in [Place -> Object(s, c)]
  BY DEF Object
<1>2. \A o \in Object(s, c) : \E p \in Place : f[p] = o
  BY DEF Object
<1>3. f \in Surjection(Place, Object(s, c))
  BY <1>1, <1>2 DEF Surjection
<1> QED BY <1>3, Names, FS_Surjection

\* Outstanding, block by block.
LEMMA OutstandingIs ==
    Types => \A s \in Slot :
        /\ Outstanding(s) = {o \in Block : Held(o) /\ o.slot = s}
        /\ \A o : o \in Outstanding(s) <=> o \in Block /\ Held(o) /\ o.slot = s
<1> SUFFICES ASSUME Types, NEW s \in Slot
             PROVE  /\ Outstanding(s) = {o \in Block : Held(o) /\ o.slot = s}
                    /\ \A o : o \in Outstanding(s) <=> o \in Block /\ Held(o) /\ o.slot = s
  OBVIOUS
<1>1. /\ live \subseteq Block /\ stranded \subseteq Block
      /\ \A t \in Thread : chain[t] \subseteq Block
      /\ \A t \in Thread, c \in Class : cache[t][c] \subseteq Block
  BY DEF Types
<1>2. \A o : o \in Cached <=> \E t \in Thread, c \in Class : o \in cache[t][c]
  BY DEF Cached
<1>3. \A o : o \in GoingBack <=> \E t \in Thread : o \in chain[t]
  BY DEF GoingBack
<1>4. \A o : Held(o) <=> o \in live \cup Cached \cup GoingBack \cup stranded
  BY <1>2, <1>3 DEF Held
<1>5. \A o : Held(o) => o \in Block
  BY <1>1 DEF Held
<1> QED BY <1>4, <1>5 DEF Outstanding

LEMMA OutstandingNext ==
    Types' => (\A s \in Slot :
        /\ Outstanding(s) = {o \in Block : Held(o) /\ o.slot = s}
        /\ \A o : o \in Outstanding(s) <=> o \in Block /\ Held(o) /\ o.slot = s)'
BY OutstandingIs, PTL

LEMMA MinOfTwo ==
    ASSUME NEW a \in Int, NEW b \in Int
    PROVE  Min({a, b}) = IF a <= b THEN a ELSE b
<1> DEFINE m == IF a <= b THEN a ELSE b
<1>1. m \in {a, b} /\ \A y \in {a, b} : m =< y
  OBVIOUS
<1>2. \A x \in {a, b} : (\A y \in {a, b} : x =< y) => x = m
  OBVIOUS
<1> HIDE DEF m
<1>3. Min({a, b}) = m
  BY <1>1, <1>2 DEF Min
<1> QED BY <1>3 DEF m

\* The batch and the cap of the slow start (ThreadCache.cpp:26-35).
LEMMA SlowStart ==
    ASSUME Types, NEW t \in Thread, NEW c \in Class
    PROVE  /\ BatchFor(t, c) \in 1 .. NumMove /\ BatchFor(t, c) <= maxSize[t][c]
           /\ CapAfterMiss(t, c) \in 1 .. NumMove + 1
           /\ CapAfterMiss(t, c) >= maxSize[t][c]
<1>1. maxSize[t][c] \in 1 .. NumMove + 1
  BY DEF Types
<1>2. BatchFor(t, c) = IF NumMove <= maxSize[t][c] THEN NumMove ELSE maxSize[t][c]
  BY <1>1, Names, MinOfTwo DEF BatchFor
<1> QED BY <1>1, <1>2, Names DEF CapAfterMiss

-----------------------------------------------------------------------------
(* What the actions do to what is held.                                      *)

\* An object goes from a list to the caller, or back.
LEMMA HitEffect ==
    ASSUME Inv, NEW t \in Thread, NEW c \in Class, NEW o \in cache[t][c],
           cache' = [cache EXCEPT ![t][c] = @ \ {o}], HandOut(o),
           UNCHANGED <<chain, stranded>>
    PROVE  /\ o \in Of(c)
           /\ \A x : Held(x)' <=> Held(x)
           /\ Disjoint'
<1>1. /\ \A u \in Thread, d \in Class : cache'[u][d] = IF <<u, d>> = <<t, c>> THEN cache[t][c] \ {o} ELSE cache[u][d]
      /\ live' = live \cup {o} /\ chain' = chain /\ stranded' = stranded
  BY DEF Inv, Types, HandOut
<1>2. o \in Of(c)
  BY DEF Inv, Classes
<1>3. \A x : Held(x)' <=> Held(x)
  BY <1>1 DEF Held
<1>4. Disjoint'
  BY <1>1 DEF Inv, Disjoint
<1> QED BY <1>2, <1>3, <1>4

\* The block a caller gives back has the class its span has.
LEMMA LiveClass ==
    ASSUME Inv, NEW o \in live
    PROVE  /\ o \in Block /\ o.slot \in Slot /\ objSize[o.slot] = o.class
           /\ o.slot \in owned
           /\ o.class # Big => o.class \in Class /\ o \in Of(o.class)
<1>1. o \in Block /\ Held(o)
  BY DEF Inv, Types, Held
<1> QED BY <1>1, Blocks DEF Inv, HeldOK

LEMMA ToCacheEffect ==
    ASSUME Inv, NEW t \in Thread, NEW c \in Class, NEW o \in live,
           cache' = [cache EXCEPT ![t][c] = cache[t][c] \cup {o}], GiveIn(o),
           UNCHANGED <<chain, stranded>>
    PROVE  /\ \A x : Held(x)' <=> Held(x)
           /\ Disjoint'
<1>1. /\ \A u \in Thread, d \in Class : cache'[u][d] = IF <<u, d>> = <<t, c>> THEN cache[t][c] \cup {o} ELSE cache[u][d]
      /\ live' = live \ {o} /\ chain' = chain /\ stranded' = stranded
  BY DEF Inv, Types, GiveIn
<1>2. \A x : Held(x)' <=> Held(x)
  BY <1>1 DEF Held
<1>3. Disjoint'
  BY <1>1 DEF Inv, Disjoint
<1> QED BY <1>2, <1>3

LEMMA FlushEffect ==
    ASSUME Inv, NEW t \in Thread, NEW c \in Class, NEW o \in live,
           NEW flushed, flushed \subseteq cache[t][c] \cup {o}, chain[t] = {},
           chain' = [chain EXCEPT ![t] = flushed],
           cache' = [cache EXCEPT ![t][c] = (cache[t][c] \cup {o}) \ flushed],
           GiveIn(o), UNCHANGED stranded
    PROVE  /\ \A x : Held(x)' <=> Held(x)
           /\ Disjoint'
<1>1. /\ \A u \in Thread, d \in Class : cache'[u][d] = IF <<u, d>> = <<t, c>> THEN (cache[t][c] \cup {o}) \ flushed ELSE cache[u][d]
      /\ \A u \in Thread : chain'[u] = IF u = t THEN flushed ELSE chain[u]
      /\ live' = live \ {o} /\ stranded' = stranded
  BY DEF Inv, Types, GiveIn
<1>2. \A x : Held(x)' <=> Held(x)
  <2>1. \A x : Held(x)' => Held(x)
    BY <1>1 DEF Held
  <2>2. ASSUME NEW x, Held(x) PROVE Held(x)'
    <3>1. CASE x \in flushed
      BY <1>1, <3>1 DEF Held
    <3>2. CASE x \notin flushed /\ x \in cache[t][c] \cup {o}
      BY <1>1, <3>2 DEF Held
    <3>3. CASE x \notin cache[t][c] \cup {o}
      BY <1>1, <2>2, <3>3 DEF Held
    <3> QED BY <3>1, <3>2, <3>3
  <2> QED BY <2>1, <2>2
<1>3. Disjoint'
  <2>1. \A u, v \in Thread, d, e \in Class : <<u, d>> # <<v, e>> => cache'[u][d] \cap cache'[v][e] = {}
    BY <1>1 DEF Inv, Disjoint
  <2>2. \A u, v \in Thread, d \in Class : cache'[u][d] \cap chain'[v] = {}
    BY <1>1 DEF Inv, Disjoint
  <2>3. \A u, v \in Thread : u # v => chain'[u] \cap chain'[v] = {}
    BY <1>1 DEF Inv, Disjoint
  <2>4. \A u \in Thread, d \in Class : cache'[u][d] \cap (live' \cup stranded') = {}
    BY <1>1 DEF Inv, Disjoint
  <2>5. \A u \in Thread : chain'[u] \cap (live' \cup stranded') = {}
    BY <1>1 DEF Inv, Disjoint
  <2>6. live' \cap stranded' = {}
    BY <1>1 DEF Inv, Disjoint
  <2> QED BY <2>1, <2>2, <2>3, <2>4, <2>5, <2>6 DEF Disjoint
<1> QED BY <1>2, <1>3

LEMMA EndEffect ==
    ASSUME Inv, NEW t \in Thread, End(t)
    PROVE  /\ \A x : Held(x)' <=> Held(x)
           /\ Disjoint'
           /\ \A x : x \in stranded' <=> x \in stranded \/ \E c \in Class : x \in cache[t][c]
           /\ \A u \in Thread, d \in Class : cache'[u][d] = IF u = t THEN {} ELSE cache[u][d]
<1>1. /\ \A u \in Thread, d \in Class : cache'[u][d] = IF u = t THEN {} ELSE cache[u][d]
      /\ live' = live /\ chain' = chain
      /\ \A x : x \in stranded' <=> x \in stranded \/ \E c \in Class : x \in cache[t][c]
  BY DEF Inv, Types, End, calls, blocks
<1>2. \A x : Held(x)' <=> Held(x)
  BY <1>1 DEF Held
<1>3. Disjoint'
  BY <1>1 DEF Inv, Disjoint
<1> QED BY <1>1, <1>2, <1>3

\* FetchRangeObj: some of the span's free objects, at most as many as asked for.
Taking(t, s, c, taken, o) ==
    /\ taken \subseteq spanFree[s] /\ o \in taken
    /\ IsFiniteSet(taken) /\ Cardinality(taken) <= batch[t]
    /\ spanFree' = [spanFree EXCEPT ![s] = @ \ taken]
    /\ useCount' = [useCount EXCEPT ![s] = @ + Cardinality(taken)]
    /\ live' = live \cup {o} /\ out' = out + 1 /\ o \notin live
    /\ \A u \in Thread, d \in Class :
          cache'[u][d] = IF <<u, d>> = <<t, c>> THEN taken \ {o} ELSE cache[u][d]
    /\ cache' \in [Thread -> [Class -> SUBSET Block]]
    /\ \A x : Held(x)' <=> Held(x) \/ x \in taken
    /\ \A x \in taken : ~Held(x) /\ x \in Object(s, c) /\ x \in Block
    /\ Disjoint'

LEMMA TakeEffect ==
    ASSUME Inv, NEW t \in Thread, NEW s \in Slot, NEW c, c = arg[t], c \in Class,
           cache[t][c] = {}, objSize[s] = c, TakeFrom(t, s),
           UNCHANGED <<chain, stranded>>
    PROVE  \E taken, o : Taking(t, s, c, taken, o)
<1>1. PICK taken \in kSubset(Min({batch[t], Cardinality(spanFree[s])}), spanFree[s]) :
          /\ spanFree' = [spanFree EXCEPT ![s] = AfterTaking(@, taken)]
          /\ useCount' = [useCount EXCEPT ![s] = @ + Uses(t, taken)]
          /\ \E o \in taken :
                /\ HandOut(o)
                /\ cache' = [cache EXCEPT ![t][arg[t]] = @ \cup (taken \ {o})]
  BY DEF TakeFrom
<1>2. PICK o \in taken : HandOut(o) /\ cache' = [cache EXCEPT ![t][arg[t]] = @ \cup (taken \ {o})]
  BY <1>1
<1>3. spanFree[s] \subseteq Object(s, c) /\ spanFree[s] \subseteq Block
  BY DEF Inv, Classes, Types
<1>4. IsFiniteSet(spanFree[s]) /\ Cardinality(spanFree[s]) \in Nat
  BY <1>3, FewObjects, FS_Subset, FS_CardinalityType
<1>5. taken \subseteq spanFree[s] /\ IsFiniteSet(taken) /\ Cardinality(taken) <= batch[t]
  <2>1. taken \subseteq spanFree[s] /\ Cardinality(taken) = Min({batch[t], Cardinality(spanFree[s])})
    BY <1>1 DEF kSubset
  <2>2. batch[t] \in Int
    BY Names DEF Inv, Types
  <2> QED BY <1>4, <2>1, <2>2, MinOfTwo, FS_Subset
<1>6. /\ \A u \in Thread, d \in Class :
            cache'[u][d] = IF <<u, d>> = <<t, c>> THEN taken \ {o} ELSE cache[u][d]
      /\ cache' \in [Thread -> [Class -> SUBSET Block]]
      /\ live' = live \cup {o} /\ out' = out + 1 /\ chain' = chain /\ stranded' = stranded
  BY <1>2, <1>3, <1>5 DEF Inv, Types, HandOut
<1>7. \A x \in taken : ~Held(x) /\ x \in Object(s, c) /\ x \in Block
  <2>1. \A x \in taken : x \in Block /\ x \in Object(s, c) /\ x \in spanFree[x.slot]
    BY <1>3, <1>5 DEF Object
  <2> QED BY <2>1 DEF Inv, HeldOK
<1>8. \A x : Held(x)' <=> Held(x) \/ x \in taken
  <2>1. \A x : Held(x)' => Held(x) \/ x \in taken
    BY <1>2, <1>6 DEF Held
  <2>2. ASSUME NEW x \in taken PROVE Held(x)'
    <3>1. x \in live' \/ x \in cache'[t][c]
      BY <1>6
    <3> QED BY <3>1 DEF Held
  <2>3. ASSUME NEW x, Held(x) PROVE Held(x)'
    <3>1. \A u \in Thread, d \in Class : x \in cache[u][d] => x \in cache'[u][d]
      BY <1>6
    <3> QED BY <1>6, <2>3, <3>1 DEF Held
  <2> QED BY <2>1, <2>2, <2>3
<1>9. Disjoint'
  <2>1. \A x \in taken : /\ x \notin live /\ x \notin stranded
                         /\ \A u \in Thread : x \notin chain[u]
                         /\ \A u \in Thread, d \in Class : x \notin cache[u][d]
    BY <1>7 DEF Held
  <2>2. \A u, v \in Thread, d, e \in Class : <<u, d>> # <<v, e>> => cache'[u][d] \cap cache'[v][e] = {}
    BY <1>6, <2>1 DEF Inv, Disjoint
  <2>3. \A u, v \in Thread, d \in Class : cache'[u][d] \cap chain'[v] = {}
    BY <1>6, <2>1 DEF Inv, Disjoint
  <2>4. \A u, v \in Thread : u # v => chain'[u] \cap chain'[v] = {}
    BY <1>6 DEF Inv, Disjoint
  <2>5. \A u \in Thread, d \in Class : cache'[u][d] \cap (live' \cup stranded') = {}
    BY <1>2, <1>6, <2>1 DEF Inv, Disjoint
  <2>6. \A u \in Thread : chain'[u] \cap (live' \cup stranded') = {}
    <3>1. \A u \in Thread : chain[u] \cap (live \cup stranded) = {} /\ o \notin chain[u]
      BY <1>2, <2>1 DEF Inv, Disjoint
    <3>2. chain' = chain /\ live' = live \cup {o} /\ stranded' = stranded
      BY <1>6
    <3> QED BY <3>1, <3>2
  <2>7. live' \cap stranded' = {}
    BY <1>2, <1>6, <2>1 DEF Inv, Disjoint
  <2> QED BY <2>2, <2>3, <2>4, <2>5, <2>6, <2>7 DEF Disjoint
<1>10. o \notin live
  BY <1>7 DEF Held
<1> QED BY <1>1, <1>2, <1>5, <1>6, <1>7, <1>8, <1>9, <1>10 DEF AfterTaking, Uses, Taking

\* ReleaseListToSpans: an object leaves the chain for its span.
LEMMA GiveBackEffect ==
    ASSUME Inv, NEW t \in Thread, NEW o \in chain[t],
           chain' = [chain EXCEPT ![t] = @ \ {o}],
           UNCHANGED <<cache, live, stranded>>
    PROVE  /\ o \in Block /\ Held(o) /\ o.class \in Class /\ o.class = arg[t]
           /\ \A x : Held(x)' <=> Held(x) /\ x # o
           /\ Disjoint'
<1>1. \A u \in Thread : chain'[u] = IF u = t THEN chain[t] \ {o} ELSE chain[u]
  BY DEF Inv, Types
<1>2. o \in Block /\ Held(o) /\ o.class \in Class /\ o.class = arg[t]
  <2>1. o \in Block /\ o \in Of(arg[t]) /\ arg[t] \in Class
    BY DEF Inv, Types, Classes, Phases, PhaseOK
  <2> QED BY <2>1, Blocks DEF Held
<1>3. /\ o \notin live /\ o \notin stranded
      /\ \A u \in Thread : u # t => o \notin chain[u]
      /\ \A u \in Thread, d \in Class : o \notin cache[u][d]
  BY DEF Inv, Disjoint
<1>4. \A x : Held(x)' <=> Held(x) /\ x # o
  <2>1. \A x : Held(x)' => Held(x) /\ x # o
    BY <1>1, <1>3 DEF Held
  <2>2. \A x : Held(x) /\ x # o => Held(x)'
    BY <1>1 DEF Held
  <2> QED BY <2>1, <2>2
<1>5. Disjoint'
  BY <1>1 DEF Inv, Disjoint
<1> QED BY <1>2, <1>4, <1>5

-----------------------------------------------------------------------------
(* Types and phases.                                                         *)

\* The steps there are, one by one.
Step(t) ==
    \/ \E c \in Class : AllocHit(t, c) \/ AllocMiss(t, c)
    \/ AllocBig(t)
    \/ \E o \in live : FreeToCache(t, o) \/ FreeAndFlush(t, o) \/ FreeWithoutCache(t, o) \/ FreeBig(t, o)
    \/ LockPages(t) \/ FetchLock(t) \/ ScanHit(t) \/ ScanMiss(t)
    \/ \E s \in Slot : NewSpan(t, s) \/ NewBigSpan(t, s)
    \/ Carve(t) \/ Relock(t) \/ Take(t) \/ ReleaseLock(t) \/ ReleaseDone(t)
    \/ \E o \in chain[t] : GiveBack(t, o) \/ GiveBackLast(t, o)
    \/ ReturnSpan(t)

LEMMA Steps ==
    ASSUME [Next]_vars
    PROVE  \/ UNCHANGED vars
           \/ \E t \in Thread : End(t) \/ (Step(t) /\ UNCHANGED ended)
BY DEF Next, Begin, Continue, Step

\* The span a fetching thread takes from: one of its bucket, or its own.
LEMMA TakesFrom ==
    ASSUME Inv, NEW t \in Thread, ScanHit(t) \/ Take(t)
    PROVE  \E s \in Slot, c \in Class :
              /\ c = arg[t] /\ cache[t][c] = {} /\ objSize[s] = c /\ s \in owned
              /\ chain[t] = {}
              /\ TakeFrom(t, s) /\ UNCHANGED <<chain, owned, objSize, tls, maxSize, left>>
              /\ \/ s \in bucket[c] /\ ScanHit(t) /\ UNCHANGED <<bucket, span>>
                 \/ s = span[t] /\ s # None /\ Take(t)
<1>1. CASE ScanHit(t)
  <2>1. arg[t] \in Class /\ cache[t][arg[t]] = {} /\ chain[t] = {}
    BY <1>1, Names DEF Inv, Phases, PhaseOK, ScanHit, At, Fetching, Flushing, Returning, Asking
  <2>2. PICK s \in bucket[arg[t]] : TakeFrom(t, s)
    BY <1>1 DEF ScanHit
  <2>3. s \in Slot /\ objSize[s] = arg[t] /\ s \in owned
    BY <2>1, <2>2 DEF Inv, Types, Slots, InBucket
  <2> QED BY <1>1, <2>1, <2>2, <2>3 DEF ScanHit
<1>2. CASE Take(t)
  <2>1. /\ arg[t] \in Class /\ cache[t][arg[t]] = {} /\ span[t] # None /\ chain[t] = {}
        /\ pc[t] \in Making
    BY <1>2, Names DEF Inv, Phases, PhaseOK, Take, At, Fetching, Making, Flushing, Returning, Asking
  <2>2. span[t] \in Slot /\ objSize[span[t]] = arg[t] /\ span[t] \in owned
    BY <2>1, Names DEF Inv, Types, Slots, InHand
  <2> QED BY <1>2, <2>1, <2>2 DEF Take
<1> QED BY <1>1, <1>2

LEMMA EnterCounts ==
    ASSUME Types, NEW t \in Thread, Enter(t)
    PROVE  left' \in [Thread -> Nat \cup {None}]
<1>1. left[t] \in Nat \cup {None} /\ left[t] # 0
  BY DEF Types, Enter
<1>2. (IF left[t] = None THEN None ELSE left[t] - 1) \in Nat \cup {None}
  BY <1>1
<1>3. left' = [left EXCEPT ![t] = IF left[t] = None THEN None ELSE left[t] - 1]
  BY DEF Enter
<1> QED BY <1>2, <1>3 DEF Types

LEMMA Gotos ==
    ASSUME Types, NEW t \in Thread
    PROVE  /\ \A where \in Where : Goto(t, where) => pc' \in [Thread -> Where]
           /\ Return(t) => pc' \in [Thread -> Where] /\ arg' \in [Thread -> Class \cup {Big, None}]
BY DEF Types, Goto, Return, Where

LEMMA Locking ==
    ASSUME Types, NEW t \in Thread, LockBucket(t) \/ UnlockBucket(t)
    PROVE  bucketOwner' \in [Class -> Thread \cup {None}]
BY DEF Types, LockBucket, UnlockBucket

LEMMA TypesKeep == ASSUME Inv, [Next]_vars PROVE Types'
<1>1. CASE UNCHANGED vars
  BY <1>1 DEF Inv, Types, vars, calls, caches, locks, spans, blocks, ended
<1> SUFFICES ASSUME NEW t \in Thread, End(t) \/ (Step(t) /\ UNCHANGED ended) PROVE Types'
  BY <1>1, Steps
<1> USE Names
<1>0. \A where \in Where : Goto(t, where) => pc' \in [Thread -> Where]
  BY Gotos DEF Inv
<1>2. ASSUME NEW c \in Class, AllocHit(t, c), UNCHANGED ended PROVE Types'
  BY <1>2, EnterCounts DEF AllocHit, HandOut, Inv, Types, calls, locks, spans, ended
<1>3. ASSUME NEW c \in Class, AllocMiss(t, c), UNCHANGED ended PROVE Types'
  <2>1. BatchFor(t, c) \in 0 .. NumMove /\ CapAfterMiss(t, c) \in 1 .. NumMove + 1
    BY SlowStart DEF Inv
  <2> QED BY <1>3, <2>1, EnterCounts DEF AllocMiss, Goto, Where, Inv, Types, calls, locks, spans, blocks, ended
<1>4. CASE (AllocBig(t) \/ \E o \in live : FreeWithoutCache(t, o)) /\ UNCHANGED ended
  BY <1>4, EnterCounts DEF AllocBig, FreeWithoutCache, Goto, Where, Inv, Types, caches, locks, spans, blocks, ended
<1>5. ASSUME NEW o \in live, FreeToCache(t, o), UNCHANGED ended PROVE Types'
  <2>1. objSize[o.slot] \in Class /\ o \in Block
    BY <1>5, LiveClass DEF FreeToCache
  <2>2. PICK c \in Class : c = objSize[o.slot]
    BY <2>1
  <2>3. cache' = [cache EXCEPT ![t][c] = cache[t][c] \cup {o}]
    BY <1>5, <2>2 DEF FreeToCache
  <2>4. cache' \in [Thread -> [Class -> SUBSET Block]]
    BY <2>1, <2>3 DEF Inv, Types
  <2> QED BY <1>5, <2>4, EnterCounts DEF FreeToCache, GiveIn, Inv, Types, calls, locks, spans, ended
<1>6. ASSUME NEW o \in live, FreeAndFlush(t, o), UNCHANGED ended PROVE Types'
  <2>1. PICK flushed \in SUBSET (cache[t][objSize[o.slot]] \cup {o}) :
             /\ chain' = [chain EXCEPT ![t] = flushed]
             /\ cache' = [cache EXCEPT ![t][objSize[o.slot]] =
                             (cache[t][objSize[o.slot]] \cup {o}) \ flushed]
    BY <1>6 DEF FreeAndFlush, kSubset
  <2>2. /\ objSize[o.slot] \in Class
    BY <1>6, LiveClass DEF FreeAndFlush
  <2>3. flushed \subseteq Block /\ cache[t][objSize[o.slot]] \cup {o} \subseteq Block
    BY <2>1, <2>2, LiveClass DEF Inv, Types
  <2>4. chain' \in [Thread -> SUBSET Block] /\ cache' \in [Thread -> [Class -> SUBSET Block]]
    BY <2>1, <2>3 DEF Inv, Types
  <2> QED BY <1>6, <2>2, <2>4, EnterCounts DEF FreeAndFlush, GiveIn, Goto, Where, Inv, Types, locks, spans, ended
<1>7. ASSUME NEW o \in live, FreeBig(t, o), UNCHANGED ended PROVE Types'
  <2>1. o.slot \in Slot
    BY LiveClass
  <2> QED BY <1>7, <2>1, EnterCounts DEF FreeBig, GiveIn, Goto, Where, Inv, Types, caches, locks, spans, ended
<1>8. CASE LockPages(t) /\ UNCHANGED ended
  BY <1>8 DEF LockPages, Goto, Where, Inv, Types, caches, spans, blocks, ended
<1>9. CASE (FetchLock(t) \/ Relock(t) \/ ReleaseLock(t) \/ ScanMiss(t)) /\ UNCHANGED ended
  <2>1. LockBucket(t) \/ UnlockBucket(t)
    BY <1>9 DEF FetchLock, Relock, ReleaseLock, ScanMiss
  <2>2. \E where \in Where : Goto(t, where)
    BY <1>9 DEF FetchLock, Relock, ReleaseLock, ScanMiss, Where
  <2>3. UNCHANGED <<arg, batch, chain, span, caches, pageOwner, spans, owned, blocks, left, ended>>
    BY <1>9 DEF FetchLock, Relock, ReleaseLock, ScanMiss
  <2>4. Types
    BY DEF Inv
  <2> QED BY <1>0, <2>1, <2>2, <2>3, <2>4, Locking DEF Types, caches, spans, blocks, ended
<1>10. CASE (ScanHit(t) \/ Take(t)) /\ UNCHANGED ended
  <2>1. PICK s \in Slot, c \in Class :
           /\ c = arg[t] /\ cache[t][c] = {} /\ objSize[s] = c /\ s \in owned
           /\ TakeFrom(t, s) /\ UNCHANGED <<chain, owned, objSize, tls, maxSize, left>>
           /\ \/ s \in bucket[c] /\ ScanHit(t) /\ UNCHANGED <<bucket, span>>
              \/ s = span[t] /\ s # None /\ Take(t)
    BY <1>10, TakesFrom
  <2>2. PICK taken, o : Taking(t, s, c, taken, o)
    BY <1>10, <2>1, TakeEffect DEF ended
  <2>3. live' \subseteq Block /\ Cardinality(taken) \in Int
    BY <2>2, FS_CardinalityType DEF Inv, Types, Taking
  <2>4. /\ bucket' \in [Class -> SUBSET Slot] /\ span' \in [Thread -> Slot \cup {None}]
        /\ UNCHANGED pageOwner
    <3>1. CASE ScanHit(t)
      BY <2>1, <3>1 DEF Inv, Types, ScanHit, Take
    <3>2. CASE Take(t) /\ s = span[t]
      BY <3>2 DEF Inv, Types, Take
    <3> QED BY <2>1, <3>1, <3>2
  <2>5. /\ pc' \in [Thread -> Where]
        /\ arg' \in [Thread -> Class \cup {Big, None}]
        /\ batch' \in [Thread -> 0 .. NumMove]
        /\ bucketOwner' \in [Class -> Thread \cup {None}]
    BY <2>1 DEF TakeFrom, UnlockBucket, Return, Goto, Where, Inv, Types
  <2>6. useCount' \in [Slot -> Int] /\ spanFree' \in [Slot -> SUBSET Block] /\ out' \in Int
    BY <2>2, <2>3 DEF Taking, Inv, Types
  <2> QED BY <1>10, <2>1, <2>2, <2>3, <2>4, <2>5, <2>6 DEF Taking, Inv, Types, ended
<1>11. ASSUME NEW s \in Slot, NewSpan(t, s), UNCHANGED ended PROVE Types'
  BY <1>11 DEF NewSpan, UnlockPages, Goto, Where, Inv, Types, caches, blocks, ended
<1>12. ASSUME NEW s \in Slot, NewBigSpan(t, s), UNCHANGED ended PROVE Types'
  BY <1>12, Blocks DEF NewBigSpan, UnlockPages, HandOut, Return, Goto, Where, Inv, Types, caches, ended
<1>13. CASE Carve(t) /\ UNCHANGED ended
  <2>1. span[t] \in Slot /\ arg[t] \in Class
    BY <1>13 DEF Carve, At, Inv, Types, Phases, PhaseOK, Making, Fetching
  <2>2. Object(span[t], arg[t]) \subseteq Block
    BY <2>1, Blocks
  <2> QED BY <1>13, <2>2 DEF Carve, Goto, Where, Inv, Types, caches, locks, blocks, ended
<1>14. ASSUME NEW o \in chain[t], GiveBack(t, o), UNCHANGED ended PROVE Types'
  <2>1. o \in Block /\ o.slot \in Slot
    BY Blocks DEF Inv, Types
  <2> QED BY <1>14, <2>1 DEF GiveBack, Inv, Types, caches, locks, blocks, ended
<1>15. ASSUME NEW o \in chain[t], GiveBackLast(t, o), UNCHANGED ended PROVE Types'
  <2>1. o \in Block /\ o.slot \in Slot
    BY Blocks DEF Inv, Types
  <2>2. Types
    BY DEF Inv
  <2>3. pc' \in [Thread -> Where] /\ bucketOwner' \in [Class -> Thread \cup {None}]
    BY <1>0, <1>15, <2>2, Locking DEF GiveBackLast, Where
  <2>4. /\ chain' \in [Thread -> SUBSET Block] /\ bucket' \in [Class -> SUBSET Slot]
        /\ spanFree' \in [Slot -> SUBSET Block] /\ useCount' \in [Slot -> Int]
        /\ span' \in [Thread -> Slot \cup {None}]
    <3>1. /\ chain' = [chain EXCEPT ![t] = @ \ {o}]
          /\ useCount' = [useCount EXCEPT ![o.slot] = @ - 1]
          /\ bucket' = [bucket EXCEPT ![arg[t]] = @ \ {o.slot}]
          /\ spanFree' = [spanFree EXCEPT ![o.slot] = {}]
          /\ span' = [span EXCEPT ![t] = o.slot]
      BY <1>15 DEF GiveBackLast
    <3>2. chain' \in [Thread -> SUBSET Block]
      BY <2>2, <3>1 DEF Types
    <3>5. useCount' \in [Slot -> Int]
      BY <2>1, <2>2, <3>1 DEF Types
    <3>3. bucket' \in [Class -> SUBSET Slot] /\ spanFree' \in [Slot -> SUBSET Block]
      BY <2>2, <3>1 DEF Types
    <3>4. span' \in [Thread -> Slot \cup {None}]
      BY <2>1, <2>2, <3>1 DEF Types
    <3> QED BY <3>2, <3>3, <3>4, <3>5
  <2>5. UNCHANGED <<arg, batch, caches, pageOwner, objSize, owned, blocks, left, ended>>
    BY <1>15 DEF GiveBackLast
  <2> QED BY <2>2, <2>3, <2>4, <2>5 DEF Types, caches, blocks, ended
<1>16. CASE ReturnSpan(t) /\ UNCHANGED ended
  <2>1. Types
    BY DEF Inv
  <2>2. pc' \in [Thread -> Where] /\ arg' \in [Thread -> Class \cup {Big, None}]
    BY <1>0, <1>16, <2>1, Gotos DEF ReturnSpan, Types, Where
  <2> QED BY <1>16, <2>1, <2>2 DEF ReturnSpan, UnlockPages, Types, caches, spans, blocks, ended
<1>17. CASE ReleaseDone(t) /\ UNCHANGED ended
  <2>1. Types
    BY DEF Inv
  <2>2. /\ pc' \in [Thread -> Where] /\ arg' \in [Thread -> Class \cup {Big, None}]
        /\ bucketOwner' \in [Class -> Thread \cup {None}]
    BY <1>17, <2>1, Gotos, Locking DEF ReleaseDone
  <2> QED BY <1>17, <2>1, <2>2 DEF ReleaseDone, Types, caches, spans, blocks, ended
<1>18. CASE End(t)
  <2>1. UNION {cache[t][c] : c \in Class} \subseteq Block
    BY DEF Inv, Types
  <2> QED BY <1>18, <2>1 DEF End, Inv, Types, calls, locks, spans, blocks
<1> QED BY <1>2, <1>3, <1>4, <1>5, <1>6, <1>7, <1>8, <1>9, <1>10, <1>11, <1>12, <1>13, <1>14,
           <1>15, <1>16, <1>17, <1>18 DEF Step

\* A step of one thread leaves what another has in its hands.
Same(u) ==
    /\ pc'[u] = pc[u] /\ arg'[u] = arg[u] /\ batch'[u] = batch[u] /\ span'[u] = span[u]
    /\ chain'[u] = chain[u] /\ cache'[u] = cache[u] /\ maxSize'[u] = maxSize[u]

LEMMA OthersSame ==
    ASSUME Inv, NEW t \in Thread, End(t) \/ Step(t), NEW u \in Thread, u # t
    PROVE  Same(u)
<1> USE DEF Same
<1>0. /\ \A v : \A where : Goto(v, where) /\ v \in Thread => \A w \in Thread : w # v => pc'[w] = pc[w]
      /\ \A v : Return(v) /\ v \in Thread => \A w \in Thread : w # v => pc'[w] = pc[w] /\ arg'[w] = arg[w]
  BY DEF Goto, Return, Inv, Types
<1>1. ASSUME NEW c \in Class, AllocHit(t, c) \/ AllocMiss(t, c) PROVE Same(u)
  <2>1. CASE AllocHit(t, c)
    BY <2>1 DEF AllocHit, Inv, Types, calls
  <2>2. CASE AllocMiss(t, c)
    BY <1>0, <2>2 DEF AllocMiss, Inv, Types
  <2> QED BY <1>1, <2>1, <2>2
<1>2. CASE AllocBig(t)
  BY <1>0, <1>2 DEF AllocBig, Inv, Types, caches
<1>3. ASSUME NEW o \in live, FreeToCache(t, o) PROVE Same(u)
  BY <1>3 DEF FreeToCache, Inv, Types, calls
<1>4. ASSUME NEW o \in live, FreeAndFlush(t, o) PROVE Same(u)
  BY <1>0, <1>4 DEF FreeAndFlush, Inv, Types
<1>5. ASSUME NEW o \in live, FreeWithoutCache(t, o) PROVE Same(u)
  BY <1>0, <1>5 DEF FreeWithoutCache, caches
<1>6. ASSUME NEW o \in live, FreeBig(t, o) PROVE Same(u)
  BY <1>0, <1>6 DEF FreeBig, Inv, Types, caches
<1>7. CASE LockPages(t)
  BY <1>0, <1>7 DEF LockPages, caches
<1>8. CASE FetchLock(t) \/ ScanMiss(t) \/ Relock(t) \/ ReleaseLock(t)
  BY <1>0, <1>8 DEF FetchLock, ScanMiss, Relock, ReleaseLock, caches
<1>9. CASE ScanHit(t) \/ Take(t)
  <2>1. PICK s : TakeFrom(t, s)
    BY <1>9 DEF ScanHit, Take
  <2>2. pc'[u] = pc[u] /\ arg'[u] = arg[u] /\ batch'[u] = batch[u]
    BY <1>0, <2>1 DEF TakeFrom, Inv, Types
  <2>3. cache'[u] = cache[u]
    BY <2>1 DEF TakeFrom, Inv, Types
  <2>4. chain'[u] = chain[u] /\ span'[u] = span[u] /\ maxSize'[u] = maxSize[u]
    BY <1>9 DEF ScanHit, Take, Inv, Types
  <2> QED BY <2>2, <2>3, <2>4
<1>10. ASSUME NEW s \in Slot, NewSpan(t, s) PROVE Same(u)
  BY <1>0, <1>10 DEF NewSpan, Inv, Types, caches
<1>11. ASSUME NEW s \in Slot, NewBigSpan(t, s) PROVE Same(u)
  BY <1>0, <1>11 DEF NewBigSpan, caches
<1>12. CASE Carve(t)
  BY <1>0, <1>12 DEF Carve, caches
<1>13. CASE ReleaseDone(t)
  BY <1>0, <1>13 DEF ReleaseDone, caches
<1>14. ASSUME NEW o \in chain[t], GiveBack(t, o) PROVE Same(u)
  BY <1>14 DEF GiveBack, Inv, Types, caches
<1>15. ASSUME NEW o \in chain[t], GiveBackLast(t, o) PROVE Same(u)
  BY <1>0, <1>15 DEF GiveBackLast, Inv, Types, caches
<1>16. CASE ReturnSpan(t)
  BY <1>0, <1>16 DEF ReturnSpan, Inv, Types, caches
<1>17. CASE End(t)
  BY <1>17 DEF End, Inv, Types, calls
<1> QED BY <1>1, <1>2, <1>3, <1>4, <1>5, <1>6, <1>7, <1>8, <1>9, <1>10, <1>11, <1>12, <1>13, <1>14,
           <1>15, <1>16, <1>17 DEF Step

\* Where a step leads its own thread, and with what.
LEMMA OwnPhase ==
    ASSUME Inv, Types', NEW t \in Thread, End(t) \/ Step(t)
    PROVE  PhaseOK(t)'
<1> USE Names DEF PhaseOK, Fetching, Asking, Making, Flushing, Returning
<1>0. /\ Types /\ PhaseOK(t)
      /\ \A where : Goto(t, where) => pc'[t] = where
      /\ Return(t) => pc'[t] = "idle" /\ arg'[t] = None
  BY DEF Goto, Return, Inv, Types, Phases
<1>1. ASSUME NEW c \in Class, AllocHit(t, c) \/ AllocMiss(t, c) PROVE PhaseOK(t)'
  <2>1. CASE AllocHit(t, c)
    BY <1>0, <2>1 DEF AllocHit, Enter, At, calls
  <2>2. CASE AllocMiss(t, c)
    <3>1. /\ pc[t] = "idle" /\ pc'[t] = "fetch" /\ arg'[t] = c /\ batch'[t] = BatchFor(t, c)
          /\ maxSize'[t][c] = CapAfterMiss(t, c)
          /\ cache'[t][c] = {} /\ span'[t] = span[t] /\ chain'[t] = chain[t]
      BY <1>0, <2>2 DEF AllocMiss, Enter, At, Types
    <3>2. batch'[t] >= 1 /\ batch'[t] <= maxSize'[t][c]
      BY <1>0, <3>1, SlowStart DEF Types
    <3> QED BY <1>0, <3>1, <3>2
  <2> QED BY <1>1, <2>1, <2>2
<1>2. CASE AllocBig(t)
  <2>1. /\ pc[t] = "idle" /\ pc'[t] = "newLock" /\ arg'[t] = Big
        /\ span'[t] = span[t] /\ chain'[t] = chain[t]
    BY <1>0, <1>2 DEF AllocBig, Enter, At, Types
  <2> QED BY <1>0, <2>1
<1>3. ASSUME NEW o \in live, FreeToCache(t, o) PROVE PhaseOK(t)'
  <2>1. pc[t] = "idle" /\ pc'[t] = "idle" /\ span'[t] = span[t] /\ chain'[t] = chain[t]
    BY <1>3 DEF FreeToCache, Enter, At, calls
  <2> QED BY <1>0, <2>1
<1>4. ASSUME NEW o \in live, FreeAndFlush(t, o) PROVE PhaseOK(t)'
  <2>1. /\ pc[t] = "idle" /\ pc'[t] = "release" /\ arg'[t] = objSize[o.slot]
        /\ span'[t] = span[t]
    BY <1>0, <1>4 DEF FreeAndFlush, Enter, At, Types
  <2>2. objSize[o.slot] \in Class
    BY <1>4, LiveClass DEF FreeAndFlush
  <2> QED BY <1>0, <2>1, <2>2
<1>5. ASSUME NEW o \in live, FreeWithoutCache(t, o) PROVE PhaseOK(t)'
  <2>1. pc[t] = "idle" /\ pc'[t] = "assert" /\ span'[t] = span[t] /\ chain'[t] = chain[t]
    BY <1>0, <1>5 DEF FreeWithoutCache, Enter, At
  <2> QED BY <1>0, <2>1
<1>6. ASSUME NEW o \in live, FreeBig(t, o) PROVE PhaseOK(t)'
  <2>1. /\ pc[t] = "idle" /\ pc'[t] = "retLock" /\ arg'[t] = Big
        /\ span'[t] = o.slot /\ chain'[t] = chain[t]
    BY <1>0, <1>6 DEF FreeBig, Enter, At, Types
  <2>2. o.slot \in Slot
    BY LiveClass
  <2> QED BY <1>0, <2>1, <2>2
<1>7. CASE LockPages(t)
  <2>1. /\ UNCHANGED <<arg, batch, chain, span, cache, maxSize>>
        /\ \/ pc[t] = "newLock" /\ pc'[t] = "new"
           \/ pc[t] = "retLock" /\ pc'[t] = "ret"
    BY <1>0, <1>7 DEF LockPages, At, caches
  <2> QED BY <1>0, <2>1
<1>8. CASE FetchLock(t) \/ ScanMiss(t) \/ Relock(t) \/ ReleaseLock(t)
  <2>1. /\ UNCHANGED <<arg, batch, chain, span, cache, maxSize>>
        /\ \/ pc[t] = "fetch" /\ pc'[t] = "scan"
           \/ pc[t] = "scan" /\ pc'[t] = "newLock"
           \/ pc[t] = "relock" /\ pc'[t] = "take"
           \/ pc[t] = "release" /\ pc'[t] = "giveBack"
    BY <1>0, <1>8 DEF FetchLock, ScanMiss, Relock, ReleaseLock, At, caches
  <2> QED BY <1>0, <2>1
<1>9. CASE ScanHit(t) \/ Take(t)
  <2>1. pc'[t] = "idle"
    BY <1>0, <1>9 DEF ScanHit, Take, TakeFrom
  <2>2. span'[t] = None /\ chain'[t] = {}
    <3>1. CASE ScanHit(t)
      BY <1>0, <3>1 DEF ScanHit, At
    <3>2. CASE Take(t)
      BY <1>0, <3>2 DEF Take, At, Types
    <3> QED BY <1>9, <3>1, <3>2
  <2> QED BY <2>1, <2>2
<1>10. ASSUME NEW s \in Slot, NewSpan(t, s) PROVE PhaseOK(t)'
  <2>1. /\ UNCHANGED <<arg, batch, chain, cache, maxSize>>
        /\ pc[t] = "new" /\ pc'[t] = "carve" /\ arg[t] # Big /\ span'[t] = s
    BY <1>0, <1>10 DEF NewSpan, At, Types, caches
  <2> QED BY <1>0, <2>1
<1>11. ASSUME NEW s \in Slot, NewBigSpan(t, s) PROVE PhaseOK(t)'
  <2>1. /\ pc[t] = "new" /\ pc'[t] = "idle" /\ span'[t] = span[t] /\ chain'[t] = chain[t]
    BY <1>0, <1>11 DEF NewBigSpan, At
  <2> QED BY <1>0, <2>1
<1>12. CASE Carve(t)
  <2>1. /\ UNCHANGED <<arg, batch, chain, span, cache, maxSize>>
        /\ pc[t] = "carve" /\ pc'[t] = "relock"
    BY <1>0, <1>12 DEF Carve, At, caches
  <2> QED BY <1>0, <2>1
<1>13. CASE ReleaseDone(t)
  <2>1. /\ pc[t] = "giveBack" /\ pc'[t] = "idle" /\ span'[t] = span[t] /\ chain'[t] = {}
    BY <1>0, <1>13 DEF ReleaseDone, At
  <2> QED BY <1>0, <2>1
<1>14. ASSUME NEW o \in chain[t], GiveBack(t, o) PROVE PhaseOK(t)'
  <2>1. UNCHANGED <<pc, arg, span, cache, maxSize, batch>> /\ pc[t] = "giveBack"
    BY <1>14 DEF GiveBack, At, caches
  <2> QED BY <1>0, <2>1
<1>15. ASSUME NEW o \in chain[t], GiveBackLast(t, o) PROVE PhaseOK(t)'
  <2>1. /\ UNCHANGED <<arg>> /\ pc[t] = "giveBack" /\ pc'[t] = "retLock" /\ span'[t] = o.slot
    BY <1>0, <1>15 DEF GiveBackLast, At, Types
  <2>2. o.slot \in Slot
    BY <1>0, Blocks DEF Types
  <2> QED BY <1>0, <2>1, <2>2
<1>16. CASE ReturnSpan(t)
  <2>1. /\ pc[t] = "ret" /\ span'[t] = None /\ chain'[t] = chain[t]
    BY <1>0, <1>16 DEF ReturnSpan, At, Types
  <2>2. CASE arg[t] # Big /\ Goto(t, "release") /\ UNCHANGED arg
    BY <1>0, <2>1, <2>2
  <2>3. CASE arg[t] = Big /\ Return(t)
    BY <1>0, <2>1, <2>3
  <2> QED BY <1>16, <2>2, <2>3 DEF ReturnSpan
<1>17. CASE End(t)
  <2>1. pc[t] = "idle" /\ UNCHANGED <<pc, arg, batch, chain, span>>
    BY <1>17 DEF End, At, calls
  <2> QED BY <1>0, <2>1
<1> QED BY <1>1, <1>2, <1>3, <1>4, <1>5, <1>6, <1>7, <1>8, <1>9, <1>10, <1>11, <1>12, <1>13, <1>14,
           <1>15, <1>16, <1>17 DEF Step

LEMMA PhasesKeep == ASSUME Inv, [Next]_vars PROVE Phases'
<1>1. CASE UNCHANGED vars
  BY <1>1 DEF Inv, Phases, PhaseOK, vars, calls, caches
<1>2. ASSUME NEW t \in Thread, End(t) \/ Step(t), NEW u \in Thread PROVE PhaseOK(u)'
  <2>1. CASE u = t
    BY <1>2, <2>1, OwnPhase, TypesKeep
  <2>2. CASE u # t
    <3>1. Same(u) /\ PhaseOK(u)
      BY <1>2, <2>2, OthersSame DEF Inv, Phases
    <3> QED BY <3>1 DEF Same, PhaseOK
  <2> QED BY <2>1, <2>2
<1> QED BY <1>1, <1>2, Steps DEF Phases

-----------------------------------------------------------------------------
(* Lists are of one class, and no object is in two of them.                  *)

LEMMA OwnLists ==
    ASSUME Inv, Phases', Types', NEW t \in Thread, End(t) \/ Step(t)
    PROVE  (\A c \in Class : cache'[t][c] \subseteq Of(c)) /\ chain'[t] \subseteq Of(arg'[t])
<1>0. /\ Types /\ PhaseOK(t) /\ PhaseOK(t)'
      /\ \A c \in Class : cache[t][c] \subseteq Of(c)
      /\ chain[t] \subseteq Of(arg[t])
  BY DEF Inv, Phases, Classes
<1>i. pc[t] = "idle" => chain[t] = {}
  BY <1>0 DEF PhaseOK, Flushing, Returning
<1>1. ASSUME NEW c \in Class, AllocHit(t, c) \/ AllocMiss(t, c)
      PROVE  (\A d \in Class : cache'[t][d] \subseteq Of(d)) /\ chain'[t] = {}
  <2>1. CASE AllocHit(t, c)
    BY <1>0, <1>i, <2>1 DEF AllocHit, Enter, At, Types, calls
  <2>2. CASE AllocMiss(t, c)
    BY <1>0, <1>i, <2>2 DEF AllocMiss, Enter, At
  <2> QED BY <1>1, <2>1, <2>2
<1>2. CASE AllocBig(t) \/ \E o \in live : FreeWithoutCache(t, o)
  BY <1>0, <1>i, <1>2 DEF AllocBig, FreeWithoutCache, Enter, At, caches
<1>3. ASSUME NEW o \in live, FreeToCache(t, o)
      PROVE  (\A d \in Class : cache'[t][d] \subseteq Of(d)) /\ chain'[t] = {}
  <2>1. PICK c \in Class : c = objSize[o.slot] /\ o \in Of(c)
    BY <1>3, LiveClass DEF FreeToCache
  <2>2. cache' = [cache EXCEPT ![t][c] = cache[t][c] \cup {o}]
    BY <1>3, <2>1 DEF FreeToCache
  <2>3. \A d \in Class : cache'[t][d] \subseteq Of(d)
    BY <1>0, <2>1, <2>2 DEF Types
  <2> QED BY <1>3, <1>i, <2>3 DEF FreeToCache, Enter, At, calls
<1>4. ASSUME NEW o \in live, FreeAndFlush(t, o)
      PROVE  (\A d \in Class : cache'[t][d] \subseteq Of(d)) /\ chain'[t] \subseteq Of(arg'[t])
  <2>1. PICK c \in Class : c = objSize[o.slot] /\ o \in Of(c)
    BY <1>4, LiveClass DEF FreeAndFlush
  <2>2. PICK flushed \in SUBSET (cache[t][c] \cup {o}) :
             /\ chain' = [chain EXCEPT ![t] = flushed]
             /\ cache' = [cache EXCEPT ![t][c] = (cache[t][c] \cup {o}) \ flushed]
    BY <1>4, <2>1 DEF FreeAndFlush, kSubset
  <2>3. arg'[t] = c
    BY <1>0, <1>4, <2>1 DEF FreeAndFlush, Types
  <2> QED BY <1>0, <2>1, <2>2, <2>3 DEF Types
<1>5. ASSUME NEW o \in live, FreeBig(t, o)
      PROVE  (\A d \in Class : cache'[t][d] \subseteq Of(d)) /\ chain'[t] = {}
  BY <1>0, <1>i, <1>5 DEF FreeBig, Enter, At, caches
<1>6. CASE LockPages(t) \/ FetchLock(t) \/ ScanMiss(t) \/ Relock(t) \/ ReleaseLock(t) \/ Carve(t)
  BY <1>0, <1>6 DEF LockPages, FetchLock, ScanMiss, Relock, ReleaseLock, Carve, caches
<1>7. CASE ScanHit(t) \/ Take(t)
  <2>1. PICK s \in Slot, c \in Class :
           /\ c = arg[t] /\ cache[t][c] = {} /\ objSize[s] = c /\ chain[t] = {}
           /\ TakeFrom(t, s) /\ UNCHANGED chain
    BY <1>7, TakesFrom
  <2>2. PICK taken \in kSubset(Min({batch[t], Cardinality(spanFree[s])}), spanFree[s]) :
          \E o : cache' = [cache EXCEPT ![t][c] = @ \cup (taken \ {o})]
    BY <2>1 DEF TakeFrom
  <2>3. taken \subseteq spanFree[s] /\ spanFree[s] \subseteq Object(s, c)
    BY <2>1, <2>2 DEF kSubset, Inv, Classes
  <2>4. Object(s, c) \subseteq Of(c)
    BY DEF Object, Of
  <2>5. \A d \in Class : cache'[t][d] \subseteq Of(d)
    BY <1>0, <2>2, <2>3, <2>4 DEF Types
  <2> QED BY <2>1, <2>5
<1>8. ASSUME NEW s \in Slot, NewSpan(t, s)
      PROVE  (\A d \in Class : cache'[t][d] \subseteq Of(d)) /\ chain'[t] \subseteq Of(arg'[t])
  BY <1>0, <1>8 DEF NewSpan, caches
<1>9. ASSUME NEW s \in Slot, NewBigSpan(t, s)
      PROVE  (\A d \in Class : cache'[t][d] \subseteq Of(d)) /\ chain'[t] = {}
  <2>1. chain[t] = {}
    BY <1>0, <1>9 DEF NewBigSpan, At, PhaseOK, Flushing, Returning
  <2> QED BY <1>0, <1>9, <2>1 DEF NewBigSpan, caches
<1>10. CASE ReleaseDone(t)
  BY <1>0, <1>10 DEF ReleaseDone, caches
<1>11. ASSUME NEW o \in chain[t], GiveBack(t, o) \/ GiveBackLast(t, o)
       PROVE  (\A d \in Class : cache'[t][d] \subseteq Of(d)) /\ chain'[t] \subseteq Of(arg'[t])
  BY <1>0, <1>11 DEF GiveBack, GiveBackLast, caches, Types
<1>12. CASE ReturnSpan(t)
  <2>1. arg[t] = Big => chain[t] = {}
    BY <1>0, Names DEF PhaseOK
  <2> QED BY <1>0, <1>12, <2>1 DEF ReturnSpan, caches
<1>13. CASE End(t)
  BY <1>0, <1>13 DEF End, calls, Types
<1> QED BY <1>1, <1>2, <1>3, <1>4, <1>5, <1>6, <1>7, <1>8, <1>9, <1>10, <1>11, <1>12, <1>13 DEF Step

\* Free lists hold objects of their span, of its class.
LEMMA FreeListsKeep ==
    ASSUME Inv, NEW t \in Thread, End(t) \/ (Step(t) /\ UNCHANGED ended), NEW s \in Slot
    PROVE  spanFree'[s] \subseteq Object(s, objSize'[s])
<1>0. Types /\ Slots /\ spanFree[s] \subseteq Object(s, objSize[s])
  BY DEF Inv, Classes
<1>1. CASE UNCHANGED <<spanFree, objSize>>
  BY <1>0, <1>1
<1>2. CASE ScanHit(t) \/ Take(t)
  <2>1. PICK x \in Slot, c \in Class :
           /\ c = arg[t] /\ cache[t][c] = {} /\ objSize[x] = c
           /\ TakeFrom(t, x) /\ UNCHANGED objSize
    BY <1>2, TakesFrom
  <2>2. \E taken : spanFree' = [spanFree EXCEPT ![x] = @ \ taken]
    BY <2>1 DEF TakeFrom, AfterTaking
  <2> QED BY <1>0, <2>1, <2>2 DEF Types
<1>3. ASSUME NEW x \in Slot, NewSpan(t, x) \/ NewBigSpan(t, x)
      PROVE  spanFree'[s] \subseteq Object(s, objSize'[s])
  <2>1. x \notin owned /\ spanFree' = spanFree /\ (s # x => objSize'[s] = objSize[s])
    BY <1>0, <1>3 DEF NewSpan, NewBigSpan, Types
  <2>2. spanFree[x] = {}
    BY <1>0, <2>1 DEF Slots, Clean
  <2> QED BY <1>0, <2>1, <2>2
<1>4. CASE Carve(t)
  <2>1. span[t] # None /\ objSize[span[t]] = arg[t]
    BY <1>0, <1>4 DEF Carve, At, Inv, Phases, PhaseOK, Making, Slots, InHand
  <2> QED BY <1>0, <1>4, <2>1 DEF Carve, Types
<1>5. ASSUME NEW o \in chain[t], GiveBack(t, o) \/ GiveBackLast(t, o)
      PROVE  spanFree'[s] \subseteq Object(s, objSize'[s])
  <2>1. o \in Block /\ Held(o) /\ o.class \in Class
    BY DEF Inv, Types, Held, Classes, Phases, PhaseOK, Of
  <2>2. objSize[o.slot] = o.class /\ o.slot \in Slot /\ o \in Object(o.slot, o.class)
    BY <2>1, Blocks DEF Inv, HeldOK
  <2>3. objSize' = objSize /\ spanFree \in [Slot -> SUBSET Block]
    BY <1>0, <1>5 DEF GiveBack, GiveBackLast, Types
  <2>4. CASE GiveBack(t, o)
    <3>1. spanFree' = [spanFree EXCEPT ![o.slot] = @ \cup {o}]
      BY <2>4 DEF GiveBack
    <3> QED BY <1>0, <2>2, <2>3, <3>1
  <2>5. CASE GiveBackLast(t, o)
    <3>1. spanFree' = [spanFree EXCEPT ![o.slot] = {}]
      BY <2>5 DEF GiveBackLast
    <3> QED BY <1>0, <2>2, <2>3, <3>1
  <2> QED BY <1>5, <2>4, <2>5
<1> QED BY <1>1, <1>2, <1>3, <1>4, <1>5
        DEF Step, AllocHit, AllocMiss, AllocBig, FreeToCache, FreeAndFlush, FreeWithoutCache, FreeBig,
            LockPages, FetchLock, ScanMiss, Relock, ReleaseLock, ReleaseDone, ReturnSpan, End, spans

LEMMA ClassesKeep == ASSUME Inv, [Next]_vars PROVE Classes'
<1>1. CASE UNCHANGED vars
  BY <1>1 DEF Inv, Classes, vars, calls, caches, spans, ended
<1>2. ASSUME NEW t \in Thread, End(t) \/ (Step(t) /\ UNCHANGED ended) PROVE Classes'
  <2>1. ASSUME NEW u \in Thread
        PROVE  (\A c \in Class : cache'[u][c] \subseteq Of(c)) /\ chain'[u] \subseteq Of(arg'[u])
    <3>1. CASE u = t
      BY <1>2, <3>1, OwnLists, TypesKeep, PhasesKeep
    <3>2. CASE u # t
      BY <1>2, <3>2, OthersSame DEF Same, Inv, Classes
    <3> QED BY <3>1, <3>2
  <2>2. \A o \in stranded' : o.class \in Class
    <3>1. CASE End(t)
      <4>1. \A x \in stranded' : x \in stranded \/ \E c \in Class : x \in cache[t][c]
        BY <3>1, EndEffect
      <4>2. \A c \in Class : \A x \in cache[t][c] : x.class \in Class
        BY DEF Inv, Classes, Of
      <4> QED BY <4>1, <4>2 DEF Inv, Classes
    <3>2. CASE UNCHANGED ended
      BY <3>2 DEF ended, Inv, Classes
    <3> QED BY <1>2, <3>1, <3>2
  <2>3. \A s \in Slot : spanFree'[s] \subseteq Object(s, objSize'[s])
    BY <1>2, FreeListsKeep
  <2> QED BY <2>1, <2>2, <2>3 DEF Classes, Object
<1> QED BY <1>1, <1>2, Steps

-----------------------------------------------------------------------------
(* Spans and what is held of them.                                           *)

\* The steps that move objects from one holder to another, or none.
Moves(t) ==
    \/ \E c \in Class : AllocHit(t, c) \/ AllocMiss(t, c)
    \/ AllocBig(t)
    \/ \E o \in live : FreeToCache(t, o) \/ FreeAndFlush(t, o) \/ FreeWithoutCache(t, o)
    \/ LockPages(t) \/ FetchLock(t) \/ ScanMiss(t) \/ Relock(t) \/ ReleaseLock(t) \/ ReleaseDone(t)

LEMMA MovesKeepHeld ==
    ASSUME Inv, NEW t \in Thread, End(t) \/ (Moves(t) /\ UNCHANGED ended)
    PROVE  /\ \A x : Held(x)' <=> Held(x)
           /\ Disjoint'
           /\ \A s \in Slot : BigBlock(s) \in live' => BigBlock(s) \in live
           /\ UNCHANGED <<spans, owned>>
<1>1. CASE UNCHANGED <<live, stranded, chain, cache>>
  <2>1. (\A x : Held(x)' <=> Held(x)) /\ Disjoint'
    BY <1>1 DEF Inv, Held, Disjoint
  <2>2. UNCHANGED <<spans, owned>>
    BY DEF Moves, AllocHit, AllocMiss, AllocBig, FreeToCache, FreeAndFlush, FreeWithoutCache,
           LockPages, FetchLock, ScanMiss, Relock, ReleaseLock, ReleaseDone, End
  <2> QED BY <1>1, <2>1, <2>2
<1>2. ASSUME NEW c \in Class, AllocHit(t, c), UNCHANGED ended
      PROVE  /\ \A x : Held(x)' <=> Held(x)
             /\ Disjoint'
             /\ \A s \in Slot : BigBlock(s) \in live' => BigBlock(s) \in live
             /\ UNCHANGED <<spans, owned>>
  <2>1. PICK o \in cache[t][c] : cache' = [cache EXCEPT ![t][c] = @ \ {o}] /\ HandOut(o)
    BY <1>2 DEF AllocHit
  <2>2. UNCHANGED <<chain, stranded, spans, owned>>
    BY <1>2 DEF AllocHit, calls, ended
  <2>3. o.class = c
    BY DEF Inv, Classes, Of
  <2>4. (\A x : Held(x)' <=> Held(x)) /\ Disjoint'
    BY <2>1, <2>2, HitEffect
  <2>5. live' = live \cup {o} /\ \A s \in Slot : BigBlock(s) # o
    BY <2>1, <2>3, Blocks, Names DEF HandOut
  <2> QED BY <2>2, <2>4, <2>5
<1>3. ASSUME NEW o \in live, FreeToCache(t, o), UNCHANGED ended
      PROVE  /\ \A x : Held(x)' <=> Held(x)
             /\ Disjoint'
             /\ \A s \in Slot : BigBlock(s) \in live' => BigBlock(s) \in live
             /\ UNCHANGED <<spans, owned>>
  <2>1. PICK c \in Class : c = objSize[o.slot] /\ o \in Of(c)
    BY <1>3, LiveClass DEF FreeToCache
  <2>2. cache' = [cache EXCEPT ![t][c] = cache[t][c] \cup {o}] /\ GiveIn(o)
    BY <1>3, <2>1 DEF FreeToCache
  <2>3. UNCHANGED <<chain, stranded, spans, owned>>
    BY <1>3 DEF FreeToCache, calls, ended
  <2> QED BY <2>1, <2>2, <2>3, ToCacheEffect DEF GiveIn
<1>4. ASSUME NEW o \in live, FreeAndFlush(t, o), UNCHANGED ended
      PROVE  /\ \A x : Held(x)' <=> Held(x)
             /\ Disjoint'
             /\ \A s \in Slot : BigBlock(s) \in live' => BigBlock(s) \in live
             /\ UNCHANGED <<spans, owned>>
  <2>1. PICK c \in Class : c = objSize[o.slot] /\ o \in Of(c)
    BY <1>4, LiveClass DEF FreeAndFlush
  <2>2. PICK flushed \in SUBSET (cache[t][c] \cup {o}) :
             /\ chain' = [chain EXCEPT ![t] = flushed]
             /\ cache' = [cache EXCEPT ![t][c] = (cache[t][c] \cup {o}) \ flushed]
    BY <1>4, <2>1 DEF FreeAndFlush, kSubset
  <2>3. UNCHANGED <<stranded, spans, owned>> /\ GiveIn(o) /\ pc[t] = "idle"
    BY <1>4 DEF FreeAndFlush, Enter, At, ended
  <2>4. chain[t] = {}
    BY <2>3 DEF Inv, Phases, PhaseOK, Flushing, Returning
  <2> QED BY <2>1, <2>2, <2>3, <2>4, FlushEffect DEF GiveIn
<1>5. CASE End(t)
  BY <1>5, EndEffect DEF End, blocks
<1> QED BY <1>1, <1>2, <1>3, <1>4, <1>5
        DEF Moves, AllocMiss, AllocBig, FreeWithoutCache, LockPages, FetchLock, ScanMiss, Relock,
            ReleaseLock, ReleaseDone, ended, blocks, caches

\* Then the books stay right.
LEMMA BooksKeep ==
    ASSUME Inv, Types', UNCHANGED <<spans, owned>>, \A x : Held(x)' <=> Held(x),
           \A s \in Slot : BigBlock(s) \in live' => BigBlock(s) \in live,
           \A u \in Thread : span'[u] # None =>
              /\ span'[u] = span[u] /\ arg'[u] = arg[u]
              /\ pc'[u] \in Making <=> pc[u] \in Making
              /\ pc'[u] \in {"relock", "take"} <=> pc[u] \in {"relock", "take"}
    PROVE  HeldOK' /\ Slots'
<1>1. HeldOK'
  BY DEF Inv, HeldOK, spans
<1>2. \A s \in Slot : Outstanding(s)' = Outstanding(s)
  <2>1. ASSUME NEW s \in Slot PROVE Outstanding(s)' = Outstanding(s)
    <3>1. /\ Outstanding(s) = {o \in Block : Held(o) /\ o.slot = s}
          /\ Outstanding(s)' = {o \in Block : Held(o)' /\ o.slot = s}
      BY OutstandingIs, OutstandingNext DEF Inv
    <3> QED BY <3>1
  <2> QED BY <2>1
<1>3. ASSUME NEW c \in Class, NEW s \in bucket[c] PROVE InBucket(s, c)'
  <2>1. s \in Slot /\ InBucket(s, c)
    BY DEF Inv, Types, Slots
  <2> QED BY <1>2, <2>1 DEF InBucket, spans, Object
<1>4. ASSUME NEW u \in Thread, span'[u] # None PROVE InHand(span[u], u)'
  <2>1. InHand(span[u], u) /\ span[u] \in Slot /\ span'[u] = span[u]
    BY <1>4 DEF Inv, Types, Slots
  <2> QED BY <1>4, <2>1 DEF InHand, spans, Object
<1>5. Slots'
  BY <1>3, <1>4 DEF Inv, Slots, Clean, spans
<1> QED BY <1>1, <1>5

LEMMA MovesKeepBooks ==
    ASSUME Inv, Types', NEW t \in Thread, End(t) \/ (Moves(t) /\ UNCHANGED ended)
    PROVE  HeldOK' /\ Slots'
<1>1. ASSUME NEW u \in Thread, span'[u] # None
      PROVE  /\ span'[u] = span[u] /\ arg'[u] = arg[u]
             /\ pc'[u] \in Making <=> pc[u] \in Making
             /\ pc'[u] \in {"relock", "take"} <=> pc[u] \in {"relock", "take"}
  <2>1. CASE u # t
    <3>1. Moves(t) => Step(t)
      BY DEF Moves, Step
    <3> QED BY <2>1, <3>1, OthersSame DEF Same
  <2>2. CASE u = t
    <3>0. span' = span
      BY DEF Moves, AllocHit, AllocMiss, AllocBig, FreeToCache, FreeAndFlush, FreeWithoutCache,
             LockPages, FetchLock, ScanMiss, Relock, ReleaseLock, ReleaseDone, End, calls
    <3>1. pc[t] \in {"carve", "relock", "take", "retLock", "ret"}
      BY <1>1, <2>2, <3>0 DEF Inv, Phases, PhaseOK, Making, Returning
    <3>2. LockPages(t) \/ Relock(t)
      BY <3>1 DEF Moves, AllocHit, AllocMiss, AllocBig, FreeToCache, FreeAndFlush, FreeWithoutCache,
                  FetchLock, ScanMiss, ReleaseLock, ReleaseDone, End, Enter, At
    <3>3. /\ arg' = arg
          /\ \/ pc[t] = "newLock" /\ pc'[t] = "new"
             \/ pc[t] = "retLock" /\ pc'[t] = "ret"
             \/ pc[t] = "relock" /\ pc'[t] = "take"
      BY <3>2 DEF LockPages, Relock, Goto, At, Inv, Types
    <3> QED BY <2>2, <3>0, <3>1, <3>3 DEF Making
  <2> QED BY <2>1, <2>2
<1> QED BY <1>1, MovesKeepHeld, BooksKeep

\* What is left alone stays as it is, slot by slot.
LEMMA BucketSame ==
    ASSUME Inv, Types', NEW x \in Slot, NEW c \in Class, InBucket(x, c),
           x \in owned', objSize'[x] = objSize[x], spanFree'[x] = spanFree[x],
           useCount'[x] = useCount[x],
           \A o \in Block : o.slot = x => (Held(o)' <=> Held(o))
    PROVE  InBucket(x, c)'
<1>1. /\ Outstanding(x) = {o \in Block : Held(o) /\ o.slot = x}
      /\ Outstanding(x)' = {o \in Block : Held(o)' /\ o.slot = x}
  BY OutstandingIs, OutstandingNext DEF Inv
<1>2. Outstanding(x)' = Outstanding(x)
  BY <1>1
<1> QED BY <1>2 DEF InBucket, Object

LEMMA HandSame ==
    ASSUME NEW x \in Slot, NEW u \in Thread, InHand(x, u), Same(u), x \in owned',
           \A c \in Class : x \notin bucket[c] => x \notin bucket'[c],
           BigBlock(x) \notin live => BigBlock(x) \notin live',
           objSize'[x] = objSize[x], spanFree'[x] = spanFree[x], useCount'[x] = useCount[x]
    PROVE  InHand(x, u)'
BY DEF InHand, Same, Object, BigBlock

\* Only callers hold large blocks.
LEMMA BigHeld ==
    ASSUME Inv, NEW o \in Block, o.class = Big
    PROVE  /\ Held(o) => o \in live
           /\ o \notin stranded
           /\ \A t \in Thread : o \notin chain[t]
           /\ \A t \in Thread, c \in Class : o \notin cache[t][c]
<1>1. \A c \in Class : o \notin Of(c)
  BY Blocks, Names
<1>2. \A t \in Thread, c \in Class : o \notin cache[t][c]
  BY <1>1 DEF Inv, Classes
<1>3. \A t \in Thread : o \notin chain[t]
  BY <1>1 DEF Inv, Classes, Phases, PhaseOK
<1>4. o \notin stranded
  BY Names DEF Inv, Classes
<1> QED BY <1>2, <1>3, <1>4 DEF Held

\* Nothing is held of a span that is in a thread's hands or with the page layer.
LEMMA Vacant ==
    ASSUME Inv, NEW s \in Slot, s \notin owned \/ \E t \in Thread : span[t] = s
    PROVE  /\ \A o \in Block : Held(o) => o.slot # s
           /\ \A c \in Class : s \notin bucket[c]
           /\ BigBlock(s) \notin live
<1>1. (\A c \in Class : s \notin bucket[c]) /\ BigBlock(s) \notin live
  <2>1. CASE s \notin owned
    <3>1. \A c \in Class : s \notin bucket[c]
      BY <2>1 DEF Inv, Slots, InBucket
    <3>2. BigBlock(s) \in live => s \in owned
      BY LiveClass, Blocks
    <3> QED BY <2>1, <3>1, <3>2
  <2>2. CASE \E t \in Thread : span[t] = s
    BY <2>2, Names DEF Inv, Slots, InHand
  <2> QED BY <2>1, <2>2
<1>2. ASSUME NEW o \in Block, Held(o), o.slot = s PROVE FALSE
  <2>1. o.class \in Class => s \in bucket[o.class]
    BY <1>2 DEF Inv, HeldOK
  <2>2. o.class = Big => o = BigBlock(s) /\ o \in live
    BY <1>2, Blocks, BigHeld
  <2> QED BY <1>1, <1>2, <2>1, <2>2, Blocks
<1> QED BY <1>1, <1>2

\* NewSpan, Carve and ReleaseSpanToPageCache move no object.
LEMMA SpanStepsKeepHeld ==
    ASSUME Inv, NEW t \in Thread, UNCHANGED ended,
           (\E s \in Slot : NewSpan(t, s)) \/ Carve(t) \/ ReturnSpan(t)
    PROVE  (\A x : Held(x)' <=> Held(x)) /\ Disjoint' /\ live' = live
<1>1. UNCHANGED <<live, stranded, chain, cache>>
  BY DEF NewSpan, Carve, ReturnSpan, ended, blocks, caches
<1> QED BY <1>1 DEF Inv, Held, Disjoint

\* A step about one span: what is right of it makes all of them right.
Around(t, s) ==
    /\ \A x \in Slot : x # s =>
          /\ x \in owned' <=> x \in owned
          /\ objSize'[x] = objSize[x] /\ spanFree'[x] = spanFree[x] /\ useCount'[x] = useCount[x]
          /\ \A c \in Class : x \in bucket'[c] <=> x \in bucket[c]
          /\ BigBlock(x) \in live' <=> BigBlock(x) \in live
    /\ \A o \in Block : o.slot # s => (Held(o)' <=> Held(o))
    /\ \A u \in Thread : u # t => span[u] # s
    /\ span'[t] \in {None, s}

HeldOf(s) ==
    \A o \in Block : Held(o) /\ o.slot = s =>
        /\ s \in owned
        /\ objSize[s] = o.class
        /\ o.class \in Class => s \in bucket[o.class]
        /\ o \notin spanFree[s]

LEMMA AroundKeeps ==
    ASSUME Inv, Types', NEW t \in Thread, Step(t), NEW s \in Slot, Around(t, s),
           HeldOf(s)',
           s \notin owned' \/ BigBlock(s) \in live' => Clean(s)',
           \A c \in Class : s \in bucket'[c] => InBucket(s, c)',
           span'[t] = s => InHand(s, t)'
    PROVE  HeldOK' /\ Slots'
<1>1. HeldOK'
  <2>1. ASSUME NEW o \in Block, Held(o)'
        PROVE  /\ o.slot \in owned'
               /\ objSize'[o.slot] = o.class
               /\ o.class \in Class => o.slot \in bucket'[o.class]
               /\ o \notin spanFree'[o.slot]
    <3>1. CASE o.slot = s
      BY <2>1, <3>1 DEF HeldOf
    <3>2. CASE o.slot # s
      BY <2>1, <3>2, Blocks DEF Around, Inv, HeldOK
    <3> QED BY <3>1, <3>2
  <2> QED BY <2>1 DEF HeldOK
<1>2. \A x \in Slot \ owned' : Clean(x)'
  <2>1. \A x \in Slot \ owned' : x # s => Clean(x)'
    BY DEF Around, Inv, Slots, Clean
  <2> QED BY <2>1
<1>3. \A x \in Slot : BigBlock(x) \in live' => Clean(x)'
  <2>1. \A x \in Slot : x # s /\ BigBlock(x) \in live' => Clean(x)'
    BY DEF Around, Inv, Slots, Clean
  <2> QED BY <2>1
<1>4. ASSUME NEW c \in Class, NEW x \in bucket'[c] PROVE InBucket(x, c)'
  <2>1. x \in Slot
    BY DEF Types
  <2>2. CASE x # s
    <3>1. InBucket(x, c) /\ x \in owned
      BY <2>1, <2>2 DEF Around, Inv, Slots, InBucket
    <3> QED BY <2>1, <2>2, <3>1, BucketSame DEF Around
  <2> QED BY <2>2
<1>5. ASSUME NEW u \in Thread, span'[u] # None PROVE InHand(span[u], u)'
  <2>1. CASE u = t
    <3>1. span'[t] = s /\ InHand(s, t)'
      BY <1>5, <2>1 DEF Around
    <3> QED BY <2>1, <3>1 DEF InHand, BigBlock, Object
  <2>2. CASE u # t
    <3>1. Same(u)
      BY <2>2, OthersSame
    <3>2. PICK x \in Slot : x = span[u] /\ x # s /\ InHand(x, u) /\ x \in owned
      BY <1>5, <2>2, <3>1 DEF Around, Inv, Types, Slots, InHand, Same
    <3>3. InHand(x, u)'
      BY <3>1, <3>2, HandSame DEF Around
    <3> QED BY <3>1, <3>2, <3>3 DEF Same
  <2> QED BY <2>1, <2>2
<1>6. \A u, v \in Thread : span'[u] # None /\ span'[u] = span'[v] => u = v
  <2>1. \A u \in Thread : u # t => span'[u] = span[u] /\ span[u] # s
    BY OthersSame DEF Same, Around
  <2> QED BY <2>1 DEF Around, Inv, Slots
<1>7. \A c \in Class : \A x \in bucket'[c] : InBucket(x, c)'
  BY <1>4
<1> QED BY <1>1, <1>2, <1>3, <1>5, <1>6, <1>7 DEF Slots

LEMMA NewSpanKeeps ==
    ASSUME Inv, Types', NEW t \in Thread, NEW s \in Slot, NewSpan(t, s), UNCHANGED ended
    PROVE  HeldOK' /\ Slots' /\ Disjoint'
<1>1. (\A x : Held(x)' <=> Held(x)) /\ Disjoint' /\ live' = live
  BY SpanStepsKeepHeld
<1>2. /\ s \notin owned /\ owned' = owned \cup {s}
      /\ objSize'[s] = arg[t] /\ \A x \in Slot : x # s => objSize'[x] = objSize[x]
      /\ span'[t] = s /\ pc'[t] = "carve" /\ arg'[t] = arg[t]
      /\ UNCHANGED <<bucket, spanFree, useCount>>
  BY DEF NewSpan, Goto, Inv, Types
<1>3. /\ \A o \in Block : Held(o) => o.slot # s
      /\ \A c \in Class : s \notin bucket[c]
      /\ BigBlock(s) \notin live
      /\ Clean(s)
      /\ \A u \in Thread : span[u] # s
  BY <1>2, Vacant, Names DEF Inv, Slots, InHand
<1>4. Around(t, s)
  BY <1>1, <1>2, <1>3 DEF Around
<1>5. InHand(s, t)'
  BY <1>1, <1>2, <1>3 DEF InHand, Clean, BigBlock
<1>6. HeldOf(s)'
  BY <1>1, <1>3 DEF HeldOf
<1>7. s \in owned' /\ BigBlock(s) \notin live' /\ \A c \in Class : s \notin bucket'[c]
  BY <1>1, <1>2, <1>3
<1> QED BY <1>1, <1>4, <1>5, <1>6, <1>7, AroundKeeps DEF Step

LEMMA CarveKeeps ==
    ASSUME Inv, Types', NEW t \in Thread, Carve(t), UNCHANGED ended
    PROVE  HeldOK' /\ Slots' /\ Disjoint'
<1>1. (\A x : Held(x)' <=> Held(x)) /\ Disjoint' /\ live' = live
  BY SpanStepsKeepHeld
<1>2. PICK s \in Slot : s = span[t] /\ InHand(s, t) /\ pc[t] = "carve"
  BY Names DEF Carve, At, Inv, Types, Phases, PhaseOK, Making, Slots
<1>3. /\ UNCHANGED <<owned, objSize, useCount, bucket, span, arg>>
      /\ spanFree'[s] = Object(s, arg[t]) /\ \A x \in Slot : x # s => spanFree'[x] = spanFree[x]
      /\ pc'[t] = "relock"
  BY <1>2 DEF Carve, Goto, Inv, Types
<1>4. /\ \A o \in Block : Held(o) => o.slot # s
      /\ \A c \in Class : s \notin bucket[c]
      /\ BigBlock(s) \notin live
      /\ \A u \in Thread : u # t => span[u] # s
  BY <1>2, Vacant, Names DEF Inv, Slots
<1>5. Around(t, s)
  BY <1>1, <1>2, <1>3, <1>4 DEF Around
<1>6. InHand(s, t)'
  BY <1>1, <1>2, <1>3 DEF InHand, Making, BigBlock, Object
<1>7. HeldOf(s)' /\ s \in owned' /\ BigBlock(s) \notin live' /\ \A c \in Class : s \notin bucket'[c]
  BY <1>1, <1>2, <1>3, <1>4 DEF HeldOf, InHand
<1> QED BY <1>1, <1>5, <1>6, <1>7, AroundKeeps DEF Step

LEMMA ReturnSpanKeeps ==
    ASSUME Inv, Types', NEW t \in Thread, ReturnSpan(t), UNCHANGED ended
    PROVE  HeldOK' /\ Slots' /\ Disjoint'
<1>1. (\A x : Held(x)' <=> Held(x)) /\ Disjoint' /\ live' = live
  BY SpanStepsKeepHeld
<1>2. PICK s \in Slot : s = span[t] /\ InHand(s, t) /\ pc[t] = "ret"
  BY Names DEF ReturnSpan, At, Inv, Types, Phases, PhaseOK, Returning, Slots
<1>3. /\ UNCHANGED <<objSize, useCount, bucket, spanFree>>
      /\ owned' = owned \ {s} /\ span'[t] = None
  BY <1>2 DEF ReturnSpan, Inv, Types, spans
<1>4. /\ \A o \in Block : Held(o) => o.slot # s
      /\ \A c \in Class : s \notin bucket[c]
      /\ BigBlock(s) \notin live
      /\ \A u \in Thread : u # t => span[u] # s
  BY <1>2, Vacant, Names DEF Inv, Slots
<1>5. Around(t, s)
  BY <1>1, <1>2, <1>3, <1>4 DEF Around
<1>6. Clean(s)'
  BY <1>2, <1>3 DEF InHand, Clean
<1>7. HeldOf(s)' /\ span'[t] # s /\ \A c \in Class : s \notin bucket'[c]
  BY <1>1, <1>3, <1>4, Names DEF HeldOf
<1> QED BY <1>1, <1>5, <1>6, <1>7, AroundKeeps DEF Step

LEMMA NewBigSpanKeeps ==
    ASSUME Inv, Types', NEW t \in Thread, NEW s \in Slot, NewBigSpan(t, s), UNCHANGED ended
    PROVE  HeldOK' /\ Slots' /\ Disjoint' /\ BigBlock(s) \notin live
<1>1. /\ s \notin owned /\ owned' = owned \cup {s}
      /\ objSize'[s] = Big /\ \A x \in Slot : x # s => objSize'[x] = objSize[x]
      /\ live' = live \cup {BigBlock(s)}
      /\ pc[t] = "new"
      /\ UNCHANGED <<bucket, spanFree, useCount, span, chain, cache, stranded>>
  BY DEF NewBigSpan, HandOut, At, Inv, Types, caches, ended
<1>2. /\ \A o \in Block : Held(o) => o.slot # s
      /\ \A c \in Class : s \notin bucket[c]
      /\ BigBlock(s) \notin live
      /\ Clean(s)
      /\ \A u \in Thread : span[u] # s
  BY <1>1, Vacant, Names DEF Inv, Slots, InHand
<1>3. span[t] = None
  BY <1>1 DEF Inv, Phases, PhaseOK, Making, Returning
<1>4. /\ BigBlock(s) \in Block /\ BigBlock(s).slot = s /\ BigBlock(s).class = Big
      /\ \A x \in Slot : x # s => BigBlock(x) # BigBlock(s)
  BY Blocks DEF BigBlock
<1>5. \A x : Held(x)' <=> Held(x) \/ x = BigBlock(s)
  BY <1>1 DEF Held
<1>6. Disjoint'
  <2>1. /\ BigBlock(s) \notin stranded
        /\ \A u \in Thread : BigBlock(s) \notin chain[u]
        /\ \A u \in Thread, c \in Class : BigBlock(s) \notin cache[u][c]
    BY <1>4, BigHeld
  <2> QED BY <1>1, <2>1 DEF Inv, Disjoint
<1>7. Around(t, s)
  BY <1>1, <1>2, <1>3, <1>4, <1>5 DEF Around
<1>8. HeldOf(s)'
  <2>1. \A o \in Block : Held(o)' /\ o.slot = s => o = BigBlock(s)
    BY <1>2, <1>5
  <2>2. spanFree'[s] = {} /\ s \in owned' /\ objSize'[s] = Big
    BY <1>1, <1>2 DEF Clean
  <2> QED BY <1>4, <2>1, <2>2, Names DEF HeldOf
<1>9. Clean(s)' /\ span'[t] # s /\ \A c \in Class : s \notin bucket'[c]
  BY <1>1, <1>2 DEF Clean
<1> QED BY <1>2, <1>6, <1>7, <1>8, <1>9, AroundKeeps DEF Step

LEMMA FreeBigKeeps ==
    ASSUME Inv, Types', NEW t \in Thread, NEW o \in live, FreeBig(t, o), UNCHANGED ended
    PROVE  HeldOK' /\ Slots' /\ Disjoint'
<1>1. PICK s \in Slot : s = o.slot
  BY LiveClass
<1>2. /\ o = BigBlock(s) /\ objSize[s] = Big /\ s \in owned /\ o \in Block
  BY <1>1, LiveClass, Blocks DEF FreeBig
<1>3. /\ live' = live \ {o} /\ span'[t] = s /\ pc'[t] = "retLock" /\ arg'[t] = Big /\ pc[t] = "idle"
      /\ UNCHANGED <<owned, bucket, spanFree, useCount, objSize, chain, cache, stranded>>
  BY <1>1 DEF FreeBig, Enter, At, Goto, GiveIn, Inv, Types, caches, spans, ended
<1>4. /\ \A c \in Class : s \notin bucket[c]
      /\ Clean(s)
      /\ \A u \in Thread : span[u] # s
  <2>1. \A c \in Class : s \notin bucket[c]
    BY <1>2, Names DEF Inv, Slots, InBucket
  <2>2. \A u \in Thread : span[u] # s
    BY <1>2, Names DEF Inv, Slots, InHand
  <2> QED BY <1>2, <2>1, <2>2 DEF Inv, Slots
<1>5. \A x : Held(x)' <=> Held(x) /\ x # o
  <2>1. /\ \A u \in Thread : o \notin chain[u]
        /\ \A u \in Thread, c \in Class : o \notin cache[u][c]
        /\ o \notin stranded
    BY <1>2, Blocks, BigHeld
  <2> QED BY <1>3, <2>1 DEF Held
<1>6. Disjoint'
  BY <1>3 DEF Inv, Disjoint
<1>7. ASSUME NEW x \in Block, Held(x)', x.slot = s PROVE FALSE
  <2>1. x.class = Big
    BY <1>2, <1>5, <1>7 DEF Inv, HeldOK
  <2> QED BY <1>2, <1>5, <1>7, <2>1, Blocks
<1>8. Around(t, s)
  <2>1. \A x \in Slot : x # s => BigBlock(x) # o
    BY <1>2 DEF BigBlock
  <2> QED BY <1>1, <1>3, <1>4, <1>5, <2>1 DEF Around
<1>9. HeldOf(s)' /\ s \in owned' /\ BigBlock(s) \notin live' /\ \A c \in Class : s \notin bucket'[c]
  BY <1>2, <1>3, <1>4, <1>7 DEF HeldOf
<1>10. InHand(s, t)'
  BY <1>2, <1>3, <1>4 DEF InHand, Clean, Making, BigBlock
<1> QED BY <1>6, <1>8, <1>9, <1>10, AroundKeeps DEF Step

\* Counting what is taken.
LEMMA Adds ==
    ASSUME NEW S, NEW T, IsFiniteSet(S), IsFiniteSet(T), S \cap T = {}
    PROVE  /\ IsFiniteSet(S \cup T) /\ Cardinality(S \cup T) = Cardinality(S) + Cardinality(T)
           /\ Cardinality(S) \in Nat /\ Cardinality(T) \in Nat
BY FS_Union, FS_EmptySet, FS_CardinalityType

LEMMA TakeKeeps ==
    ASSUME Inv, Types', NEW t \in Thread, ScanHit(t) \/ Take(t), UNCHANGED ended
    PROVE  HeldOK' /\ Slots' /\ Disjoint'
<1>1. PICK s \in Slot, c \in Class :
           /\ c = arg[t] /\ cache[t][c] = {} /\ objSize[s] = c /\ s \in owned
           /\ TakeFrom(t, s) /\ UNCHANGED <<chain, owned, objSize>>
           /\ \/ s \in bucket[c] /\ ScanHit(t) /\ UNCHANGED <<bucket, span>>
              \/ s = span[t] /\ s # None /\ Take(t)
  BY TakesFrom
<1>2. PICK taken, o : Taking(t, s, c, taken, o)
  BY <1>1, TakeEffect DEF ended
<1>3. /\ taken \subseteq spanFree[s] /\ o \in taken /\ IsFiniteSet(taken)
      /\ spanFree' = [spanFree EXCEPT ![s] = @ \ taken]
      /\ useCount' = [useCount EXCEPT ![s] = @ + Cardinality(taken)]
      /\ live' = live \cup {o}
      /\ \A x : Held(x)' <=> Held(x) \/ x \in taken
      /\ \A x \in taken : ~Held(x) /\ x \in Object(s, c) /\ x \in Block
      /\ Disjoint'
  BY <1>2 DEF Taking
<1>4. /\ \A x \in Slot : x # s => spanFree'[x] = spanFree[x] /\ useCount'[x] = useCount[x]
      /\ spanFree'[s] = spanFree[s] \ taken /\ useCount'[s] = useCount[s] + Cardinality(taken)
  BY <1>3 DEF Inv, Types
<1>5. \A x \in taken : x.slot = s /\ x.class = c
  BY <1>3 DEF Object
<1>6. \A x \in Slot : BigBlock(x) \in live' <=> BigBlock(x) \in live
  <2>1. o.class # Big
    BY <1>3, <1>5, Names
  <2>2. \A x \in Slot : BigBlock(x) # o
    BY <2>1, Blocks
  <2> QED BY <1>3, <2>2
<1>7. /\ s \in bucket'[c] /\ \A d \in Class : d # c => bucket'[d] = bucket[d]
      /\ \A x \in Slot : x # s => (x \in bucket'[c] <=> x \in bucket[c])
      /\ span'[t] = None
      /\ \A d \in Class : s \in bucket[d] => d = c
      /\ \A u \in Thread : u # t => span[u] # s
      /\ spanFree[s] \cup Outstanding(s) = Object(s, c)
      /\ IsFiniteSet(Outstanding(s)) /\ useCount[s] = Cardinality(Outstanding(s))
      /\ BigBlock(s) \notin live
  <2>1. CASE s \in bucket[c] /\ ScanHit(t) /\ UNCHANGED <<bucket, span>>
    <3>1. InBucket(s, c) /\ \A d \in Class : s \in bucket[d] => d = c
      BY <1>1, <2>1 DEF Inv, Slots, InBucket
    <3>2. \A u \in Thread : span[u] # s
      BY <2>1, Names DEF Inv, Slots, InHand
    <3>3. span[t] = None
      BY <2>1 DEF ScanHit, At, Inv, Phases, PhaseOK, Making, Returning
    <3>4. BigBlock(s) \notin live
      <4>1. objSize[s] # Big
        BY <1>1, Names
      <4> QED BY <4>1, LiveClass, Blocks
    <3> QED BY <2>1, <3>1, <3>2, <3>3, <3>4 DEF InBucket
  <2>2. CASE s = span[t] /\ s # None /\ Take(t)
    <3>1. /\ \A x \in Block : Held(x) => x.slot # s
          /\ \A d \in Class : s \notin bucket[d]
          /\ BigBlock(s) \notin live
      BY <2>2, Vacant
    <3>2. Outstanding(s) = {}
      BY <3>1, OutstandingIs DEF Inv
    <3>3. spanFree[s] = Object(s, c) /\ useCount[s] = 0 /\ \A u \in Thread : u # t => span[u] # s
      BY <1>1, <2>2 DEF Take, At, Inv, Slots, InHand
    <3>4. bucket' = [bucket EXCEPT ![c] = @ \cup {s}] /\ span' = [span EXCEPT ![t] = None]
      BY <1>1, <2>2 DEF Take
    <3>5. IsFiniteSet({}) /\ Cardinality({}) = 0
      BY FS_EmptySet
    <3> QED BY <3>1, <3>2, <3>3, <3>4, <3>5 DEF Inv, Types
  <2> QED BY <1>1, <2>1, <2>2
<1>8. /\ Outstanding(s)' = Outstanding(s) \cup taken
      /\ Outstanding(s) \cap taken = {}
  <2>1. /\ \A x : x \in Outstanding(s) <=> x \in Block /\ Held(x) /\ x.slot = s
        /\ \A x : x \in Outstanding(s)' <=> x \in Block /\ Held(x)' /\ x.slot = s
    BY OutstandingIs, OutstandingNext DEF Inv
  <2> QED BY <1>3, <1>5, <2>1
<1>9. InBucket(s, c)'
  <2>1. spanFree'[s] \cup Outstanding(s)' = Object(s, c)
    BY <1>3, <1>4, <1>7, <1>8
  <2>2. PICK S : S = Outstanding(s)
    OBVIOUS
  <2>3. /\ Outstanding(s)' = S \cup taken /\ S \cap taken = {} /\ IsFiniteSet(S)
        /\ useCount[s] = Cardinality(S) /\ useCount'[s] = useCount[s] + Cardinality(taken)
    BY <1>4, <1>7, <1>8, <2>2
  <2>4. /\ IsFiniteSet(S \cup taken) /\ useCount'[s] = Cardinality(S \cup taken)
        /\ Cardinality(S \cup taken) \in Nat
    <3>1. IsFiniteSet(taken) /\ IsFiniteSet(S) /\ S \cap taken = {}
      BY <1>3, <2>3
    <3>2. /\ IsFiniteSet(S \cup taken)
          /\ Cardinality(S \cup taken) = Cardinality(S) + Cardinality(taken)
          /\ Cardinality(S) \in Nat /\ Cardinality(taken) \in Nat
      BY ONLY <3>1, Adds
    <3> QED BY <2>3, <3>2
  <2>5. Cardinality(S \cup taken) # 0
    BY <1>3, <2>4, FS_EmptySet
  <2>6. useCount'[s] > 0
    BY <2>4, <2>5
  <2>7. s \in owned' /\ objSize'[s] = c
    BY <1>1
  <2> QED BY <2>1, <2>3, <2>4, <2>6, <2>7 DEF InBucket, Object
<1>10. HeldOf(s)'
  <2>1. ASSUME NEW x \in Block, Held(x)', x.slot = s
        PROVE  objSize[s] = x.class /\ x.class = c /\ x \notin spanFree'[s]
    <3>1. CASE x \in taken
      BY <1>1, <1>4, <1>5, <3>1
    <3>2. CASE Held(x)
      BY <1>1, <1>4, <2>1, <3>2 DEF Inv, HeldOK
    <3> QED BY <1>3, <2>1, <3>1, <3>2
  <2> QED BY <1>1, <1>7, <2>1 DEF HeldOf
<1>11. Around(t, s)
  BY <1>1, <1>3, <1>4, <1>5, <1>6, <1>7 DEF Around
<1>12. /\ s \in owned' /\ BigBlock(s) \notin live' /\ span'[t] # s
       /\ \A d \in Class : s \in bucket'[d] => InBucket(s, d)'
  BY <1>1, <1>6, <1>7, <1>9, Names
<1> QED BY <1>3, <1>10, <1>11, <1>12, AroundKeeps DEF Step

\* The object at hand in ReleaseListToSpans and its span.
LEMMA GivesBackTo ==
    ASSUME Inv, NEW t \in Thread, NEW o \in chain[t], At(t, "giveBack"),
           chain' = [chain EXCEPT ![t] = @ \ {o}], UNCHANGED <<cache, live, stranded>>
    PROVE  \E s \in Slot, c \in Class :
              /\ s = o.slot /\ c = arg[t] /\ c = o.class /\ o \in Block /\ o \in Object(s, c)
              /\ Held(o) /\ s \in bucket[c] /\ InBucket(s, c) /\ o \in Outstanding(s)
              /\ \A x : Held(x)' <=> Held(x) /\ x # o
              /\ Disjoint'
              /\ BigBlock(s) \notin live /\ span[t] = None
              /\ \A u \in Thread : span[u] # s
              /\ \A d \in Class : s \in bucket[d] => d = c
<1>1. /\ o \in Block /\ Held(o) /\ o.class \in Class /\ o.class = arg[t]
      /\ \A x : Held(x)' <=> Held(x) /\ x # o
      /\ Disjoint'
  BY GiveBackEffect
<1>2. /\ o.slot \in Slot /\ o \in Object(o.slot, o.class)
      /\ o.slot \in bucket[o.class] /\ objSize[o.slot] = o.class
  BY <1>1, Blocks DEF Inv, HeldOK
<1>3. /\ InBucket(o.slot, o.class)
      /\ \A d \in Class : o.slot \in bucket[d] => d = o.class
      /\ \A u \in Thread : span[u] # o.slot
  BY <1>1, <1>2, Names DEF Inv, Slots, InBucket, InHand
<1>4. o \in Outstanding(o.slot)
  BY <1>1, <1>2, OutstandingIs DEF Inv
<1>5. BigBlock(o.slot) \notin live
  <2>1. objSize[o.slot] # Big
    BY <1>1, <1>2, Names
  <2> QED BY <1>2, <2>1, LiveClass, Blocks
<1>6. span[t] = None
  BY DEF At, Inv, Phases, PhaseOK, Making, Returning
<1> QED BY <1>1, <1>2, <1>3, <1>4, <1>5, <1>6

LEMMA Less ==
    ASSUME NEW S, NEW x, IsFiniteSet(S), x \in S
    PROVE  /\ IsFiniteSet(S \ {x}) /\ Cardinality(S \ {x}) = Cardinality(S) - 1
           /\ Cardinality(S) \in Nat
           /\ Cardinality(S) - 1 = 0 => S \ {x} = {}
BY FS_RemoveElement, FS_EmptySet, FS_CardinalityType

LEMMA GiveBackKeeps ==
    ASSUME Inv, Types', NEW t \in Thread, NEW o \in chain[t], GiveBack(t, o), UNCHANGED ended
    PROVE  HeldOK' /\ Slots' /\ Disjoint'
<1>0. /\ At(t, "giveBack") /\ chain' = [chain EXCEPT ![t] = @ \ {o}]
      /\ UNCHANGED <<cache, live, stranded>>
  BY DEF GiveBack, caches, blocks, ended
<1>1. PICK s \in Slot, c \in Class :
              /\ s = o.slot /\ c = arg[t] /\ c = o.class /\ o \in Block /\ o \in Object(s, c)
              /\ Held(o) /\ s \in bucket[c] /\ InBucket(s, c) /\ o \in Outstanding(s)
              /\ \A x : Held(x)' <=> Held(x) /\ x # o
              /\ Disjoint'
              /\ BigBlock(s) \notin live /\ span[t] = None
              /\ \A u \in Thread : span[u] # s
              /\ \A d \in Class : s \in bucket[d] => d = c
  BY <1>0, GivesBackTo
<1>2. /\ UNCHANGED <<owned, bucket, objSize, span>>
      /\ \A x \in Slot : x # s => spanFree'[x] = spanFree[x] /\ useCount'[x] = useCount[x]
      /\ spanFree'[s] = spanFree[s] \cup {o} /\ useCount'[s] = useCount[s] - 1
      /\ useCount[s] - 1 # 0
  BY <1>1 DEF GiveBack, Unused, Inv, Types
<1>3. PICK S : S = Outstanding(s)
  OBVIOUS
<1>4. Outstanding(s)' = S \ {o} /\ o \in S /\ IsFiniteSet(S) /\ useCount[s] = Cardinality(S)
      /\ spanFree[s] \cup S = Object(s, c) /\ useCount[s] > 0 /\ s \in owned /\ objSize[s] = c
  <2>1. /\ \A x : x \in Outstanding(s) <=> x \in Block /\ Held(x) /\ x.slot = s
        /\ \A x : x \in Outstanding(s)' <=> x \in Block /\ Held(x)' /\ x.slot = s
    BY OutstandingIs, OutstandingNext DEF Inv
  <2>2. Outstanding(s)' = S \ {o}
    BY <1>1, <1>3, <2>1
  <2> QED BY <1>1, <1>3, <2>2 DEF InBucket
<1>5. InBucket(s, c)'
  <2>1. IsFiniteSet(S \ {o}) /\ Cardinality(S \ {o}) = Cardinality(S) - 1 /\ Cardinality(S) \in Nat
    BY <1>4, Less
  <2>2. spanFree'[s] \cup (S \ {o}) = Object(s, c)
    BY <1>1, <1>2, <1>4
  <2>3. useCount'[s] = Cardinality(S \ {o}) /\ useCount'[s] > 0
    BY <1>2, <1>4, <2>1
  <2>4. s \in owned' /\ objSize'[s] = c
    BY <1>2, <1>4
  <2> QED BY <1>4, <2>1, <2>2, <2>3, <2>4 DEF InBucket, Object
<1>6. HeldOf(s)'
  BY <1>1, <1>2 DEF HeldOf, Inv, HeldOK
<1>7. Around(t, s)
  BY <1>0, <1>1, <1>2 DEF Around
<1>8. /\ s \in owned' /\ BigBlock(s) \notin live' /\ span'[t] # s
      /\ \A d \in Class : s \in bucket'[d] => InBucket(s, d)'
  BY <1>0, <1>1, <1>2, <1>4, <1>5
<1> QED BY <1>1, <1>6, <1>7, <1>8, AroundKeeps DEF Step

LEMMA GiveBackLastKeeps ==
    ASSUME Inv, Types', NEW t \in Thread, NEW o \in chain[t], GiveBackLast(t, o), UNCHANGED ended
    PROVE  HeldOK' /\ Slots' /\ Disjoint'
<1>0. /\ At(t, "giveBack") /\ chain' = [chain EXCEPT ![t] = @ \ {o}]
      /\ UNCHANGED <<cache, live, stranded>>
  BY DEF GiveBackLast, caches, blocks, ended
<1>1. PICK s \in Slot, c \in Class :
              /\ s = o.slot /\ c = arg[t] /\ c = o.class /\ o \in Block /\ o \in Object(s, c)
              /\ Held(o) /\ s \in bucket[c] /\ InBucket(s, c) /\ o \in Outstanding(s)
              /\ \A x : Held(x)' <=> Held(x) /\ x # o
              /\ Disjoint'
              /\ BigBlock(s) \notin live /\ span[t] = None
              /\ \A u \in Thread : span[u] # s
              /\ \A d \in Class : s \in bucket[d] => d = c
  BY <1>0, GivesBackTo
<1>2. /\ UNCHANGED <<owned, objSize, arg>>
      /\ \A x \in Slot : x # s => spanFree'[x] = spanFree[x] /\ useCount'[x] = useCount[x]
      /\ spanFree'[s] = {} /\ useCount'[s] = useCount[s] - 1 /\ useCount[s] - 1 = 0
      /\ \A d \in Class : bucket'[d] = IF d = c THEN bucket[d] \ {s} ELSE bucket[d]
      /\ span'[t] = s /\ pc'[t] = "retLock"
  <2>1. /\ UNCHANGED <<owned, objSize, arg>>
        /\ spanFree' = [spanFree EXCEPT ![s] = {}]
        /\ useCount' = [useCount EXCEPT ![s] = @ - 1] /\ useCount[s] - 1 = 0
        /\ bucket' = [bucket EXCEPT ![c] = @ \ {s}]
        /\ span' = [span EXCEPT ![t] = s] /\ pc' = [pc EXCEPT ![t] = "retLock"]
    BY <1>1 DEF GiveBackLast, Goto, Unused
  <2>2. Types
    BY DEF Inv
  <2> QED BY <2>1, <2>2 DEF Types
<1>3. \A x \in Block : Held(x)' => x.slot # s
  <2>1. PICK S : S = Outstanding(s)
    OBVIOUS
  <2>2. IsFiniteSet(S) /\ o \in S /\ useCount[s] = Cardinality(S)
    BY <1>1, <2>1 DEF InBucket
  <2>3. S \ {o} = {}
    <3>1. useCount[s] - 1 = 0
      BY <1>2
    <3>2. IsFiniteSet(S \ {o}) /\ Cardinality(S \ {o}) = Cardinality(S) - 1
      BY <2>2, Less
    <3> QED BY <2>2, <3>1, <3>2, FS_EmptySet
  <2>4. \A x : x \in S <=> x \in Block /\ Held(x) /\ x.slot = s
    BY <2>1, OutstandingIs DEF Inv
  <2> QED BY <1>1, <2>3, <2>4
<1>4. s \in owned /\ HeldOf(s)'
  BY <1>1, <1>3 DEF HeldOf, InBucket
<1>5. InHand(s, t)'
  BY <1>0, <1>1, <1>2, <1>4 DEF InHand, Making, BigBlock
<1>6. Around(t, s)
  BY <1>0, <1>1, <1>2 DEF Around
<1>7. s \in owned' /\ BigBlock(s) \notin live' /\ \A d \in Class : s \notin bucket'[d]
  BY <1>0, <1>1, <1>2, <1>4
<1> QED BY <1>1, <1>4, <1>5, <1>6, <1>7, AroundKeeps DEF Step

LEMMA BooksStep == ASSUME Inv, [Next]_vars PROVE HeldOK' /\ Slots' /\ Disjoint'
<1>0. Types'
  BY TypesKeep
<1>1. CASE UNCHANGED vars
  <2>1. UNCHANGED <<spans, owned, live, stranded, chain, cache, span, arg, pc>>
    BY <1>1 DEF vars, calls, caches, blocks, ended
  <2>2. (\A x : Held(x)' <=> Held(x)) /\ Disjoint'
    BY <2>1 DEF Held, Inv, Disjoint
  <2> QED BY <1>0, <2>1, <2>2, BooksKeep
<1>2. ASSUME NEW t \in Thread, End(t) \/ (Step(t) /\ UNCHANGED ended)
      PROVE  HeldOK' /\ Slots' /\ Disjoint'
  <2>1. CASE End(t) \/ (Moves(t) /\ UNCHANGED ended)
    BY <1>0, <2>1, MovesKeepHeld, MovesKeepBooks
  <2>2. CASE UNCHANGED ended /\ \E s \in Slot : NewSpan(t, s)
    BY <1>0, <2>2, NewSpanKeeps
  <2>3. CASE UNCHANGED ended /\ \E s \in Slot : NewBigSpan(t, s)
    BY <1>0, <2>3, NewBigSpanKeeps
  <2>4. CASE UNCHANGED ended /\ (Carve(t) \/ ReturnSpan(t))
    BY <1>0, <2>4, CarveKeeps, ReturnSpanKeeps
  <2>5. CASE UNCHANGED ended /\ (ScanHit(t) \/ Take(t))
    BY <1>0, <2>5, TakeKeeps
  <2>6. CASE UNCHANGED ended /\ \E o \in chain[t] : GiveBack(t, o) \/ GiveBackLast(t, o)
    BY <1>0, <2>6, GiveBackKeeps, GiveBackLastKeeps
  <2>7. CASE UNCHANGED ended /\ \E o \in live : FreeBig(t, o)
    BY <1>0, <2>7, FreeBigKeeps
  <2> QED BY <1>2, <2>1, <2>2, <2>3, <2>4, <2>5, <2>6, <2>7 DEF Step, Moves
<1> QED BY <1>1, <1>2, Steps

-----------------------------------------------------------------------------
(* The contract, and what is counted.                                        *)

\* What a step does to the blocks callers hold.
LEMMA LiveStep ==
    ASSUME Inv, NEW t \in Thread, End(t) \/ (Step(t) /\ UNCHANGED ended)
    PROVE  \/ UNCHANGED blocks
           \/ \E o \in Block : HandOut(o) /\ \A x \in live : ~Overlaps(x, o)
           \/ \E o \in live : GiveIn(o)
<1>1. ASSUME NEW c \in Class, AllocHit(t, c)
      PROVE  \E o \in Block : HandOut(o) /\ \A x \in live : ~Overlaps(x, o)
  <2>1. PICK o \in cache[t][c] : HandOut(o)
    BY <1>1 DEF AllocHit
  <2>2. o \in Block /\ Held(o) /\ o \notin live
    BY DEF Inv, Types, Disjoint, Held
  <2>3. objSize[o.slot] = o.class
    BY <2>2 DEF Inv, HeldOK
  <2>4. \A x \in live : objSize[x.slot] = x.class
    BY LiveClass
  <2> QED BY <2>1, <2>2, <2>3, <2>4 DEF Overlaps
<1>2. CASE (ScanHit(t) \/ Take(t)) /\ UNCHANGED ended
  <2>1. PICK s \in Slot, c \in Class :
           /\ c = arg[t] /\ cache[t][c] = {} /\ objSize[s] = c
           /\ TakeFrom(t, s) /\ UNCHANGED chain
    BY <1>2, TakesFrom
  <2>2. PICK taken, o : Taking(t, s, c, taken, o)
    BY <1>2, <2>1, TakeEffect DEF ended
  <2>3. HandOut(o) /\ o \notin live /\ o \in Block /\ o.slot = s /\ o.class = c
    BY <2>2 DEF Taking, HandOut, Object
  <2>4. \A x \in live : objSize[x.slot] = x.class
    BY LiveClass
  <2> QED BY <2>1, <2>3, <2>4 DEF Overlaps
<1>3. ASSUME NEW s \in Slot, NewBigSpan(t, s)
      PROVE  \E o \in Block : HandOut(o) /\ \A x \in live : ~Overlaps(x, o)
  <2>1. HandOut(BigBlock(s)) /\ s \notin owned
    BY <1>3 DEF NewBigSpan
  <2>2. \A x \in live : x.slot # s
    BY <2>1, LiveClass
  <2> QED BY <2>1, <2>2, Blocks DEF Overlaps
<1> QED BY <1>1, <1>2, <1>3
        DEF Step, AllocMiss, AllocBig, FreeToCache, FreeAndFlush, FreeWithoutCache, FreeBig,
            LockPages, FetchLock, ScanMiss, NewSpan, Carve, Relock, ReleaseLock, ReleaseDone,
            GiveBack, GiveBackLast, ReturnSpan, End, blocks

LEMMA LiveCount ==
    ASSUME Inv, NEW t \in Thread, End(t) \/ (Step(t) /\ UNCHANGED ended)
    PROVE  IsFiniteSet(live') /\ out' = Cardinality(live')
<1>0. IsFiniteSet(live) /\ out = Cardinality(live)
  BY DEF Inv, Counts
<1>1. CASE UNCHANGED blocks
  BY <1>0, <1>1 DEF blocks
<1>2. ASSUME NEW o \in Block, HandOut(o), \A x \in live : ~Overlaps(x, o)
      PROVE  IsFiniteSet(live') /\ out' = Cardinality(live')
  <2>1. o \notin live
    BY <1>2 DEF Overlaps
  <2> QED BY <1>0, <1>2, <2>1, FS_AddElement DEF HandOut
<1>3. ASSUME NEW o \in live, GiveIn(o)
      PROVE  IsFiniteSet(live') /\ out' = Cardinality(live')
  BY <1>0, <1>3, FS_RemoveElement DEF GiveIn
<1> QED BY <1>1, <1>2, <1>3, LiveStep

\* The length of a list, as in Counts.
Shorter(t, c) == IsFiniteSet(cache[t][c]) /\ Cardinality(cache[t][c]) < maxSize[t][c]

LEMMA More ==
    ASSUME NEW S, NEW x, IsFiniteSet(S), Cardinality(S) \in Nat
    PROVE  IsFiniteSet(S \cup {x}) /\ Cardinality(S \cup {x}) <= Cardinality(S) + 1
<1>1. /\ IsFiniteSet(S \cup {x})
      /\ Cardinality(S \cup {x}) = IF x \in S THEN Cardinality(S) ELSE Cardinality(S) + 1
  BY FS_AddElement
<1> QED BY <1>1

\* What the flush takes is the whole list.
LEMMA FlushesList ==
    ASSUME Inv, NEW t \in Thread, NEW o \in live, FreeAndFlush(t, o)
    PROVE  \E c \in Class :
              /\ c = objSize[o.slot]
              /\ chain' = [chain EXCEPT ![t] = cache[t][c] \cup {o}]
              /\ cache' = [cache EXCEPT ![t][c] = {}]
<1>1. PICK c \in Class : c = objSize[o.slot]
  BY LiveClass DEF FreeAndFlush
<1>2. PICK list : list = cache[t][c] \cup {o}
  OBVIOUS
<1>3. PICK flushed \in kSubset(maxSize[t][c], list) :
         /\ chain' = [chain EXCEPT ![t] = flushed]
         /\ cache' = [cache EXCEPT ![t][c] = list \ flushed]
  BY <1>1, <1>2 DEF FreeAndFlush
<1>4. /\ IsFiniteSet(cache[t][c]) /\ Cardinality(cache[t][c]) < maxSize[t][c]
      /\ maxSize[t][c] \in Nat /\ Cardinality(cache[t][c]) \in Nat
  BY Names, FS_CardinalityType DEF Inv, Types, Counts
<1>5. IsFiniteSet(list) /\ Cardinality(list) <= Cardinality(cache[t][c]) + 1
  <2>1. PICK S : S = cache[t][c]
    OBVIOUS
  <2>2. IsFiniteSet(S) /\ Cardinality(S) \in Nat
    BY <1>4, <2>1
  <2>3. IsFiniteSet(S \cup {o}) /\ Cardinality(S \cup {o}) <= Cardinality(S) + 1
    BY <2>2, More
  <2> QED BY <1>2, <2>1, <2>3
<1>6. flushed \subseteq list /\ Cardinality(flushed) = maxSize[t][c]
  BY <1>3 DEF kSubset
<1>7. /\ Cardinality(list) \in Nat /\ Cardinality(flushed) <= Cardinality(list)
      /\ Cardinality(flushed) = Cardinality(list) => flushed = list
  BY <1>5, <1>6, FS_Subset, FS_CardinalityType
<1>8. flushed = list
  BY <1>4, <1>5, <1>6, <1>7
<1> QED BY <1>1, <1>2, <1>3, <1>8

LEMMA OwnShorter ==
    ASSUME Inv, Types', NEW t \in Thread, End(t) \/ (Step(t) /\ UNCHANGED ended), NEW c \in Class
    PROVE  Shorter(t, c)'
<1>0. /\ Types /\ IsFiniteSet(cache[t][c]) /\ Cardinality(cache[t][c]) < maxSize[t][c]
      /\ Cardinality(cache[t][c]) \in Nat /\ maxSize[t][c] \in Nat /\ maxSize'[t][c] \in Nat
      /\ maxSize[t][c] >= 1 /\ maxSize'[t][c] >= 1
  <2>1. /\ Types /\ IsFiniteSet(cache[t][c]) /\ Cardinality(cache[t][c]) < maxSize[t][c]
    BY DEF Inv, Counts
  <2>2. maxSize[t][c] \in 1 .. NumMove + 1 /\ maxSize'[t][c] \in 1 .. NumMove + 1
    BY <2>1 DEF Types
  <2> QED BY <2>1, <2>2, Names, FS_CardinalityType
<1> USE DEF Shorter
<1>1. CASE UNCHANGED <<cache, maxSize>>
  BY <1>0, <1>1
<1>2. ASSUME NEW d \in Class, AllocHit(t, d) PROVE Shorter(t, c)'
  <2>1. PICK o \in cache[t][d] : cache' = [cache EXCEPT ![t][d] = @ \ {o}]
    BY <1>2 DEF AllocHit
  <2>2. maxSize' = maxSize
    BY <1>2 DEF AllocHit
  <2>3. cache'[t][c] = IF c = d THEN cache[t][c] \ {o} ELSE cache[t][c]
    <3>1. cache \in [Thread -> [Class -> SUBSET Block]]
      BY <1>0 DEF Types
    <3>2. cache'[t] = [cache[t] EXCEPT ![d] = @ \ {o}] /\ DOMAIN cache[t] = Class
      BY <2>1, <3>1
    <3> QED BY <3>2
  <2> QED BY <1>0, <2>1, <2>2, <2>3, FS_RemoveElement
<1>3. ASSUME NEW d \in Class, AllocMiss(t, d) PROVE Shorter(t, c)'
  <2>1. cache' = cache /\ maxSize'[t][c] = IF c = d THEN CapAfterMiss(t, c) ELSE maxSize[t][c]
    BY <1>0, <1>3 DEF AllocMiss, Types
  <2>2. CapAfterMiss(t, c) >= maxSize[t][c] /\ CapAfterMiss(t, c) \in Nat
    BY <1>0, SlowStart, Names DEF Inv
  <2> QED BY <1>0, <2>1, <2>2
<1>4. ASSUME NEW o \in live, FreeToCache(t, o) PROVE Shorter(t, c)'
  <2>1. PICK d \in Class : d = objSize[o.slot]
    BY <1>4, LiveClass DEF FreeToCache
  <2>2. /\ cache' = [cache EXCEPT ![t][d] = cache[t][d] \cup {o}] /\ maxSize' = maxSize
        /\ ~(Cardinality(cache[t][d] \cup {o}) >= maxSize[t][d])
    BY <1>4, <2>1 DEF FreeToCache, TooLong
  <2>3. cache'[t][c] = IF c = d THEN cache[t][c] \cup {o} ELSE cache[t][c]
    <3>1. cache \in [Thread -> [Class -> SUBSET Block]]
      BY <1>0 DEF Types
    <3>2. cache'[t] = [cache[t] EXCEPT ![d] = cache[t][d] \cup {o}] /\ DOMAIN cache[t] = Class
      BY <2>2, <3>1
    <3> QED BY <3>2
  <2>4. IsFiniteSet(cache[t][c] \cup {o})
    BY <1>0, FS_AddElement
  <2>5. Cardinality(cache[t][c] \cup {o}) \in Nat
    BY <2>4, FS_CardinalityType
  <2> QED BY <1>0, <2>2, <2>3, <2>4, <2>5
<1>5. ASSUME NEW o \in live, FreeAndFlush(t, o) PROVE Shorter(t, c)'
  <2>1. PICK d \in Class : cache' = [cache EXCEPT ![t][d] = {}]
    BY <1>5, FlushesList
  <2>2. cache'[t][c] = IF c = d THEN {} ELSE cache[t][c]
    <3>1. cache \in [Thread -> [Class -> SUBSET Block]]
      BY <1>0 DEF Types
    <3>2. cache'[t] = [cache[t] EXCEPT ![d] = {}] /\ DOMAIN cache[t] = Class
      BY <2>1, <3>1
    <3> QED BY <3>2
  <2>3. maxSize' = maxSize
    BY <1>5 DEF FreeAndFlush
  <2> QED BY <1>0, <2>2, <2>3, FS_EmptySet
<1>6. CASE ScanHit(t) \/ Take(t)
  <2>1. PICK s \in Slot, d \in Class :
           /\ d = arg[t] /\ cache[t][d] = {} /\ objSize[s] = d
           /\ TakeFrom(t, s) /\ UNCHANGED <<chain, maxSize>>
    BY <1>6, TakesFrom
  <2>2. UNCHANGED stranded
    BY <1>6 DEF ScanHit, Take, ended, End, At
  <2>3. PICK taken, o : Taking(t, s, d, taken, o)
    BY <2>1, <2>2, TakeEffect
  <2>4. /\ IsFiniteSet(taken) /\ Cardinality(taken) <= batch[t] /\ o \in taken
        /\ cache'[t][c] = IF c = d THEN taken \ {o} ELSE cache[t][c]
    BY <2>3 DEF Taking
  <2>5. batch[t] <= maxSize[t][d] /\ batch[t] \in Nat
    BY <1>6, <2>1, Names DEF ScanHit, Take, At, Inv, Types, Phases, PhaseOK, Fetching
  <2>6. IsFiniteSet(taken \ {o}) /\ Cardinality(taken \ {o}) = Cardinality(taken) - 1 /\ Cardinality(taken) \in Nat
    BY <2>4, Less
  <2> QED BY <1>0, <2>1, <2>4, <2>5, <2>6
<1>7. CASE End(t)
  <2>1. cache'[t][c] = {}
    BY <1>7, EndEffect
  <2> QED BY <1>0, <2>1, FS_EmptySet
<1> QED BY <1>1, <1>2, <1>3, <1>4, <1>5, <1>6, <1>7
        DEF Step, AllocBig, FreeWithoutCache, FreeBig, LockPages, FetchLock, ScanMiss, NewSpan, NewBigSpan,
            Carve, Relock, ReleaseLock, ReleaseDone, GiveBack, GiveBackLast, ReturnSpan, caches

LEMMA CountsKeep == ASSUME Inv, [Next]_vars PROVE Counts'
<1>1. CASE UNCHANGED vars
  BY <1>1 DEF vars, caches, blocks, Inv, Counts
<1>2. ASSUME NEW t \in Thread, End(t) \/ (Step(t) /\ UNCHANGED ended) PROVE Counts'
  <2>1. ASSUME NEW u \in Thread, NEW c \in Class PROVE Shorter(u, c)'
    <3>1. CASE u = t
      BY <1>2, <3>1, OwnShorter, TypesKeep
    <3>2. CASE u # t
      BY <1>2, <3>2, OthersSame DEF Same, Inv, Counts, Shorter
    <3> QED BY <3>1, <3>2
  <2> QED BY <1>2, <2>1, LiveCount DEF Counts, Shorter
<1> QED BY <1>1, <1>2, Steps

-----------------------------------------------------------------------------
(* The theorems.                                                             *)

LEMMA InvInit == Init => Inv
<1> SUFFICES ASSUME Init PROVE Inv
  OBVIOUS
<1> USE Names
<1>1. Types
  BY ConstantsAssumption DEF Init, Types, Where
<1>2. Phases
  BY DEF Init, Phases, PhaseOK, Fetching, Asking, Making, Flushing, Returning
<1>3. Classes
  BY DEF Init, Classes
<1>4. \A o : ~Held(o)
  BY DEF Init, Held
<1>5. HeldOK /\ Disjoint
  BY <1>4 DEF Init, HeldOK, Disjoint
<1>6. Slots
  BY DEF Init, Slots, Clean
<1>7. Counts
  BY FS_EmptySet DEF Init, Counts
<1> QED BY <1>1, <1>2, <1>3, <1>5, <1>6, <1>7 DEF Inv

LEMMA InvStep == Inv /\ [Next]_vars => Inv'
BY TypesKeep, PhasesKeep, ClassesKeep, BooksStep, CountsKeep DEF Inv

\* Where every object and every span is, at any moment of any run.
THEOREM Invariance == Spec => []Inv
BY InvInit, InvStep, PTL DEF Spec

\* Every variable keeps its type; in particular _useCount and the number of
\* blocks that are out never fall below zero (CentralCache.cpp:91).
THEOREM TypeCorrectness == Spec => []TypeOK
<1> DEFINE NonNegative == useCount \in [Slot -> Nat]
<1>1. Init => NonNegative
  BY DEF Init
<1>2. Inv /\ NonNegative /\ [Next]_vars => NonNegative'
  <2> SUFFICES ASSUME Inv, NonNegative, [Next]_vars PROVE NonNegative'
    OBVIOUS
  <2>1. CASE UNCHANGED useCount
    BY <2>1
  <2>2. ASSUME NEW t \in Thread, ScanHit(t) \/ Take(t), UNCHANGED ended PROVE NonNegative'
    <3>1. PICK s \in Slot, c \in Class :
           /\ c = arg[t] /\ cache[t][c] = {} /\ objSize[s] = c
           /\ TakeFrom(t, s) /\ UNCHANGED chain
      BY <2>2, TakesFrom
    <3>2. PICK taken, o : Taking(t, s, c, taken, o)
      BY <2>2, <3>1, TakeEffect DEF ended
    <3>3. /\ useCount' = [useCount EXCEPT ![s] = @ + Cardinality(taken)]
          /\ Cardinality(taken) \in Nat
      BY <3>2, FS_CardinalityType DEF Taking
    <3> QED BY <3>3
  <2>3. ASSUME NEW t \in Thread, NEW o \in chain[t], GiveBack(t, o) \/ GiveBackLast(t, o), UNCHANGED ended
        PROVE  NonNegative'
    <3>1. /\ At(t, "giveBack") /\ chain' = [chain EXCEPT ![t] = @ \ {o}]
          /\ useCount' = [useCount EXCEPT ![o.slot] = @ - 1]
          /\ UNCHANGED <<cache, live, stranded>>
      BY <2>3 DEF GiveBack, GiveBackLast, caches, blocks, ended
    <3>2. PICK s \in Slot, c \in Class : s = o.slot /\ InBucket(s, c)
      BY <3>1, GivesBackTo
    <3>3. useCount[o.slot] > 0
      BY <3>2 DEF InBucket
    <3>4. useCount[o.slot] - 1 \in Nat
      BY <3>2, <3>3
    <3> QED BY <3>1, <3>4
  <2>4. ASSUME NEW t \in Thread, End(t) \/ (Step(t) /\ UNCHANGED ended) PROVE NonNegative'
    <3>1. \/ UNCHANGED useCount
          \/ UNCHANGED ended /\ (ScanHit(t) \/ Take(t))
          \/ UNCHANGED ended /\ \E o \in chain[t] : GiveBack(t, o) \/ GiveBackLast(t, o)
      BY <2>4 DEF Step, AllocHit, AllocMiss, AllocBig, FreeToCache, FreeAndFlush, FreeWithoutCache,
                  FreeBig, LockPages, FetchLock, ScanMiss, Relock, ReleaseLock, ReleaseDone,
                  ReturnSpan, End, NewSpan, NewBigSpan, Carve, spans
    <3> QED BY <2>1, <2>2, <2>3, <3>1
  <2>5. UNCHANGED vars => UNCHANGED useCount
    BY DEF vars, spans
  <2> QED BY <2>1, <2>4, <2>5, Steps
<1>3. Inv /\ NonNegative => TypeOK
  BY FS_CardinalityType DEF Inv, Counts, Types, TypeOK, Where
<1> QED BY <1>1, <1>2, <1>3, InvInit, InvStep, PTL DEF Spec

\* A free object is in one place only: in one thread's list, on one chain, on
\* its span's free list or stranded, and never also with a caller
\* (ThreadCache.cpp:16-20, 40-47, 64-78; CentralCache.cpp:58-71, 83-90).
THEOREM Exclusion == Spec => []OnePlace
<1>1. Inv => OnePlace
  <2> SUFFICES ASSUME Inv PROVE OnePlace
    OBVIOUS
  <2>1. ASSUME NEW s \in Slot, NEW o \in spanFree[s], o \in Outstanding(s) PROVE FALSE
    <3>1. o \in Block /\ Held(o) /\ o.slot = s
      BY <2>1, OutstandingIs DEF Inv
    <3> QED BY <2>1, <3>1 DEF Inv, HeldOK
  <2>2. stranded \cap (live \cup Cached \cup GoingBack) = {}
    BY DEF Inv, Disjoint, Cached, GoingBack
  <2> QED BY <2>1, <2>2 DEF Inv, Disjoint, OnePlace
<1> QED BY <1>1, Invariance, PTL

\* Of a carved span every object is on its free list or held, and _useCount is
\* the number of those held (CentralCache.cpp:28-48, 58-71, 83-90).
THEOREM Conservation == Spec => []NothingLost
<1>1. Inv => NothingLost
  <2> SUFFICES ASSUME Inv, NEW s \in Carved
               PROVE  /\ spanFree[s] \cup Outstanding(s) = Object(s, objSize[s])
                      /\ useCount[s] = Cardinality(Outstanding(s))
    BY DEF NothingLost
  <2>0. s \in Slot
    BY DEF Carved
  <2>1. ASSUME NEW c \in Class, s \in bucket[c]
        PROVE  /\ spanFree[s] \cup Outstanding(s) = Object(s, objSize[s])
               /\ useCount[s] = Cardinality(Outstanding(s))
    BY <2>1 DEF Inv, Slots, InBucket
  <2>2. ASSUME NEW t \in Thread, span[t] = s, pc[t] \in {"relock", "take"}
        PROVE  /\ spanFree[s] \cup Outstanding(s) = Object(s, objSize[s])
               /\ useCount[s] = Cardinality(Outstanding(s))
    <3>1. span[t] # None
      BY <2>0, <2>2, Names
    <3>2. \A o \in Block : Held(o) => o.slot # s
      BY <2>0, <2>2, Vacant
    <3>3. Outstanding(s) = {}
      BY <2>0, <3>2, OutstandingIs DEF Inv
    <3>4. /\ objSize[s] = arg[t] /\ spanFree[s] = Object(s, arg[t]) /\ useCount[s] = 0
      BY <2>2, <3>1 DEF Inv, Slots, InHand, Making
    <3> QED BY <3>3, <3>4, FS_EmptySet
  <2> QED BY <2>1, <2>2 DEF Carved, At
<1> QED BY <1>1, Invariance, PTL

\* A span on its way to the PageCache, or with it, is in no bucket and nobody
\* holds an object of it; and no unused span stays in a bucket
\* (CentralCache.cpp:91-104).
THEOREM Idleness == Spec => []ReturnedUnused
<1>1. Inv => ReturnedUnused
  <2> SUFFICES ASSUME Inv PROVE ReturnedUnused
    OBVIOUS
  <2>1. \A c \in Class : \A s \in bucket[c] : useCount[s] > 0
    BY DEF Inv, Slots, InBucket
  <2>2. ASSUME NEW s \in Slot, s \notin owned \/ \E t \in Thread : span[t] = s /\ pc[t] \in {"retLock", "ret"}
        PROVE  Outstanding(s) = {} /\ \A c \in Class : s \notin bucket[c]
    <3>1. /\ \A o \in Block : Held(o) => o.slot # s
          /\ \A c \in Class : s \notin bucket[c]
      <4>1. CASE s \notin owned
        BY <4>1, Vacant
      <4>2. ASSUME NEW t \in Thread, span[t] = s
            PROVE  /\ \A o \in Block : Held(o) => o.slot # s
                   /\ \A c \in Class : s \notin bucket[c]
        BY <4>2, Vacant, Names
      <4> QED BY <2>2, <4>1, <4>2
    <3> QED BY <3>1, OutstandingIs DEF Inv
  <2> QED BY <2>1, <2>2 DEF ReturnedUnused
<1> QED BY <1>1, Invariance, PTL

\* The class a free looks up with no mutex held is the class the object was
\* carved for (ConcurrentAlloc.h:36-37, CentralCache.cpp:25).
THEOREM ClassLookup == Spec => []ClassHolds
<1>1. Inv => ClassHolds
  <2> SUFFICES ASSUME Inv PROVE ClassHolds
    OBVIOUS
  <2>1. \A o \in Block : Held(o) => objSize[o.slot] = o.class
    BY DEF Inv, HeldOK
  <2>2. \A o \in live : objSize[o.slot] = o.class
    BY LiveClass
  <2>3. \A t \in Thread, c \in Class : \A o \in cache[t][c] : o.class = c /\ objSize[o.slot] = c
    <3> SUFFICES ASSUME NEW t \in Thread, NEW c \in Class, NEW o \in cache[t][c]
                 PROVE  o.class = c /\ objSize[o.slot] = c
      OBVIOUS
    <3>1. o \in Block /\ Held(o) /\ o.class = c
      BY DEF Inv, Types, Held, Classes, Of
    <3> QED BY <2>1, <3>1
  <2>4. \A t \in Thread : \A o \in chain[t] : o.class = arg[t] /\ objSize[o.slot] = arg[t]
    <3> SUFFICES ASSUME NEW t \in Thread, NEW o \in chain[t]
                 PROVE  o.class = arg[t] /\ objSize[o.slot] = arg[t]
      OBVIOUS
    <3>1. o \in Block /\ Held(o) /\ o.class = arg[t]
      BY DEF Inv, Types, Held, Classes, Of
    <3> QED BY <2>1, <3>1
  <2> QED BY <2>2, <2>3, <2>4 DEF ClassHolds
<1> QED BY <1>1, Invariance, PTL

\* A thread's list is shorter than its MaxSize between two calls, and MaxSize
\* goes at most one past NumMoveSize (ThreadCache.cpp:26-35, 80-83).
THEOREM Hoarding == Spec => []ShortLists
<1>1. Inv => ShortLists
  BY Names DEF Inv, Types, Counts, ShortLists
<1> QED BY <1>1, Invariance, PTL

\* The objects of a class in the caches of ended threads.
Gone(c) == {o \in stranded : o.class = c}

LEMMA EndStrandsFew ==
    ASSUME Inv, NEW c \in Class, IsFiniteSet(Gone(c)), NEW t \in Thread, End(t)
    PROVE  IsFiniteSet(Gone(c)') /\ Cardinality(Gone(c)') <= Cardinality(Gone(c)) + NumMove
<1>1. PICK G, L : G = Gone(c) /\ L = cache[t][c]
  OBVIOUS
<1>2. Gone(c)' = G \cup L
  <2>1. \A x : x \in stranded' <=> x \in stranded \/ \E d \in Class : x \in cache[t][d]
    BY EndEffect
  <2>2. \A d \in Class : \A x \in cache[t][d] : x.class = d
    BY DEF Inv, Classes, Of
  <2> QED BY <1>1, <2>1, <2>2 DEF Gone
<1>3. IsFiniteSet(G) /\ IsFiniteSet(L) /\ G \cap L = {}
  BY <1>1 DEF Inv, Counts, Disjoint, Gone
<1>4. /\ IsFiniteSet(G \cup L) /\ Cardinality(G \cup L) = Cardinality(G) + Cardinality(L)
      /\ Cardinality(G) \in Nat /\ Cardinality(L) \in Nat
  BY ONLY <1>3, Adds
<1>5. Cardinality(L) <= NumMove
  <2>1. Cardinality(L) < maxSize[t][c] /\ maxSize[t][c] \in 1 .. NumMove + 1
    BY <1>1 DEF Inv, Counts, Types
  <2> QED BY <1>4, <2>1, Names
<1> QED BY <1>1, <1>2, <1>4, <1>5, Names

LEMMA OneMore ==
    ASSUME NEW a \in Nat, NEW b \in Nat
    PROVE  (a + 1) * b = a * b + b /\ a * b \in Nat
OBVIOUS

\* Every thread that ends takes at most NumMoveSize objects of a class with it
\* for good (ConcurrentAlloc.h:28-31; ThreadCache.cpp:32-35, 80-83).
THEOREM Stranding == Spec => []StrandedFew
<1> DEFINE Few == \A c \in Class : IsFiniteSet(Gone(c)) /\ Cardinality(Gone(c)) <= ends * NumMove
<1>1. Init => Few
  <2> SUFFICES ASSUME Init, NEW c \in Class
               PROVE  IsFiniteSet(Gone(c)) /\ Cardinality(Gone(c)) <= ends * NumMove
    OBVIOUS
  <2>1. Gone(c) = {} /\ ends = 0
    BY DEF Init, Gone
  <2>2. ends * NumMove = 0
    BY <2>1, Names
  <2> QED BY <2>1, <2>2, FS_EmptySet
<1>2. Inv /\ Few /\ [Next]_vars => Few'
  <2> SUFFICES ASSUME Inv, Few, [Next]_vars, NEW c \in Class
               PROVE  IsFiniteSet(Gone(c)') /\ Cardinality(Gone(c)') <= ends' * NumMove
    OBVIOUS
  <2>1. CASE UNCHANGED ended
    BY <2>1 DEF ended, Gone
  <2>2. ASSUME NEW t \in Thread, End(t)
        PROVE  IsFiniteSet(Gone(c)') /\ Cardinality(Gone(c)') <= ends' * NumMove
    <3>1. IsFiniteSet(Gone(c)) /\ Cardinality(Gone(c)) <= ends * NumMove
      OBVIOUS
    <3>2. IsFiniteSet(Gone(c)') /\ Cardinality(Gone(c)') <= Cardinality(Gone(c)) + NumMove
      BY <2>2, <3>1, EndStrandsFew
    <3>3. ends' = ends + 1 /\ ends \in Nat
      BY <2>2, Names DEF End, Inv, Types
    <3>4. ends' * NumMove = ends * NumMove + NumMove /\ ends * NumMove \in Nat
      BY <3>3, Names, OneMore
    <3>5. Cardinality(Gone(c)) \in Nat /\ Cardinality(Gone(c)') \in Nat
      BY <3>1, <3>2, FS_CardinalityType
    <3> HIDE DEF Few
    <3> QED BY <3>1, <3>2, <3>4, <3>5, Names
  <2>3. UNCHANGED vars => UNCHANGED ended
    BY DEF vars, ended
  <2> QED BY <2>1, <2>2, <2>3, Steps
<1>3. Few => StrandedFew
  BY DEF StrandedFew, Gone
<1> QED BY <1>1, <1>2, <1>3, InvInit, InvStep, PTL DEF Spec

\* ListTooLong hands over the whole list (Common.h:152-157,
\* ThreadCache.cpp:80-83).
THEOREM WholeLists == Spec => FlushesAll
<1> DEFINE Whole == \A t \in Thread : chain[t] = {} /\ chain'[t] # {} => cache'[t][arg'[t]] = {}
<1>1. Inv /\ [Next]_vars => [Whole]_vars
  <2> SUFFICES ASSUME Inv, [Next]_vars, NEW u \in Thread, chain[u] = {}, chain'[u] # {}
               PROVE  cache'[u][arg'[u]] = {}
    OBVIOUS
  <2>1. PICK t \in Thread : End(t) \/ (Step(t) /\ UNCHANGED ended)
    BY Steps DEF vars, calls
  <2>2. u = t
    BY <2>1, OthersSame DEF Same
  <2>3. \E o \in live : FreeAndFlush(t, o)
    BY <2>1, <2>2
       DEF Step, AllocHit, AllocMiss, AllocBig, FreeToCache, FreeWithoutCache, FreeBig, LockPages,
           FetchLock, ScanHit, ScanMiss, NewSpan, NewBigSpan, Carve, Relock, Take, ReleaseLock,
           ReleaseDone, GiveBack, GiveBackLast, ReturnSpan, End, calls
  <2>4. PICK o \in live : FreeAndFlush(t, o)
    BY <2>3
  <2>5. PICK c \in Class : c = objSize[o.slot] /\ cache' = [cache EXCEPT ![t][c] = {}]
    BY <2>4, FlushesList
  <2>6. arg'[t] = c /\ cache'[t][c] = {}
    BY <2>4, <2>5 DEF FreeAndFlush, Inv, Types
  <2> QED BY <2>2, <2>6
<1> QED BY <1>1, Invariance, PTL DEF Spec, FlushesAll

\* Blocks handed out never overlap, and each goes back once: the allocator
\* keeps the contract of ConcurrentAlloc and ConcurrentFree (verify.cpp:12-25).
THEOREM Refinement == Spec => ImplementsMalloc
<1>1. Init => Contract!MallocInit
  BY DEF Init, Contract!MallocInit
<1>2. Inv /\ [Next]_vars => [Contract!MallocNext]_<<live, out>>
  <2> SUFFICES ASSUME Inv, [Next]_vars PROVE [Contract!MallocNext]_<<live, out>>
    OBVIOUS
  <2>1. CASE UNCHANGED vars
    BY <2>1 DEF vars, blocks
  <2>2. ASSUME NEW t \in Thread, End(t) \/ (Step(t) /\ UNCHANGED ended)
        PROVE  [Contract!MallocNext]_<<live, out>>
    <3>1. CASE UNCHANGED blocks
      BY <3>1 DEF blocks
    <3>2. ASSUME NEW o \in Block, HandOut(o), \A x \in live : ~Overlaps(x, o)
          PROVE  Contract!MallocNext
      <4>1. o \in live' /\ Contract!Alloc(o)
        BY <3>2 DEF HandOut, Contract!Alloc
      <4> QED BY <4>1 DEF Contract!MallocNext
    <3>3. ASSUME NEW o \in live, GiveIn(o) PROVE Contract!MallocNext
      <4>1. Contract!Free(o)
        BY <3>3 DEF GiveIn, Contract!Free
      <4> QED BY <4>1 DEF Contract!MallocNext
    <3> QED BY <2>2, <3>1, <3>2, <3>3, LiveStep
  <2> QED BY <2>1, <2>2, Steps
<1> QED BY <1>1, <1>2, Invariance, PTL DEF Spec, ImplementsMalloc, Contract!MallocSpec

-----------------------------------------------------------------------------
(* Calls end.                                                                *)

\* What of a call is left: a round of ReleaseListToSpans's loop for every object
\* that still goes back, and the steps from where the thread is.
Position == [idle |-> 0, assert |-> 0, take |-> 1, relock |-> 2, carve |-> 3, new |-> 4, newLock |-> 5,
             scan |-> 6, fetch |-> 7, giveBack |-> 1, release |-> 2, ret |-> 3, retLock |-> 4]
CallLeft(t) == 5 * Cardinality(chain[t]) + Position[pc[t]]
CallsShorten ==
    [][\E t \in Thread :
          /\ At(t, "idle") \/ CallLeft(t)' < CallLeft(t)
          /\ \A u \in Thread \ {t} : CallLeft(u)' = CallLeft(u)]_vars

\* Where a step within a call leads, other than along the chain.
Ways == {<<"fetch", "scan">>, <<"scan", "idle">>, <<"scan", "newLock">>, <<"newLock", "new">>,
         <<"new", "idle">>, <<"new", "carve">>, <<"carve", "relock">>, <<"relock", "take">>,
         <<"take", "idle">>, <<"retLock", "ret">>, <<"ret", "release">>, <<"ret", "idle">>,
         <<"release", "giveBack">>, <<"giveBack", "idle">>}

LEMMA Goes ==
    ASSUME Inv, NEW t \in Thread, End(t) \/ Step(t), pc[t] # "idle"
    PROVE  \/ <<pc[t], pc'[t]>> \in Ways /\ chain'[t] = chain[t]
           \/ \E o \in chain[t] : /\ pc[t] = "giveBack" /\ pc'[t] \in {"giveBack", "retLock"}
                                  /\ chain'[t] = chain[t] \ {o}
<1>0. Types /\ (\A where : Goto(t, where) => pc'[t] = where) /\ (Return(t) => pc'[t] = "idle")
  BY DEF Goto, Return, Inv, Types
<1>1. ASSUME NEW o \in chain[t], GiveBack(t, o) \/ GiveBackLast(t, o)
      PROVE  /\ pc[t] = "giveBack" /\ pc'[t] \in {"giveBack", "retLock"}
             /\ chain'[t] = chain[t] \ {o}
  <2>1. CASE GiveBack(t, o)
    BY <1>0, <2>1 DEF GiveBack, At, Types
  <2>2. CASE GiveBackLast(t, o)
    BY <1>0, <2>2 DEF GiveBackLast, At, Types
  <2> QED BY <1>1, <2>1, <2>2
<1>2. CASE LockPages(t)
  BY <1>0, <1>2 DEF LockPages, At, Ways
<1>3. CASE FetchLock(t) \/ ScanMiss(t) \/ Relock(t) \/ ReleaseLock(t)
  BY <1>0, <1>3 DEF FetchLock, ScanMiss, Relock, ReleaseLock, At, Ways
<1>4. CASE ScanHit(t) \/ Take(t)
  BY <1>0, <1>4 DEF ScanHit, Take, TakeFrom, At, Ways
<1>5. ASSUME NEW s \in Slot, NewSpan(t, s) \/ NewBigSpan(t, s)
      PROVE  <<pc[t], pc'[t]>> \in Ways /\ chain'[t] = chain[t]
  BY <1>0, <1>5 DEF NewSpan, NewBigSpan, At, Ways
<1>6. CASE Carve(t)
  BY <1>0, <1>6 DEF Carve, At, Ways
<1>7. CASE ReleaseDone(t)
  BY <1>0, <1>7 DEF ReleaseDone, At, Ways
<1>8. CASE ReturnSpan(t)
  BY <1>0, <1>8 DEF ReturnSpan, At, Ways
<1> QED BY <1>1, <1>2, <1>3, <1>4, <1>5, <1>6, <1>7, <1>8
        DEF Step, AllocHit, AllocMiss, AllocBig, FreeToCache, FreeAndFlush, FreeWithoutCache, FreeBig,
            End, Enter, At

\* A chain is of one class, and a class has finitely many objects.
LEMMA ChainsFinite ==
    ASSUME Inv, NEW t \in Thread
    PROVE  IsFiniteSet(chain[t])
<1>1. CASE chain[t] = {}
  BY <1>1, FS_EmptySet
<1>2. CASE chain[t] # {}
  <2>1. PICK c : c = arg[t] /\ chain[t] \subseteq Of(c)
    BY DEF Inv, Classes
  <2> DEFINE f == [x \in Slot \X Place |-> [slot |-> x[1], class |-> c, place |-> x[2]]]
  <2>2. f \in [Slot \X Place -> Of(c)]
    BY DEF Of
  <2>3. \A o \in Of(c) : \E x \in Slot \X Place : f[x] = o
    <3> TAKE o \in Of(c)
    <3>1. <<o.slot, o.place>> \in Slot \X Place /\ o = [slot |-> o.slot, class |-> c, place |-> o.place]
      BY DEF Of
    <3> QED BY <3>1
  <2>4. f \in Surjection(Slot \X Place, Of(c))
    BY <2>2, <2>3 DEF Surjection
  <2>5. IsFiniteSet(Slot \X Place)
    BY Names, FS_Product
  <2>6. IsFiniteSet(Of(c))
    BY <2>4, <2>5, FS_Surjection
  <2> QED BY <2>1, <2>6, FS_Subset
<1> QED BY <1>1, <1>2

\* Every step begins a call or brings one nearer its end, and none sets another
\* back: the loop over the list that is given back (CentralCache.cpp:83-108) ends
\* though it lets go of the bucket in the middle, and so does every call.
THEOREM CallsEnd == Spec => CallsShorten
<1>1. ASSUME Inv, NEW t \in Thread, End(t) \/ Step(t)
      PROVE  /\ At(t, "idle") \/ CallLeft(t)' < CallLeft(t)
             /\ \A u \in Thread \ {t} : CallLeft(u)' = CallLeft(u)
  <2>1. \A u \in Thread \ {t} : CallLeft(u)' = CallLeft(u)
    BY <1>1, OthersSame DEF Same, CallLeft
  <2>2. ASSUME pc[t] # "idle" PROVE CallLeft(t)' < CallLeft(t)
    <3>1. Cardinality(chain[t]) \in Nat
      BY <1>1, ChainsFinite, FS_CardinalityType
    <3>2. CASE <<pc[t], pc'[t]>> \in Ways /\ chain'[t] = chain[t]
      <4>1. Position[pc[t]] \in Nat /\ Position[pc'[t]] \in Nat /\ Position[pc'[t]] < Position[pc[t]]
        BY <3>2 DEF Ways, Position
      <4> HIDE DEF Position
      <4> QED BY <3>1, <3>2, <4>1 DEF CallLeft
    <3>3. ASSUME NEW o \in chain[t], pc[t] = "giveBack", pc'[t] \in {"giveBack", "retLock"},
                 chain'[t] = chain[t] \ {o}
          PROVE  CallLeft(t)' < CallLeft(t)
      <4>1. Cardinality(chain'[t]) = Cardinality(chain[t]) - 1
        BY <1>1, <3>3, ChainsFinite, FS_RemoveElement
      <4>2. Position[pc[t]] = 1 /\ Position[pc'[t]] \in Nat /\ Position[pc'[t]] <= 4
        BY <3>3 DEF Position
      <4> HIDE DEF Position
      <4> QED BY <3>1, <4>1, <4>2 DEF CallLeft
    <3> QED BY <1>1, <2>2, <3>2, <3>3, Goes
  <2> QED BY <2>1, <2>2 DEF At
<1>2. Inv /\ [Next]_vars =>
          [\E t \in Thread : /\ At(t, "idle") \/ CallLeft(t)' < CallLeft(t)
                             /\ \A u \in Thread \ {t} : CallLeft(u)' = CallLeft(u)]_vars
  BY <1>1, Steps
<1> QED BY <1>2, Invariance, PTL DEF Spec, CallsShorten

-----------------------------------------------------------------------------
(* Nobody waits for ever for a mutex.                                        *)

HasBucket(t) == pc[t] \in {"scan", "take", "giveBack"}
HasPages(t) == pc[t] \in {"new", "ret"}

\* Each mutex is held by the one thread that is inside its critical section.
Mutexes ==
    /\ \A t \in Thread, c \in Class : bucketOwner[c] = t <=> HasBucket(t) /\ arg[t] = c
    /\ \A t \in Thread : pageOwner = t <=> HasPages(t)

\* There is a slot for every thread that has asked for one, as RoomLeft ensures.
Room == IsFiniteSet(Seeking) /\ Cardinality(Seeking) <= Cardinality(Slot \ owned)

LEMMA OwnBucket ==
    ASSUME Inv, NEW t \in Thread, End(t) \/ Step(t)
    PROVE  \/ /\ bucketOwner' = bucketOwner
              /\ HasBucket(t)' <=> HasBucket(t)
              /\ HasBucket(t) => arg'[t] = arg[t]
           \/ /\ ~HasBucket(t) /\ HasBucket(t)' /\ arg'[t] = arg[t]
              /\ bucketOwner[arg[t]] = None
              /\ bucketOwner' = [bucketOwner EXCEPT ![arg[t]] = t]
           \/ /\ HasBucket(t) /\ ~HasBucket(t)'
              /\ bucketOwner' = [bucketOwner EXCEPT ![arg[t]] = None]
<1>0. Types /\ (\A where : Goto(t, where) => pc'[t] = where) /\ (Return(t) => pc'[t] = "idle")
  BY DEF Goto, Return, Inv, Types
<1> USE DEF HasBucket, At
<1>1. CASE End(t)
  BY <1>1 DEF End, locks, calls
<1>2. ASSUME NEW c \in Class, AllocHit(t, c) \/ AllocMiss(t, c)
      PROVE  bucketOwner' = bucketOwner /\ ~HasBucket(t) /\ ~HasBucket(t)'
  BY <1>0, <1>2 DEF AllocHit, AllocMiss, Enter, locks, calls
<1>3. CASE AllocBig(t)
  BY <1>0, <1>3 DEF AllocBig, Enter, locks
<1>4. ASSUME NEW o \in live,
             FreeToCache(t, o) \/ FreeAndFlush(t, o) \/ FreeWithoutCache(t, o) \/ FreeBig(t, o)
      PROVE  bucketOwner' = bucketOwner /\ ~HasBucket(t) /\ ~HasBucket(t)'
  <2>1. bucketOwner' = bucketOwner
    BY <1>4 DEF FreeToCache, FreeAndFlush, FreeWithoutCache, FreeBig, locks
  <2>2. pc[t] = "idle" /\ pc'[t] \in {"idle", "release", "assert", "retLock"}
    BY <1>0, <1>4 DEF FreeToCache, FreeAndFlush, FreeWithoutCache, FreeBig, Enter, calls
  <2> QED BY <2>1, <2>2
<1>5. CASE FetchLock(t) \/ Relock(t) \/ ReleaseLock(t)
  BY <1>0, <1>5 DEF FetchLock, Relock, ReleaseLock, LockBucket
<1>6. CASE ScanMiss(t) \/ ReleaseDone(t)
  BY <1>0, <1>6 DEF ScanMiss, ReleaseDone, UnlockBucket
<1>7. CASE ScanHit(t) \/ Take(t)
  BY <1>0, <1>7 DEF ScanHit, Take, TakeFrom, UnlockBucket
<1>8. CASE LockPages(t) \/ Carve(t) \/ ReturnSpan(t)
  BY <1>0, <1>8 DEF LockPages, Carve, ReturnSpan, locks
<1>9. ASSUME NEW s \in Slot, NewSpan(t, s) \/ NewBigSpan(t, s)
      PROVE  bucketOwner' = bucketOwner /\ ~HasBucket(t) /\ ~HasBucket(t)'
  BY <1>0, <1>9 DEF NewSpan, NewBigSpan
<1>10. ASSUME NEW o \in chain[t], GiveBack(t, o)
       PROVE  bucketOwner' = bucketOwner /\ pc' = pc /\ arg' = arg
  BY <1>10 DEF GiveBack, locks
<1>11. ASSUME NEW o \in chain[t], GiveBackLast(t, o)
       PROVE  /\ HasBucket(t) /\ ~HasBucket(t)'
              /\ bucketOwner' = [bucketOwner EXCEPT ![arg[t]] = None]
  BY <1>0, <1>11 DEF GiveBackLast, UnlockBucket
<1> QED BY <1>1, <1>2, <1>3, <1>4, <1>5, <1>6, <1>7, <1>8, <1>9, <1>10, <1>11 DEF Step

LEMMA OwnPages ==
    ASSUME Inv, NEW t \in Thread, End(t) \/ Step(t)
    PROVE  \/ pageOwner' = pageOwner /\ (HasPages(t)' <=> HasPages(t))
           \/ ~HasPages(t) /\ HasPages(t)' /\ pageOwner = None /\ pageOwner' = t
           \/ HasPages(t) /\ ~HasPages(t)' /\ pageOwner' = None
<1>0. Types /\ (\A where : Goto(t, where) => pc'[t] = where) /\ (Return(t) => pc'[t] = "idle")
  BY DEF Goto, Return, Inv, Types
<1> USE DEF HasPages, At
<1>1. CASE End(t)
  BY <1>1 DEF End, locks, calls
<1>2. ASSUME NEW c \in Class, AllocHit(t, c) \/ AllocMiss(t, c)
      PROVE  pageOwner' = pageOwner /\ ~HasPages(t) /\ ~HasPages(t)'
  BY <1>0, <1>2 DEF AllocHit, AllocMiss, Enter, locks, calls
<1>3. CASE AllocBig(t)
  BY <1>0, <1>3 DEF AllocBig, Enter, locks
<1>4. ASSUME NEW o \in live,
             FreeToCache(t, o) \/ FreeAndFlush(t, o) \/ FreeWithoutCache(t, o) \/ FreeBig(t, o)
      PROVE  pageOwner' = pageOwner /\ ~HasPages(t) /\ ~HasPages(t)'
  <2>1. pageOwner' = pageOwner
    BY <1>4 DEF FreeToCache, FreeAndFlush, FreeWithoutCache, FreeBig, locks
  <2>2. pc[t] = "idle" /\ pc'[t] \in {"idle", "release", "assert", "retLock"}
    BY <1>0, <1>4 DEF FreeToCache, FreeAndFlush, FreeWithoutCache, FreeBig, Enter, calls
  <2> QED BY <2>1, <2>2
<1>5. CASE FetchLock(t) \/ Relock(t) \/ ReleaseLock(t) \/ ScanMiss(t) \/ ReleaseDone(t)
  BY <1>0, <1>5 DEF FetchLock, Relock, ReleaseLock, ScanMiss, ReleaseDone
<1>6. CASE ScanHit(t) \/ Take(t)
  BY <1>0, <1>6 DEF ScanHit, Take, TakeFrom
<1>7. CASE LockPages(t)
  BY <1>0, <1>7 DEF LockPages
<1>8. CASE Carve(t)
  BY <1>0, <1>8 DEF Carve, locks
<1>9. CASE ReturnSpan(t)
  BY <1>0, <1>9 DEF ReturnSpan, UnlockPages
<1>10. ASSUME NEW s \in Slot, NewSpan(t, s) \/ NewBigSpan(t, s)
       PROVE  HasPages(t) /\ ~HasPages(t)' /\ pageOwner' = None
  BY <1>0, <1>10 DEF NewSpan, NewBigSpan, UnlockPages
<1>11. ASSUME NEW o \in chain[t], GiveBack(t, o) \/ GiveBackLast(t, o)
       PROVE  pageOwner' = pageOwner /\ ~HasPages(t) /\ ~HasPages(t)'
  BY <1>0, <1>11 DEF GiveBack, GiveBackLast, locks
<1> QED BY <1>1, <1>2, <1>3, <1>4, <1>5, <1>6, <1>7, <1>8, <1>9, <1>10, <1>11 DEF Step

LEMMA MutexesKeep == ASSUME Inv, Mutexes, [Next]_vars PROVE Mutexes'
<1>1. CASE UNCHANGED vars
  BY <1>1 DEF vars, calls, locks, Mutexes, HasBucket, HasPages
<1>2. ASSUME NEW t \in Thread, End(t) \/ Step(t) PROVE Mutexes'
  <2>1. \A u \in Thread : u # t => pc'[u] = pc[u] /\ arg'[u] = arg[u]
    BY <1>2, OthersSame DEF Same
  <2>2. bucketOwner \in [Class -> Thread \cup {None}] /\ None \notin Thread
    BY Names DEF Inv, Types
  <2>3. ASSUME NEW u \in Thread, NEW c \in Class
        PROVE  bucketOwner'[c] = u <=> HasBucket(u)' /\ arg'[u] = c
    <3>1. CASE u = t
      BY <1>2, <2>2, <3>1, OwnBucket DEF Mutexes
    <3>2. CASE u # t
      <4>1. HasBucket(u)' <=> HasBucket(u)
        BY <2>1, <3>2 DEF HasBucket
      <4>2. HasBucket(t) => (bucketOwner[c] = t <=> arg[t] = c)
        BY DEF Mutexes
      <4> QED BY <1>2, <2>1, <2>2, <3>2, <4>1, <4>2, OwnBucket DEF Mutexes
    <3> QED BY <3>1, <3>2
  <2>4. ASSUME NEW u \in Thread
        PROVE  pageOwner' = u <=> HasPages(u)'
    <3>1. CASE u = t
      BY <1>2, <2>2, <3>1, OwnPages DEF Mutexes
    <3>2. CASE u # t
      <4>1. HasPages(u)' <=> HasPages(u)
        BY <2>1, <3>2 DEF HasPages
      <4> QED BY <1>2, <2>2, <3>2, <4>1, OwnPages DEF Mutexes
    <3> QED BY <3>1, <3>2
  <2> QED BY <2>3, <2>4 DEF Mutexes
<1> QED BY <1>1, <1>2, Steps

\* A bucket's spans, its free lists and counts are touched by the holder of the
\* bucket's mutex, page runs by the holder of the page cache's: at any time at
\* most one thread is inside GetOneSpan or ReleaseListToSpans for one class, and
\* one in NewSpan or ReleaseSpanToPageCache (CentralCache.cpp:19-26, 42, 53-71,
\* 81-107; ConcurrentAlloc.h:17-21, 41-44).
THEOREM MutualExclusion == Spec => []Mutexes
<1>1. Init => Mutexes
  BY Names DEF Init, Mutexes, HasBucket, HasPages
<1> QED BY <1>1, MutexesKeep, Invariance, PTL DEF Spec

\* What a mutex guards changes in the hands of its holder: the spans of a bucket
\* and what they have free and in use, but for a span that is in the one
\* thread's hands and in no bucket; the page runs, and with them the class
\* that is written into a span before anybody can look it up.
Guarded ==
    [][\E t \in Thread :
          /\ \A c \in Class : bucket'[c] # bucket[c] => bucketOwner[c] = t
          /\ \A s \in Slot : spanFree'[s] # spanFree[s] \/ useCount'[s] # useCount[s] =>
                span[t] = s \/ \E c \in Class : s \in bucket[c] /\ bucketOwner[c] = t
          /\ \A s \in Slot : objSize'[s] # objSize[s] => s \notin owned /\ pageOwner = t
          /\ owned' # owned => pageOwner = t]_vars

LEMMA OwnSpans ==
    ASSUME Inv, NEW t \in Thread, End(t) \/ Step(t)
    PROVE  /\ \A c \in Class : bucket'[c] # bucket[c] => HasBucket(t) /\ arg[t] = c
           /\ \A s \in Slot : spanFree'[s] # spanFree[s] \/ useCount'[s] # useCount[s] =>
                \/ span[t] = s
                \/ HasBucket(t) /\ arg[t] \in Class /\ s \in bucket[arg[t]]
           /\ \A s \in Slot : objSize'[s] # objSize[s] => s \notin owned /\ HasPages(t)
           /\ owned' # owned => HasPages(t)
<1>0. Types /\ (pc[t] \in {"scan", "giveBack"} => arg[t] \in Class)
  BY DEF Inv, Phases, PhaseOK, Fetching, Flushing
<1> USE DEF HasBucket, HasPages, At
<1>1. CASE UNCHANGED <<spans, owned>>
  BY <1>1 DEF spans
<1>2. CASE ScanHit(t)
  BY <1>0, <1>2 DEF ScanHit, TakeFrom, Types
<1>3. CASE Take(t)
  BY <1>0, <1>3 DEF Take, TakeFrom, Types
<1>4. ASSUME NEW s \in Slot, NewSpan(t, s) \/ NewBigSpan(t, s)
      PROVE  /\ bucket' = bucket /\ spanFree' = spanFree /\ useCount' = useCount
             /\ s \notin owned /\ HasPages(t) /\ \A r \in Slot \ {s} : objSize'[r] = objSize[r]
  BY <1>0, <1>4 DEF NewSpan, NewBigSpan, Types
<1>5. CASE Carve(t)
  BY <1>0, <1>5 DEF Carve, Types
<1>6. CASE ReturnSpan(t)
  BY <1>6 DEF ReturnSpan, spans
<1>7. ASSUME NEW o \in chain[t], GiveBack(t, o) \/ GiveBackLast(t, o)
      PROVE  /\ objSize' = objSize /\ owned' = owned /\ HasBucket(t)
             /\ arg[t] \in Class /\ o.slot \in bucket[arg[t]]
             /\ \A c \in Class : c # arg[t] => bucket'[c] = bucket[c]
             /\ \A s \in Slot : s # o.slot => spanFree'[s] = spanFree[s] /\ useCount'[s] = useCount[s]
  <2>1. HasBucket(t) /\ arg[t] \in Class
    BY <1>0, <1>7 DEF GiveBack, GiveBackLast
  <2>2. o \in Of(arg[t]) /\ Held(o)
    BY <1>7 DEF Inv, Classes, Held
  <2>3. o.slot \in bucket[arg[t]]
    BY <2>1, <2>2, Blocks DEF Inv, HeldOK, Of
  <2> QED BY <1>0, <1>7, <2>1, <2>3 DEF GiveBack, GiveBackLast, Types
<1>8. CASE LockPages(t) \/ FetchLock(t) \/ ScanMiss(t) \/ Relock(t) \/ ReleaseLock(t) \/ ReleaseDone(t) \/ End(t)
  BY <1>1, <1>8 DEF LockPages, FetchLock, ScanMiss, Relock, ReleaseLock, ReleaseDone, End
<1>9. (\E c \in Class : AllocHit(t, c) \/ AllocMiss(t, c)) \/ AllocBig(t) => UNCHANGED <<spans, owned>>
  BY DEF AllocHit, AllocMiss, AllocBig
<1>10. ASSUME NEW o \in live,
              FreeToCache(t, o) \/ FreeAndFlush(t, o) \/ FreeWithoutCache(t, o) \/ FreeBig(t, o)
       PROVE  UNCHANGED <<spans, owned>>
  BY <1>10 DEF FreeToCache, FreeAndFlush, FreeWithoutCache, FreeBig
<1> QED BY <1>1, <1>2, <1>3, <1>4, <1>5, <1>6, <1>7, <1>8, <1>9, <1>10 DEF Step

\* No bucket, span or set of page runs changes outside the mutex that is there
\* for it (CentralCache.cpp:19-44, 53-71, 81-107; ConcurrentAlloc.h:17-21, 41-44),
\* although a span changes hands between the two kinds of mutex twice
\* in its life.
THEOREM LockDiscipline == Spec => Guarded
<1>1. ASSUME Inv, Mutexes, NEW t \in Thread, End(t) \/ Step(t)
      PROVE  /\ \A c \in Class : bucket'[c] # bucket[c] => bucketOwner[c] = t
             /\ \A s \in Slot : spanFree'[s] # spanFree[s] \/ useCount'[s] # useCount[s] =>
                   span[t] = s \/ \E c \in Class : s \in bucket[c] /\ bucketOwner[c] = t
             /\ \A s \in Slot : objSize'[s] # objSize[s] => s \notin owned /\ pageOwner = t
             /\ owned' # owned => pageOwner = t
  BY <1>1, OwnSpans DEF Mutexes
<1>2. Inv /\ Mutexes /\ [Next]_vars =>
        [\E t \in Thread :
          /\ \A c \in Class : bucket'[c] # bucket[c] => bucketOwner[c] = t
          /\ \A s \in Slot : spanFree'[s] # spanFree[s] \/ useCount'[s] # useCount[s] =>
                span[t] = s \/ \E c \in Class : s \in bucket[c] /\ bucketOwner[c] = t
          /\ \A s \in Slot : objSize'[s] # objSize[s] => s \notin owned /\ pageOwner = t
          /\ owned' # owned => pageOwner = t]_vars
  BY <1>1, Steps
<1> QED BY <1>2, Invariance, MutualExclusion, PTL DEF Spec, Guarded

LEMMA OwnSeeking ==
    ASSUME Inv, NEW t \in Thread, End(t) \/ Step(t)
    PROVE  \/ owned' \subseteq owned /\ Seeking' \subseteq Seeking
           \/ /\ t \notin Seeking /\ Seeking' = Seeking \cup {t}
              /\ RoomLeft /\ owned' = owned
           \/ /\ t \in Seeking /\ Seeking' = Seeking \ {t}
              /\ \E s \in Slot \ owned : owned' = owned \cup {s}
<1> DEFINE Where4 == {"fetch", "scan", "newLock", "new"}
<1>0. Types /\ (\A where : Goto(t, where) => pc'[t] = where) /\ (Return(t) => pc'[t] = "idle")
  BY DEF Goto, Return, Inv, Types
<1>1. \A u \in Thread : u # t => pc'[u] = pc[u]
  BY OthersSame DEF Same
<1>2. /\ t \in Seeking <=> pc[t] \in Where4
      /\ (pc'[t] \in Where4 => pc[t] \in Where4) => Seeking' \subseteq Seeking
      /\ pc'[t] \in Where4 => Seeking' = Seeking \cup {t}
      /\ pc'[t] \notin Where4 => Seeking' = Seeking \ {t}
  BY <1>1 DEF Seeking
<1> HIDE DEF Seeking
<1> USE DEF At
<1>3. CASE AllocBig(t) \/ \E c \in Class : AllocMiss(t, c)
  BY <1>0, <1>2, <1>3 DEF AllocBig, AllocMiss, Enter
<1>4. CASE \E s \in Slot : NewSpan(t, s) \/ NewBigSpan(t, s)
  BY <1>0, <1>2, <1>4 DEF NewSpan, NewBigSpan
<1>5. ASSUME owned' \subseteq owned, pc'[t] \in Where4 => pc[t] \in Where4
      PROVE  owned' \subseteq owned /\ Seeking' \subseteq Seeking
  BY <1>2, <1>5
<1>6. CASE End(t) \/ \E c \in Class : AllocHit(t, c)
  BY <1>5, <1>6 DEF End, AllocHit, calls
<1>7. ASSUME NEW o \in live,
             FreeToCache(t, o) \/ FreeAndFlush(t, o) \/ FreeWithoutCache(t, o) \/ FreeBig(t, o)
      PROVE  owned' \subseteq owned /\ Seeking' \subseteq Seeking
  BY <1>0, <1>5, <1>7 DEF FreeToCache, FreeAndFlush, FreeWithoutCache, FreeBig, Enter, calls
<1>8. CASE LockPages(t) \/ FetchLock(t) \/ ScanMiss(t) \/ Relock(t) \/ ReleaseLock(t) \/ ReleaseDone(t)
  BY <1>0, <1>5, <1>8 DEF LockPages, FetchLock, ScanMiss, Relock, ReleaseLock, ReleaseDone
<1>9. CASE ScanHit(t) \/ Take(t) \/ Carve(t) \/ ReturnSpan(t)
  BY <1>0, <1>5, <1>9 DEF ScanHit, Take, TakeFrom, Carve, ReturnSpan
<1>10. ASSUME NEW o \in chain[t], GiveBack(t, o) \/ GiveBackLast(t, o)
       PROVE  owned' \subseteq owned /\ Seeking' \subseteq Seeking
  BY <1>0, <1>5, <1>10 DEF GiveBack, GiveBackLast
<1> QED BY <1>3, <1>4, <1>6, <1>7, <1>8, <1>9, <1>10 DEF Step

LEMMA RoomKeeps == ASSUME Inv, Room, [Next]_vars PROVE Room'
<1>1. CASE UNCHANGED vars
  BY <1>1 DEF vars, calls, Room, Seeking
<1>2. ASSUME NEW t \in Thread, End(t) \/ Step(t) PROVE Room'
  <2> DEFINE F == Slot \ owned
             G == Slot \ owned'
  <2>1. /\ IsFiniteSet(F) /\ IsFiniteSet(G) /\ IsFiniteSet(Seeking)
        /\ Cardinality(F) \in Nat /\ Cardinality(G) \in Nat /\ Cardinality(Seeking) \in Nat
    BY Names, FS_Subset, FS_CardinalityType DEF Room
  <2>2. CASE owned' \subseteq owned /\ Seeking' \subseteq Seeking
    <3>1. Cardinality(F) <= Cardinality(G)
      BY <2>1, <2>2, FS_Subset
    <3>2. IsFiniteSet(Seeking') /\ Cardinality(Seeking') <= Cardinality(Seeking)
          /\ Cardinality(Seeking') \in Nat
      BY <2>1, <2>2, FS_Subset, FS_CardinalityType
    <3> QED BY <2>1, <3>1, <3>2 DEF Room
  <2>3. CASE /\ t \notin Seeking /\ Seeking' = Seeking \cup {t}
             /\ RoomLeft /\ owned' = owned
    <3>1. IsFiniteSet(Seeking') /\ Cardinality(Seeking') = Cardinality(Seeking) + 1
      BY <2>1, <2>3, FS_AddElement
    <3> QED BY <2>1, <2>3, <3>1 DEF Room, RoomLeft
  <2>4. CASE /\ t \in Seeking /\ Seeking' = Seeking \ {t}
             /\ \E s \in Slot \ owned : owned' = owned \cup {s}
    <3>1. PICK s \in F : G = F \ {s}
      BY <2>4
    <3>2. Cardinality(G) = Cardinality(F) - 1
      BY <2>1, <3>1, FS_RemoveElement
    <3>3. IsFiniteSet(Seeking') /\ Cardinality(Seeking') = Cardinality(Seeking) - 1
      BY <2>1, <2>4, FS_RemoveElement
    <3> QED BY <2>1, <3>2, <3>3 DEF Room
  <2> QED BY <1>2, <2>2, <2>3, <2>4, OwnSeeking
<1> QED BY <1>1, <1>2, Steps

LEMMA HoldersGo ==
    ASSUME Inv, Room, NEW h \in Thread, HasBucket(h) \/ HasPages(h)
    PROVE  Busy(h) /\ CanGo(h)
<1>1. PhaseOK(h) /\ (span[h] # None => InHand(span[h], h))
  BY DEF Inv, Phases, Slots
<1>2. pc[h] \in {"scan", "take"} => batch[h] >= 1
  BY <1>1, Names DEF PhaseOK, Fetching
<1>3. ASSUME pc[h] = "take" PROVE spanFree[span[h]] # {}
  <2>1. arg[h] \in Class /\ span[h] # None
    BY <1>1, <1>3 DEF PhaseOK, Fetching, Making
  <2>2. span[h] \in Slot /\ spanFree[span[h]] = Object(span[h], arg[h])
    BY <1>1, <1>3, <2>1 DEF InHand, Inv, Types
  <2> QED BY <2>1, <2>2, Blocks
<1>4. ASSUME pc[h] = "new" PROVE Slot \ owned # {}
  <2>1. h \in Seeking
    BY <1>4 DEF Seeking
  <2>2. Cardinality(Seeking) \in Nat /\ Cardinality(Seeking) # 0
    BY <2>1, FS_CardinalityType, FS_EmptySet DEF Room
  <2> QED BY <2>2, FS_EmptySet DEF Room
<1> QED BY <1>2, <1>3, <1>4
        DEF HasBucket, HasPages, WantsBucket, WantsPages, Busy, CanGo

\* Nobody waits for ever for a mutex: the holder of one takes its next step
\* whatever the others do, for no thread that holds a mutex asks for another
\* (GetOneSpan lets go of the bucket before NewSpan, CentralCache.cpp:19-22, and
\* ReleaseListToSpans before ReleaseSpanToPageCache, CentralCache.cpp:99-103).
THEOREM DeadlockFreedom == Spec => []NoDeadlock
<1>1. Init => Room
  <2> SUFFICES ASSUME Init PROVE Room
    OBVIOUS
  <2>1. Seeking = {} /\ Slot \ owned = Slot
    BY DEF Init, Seeking
  <2>2. IsFiniteSet({}) /\ Cardinality({}) = 0 /\ Cardinality(Slot) \in Nat
    BY Names, FS_EmptySet, FS_CardinalityType
  <2> HIDE DEF Seeking
  <2> QED BY <2>1, <2>2 DEF Room
<1>2. Inv /\ Mutexes /\ Room => NoDeadlock
  <2> SUFFICES ASSUME Inv, Mutexes, Room, NEW t \in Thread, Busy(t), ~CanGo(t)
               PROVE  \E h \in Thread : WaitsFor(t, h) /\ Busy(h) /\ CanGo(h)
    BY DEF NoDeadlock
  <2>1. ~HasBucket(t) /\ ~HasPages(t)
    BY HoldersGo
  <2>2. \/ WantsBucket(t) /\ bucketOwner[arg[t]] # None
        \/ WantsPages(t) /\ pageOwner # None
    BY <2>1 DEF CanGo, HasBucket, HasPages
  <2>3. CASE WantsBucket(t) /\ bucketOwner[arg[t]] # None
    <3>1. arg[t] \in Class
      BY <2>3 DEF WantsBucket, Inv, Phases, PhaseOK, Fetching, Flushing
    <3>2. PICK h \in Thread : bucketOwner[arg[t]] = h
      BY <2>3, <3>1 DEF Inv, Types
    <3>3. HasBucket(h)
      BY <3>1, <3>2 DEF Mutexes
    <3> QED BY <2>3, <3>2, <3>3, HoldersGo DEF WaitsFor
  <2>4. CASE WantsPages(t) /\ pageOwner # None
    <3>1. PICK h \in Thread : pageOwner = h /\ HasPages(h)
      BY <2>4 DEF Mutexes, Inv, Types
    <3> QED BY <2>4, <3>1, HoldersGo DEF WaitsFor
  <2> QED BY <2>2, <2>3, <2>4
<1> QED BY <1>1, <1>2, RoomKeeps, MutualExclusion, Invariance, PTL DEF Spec

-----------------------------------------------------------------------------
(* The calls on the page layer.                                              *)

\* Where the slots lie: any page runs that do not overlap.
Space == INSTANCE PageHeap WITH heap <- {}
Runs == {run \in [Slot -> Space!Extents] :
            \A s, u \in Slot : s # u => Space!Disjoint(run[s], run[u])}

\* What the page layer has handed out, given where the slots lie.
Pages(run) == INSTANCE PageHeap WITH heap <- {run[s] : s \in owned}

LEMMA OwnedStep ==
    ASSUME Inv, [Next]_vars
    PROVE  \/ owned' = owned
           \/ \E s \in Slot \ owned : owned' = owned \cup {s}
           \/ \E s \in owned : owned' = owned \ {s}
<1>1. CASE UNCHANGED vars
  BY <1>1 DEF vars
<1>2. ASSUME NEW t \in Thread, End(t) \/ Step(t)
      PROVE  \/ owned' = owned
             \/ \E s \in Slot \ owned : owned' = owned \cup {s}
             \/ \E s \in owned : owned' = owned \ {s}
  <2>1. CASE \E s \in Slot : NewSpan(t, s) \/ NewBigSpan(t, s)
    BY <2>1 DEF NewSpan, NewBigSpan
  <2>2. CASE ReturnSpan(t)
    <3>1. span[t] # None /\ owned' = owned \ {span[t]}
      BY <2>2 DEF ReturnSpan, At, Inv, Phases, PhaseOK, Returning
    <3>2. span[t] \in owned
      BY <3>1 DEF Inv, Slots, InHand
    <3> QED BY <3>1, <3>2
  <2>3. CASE LockPages(t) \/ FetchLock(t) \/ ScanHit(t) \/ ScanMiss(t) \/ Carve(t) \/ Relock(t) \/ Take(t)
             \/ ReleaseLock(t) \/ ReleaseDone(t) \/ End(t)
    BY <2>3 DEF LockPages, FetchLock, ScanHit, ScanMiss, Carve, Relock, Take, ReleaseLock, ReleaseDone, End
  <2>4. (\E o \in chain[t] : GiveBack(t, o) \/ GiveBackLast(t, o)) => owned' = owned
    BY DEF GiveBack, GiveBackLast
  <2>5. AllocBig(t) \/ (\E c \in Class : AllocHit(t, c) \/ AllocMiss(t, c)) => owned' = owned
    BY DEF AllocHit, AllocMiss, AllocBig
  <2>6. (\E o \in live : FreeToCache(t, o) \/ FreeAndFlush(t, o) \/ FreeWithoutCache(t, o)
                         \/ FreeBig(t, o)) => owned' = owned
    BY DEF FreeToCache, FreeAndFlush, FreeWithoutCache, FreeBig
  <2> QED BY <1>2, <2>1, <2>2, <2>3, <2>4, <2>5, <2>6 DEF Step
<1> QED BY <1>1, <1>2, Steps

LEMMA Apart ==
    ASSUME NEW run \in Runs, NEW s \in Slot, NEW u \in Slot, s # u
    PROVE  Space!Disjoint(run[s], run[u]) /\ run[s] # run[u]
<1>1. Space!Disjoint(run[s], run[u]) /\ run[s] \in Space!Extents
  BY DEF Runs
<1>2. ~Space!Disjoint(run[s], run[s])
  BY <1>1 DEF Space!Disjoint, Space!Extents
<1> QED BY <1>1, <1>2

\* Wherever the slots lie, the central cache and the calls for large blocks use
\* the page layer as its contract says.  That NewSpan answers with a run nobody
\* holds is what the contract promises them (CentralCache.cpp:22-26,
\* ConcurrentAlloc.h:17-21); that each run goes back once, and none they do not
\* hold, is what they owe (ReleaseSpanToPageCache, CentralCache.cpp:100-102,
\* ConcurrentAlloc.h:41-44).  PageCache implements the same contract
\* (PageCacheProofs), which is why the two layers may be checked apart.
THEOREM PageCalls ==
    ASSUME NEW run \in Runs
    PROVE  Spec => Pages(run)!HeapSpec
<1> DEFINE hp == {run[s] : s \in owned}
<1>1. Init => Pages(run)!HeapInit
  BY DEF Init, Pages!HeapInit
<1>2. Inv /\ [Next]_vars => [Pages(run)!HeapNext]_{run[s] : s \in owned}
  <2> SUFFICES ASSUME Inv, [Next]_vars PROVE hp' = hp \/ Pages(run)!HeapNext
    OBVIOUS
  <2>0. owned \subseteq Slot
    BY DEF Inv, Types
  <2>1. CASE owned' = owned
    BY <2>1
  <2>2. ASSUME NEW s \in Slot \ owned, owned' = owned \cup {s} PROVE Pages(run)!HeapNext
    <3>1. hp' = hp \cup {run[s]}
      BY <2>2
    <3>2. run[s] \in Space!Extents /\ \A e \in hp : Space!Disjoint(run[s], e)
      BY <2>0, Apart DEF Runs
    <3>3. Pages(run)!Alloc(run[s])
      BY <3>1, <3>2 DEF Pages!Alloc, Pages!Disjoint, Pages!Extents, Space!Disjoint, Space!Extents
    <3> QED BY <3>1, <3>3 DEF Pages!HeapNext
  <2>3. ASSUME NEW s \in owned, owned' = owned \ {s} PROVE Pages(run)!HeapNext
    <3>1. \A u \in owned : u # s => run[u] # run[s]
      BY <2>0, Apart
    <3>2. hp' = hp \ {run[s]} /\ run[s] \in hp
      BY <2>3, <3>1
    <3>3. Pages(run)!Free(run[s])
      BY <3>2 DEF Pages!Free
    <3> QED BY <3>2, <3>3 DEF Pages!HeapNext
  <2> QED BY <2>1, <2>2, <2>3, OwnedStep
<1> QED BY <1>1, <1>2, Invariance, PTL DEF Spec, Pages!HeapSpec
=============================================================================
