------------------------- MODULE MappedSpansProofs --------------------------
(***************************************************************************)
(* Where mmap answers with whole pages of the allocator, spans lie in what *)
(* was mapped for them, munmap takes exactly that, nothing is left mapped  *)
(* unused, and a pool's objects are memory of the pool until SystemAlloc   *)
(* throws in it: for any page size, address space, sizes of objects and    *)
(* chunks, lengths of large blocks and number of threads.                  *)
(***************************************************************************)
EXTENDS MappedSpans, Arithmetic, TLAPS

\* What chunk_align shows to be needed: true of a granularity of 8 KB, 16 KB or
\* 64 KB, and not of 4 KB.
Aligned == Granule % PAGE = 0

-----------------------------------------------------------------------------
(* The inductive invariant.                                                  *)

\* A mapping is named by its start, which is in it.
MemoryOK ==
    /\ owner \in [Address -> Address]
    /\ \A a \in Address : owner[a] # 0 => owner[owner[a]] = owner[a]

\* The mapping named c is these bytes and no others.
Whole(c, length) ==
    /\ Bytes(c, length) \subseteq Address
    /\ \A a \in Address : owner[a] = c <=> a \in Bytes(c, length)

SpanOK(s) ==
    /\ s.obj \in Objects("spanPool")
    /\ s.n \in Nat \ {0}
    /\ s.at \in Address \ {0}
    /\ Start(s) = s.at
    /\ Whole(s.at, s.n * PAGE)

SpansOK ==
    /\ \A s \in spans : SpanOK(s)
    /\ \A s, t \in spans : s.at = t.at => s = t

\* The locals of NewSpan: a mapping that is no span's yet.
LocalsOK ==
    /\ pc \in {"idle", "span", "thrown"}
    /\ pc = "idle" => ptr = 0
    /\ pc = "span" =>
          /\ ptr \in Address \ {0}
          /\ (ptr \div PAGE) * PAGE = ptr
          /\ want \in Nat \ {0}
          /\ Whole(ptr, want * PAGE)
          /\ \A s \in spans : s.at # ptr
    /\ threw["spanPool"] => pc = "thrown"

PoolTypes ==
    /\ memory \in [Pool -> Nat]
    /\ remain \in [Pool -> Nat]
    /\ given \in [Pool -> SUBSET Nat]
    /\ freeList \in [Pool -> SUBSET Nat]
    /\ threw \in [Pool -> BOOLEAN]

\* Chunks are named by the object at their start, which is never unmapped.
ChunkAt(c) == c \in Address \ {0} /\ Belong(Bytes(c, CHUNK), c)
Chunked(p) ==
    \A x \in Objects(p) : \E c \in Objects(p) :
        ChunkAt(c) /\ c <= x /\ x + SizeOf[p] <= c + CHUNK

\* What New cuts next is the rest of a chunk, and no object's.
Ahead(p) ==
    remain[p] > 0 =>
        /\ \E c \in Objects(p) :
              ChunkAt(c) /\ c <= memory[p] /\ memory[p] + remain[p] = c + CHUNK
        /\ \A x \in Objects(p) : x + SizeOf[p] <= memory[p] \/ memory[p] + remain[p] <= x

\* A mapping made for a span holds no object at its start.
Foreign(p) ==
    /\ \A s \in spans : s.at \notin Objects(p)
    /\ pc = "span" => ptr \notin Objects(p)

\* A pool whose objects are sound: not the pool of ThreadCaches once it threw.
Kept(p) == p = "tcPool" => ~threw[p]

PoolOK(p) ==
    Kept(p) => /\ Chunked(p) /\ Apart(p) /\ Foreign(p)
               /\ ~threw[p] => Ahead(p)

Inv == MemoryOK /\ SpansOK /\ LocalsOK /\ PoolTypes /\ NothingLeaks /\ \A p \in Pool : PoolOK(p)

-----------------------------------------------------------------------------
(* Memory.                                                                   *)

LEMMA Sizes ==
    /\ PAGE \in Nat \ {0} /\ Granule \in Nat \ {0} /\ LastByte \in Nat /\ CHUNK \in Nat \ {0}
    /\ \A p \in Pool : /\ SizeOf[p] \in Nat \ {0} /\ SizeOf[p] <= CHUNK
                       /\ ObjSize(p) = SizeOf[p]
    /\ (CHUNK \div PAGE) * PAGE = CHUNK /\ CHUNK \div PAGE \in Nat \ {0}
    /\ Pool = {"spanPool", "tcPool"}
<1>1. /\ PAGE \in Nat \ {0} /\ Granule \in Nat \ {0} /\ LastByte \in Nat /\ CHUNK \in Nat \ {0}
      /\ CHUNK % PAGE = 0
  BY MemoryAssumption, PoolAssumption
<1>2. \A p \in Pool : /\ SizeOf[p] \in Nat \ {0} /\ SizeOf[p] <= CHUNK
                      /\ ObjSize(p) = SizeOf[p]
  BY PoolAssumption DEF ObjSize
<1>3. CHUNK \div PAGE \in Nat /\ CHUNK = PAGE * (CHUNK \div PAGE)
  BY <1>1, DivMod
<1>4. (CHUNK \div PAGE) * PAGE = CHUNK /\ CHUNK \div PAGE # 0
  BY <1>1, <1>3
<1> QED BY <1>1, <1>2, <1>3, <1>4, SpansAssumption

LEMMA InBytes ==
    ASSUME NEW c \in Nat, NEW l \in Nat, NEW a \in Nat
    PROVE  a \in Bytes(c, l) <=> c <= a /\ a < c + l
BY DEF Bytes

\* mmap: what was mapped stays, and a whole mapping is added.
LEMMA Maps ==
    ASSUME MemoryOK, NEW a, NEW k \in Nat \ {0}, SystemAlloc(a, k)
    PROVE  /\ MemoryOK'
           /\ a \in Address \ {0} /\ a % Granule = 0
           /\ Whole(a, k * PAGE)'
           /\ \A b \in Address : owner[b] # 0 => owner'[b] = owner[b]
           /\ \A b \in Address : owner'[b] # owner[b] => owner'[b] = a /\ b \in Bytes(a, k * PAGE)
           /\ \A b \in Bytes(a, k * PAGE) : b \in Address /\ owner[b] = 0
           /\ \A b \in Address : owner[b] # a
<1> DEFINE l == k * PAGE
<1>1. l \in Nat \ {0} /\ PAGE \in Nat \ {0} /\ LastByte \in Nat
  BY Sizes
<1>2. /\ a \in Address \ {0} /\ a % Granule = 0
      /\ \A b \in Bytes(a, l) : b \in Address /\ owner[b] = 0
      /\ owner' = [b \in Address |-> IF b \in Bytes(a, l) THEN a ELSE owner[b]]
  BY DEF SystemAlloc, Room, Belong
<1> HIDE DEF l
<1>3. a \in Nat /\ a \in Bytes(a, l)
  BY <1>1, <1>2, InBytes DEF Address
<1>4. owner[a] = 0 /\ owner'[a] = a
  BY <1>2, <1>3
<1>5. \A b \in Address : owner[b] # a
  BY <1>2, <1>4 DEF MemoryOK
<1>6. MemoryOK'
  <2>1. owner' \in [Address -> Address]
    BY <1>2 DEF MemoryOK
  <2>2. ASSUME NEW b \in Address, owner'[b] # 0 PROVE owner'[owner'[b]] = owner'[b]
    BY <1>2, <1>4, <2>2 DEF MemoryOK
  <2> QED BY <2>1, <2>2 DEF MemoryOK
<1>7. Whole(a, l)'
  <2>1. \A b \in Address : owner'[b] = a <=> b \in Bytes(a, l)
    BY <1>2, <1>5
  <2> QED BY <1>2, <2>1 DEF Whole, Bytes
<1> QED BY <1>2, <1>5, <1>6, <1>7 DEF l, Whole, Bytes

\* It leaves whole mappings and chunks as they are.
LEMMA MapsApart ==
    ASSUME MemoryOK, NEW a, NEW k \in Nat \ {0}, SystemAlloc(a, k)
    PROVE  /\ \A c \in Address \ {0}, l \in Nat \ {0} : Whole(c, l) => c # a /\ Whole(c, l)'
           /\ \A c : ChunkAt(c) => c # a /\ ChunkAt(c)'
<1>1. /\ \A b \in Address : owner[b] # 0 => owner'[b] = owner[b]
      /\ \A b \in Address : owner'[b] # owner[b] => owner'[b] = a
      /\ a \in Address \ {0} /\ \A b \in Address : owner[b] # a
  BY Maps
<1>2. ASSUME NEW c \in Address \ {0}, NEW l \in Nat \ {0}, Whole(c, l) PROVE c # a /\ Whole(c, l)'
  <2>1. c \in Bytes(c, l)
    BY InBytes DEF Address
  <2>2. owner[c] = c
    BY <1>2, <2>1 DEF Whole
  <2>3. c # a
    BY <1>1, <2>2
  <2>4. \A b \in Address : owner'[b] = c <=> owner[b] = c
    BY <1>1, <1>2, <2>3
  <2> QED BY <1>2, <2>3, <2>4 DEF Whole, Bytes
<1>3. ASSUME NEW c, ChunkAt(c) PROVE c # a /\ ChunkAt(c)'
  <2>1. \A b \in Bytes(c, CHUNK) : b \in Address /\ owner[b] = c /\ owner'[b] = c
    BY <1>1, <1>3 DEF ChunkAt, Belong
  <2>2. c \in Bytes(c, CHUNK)
    BY <1>3, Sizes, InBytes DEF ChunkAt, Address
  <2> QED BY <1>1, <1>3, <2>1, <2>2 DEF ChunkAt, Belong, Bytes
<1> QED BY <1>2, <1>3

-----------------------------------------------------------------------------
(* The pools.                                                                *)

\* What New does, sound or not.
LEMMA NewEffect ==
    ASSUME MemoryOK, PoolTypes, NEW p \in Pool, NEW obj, New(p, obj)
    PROVE  /\ PoolTypes' /\ obj \in Nat
           /\ Objects(p)' = Objects(p) \cup {obj}
           /\ threw' = threw
           /\ \A q \in Pool \ {p} : /\ Objects(q)' = Objects(q)
                                    /\ memory'[q] = memory[q] /\ remain'[q] = remain[q]
           /\ UNCHANGED owner \/ (SystemAlloc(obj, CHUNK \div PAGE) /\ ~HasRoom(p))
<1>1. /\ given' = [given EXCEPT ![p] = @ \cup {obj}] /\ threw' = threw
      /\ Recycle(p, obj) \/ Carve(p, obj) \/ Refill(p, obj)
  BY DEF New
<1>2. SizeOf[p] \in Nat \ {0} /\ SizeOf[p] <= CHUNK /\ ObjSize(p) = SizeOf[p] /\ CHUNK \in Nat
  BY Sizes
<1>3. memory[p] \in Nat /\ remain[p] \in Nat
  BY DEF PoolTypes
<1>4. CASE Recycle(p, obj)
  <2>1. obj \in freeList[p] /\ freeList' = [freeList EXCEPT ![p] = @ \ {obj}]
        /\ UNCHANGED <<owner, memory, remain>>
    BY <1>4 DEF Recycle
  <2>2. obj \in Nat
    BY <2>1 DEF PoolTypes
  <2>3. PoolTypes'
    BY <1>1, <2>1, <2>2 DEF PoolTypes
  <2> QED BY <1>1, <2>1, <2>2, <2>3 DEF Objects, PoolTypes
<1>5. CASE Carve(p, obj)
  <2>1. /\ obj = memory[p] /\ memory' = [memory EXCEPT ![p] = obj + SizeOf[p]]
        /\ remain' = [remain EXCEPT ![p] = @ - SizeOf[p]] /\ remain[p] >= SizeOf[p]
        /\ UNCHANGED <<owner, freeList>>
    BY <1>2, <1>5 DEF Carve, HasRoom
  <2>2. PoolTypes'
    BY <1>1, <1>2, <1>3, <2>1 DEF PoolTypes
  <2> QED BY <1>1, <1>3, <2>1, <2>2 DEF Objects, PoolTypes
<1>6. CASE Refill(p, obj)
  <2>1. /\ SystemAlloc(obj, CHUNK \div PAGE) /\ ~HasRoom(p)
        /\ memory' = [memory EXCEPT ![p] = obj + SizeOf[p]]
        /\ remain' = [remain EXCEPT ![p] = CHUNK - SizeOf[p]]
        /\ UNCHANGED freeList
    BY <1>2, <1>6 DEF Refill
  <2>2. obj \in Nat
    BY <2>1, Maps, Sizes DEF Address
  <2>3. PoolTypes'
    BY <1>1, <1>2, <2>1, <2>2 DEF PoolTypes
  <2> QED BY <1>1, <2>1, <2>2, <2>3 DEF Objects, PoolTypes
<1> QED BY <1>1, <1>4, <1>5, <1>6

\* Two runs of bytes that are mapped apart do not overlap.
LEMMA RunsApart ==
    ASSUME NEW a \in Nat, NEW k \in Nat \ {0}, NEW b \in Nat, NEW l \in Nat \ {0},
           \A x \in Bytes(a, k) : x \notin Bytes(b, l)
    PROVE  a + k <= b \/ b + l <= a
<1>1. CASE a <= b
  BY <1>1, InBytes
<1>2. CASE b <= a
  BY <1>2, InBytes
<1> QED BY <1>1, <1>2

\* New returns sound objects from a pool that is, and leaves it so
\* (ObjectPool.h:15-44).
LEMMA NewSound ==
    ASSUME MemoryOK, PoolTypes, NEW p \in Pool, NEW obj, New(p, obj),
           Chunked(p), Apart(p), Ahead(p)
    PROVE  /\ Chunked(p)' /\ Apart(p)' /\ Ahead(p)'
           /\ \A c \in Address \ {0}, l \in Nat \ {0} :
                 Whole(c, l) /\ c \notin Objects(p) => c \notin Objects(p)'
<1> DEFINE S == SizeOf[p]
<1>0. /\ S \in Nat \ {0} /\ S <= CHUNK /\ ObjSize(p) = S /\ CHUNK \in Nat \ {0}
      /\ memory[p] \in Nat /\ remain[p] \in Nat /\ Objects(p) \subseteq Nat
  BY Sizes DEF PoolTypes, Objects
<1>1. /\ PoolTypes' /\ obj \in Nat /\ Objects(p)' = Objects(p) \cup {obj}
      /\ Objects(p)' \subseteq Nat
  BY <1>0, NewEffect
<1>2. \A x, y \in Objects(p) : x # y => x + S <= y \/ y + S <= x
  BY <1>0 DEF Apart
<1>3. \A x \in Objects(p) : \E c \in Objects(p) : ChunkAt(c) /\ c <= x /\ x + S <= c + CHUNK
  BY DEF Chunked
<1>4. ASSUME NEW c \in Address \ {0}, NEW l \in Nat \ {0}, Whole(c, l) PROVE owner[c] = c
  <2>1. c \in Bytes(c, l)
    BY InBytes DEF Address
  <2> QED BY <1>4, <2>1 DEF Whole
<1> HIDE DEF S
<1>5. ASSUME \A y \in Objects(p) : obj # y => obj + S <= y \/ y + S <= obj PROVE Apart(p)'
  <2>1. \A x, y \in Objects(p)' : x # y => x + S <= y \/ y + S <= x
    BY <1>0, <1>1, <1>2, <1>5
  <2> QED BY <1>0, <2>1 DEF Apart, ObjSize, S
<1>6. ASSUME \A c : ChunkAt(c) => ChunkAt(c)',
             \E c \in Objects(p)' : ChunkAt(c)' /\ c <= obj /\ obj + S <= c + CHUNK
      PROVE  Chunked(p)'
  <2>1. \A x \in Objects(p)' : \E c \in Objects(p)' :
           ChunkAt(c)' /\ c <= x /\ x + S <= c + CHUNK
    BY <1>1, <1>3, <1>6
  <2> QED BY <2>1 DEF Chunked, S
<1>7. CASE Recycle(p, obj)
  <2>1. obj \in Objects(p) /\ UNCHANGED <<owner, memory, remain>>
    BY <1>7 DEF Recycle, Objects
  <2>2. Objects(p)' = Objects(p)
    BY <1>1, <2>1
  <2> QED BY <2>1, <2>2 DEF Chunked, Apart, Ahead, ChunkAt, Belong, ObjSize
<1>8. CASE Carve(p, obj)
  <2>1. /\ obj = memory[p] /\ memory'[p] = obj + S /\ remain'[p] = remain[p] - S /\ remain[p] >= S
        /\ UNCHANGED owner
    BY <1>0, <1>8 DEF Carve, HasRoom, PoolTypes, S
  <2>2. PICK c \in Objects(p) : ChunkAt(c) /\ c <= obj /\ obj + remain[p] = c + CHUNK
    BY <1>0, <2>1 DEF Ahead
  <2>3. \A x \in Objects(p) : x + S <= obj \/ obj + remain[p] <= x
    BY <1>0, <2>1 DEF Ahead, S
  <2>4. \A y : ChunkAt(y) => ChunkAt(y)'
    BY <2>1 DEF ChunkAt, Belong
  <2>5. Apart(p)'
    BY <1>0, <1>1, <1>5, <2>1, <2>3
  <2>6. Chunked(p)'
    BY <1>0, <1>1, <1>6, <2>1, <2>2, <2>4
  <2>7. Ahead(p)'
    <3>1. c \in Objects(p)' /\ ChunkAt(c)' /\ c <= memory'[p]
          /\ memory'[p] + remain'[p] = c + CHUNK
      BY <1>0, <1>1, <2>1, <2>2, <2>4
    <3>2. \A x \in Objects(p)' : x + S <= memory'[p] \/ memory'[p] + remain'[p] <= x
      BY <1>0, <1>1, <2>1, <2>3
    <3> QED BY <3>1, <3>2 DEF Ahead, S
  <2>8. ASSUME NEW d \in Address \ {0}, NEW l \in Nat \ {0}, Whole(d, l), d \notin Objects(p)
        PROVE  d \notin Objects(p)'
    <3>1. obj \in Bytes(c, CHUNK)
      BY <1>0, <1>1, <2>1, <2>2, InBytes
    <3>2. owner[obj] = c
      BY <2>2, <3>1 DEF ChunkAt, Belong
    <3> QED BY <1>1, <1>4, <2>2, <2>8, <3>2
  <2> QED BY <2>5, <2>6, <2>7, <2>8
<1>9. CASE Refill(p, obj)
  <2>1. /\ SystemAlloc(obj, CHUNK \div PAGE)
        /\ memory'[p] = obj + S /\ remain'[p] = CHUNK - S
    BY <1>0, <1>9 DEF Refill, PoolTypes, S
  <2>2. /\ obj \in Address \ {0} /\ Whole(obj, CHUNK)'
        /\ \A b \in Bytes(obj, CHUNK) : b \in Address /\ owner[b] = 0
        /\ \A c : ChunkAt(c) => ChunkAt(c)'
    BY <2>1, Sizes, Maps, MapsApart
  <2>3. ChunkAt(obj)'
    <3>1. \A b \in Bytes(obj, CHUNK) : b \in Address /\ owner'[b] = obj
      BY <2>2 DEF Whole, Bytes
    <3> QED BY <2>2, <3>1 DEF ChunkAt, Belong, Bytes
  <2>4. ASSUME NEW y \in Objects(p) PROVE obj + CHUNK <= y \/ y + S <= obj
    <3>1. PICK c \in Objects(p) : ChunkAt(c) /\ c <= y /\ y + S <= c + CHUNK
      BY <1>3
    <3>2. \A x \in Bytes(y, S) : x \in Bytes(c, CHUNK)
      BY <1>0, <3>1 DEF Bytes
    <3>3. \A x \in Bytes(y, S) : owner[x] = c /\ c # 0
      BY <3>1, <3>2 DEF ChunkAt, Belong
    <3>4. \A x \in Bytes(y, S) : x \notin Bytes(obj, CHUNK)
      BY <2>2, <3>3
    <3> QED BY <1>0, <1>1, <3>4, RunsApart
  <2>5. Apart(p)'
    BY <1>0, <1>1, <1>5, <2>4
  <2>6. Chunked(p)'
    BY <1>0, <1>1, <1>6, <2>2, <2>3
  <2>7. Ahead(p)'
    <3>1. obj \in Objects(p)' /\ ChunkAt(obj)' /\ obj <= memory'[p]
          /\ memory'[p] + remain'[p] = obj + CHUNK
      BY <1>0, <1>1, <2>1, <2>3
    <3>2. \A x \in Objects(p)' : x + S <= memory'[p] \/ memory'[p] + remain'[p] <= x
      BY <1>0, <1>1, <2>1, <2>4
    <3> QED BY <3>1, <3>2 DEF Ahead, S
  <2>8. ASSUME NEW d \in Address \ {0}, NEW l \in Nat \ {0}, Whole(d, l), d \notin Objects(p)
        PROVE  d \notin Objects(p)'
    <3>1. obj \in Bytes(obj, CHUNK)
      BY <1>0, <1>1, InBytes
    <3> QED BY <1>1, <1>4, <2>2, <2>8, <3>1
  <2> QED BY <2>5, <2>6, <2>7, <2>8
<1> QED BY <1>7, <1>8, <1>9 DEF New

\* What others do to memory leaves a sound pool sound.
LEMMA PoolUntouched ==
    ASSUME NEW p \in Pool, PoolTypes, Objects(p)' = Objects(p),
           memory'[p] = memory[p], remain'[p] = remain[p],
           \A c \in Objects(p) : ChunkAt(c) => ChunkAt(c)'
    PROVE  /\ Chunked(p) => Chunked(p)'
           /\ Apart(p) => Apart(p)'
           /\ Ahead(p) => Ahead(p)'
BY DEF Chunked, Apart, Ahead, ObjSize

-----------------------------------------------------------------------------
(* The invariant is inductive.                                               *)

LEMMA InvInit == Init => Inv
<1> SUFFICES ASSUME Init PROVE Inv
  OBVIOUS
<1>1. owner = [a \in Address |-> 0] /\ 0 \in Address
  BY Sizes DEF Init, Address
<1>2. MemoryOK /\ NothingLeaks
  BY <1>1 DEF MemoryOK, NothingLeaks
<1>3. SpansOK
  BY DEF Init, SpansOK
<1>4. PoolTypes /\ \A p \in Pool : Objects(p) = {} /\ threw[p] = FALSE /\ remain[p] = 0
  BY DEF Init, PoolInit, PoolTypes, Objects
<1>5. LocalsOK
  BY <1>4, Sizes DEF Init, LocalsOK
<1>6. ASSUME NEW p \in Pool PROVE PoolOK(p)
  BY <1>4 DEF Init, PoolOK, Chunked, Apart, Foreign, Ahead
<1> QED BY <1>2, <1>3, <1>4, <1>5, <1>6 DEF Inv

\* A whole mapping holds its first address.
LEMMA Named ==
    ASSUME NEW c \in Address \ {0}, NEW l \in Nat \ {0}, Whole(c, l)
    PROVE  c \in Bytes(c, l) /\ owner[c] = c
<1>1. c \in Bytes(c, l)
  BY InBytes DEF Address
<1> QED BY <1>1 DEF Whole

\* The objects of a sound pool are in mapped memory.
LEMMA ObjectsMapped ==
    ASSUME PoolTypes, NEW p \in Pool, Chunked(p), NEW x \in Objects(p)
    PROVE  x \in Address /\ \E c \in Objects(p) : ChunkAt(c) /\ owner[x] = c
<1>1. PICK c \in Objects(p) : ChunkAt(c) /\ c <= x /\ x + SizeOf[p] <= c + CHUNK
  BY DEF Chunked
<1>2. x \in Nat /\ c \in Nat /\ SizeOf[p] \in Nat \ {0} /\ CHUNK \in Nat
  BY Sizes DEF PoolTypes, Objects
<1>3. x \in Bytes(c, CHUNK)
  BY <1>1, <1>2, InBytes
<1> QED BY <1>1, <1>3 DEF ChunkAt, Belong

\* A mapping made by mmap leaves every span's as it is, and is none of theirs.
LEMMA SpansApart ==
    ASSUME MemoryOK, SpansOK, NEW a, NEW k \in Nat \ {0}, SystemAlloc(a, k)
    PROVE  \A s \in spans : s.at # a /\ Whole(s.at, s.n * PAGE)'
<1> SUFFICES ASSUME NEW s \in spans PROVE s.at # a /\ Whole(s.at, s.n * PAGE)'
  OBVIOUS
<1>1. s.n \in Nat \ {0} /\ s.at \in Address \ {0} /\ Whole(s.at, s.n * PAGE)
  BY DEF SpansOK, SpanOK
<1>2. s.n * PAGE \in Nat \ {0}
  BY <1>1, Sizes
<1> QED BY <1>1, <1>2, MapsApart

LEMMA NewSpanKeeps ==
    ASSUME Inv, Aligned, NEW k \in LargeSizes \cup {NPAGES - 1}, NewSpan(k)
    PROVE  Inv'
<1>0. /\ MemoryOK /\ SpansOK /\ LocalsOK /\ PoolTypes /\ NothingLeaks
      /\ \A p \in Pool : PoolOK(p)
      /\ pc = "idle" /\ ptr = 0 /\ UNCHANGED <<poolVars, spans, threads>>
  BY DEF Inv, NewSpan, LocalsOK
<1>1. k \in Nat \ {0}
  BY SpansAssumption
<1>2. PICK a : SystemAlloc(a, k) /\ ptr' = a /\ want' = k /\ pc' = "span"
  BY DEF NewSpan
<1>3. /\ MemoryOK'
      /\ a \in Address \ {0} /\ a % Granule = 0
      /\ Whole(a, k * PAGE)'
      /\ \A b \in Address : owner[b] # 0 => owner'[b] = owner[b]
      /\ \A b \in Address : owner'[b] # owner[b] => owner'[b] = a /\ b \in Bytes(a, k * PAGE)
      /\ \A b \in Bytes(a, k * PAGE) : b \in Address /\ owner[b] = 0
      /\ \A b \in Address : owner[b] # a
  BY <1>0, <1>1, <1>2, Maps
<1>4. (a \div PAGE) * PAGE = a
  <2>1. a \in Nat
    BY <1>3 DEF Address
  <2> QED BY <1>3, <2>1, Sizes, Multiples DEF Aligned
<1>5. \A s \in spans : s.at # a /\ Whole(s.at, s.n * PAGE)'
  BY <1>0, <1>1, <1>2, SpansApart
<1>6. \A p \in Pool : Objects(p)' = Objects(p)
  BY <1>0 DEF poolVars, Objects
<1>7. SpansOK'
  <2>1. ASSUME NEW s \in spans PROVE SpanOK(s)'
    <3>1. SpanOK(s) /\ Start(s)' = Start(s) /\ Objects("spanPool")' = Objects("spanPool")
      BY <1>0, <1>6, Sizes DEF SpansOK, Start
    <3> QED BY <1>5, <3>1 DEF SpanOK
  <2> QED BY <1>0, <2>1 DEF SpansOK
<1>8. LocalsOK'
  <2>1. threw' = threw /\ ~threw["spanPool"]
    BY <1>0 DEF LocalsOK, poolVars
  <2>2. Whole(a, k * PAGE)' /\ \A s \in spans' : s.at # a
    BY <1>0, <1>3, <1>5
  <2> QED BY <1>1, <1>2, <1>3, <1>4, <2>1, <2>2 DEF LocalsOK, Whole, Bytes
<1>9. PoolTypes'
  BY <1>0 DEF PoolTypes, poolVars
<1>10. NothingLeaks'
  <2> SUFFICES ASSUME NEW b \in Address, owner'[b] # 0
               PROVE  \/ \E s \in spans' : b \in Extent(s)'
                      \/ owner'[b] = ptr'
                      \/ \E p \in Pool : owner'[b] \in Objects(p)'
    BY DEF NothingLeaks
  <2>1. CASE owner[b] = 0
    BY <1>2, <1>3, <2>1
  <2>2. CASE owner[b] # 0
    <3>1. owner'[b] = owner[b]
      BY <1>3, <2>2
    <3>2. \/ \E s \in spans : b \in Extent(s)
          \/ owner[b] = ptr
          \/ \E p \in Pool : owner[b] \in Objects(p)
      BY <1>0, <2>2 DEF NothingLeaks
    <3> QED BY <1>0, <1>6, <2>2, <3>1, <3>2 DEF Extent, Start
  <2> QED BY <2>1, <2>2
<1>11. ASSUME NEW p \in Pool PROVE PoolOK(p)'
  <2>1. Kept(p)' = Kept(p) /\ threw' = threw /\ memory' = memory /\ remain' = remain
    BY <1>0 DEF Kept, poolVars
  <2> SUFFICES ASSUME Kept(p)
               PROVE  Chunked(p)' /\ Apart(p)' /\ Foreign(p)' /\ (~threw[p] => Ahead(p)')
    BY <2>1 DEF PoolOK
  <2>2. Chunked(p) /\ Apart(p) /\ Foreign(p) /\ (~threw[p] => Ahead(p))
    BY <1>0 DEF PoolOK
  <2>3. \A c : ChunkAt(c) => ChunkAt(c)'
    BY <1>0, <1>1, <1>2, MapsApart
  <2>4. Chunked(p)' /\ Apart(p)' /\ (~threw[p] => Ahead(p)')
    BY <1>0, <1>6, <2>1, <2>2, <2>3, PoolUntouched
  <2>5. a \notin Objects(p)
    <3>1. a \in Bytes(a, k * PAGE) /\ owner[a] = 0
      <4>1. a \in Nat /\ k * PAGE \in Nat \ {0}
        BY <1>1, <1>3, Sizes DEF Address
      <4> QED BY <1>3, <4>1, InBytes
    <3> QED BY <1>0, <2>2, <3>1, ObjectsMapped DEF ChunkAt
  <2>6. Foreign(p)'
    BY <1>0, <1>2, <1>6, <2>2, <2>5 DEF Foreign
  <2> QED BY <2>4, <2>6
<1> QED BY <1>3, <1>7, <1>8, <1>9, <1>10, <1>11 DEF Inv

\* What New does to the pool that is not asked, and to this one.
LEMMA NewKeepsPools ==
    ASSUME MemoryOK, PoolTypes, NEW p \in Pool, NEW obj, New(p, obj),
           \A q \in Pool : PoolOK(q)
    PROVE  /\ \A q \in Pool : Kept(q) /\ (q = p => ~threw[p]) =>
                 /\ Chunked(q)' /\ Apart(q)' /\ (~threw[q] => Ahead(q)')
                 /\ \A c \in Address \ {0}, l \in Nat \ {0} :
                       Whole(c, l) /\ c \notin Objects(q) => c \notin Objects(q)'
           /\ \A c \in Address \ {0}, l \in Nat \ {0} : Whole(c, l) => Whole(c, l)'
<1>1. /\ Objects(p)' = Objects(p) \cup {obj}
      /\ \A q \in Pool \ {p} : /\ Objects(q)' = Objects(q)
                               /\ memory'[q] = memory[q] /\ remain'[q] = remain[q]
      /\ UNCHANGED owner \/ (SystemAlloc(obj, CHUNK \div PAGE) /\ ~HasRoom(p))
  BY NewEffect
<1>2. /\ \A c \in Address \ {0}, l \in Nat \ {0} : Whole(c, l) => Whole(c, l)'
      /\ \A c : ChunkAt(c) => ChunkAt(c)'
  <2>1. CASE UNCHANGED owner
    BY <2>1 DEF Whole, ChunkAt, Belong
  <2>2. CASE SystemAlloc(obj, CHUNK \div PAGE)
    BY <2>2, Sizes, MapsApart
  <2> QED BY <1>1, <2>1, <2>2
<1>3. ASSUME NEW q \in Pool, Kept(q), q = p => ~threw[p]
      PROVE  /\ Chunked(q)' /\ Apart(q)' /\ (~threw[q] => Ahead(q)')
             /\ \A c \in Address \ {0}, l \in Nat \ {0} :
                   Whole(c, l) /\ c \notin Objects(q) => c \notin Objects(q)'
  <2>1. Chunked(q) /\ Apart(q) /\ (~threw[q] => Ahead(q))
    BY <1>3 DEF PoolOK
  <2>2. CASE q = p
    BY <1>3, <2>1, <2>2, NewSound
  <2>3. CASE q # p
    BY <1>1, <1>2, <2>1, <2>3, PoolUntouched
  <2> QED BY <2>2, <2>3
<1> QED BY <1>2, <1>3

\* What New maps is a chunk of the pool, named by an object.
LEMMA NewLeaksNothing ==
    ASSUME MemoryOK, PoolTypes, NEW p \in Pool, NEW obj, New(p, obj),
           NEW b \in Address, owner'[b] # 0
    PROVE  \/ owner[b] # 0 /\ owner'[b] = owner[b]
           \/ owner'[b] \in Objects(p)'
<1>1. /\ Objects(p)' = Objects(p) \cup {obj}
      /\ UNCHANGED owner \/ (SystemAlloc(obj, CHUNK \div PAGE) /\ ~HasRoom(p))
  BY NewEffect
<1>2. CASE UNCHANGED owner
  BY <1>2
<1>3. CASE SystemAlloc(obj, CHUNK \div PAGE)
  <2>1. owner'[b] # owner[b] => owner'[b] = obj
    BY <1>3, Sizes, Maps
  <2> QED BY <1>1, <2>1
<1> QED BY <1>1, <1>2, <1>3

\* It keeps the names of the mappings.
LEMMA NewKeepsMemory ==
    ASSUME MemoryOK, PoolTypes, NEW p \in Pool, NEW obj, New(p, obj)
    PROVE  MemoryOK'
<1>1. UNCHANGED owner \/ (SystemAlloc(obj, CHUNK \div PAGE) /\ ~HasRoom(p))
  BY NewEffect
<1>2. CASE UNCHANGED owner
  BY <1>2 DEF MemoryOK
<1>3. CASE SystemAlloc(obj, CHUNK \div PAGE)
  BY <1>3, Sizes, Maps
<1> QED BY <1>1, <1>2, <1>3

\* A span stays as it is while its object and its mapping do.
LEMMA SpanStays ==
    ASSUME SpansOK, NEW s \in spans,
           s.obj \in Objects("spanPool")', Whole(s.at, s.n * PAGE)'
    PROVE  SpanOK(s)'
<1>1. SpanOK(s)
  BY DEF SpansOK
<1>2. Start(s)' = Start(s)
  BY DEF Start
<1> QED BY <1>1, <1>2 DEF SpanOK

LEMMA NameSpanKeeps ==
    ASSUME Inv, NameSpan
    PROVE  Inv'
<1>0. /\ MemoryOK /\ SpansOK /\ LocalsOK /\ PoolTypes /\ NothingLeaks
      /\ \A p \in Pool : PoolOK(p)
      /\ "spanPool" \in Pool
  BY Sizes DEF Inv
<1>1. /\ pc = "span" /\ pc' = "idle" /\ ptr' = 0 /\ UNCHANGED threads
  BY DEF NameSpan
<1>2. PICK obj : /\ New("spanPool", obj)
                 /\ spans' = spans \cup {[obj |-> obj, pageId |-> PageOf(ptr), n |-> want, at |-> ptr]}
  BY DEF NameSpan
<1>3. /\ ptr \in Address \ {0} /\ (ptr \div PAGE) * PAGE = ptr
      /\ want \in Nat \ {0} /\ Whole(ptr, want * PAGE)
      /\ \A s \in spans : s.at # ptr
      /\ ~threw["spanPool"]
  BY <1>0, <1>1 DEF LocalsOK
<1>4. /\ PoolTypes' /\ threw' = threw
      /\ Objects("spanPool")' = Objects("spanPool") \cup {obj}
      /\ \A q \in Pool \ {"spanPool"} : Objects(q)' = Objects(q)
  BY <1>0, <1>2, NewEffect
<1>5. /\ \A q \in Pool : Kept(q) =>
            /\ Chunked(q)' /\ Apart(q)' /\ (~threw[q] => Ahead(q)')
            /\ \A c \in Address \ {0}, l \in Nat \ {0} :
                  Whole(c, l) /\ c \notin Objects(q) => c \notin Objects(q)'
      /\ \A c \in Address \ {0}, l \in Nat \ {0} : Whole(c, l) => Whole(c, l)'
  BY <1>0, <1>2, <1>3, NewKeepsPools
<1>6. \A s \in spans : s.at \in Address \ {0} /\ s.n * PAGE \in Nat \ {0} /\ Whole(s.at, s.n * PAGE)
                       /\ s.obj \in Objects("spanPool")
  BY <1>0, Sizes DEF SpansOK, SpanOK
<1>7. want * PAGE \in Nat \ {0}
  BY <1>3, Sizes
<1> DEFINE new == [obj |-> obj, pageId |-> PageOf(ptr), n |-> want, at |-> ptr]
<1>8. PICK t : t = new
  OBVIOUS
<1>9. /\ t.obj = obj /\ t.pageId = ptr \div PAGE /\ t.n = want /\ t.at = ptr
      /\ spans' = spans \cup {t}
  BY <1>2, <1>8 DEF PageOf
<1> HIDE DEF new
<1>10. SpansOK'
  <2>1. ASSUME NEW s \in spans PROVE SpanOK(s)'
    <3>1. Whole(s.at, s.n * PAGE)'
      BY <1>5, <1>6
    <3> QED BY <1>0, <1>4, <1>6, <3>1, SpanStays
  <2>2. SpanOK(t)'
    <3>1. Whole(t.at, t.n * PAGE)'
      BY <1>3, <1>5, <1>7, <1>9
    <3>2. Start(t)' = t.at
      BY <1>3, <1>9 DEF Start
    <3> QED BY <1>3, <1>4, <1>9, <3>1, <3>2 DEF SpanOK
  <2>3. \A s, u \in spans' : s.at = u.at => s = u
    BY <1>0, <1>3, <1>9 DEF SpansOK
  <2> QED BY <1>9, <2>1, <2>2, <2>3 DEF SpansOK
<1>11. LocalsOK'
  BY <1>1, <1>3, <1>4 DEF LocalsOK
<1>12. NothingLeaks'
  <2> SUFFICES ASSUME NEW b \in Address, owner'[b] # 0
               PROVE  \/ \E s \in spans' : b \in Extent(s)'
                      \/ \E p \in Pool : owner'[b] \in Objects(p)'
    BY DEF NothingLeaks
  <2>1. \/ owner[b] # 0 /\ owner'[b] = owner[b]
        \/ owner'[b] \in Objects("spanPool")'
    BY <1>0, <1>2, NewLeaksNothing
  <2>2. CASE owner[b] # 0 /\ owner'[b] = owner[b]
    <3>1. \/ \E s \in spans : b \in Extent(s)
          \/ owner[b] = ptr
          \/ \E p \in Pool : owner[b] \in Objects(p)
      BY <1>0, <2>2 DEF NothingLeaks
    <3>2. CASE \E s \in spans : b \in Extent(s)
      BY <1>9, <3>2 DEF Extent, Start
    <3>3. CASE owner[b] = ptr
      <4>1. b \in Bytes(ptr, want * PAGE)
        BY <1>3, <3>3 DEF Whole
      <4>2. b \in Extent(t)' /\ t \in spans'
        BY <1>3, <1>9, <4>1 DEF Extent, Start
      <4> QED BY <4>2
    <3>4. CASE \E p \in Pool : owner[b] \in Objects(p)
      BY <1>4, <2>2, <3>4
    <3> QED BY <3>1, <3>2, <3>3, <3>4
  <2> QED BY <1>0, <2>1, <2>2
<1>13. ASSUME NEW p \in Pool PROVE PoolOK(p)'
  <2> SUFFICES ASSUME Kept(p)
               PROVE  Chunked(p)' /\ Apart(p)' /\ Foreign(p)' /\ (~threw[p] => Ahead(p)')
    BY <1>4 DEF PoolOK, Kept
  <2>1. Foreign(p)
    BY <1>0 DEF PoolOK
  <2>2. Foreign(p)'
    <3>1. \A s \in spans : s.at \notin Objects(p)'
      BY <1>5, <1>6, <2>1 DEF Foreign
    <3>2. t.at \notin Objects(p)'
      BY <1>1, <1>3, <1>5, <1>7, <1>9, <2>1 DEF Foreign
    <3> QED BY <1>1, <1>9, <3>1, <3>2 DEF Foreign
  <2> QED BY <1>5, <2>2
<1>14. MemoryOK'
  BY <1>0, <1>2, NewKeepsMemory
<1> QED BY <1>4, <1>10, <1>11, <1>12, <1>13, <1>14 DEF Inv

\* A throw in a pool spoils what it would cut next, and no object.
LEMMA ThrowEffect ==
    ASSUME PoolTypes, NEW p \in Pool, NewThrows(p), \A q \in Pool : PoolOK(q)
    PROVE  /\ PoolTypes' /\ UNCHANGED owner /\ threw'[p] = TRUE
           /\ \A q \in Pool : Objects(q)' = Objects(q) /\ (q # p => threw'[q] = threw[q])
           /\ \A q \in Pool : Kept(q) =>
                 /\ Chunked(q)' /\ Apart(q)' /\ (~threw'[q] => Ahead(q)')
<1>1. /\ UNCHANGED <<owner, memory, freeList, given>>
      /\ remain' = [remain EXCEPT ![p] = CHUNK]
      /\ threw' = [threw EXCEPT ![p] = TRUE]
  BY DEF NewThrows
<1>2. PoolTypes' /\ threw'[p] = TRUE /\ \A q \in Pool : q # p => threw'[q] = threw[q]
  BY <1>1, Sizes DEF PoolTypes
<1>3. \A q \in Pool : Objects(q)' = Objects(q)
  BY <1>1 DEF Objects
<1>4. ASSUME NEW q \in Pool, Kept(q)
      PROVE  Chunked(q)' /\ Apart(q)' /\ (~threw'[q] => Ahead(q)')
  <2>1. Chunked(q) /\ Apart(q) /\ (~threw[q] => Ahead(q))
    BY <1>4 DEF PoolOK
  <2>2. \A c : ChunkAt(c) => ChunkAt(c)'
    BY <1>1 DEF ChunkAt, Belong
  <2>3. Chunked(q)' /\ Apart(q)'
    BY <1>3, <2>1, <2>2 DEF Chunked, Apart, ObjSize
  <2>4. ASSUME ~threw'[q] PROVE Ahead(q)'
    <3>1. q # p
      BY <1>2, <2>4
    <3>2. remain'[q] = remain[q] /\ memory'[q] = memory[q] /\ ~threw[q]
      BY <1>1, <1>2, <2>4, <3>1 DEF PoolTypes
    <3> QED BY <1>3, <2>1, <2>2, <3>2, PoolUntouched
  <2> QED BY <2>3, <2>4
<1> QED BY <1>1, <1>2, <1>3, <1>4

LEMMA NewSpanThrowsKeeps ==
    ASSUME Inv, NewSpanThrows
    PROVE  Inv'
<1>0. /\ MemoryOK /\ SpansOK /\ LocalsOK /\ PoolTypes /\ NothingLeaks
      /\ \A p \in Pool : PoolOK(p)
      /\ "spanPool" \in Pool
  BY Sizes DEF Inv
<1>1. pc' = "thrown" /\ UNCHANGED <<owner, ptr, want, spans, threads>>
  BY DEF NewSpanThrows
<1>2. /\ PoolTypes' /\ \A q \in Pool : Objects(q)' = Objects(q)
      /\ \A q \in Pool : q # "spanPool" => threw'[q] = threw[q]
      /\ \A q \in Pool : Kept(q) =>
            /\ Chunked(q)' /\ Apart(q)' /\ (~threw'[q] => Ahead(q)')
  <2>1. CASE UNCHANGED poolVars
    <3>1. /\ PoolTypes' /\ \A q \in Pool : Objects(q)' = Objects(q)
          /\ threw' = threw
      BY <1>0, <2>1 DEF poolVars, PoolTypes, Objects
    <3>2. ASSUME NEW q \in Pool, Kept(q)
          PROVE  Chunked(q)' /\ Apart(q)' /\ (~threw'[q] => Ahead(q)')
      <4>1. Chunked(q) /\ Apart(q) /\ (~threw[q] => Ahead(q))
        BY <1>0, <3>2 DEF PoolOK
      <4>2. \A c : ChunkAt(c) => ChunkAt(c)'
        BY <1>1 DEF ChunkAt, Belong
      <4>3. memory'[q] = memory[q] /\ remain'[q] = remain[q]
        BY <2>1 DEF poolVars
      <4> QED BY <1>0, <3>1, <4>1, <4>2, <4>3, PoolUntouched
    <3> QED BY <3>1, <3>2
  <2>2. CASE NewThrows("spanPool")
    BY <1>0, <2>2, ThrowEffect
  <2> QED BY <2>1, <2>2 DEF NewSpanThrows
<1>3. MemoryOK' /\ LocalsOK'
  BY <1>0, <1>1 DEF MemoryOK, LocalsOK
<1>4. SpansOK'
  <2>1. ASSUME NEW s \in spans PROVE SpanOK(s)'
    <3>1. Whole(s.at, s.n * PAGE)' /\ s.obj \in Objects("spanPool")
      BY <1>0, <1>1 DEF SpansOK, SpanOK, Whole
    <3> QED BY <1>0, <1>2, <3>1, SpanStays
  <2> QED BY <1>0, <1>1, <2>1 DEF SpansOK
<1>5. NothingLeaks'
  BY <1>0, <1>1, <1>2 DEF NothingLeaks, Extent, Start
<1>6. ASSUME NEW p \in Pool PROVE PoolOK(p)'
  <2>1. Kept(p)' => Kept(p)
    BY <1>2, Sizes DEF Kept
  <2>2. Foreign(p) => Foreign(p)'
    BY <1>1, <1>2 DEF Foreign
  <2> QED BY <1>0, <1>2, <2>1, <2>2 DEF PoolOK
<1> QED BY <1>2, <1>3, <1>4, <1>5, <1>6 DEF Inv

LEMMA NewThreadKeeps ==
    ASSUME Inv, NewThread
    PROVE  Inv'
<1>0. /\ MemoryOK /\ SpansOK /\ LocalsOK /\ PoolTypes /\ NothingLeaks
      /\ \A p \in Pool : PoolOK(p)
      /\ "tcPool" \in Pool /\ "spanPool" \in Pool
  BY Sizes DEF Inv
<1>1. UNCHANGED <<pc, ptr, want, spans>>
  BY DEF NewThread
<1>2. PICK obj : New("tcPool", obj)
  BY DEF NewThread
<1>3. /\ PoolTypes' /\ threw' = threw
      /\ Objects("tcPool")' = Objects("tcPool") \cup {obj}
      /\ \A q \in Pool \ {"tcPool"} : Objects(q)' = Objects(q)
  BY <1>0, <1>2, NewEffect
<1>4. /\ \A q \in Pool : Kept(q) =>
            /\ Chunked(q)' /\ Apart(q)' /\ (~threw[q] => Ahead(q)')
            /\ \A c \in Address \ {0}, l \in Nat \ {0} :
                  Whole(c, l) /\ c \notin Objects(q) => c \notin Objects(q)'
      /\ \A c \in Address \ {0}, l \in Nat \ {0} : Whole(c, l) => Whole(c, l)'
  BY <1>0, <1>2, NewKeepsPools DEF Kept
<1>5. \A s \in spans : s.at \in Address \ {0} /\ s.n * PAGE \in Nat \ {0} /\ Whole(s.at, s.n * PAGE)
                       /\ s.obj \in Objects("spanPool")
  BY <1>0, Sizes DEF SpansOK, SpanOK
<1>6. MemoryOK'
  BY <1>0, <1>2, NewKeepsMemory
<1>7. SpansOK'
  <2>1. ASSUME NEW s \in spans PROVE SpanOK(s)'
    <3>1. Whole(s.at, s.n * PAGE)'
      BY <1>4, <1>5
    <3> QED BY <1>0, <1>3, <1>5, <3>1, SpanStays
  <2> QED BY <1>0, <1>1, <2>1 DEF SpansOK
<1>8. pc = "span" => /\ ptr \in Address \ {0} /\ want * PAGE \in Nat \ {0}
                     /\ Whole(ptr, want * PAGE) /\ Whole(ptr, want * PAGE)'
  <2> SUFFICES ASSUME pc = "span"
               PROVE  /\ ptr \in Address \ {0} /\ want * PAGE \in Nat \ {0}
                      /\ Whole(ptr, want * PAGE) /\ Whole(ptr, want * PAGE)'
    OBVIOUS
  <2>1. PICK c, l : c = ptr /\ l = want * PAGE
    OBVIOUS
  <2>2. c \in Address \ {0} /\ l \in Nat \ {0} /\ Whole(c, l)
    BY <1>0, <2>1, Sizes DEF LocalsOK
  <2>3. Whole(c, l)'
    BY <1>4, <2>2
  <2>4. c = ptr' /\ l = want' * PAGE
    BY <1>1, <2>1
  <2>5. Whole(ptr, want * PAGE)'
    BY <2>3, <2>4 DEF Whole, Bytes
  <2> QED BY <2>1, <2>2, <2>5
<1>9. LocalsOK'
  BY <1>0, <1>1, <1>3, <1>8 DEF LocalsOK
<1>10. NothingLeaks'
  <2> SUFFICES ASSUME NEW b \in Address, owner'[b] # 0
               PROVE  \/ \E s \in spans' : b \in Extent(s)'
                      \/ owner'[b] = ptr'
                      \/ \E p \in Pool : owner'[b] \in Objects(p)'
    BY DEF NothingLeaks
  <2>1. \/ owner[b] # 0 /\ owner'[b] = owner[b]
        \/ owner'[b] \in Objects("tcPool")'
    BY <1>0, <1>2, NewLeaksNothing
  <2>2. CASE owner[b] # 0 /\ owner'[b] = owner[b]
    <3>1. \/ \E s \in spans : b \in Extent(s)
          \/ owner[b] = ptr
          \/ \E p \in Pool : owner[b] \in Objects(p)
      BY <1>0, <2>2 DEF NothingLeaks
    <3>2. CASE \E s \in spans : b \in Extent(s)
      BY <1>1, <3>2 DEF Extent, Start
    <3>3. CASE \E p \in Pool : owner[b] \in Objects(p)
      BY <1>3, <2>2, <3>3
    <3> QED BY <1>1, <2>2, <3>1, <3>2, <3>3
  <2> QED BY <1>0, <2>1, <2>2
<1>11. ASSUME NEW p \in Pool PROVE PoolOK(p)'
  <2> SUFFICES ASSUME Kept(p)
               PROVE  Chunked(p)' /\ Apart(p)' /\ Foreign(p)' /\ (~threw[p] => Ahead(p)')
    BY <1>3 DEF PoolOK, Kept
  <2>1. Foreign(p)
    BY <1>0 DEF PoolOK
  <2>2. Foreign(p)'
    <3>1. \A s \in spans : s.at \notin Objects(p)'
      BY <1>4, <1>5, <2>1 DEF Foreign
    <3>2. pc = "span" => ptr \notin Objects(p)'
      BY <1>4, <1>8, <2>1 DEF Foreign
    <3> QED BY <1>1, <3>1, <3>2 DEF Foreign
  <2> QED BY <1>4, <2>2
<1> QED BY <1>3, <1>6, <1>7, <1>9, <1>10, <1>11 DEF Inv

LEMMA NewThreadThrowsKeeps ==
    ASSUME Inv, NewThreadThrows
    PROVE  Inv'
<1>0. /\ MemoryOK /\ SpansOK /\ LocalsOK /\ PoolTypes /\ NothingLeaks
      /\ \A p \in Pool : PoolOK(p)
      /\ "tcPool" \in Pool /\ "spanPool" \in Pool
  BY Sizes DEF Inv
<1>1. NewThrows("tcPool") /\ UNCHANGED <<pc, ptr, want, spans, threads>>
  BY DEF NewThreadThrows
<1>2. /\ PoolTypes' /\ UNCHANGED owner /\ \A q \in Pool : Objects(q)' = Objects(q)
      /\ \A q \in Pool : q # "tcPool" => threw'[q] = threw[q]
      /\ threw'["tcPool"] = TRUE
      /\ \A q \in Pool : Kept(q) =>
            /\ Chunked(q)' /\ Apart(q)' /\ (~threw'[q] => Ahead(q)')
  BY <1>0, <1>1, ThrowEffect
<1>3. MemoryOK' /\ LocalsOK'
  BY <1>0, <1>1, <1>2 DEF MemoryOK, LocalsOK, Whole
<1>4. SpansOK'
  <2>1. ASSUME NEW s \in spans PROVE SpanOK(s)'
    <3>1. Whole(s.at, s.n * PAGE)' /\ s.obj \in Objects("spanPool")
      BY <1>0, <1>2 DEF SpansOK, SpanOK, Whole
    <3> QED BY <1>0, <1>2, <3>1, SpanStays
  <2> QED BY <1>0, <1>1, <2>1 DEF SpansOK
<1>5. NothingLeaks'
  BY <1>0, <1>1, <1>2 DEF NothingLeaks, Extent, Start
<1>6. ASSUME NEW p \in Pool PROVE PoolOK(p)'
  <2>1. Kept(p)' => Kept(p)
    BY <1>2 DEF Kept
  <2>2. Foreign(p) => Foreign(p)'
    BY <1>1, <1>2 DEF Foreign
  <2> QED BY <1>0, <1>2, <2>1, <2>2 DEF PoolOK
<1> QED BY <1>2, <1>3, <1>4, <1>5, <1>6 DEF Inv

\* What ReleaseLarge unmaps is the span's own mapping.
LEMMA ReleaseUnmaps ==
    ASSUME Inv, NEW s \in spans, ReleaseLarge(s)
    PROVE  \A a \in Address : owner'[a] = IF owner[a] = s.at THEN 0 ELSE owner[a]
<1>1. Start(s) = s.at /\ \A a \in Address : owner[a] = s.at <=> a \in Bytes(s.at, s.n * PAGE)
  BY DEF Inv, SpansOK, SpanOK, Whole
<1>2. owner' = [a \in Address |-> IF a \in Bytes(s.at, s.n * PAGE) THEN 0 ELSE owner[a]]
  BY <1>1 DEF ReleaseLarge, Unmap, SystemFree
<1> QED BY <1>1, <1>2

LEMMA ReleaseLargeKeeps ==
    ASSUME Inv, NEW s \in spans, ReleaseLarge(s)
    PROVE  Inv'
<1>0. /\ MemoryOK /\ SpansOK /\ LocalsOK /\ PoolTypes /\ NothingLeaks
      /\ \A p \in Pool : PoolOK(p)
      /\ "spanPool" \in Pool
  BY Sizes DEF Inv
<1>1. /\ pc = "idle" /\ ptr = 0 /\ spans' = spans \ {s}
      /\ UNCHANGED <<pc, ptr, want, threads, memory, remain, threw>>
  BY <1>0 DEF ReleaseLarge, Delete, LocalsOK
<1>2. \A a \in Address : owner'[a] = IF owner[a] = s.at THEN 0 ELSE owner[a]
  BY ReleaseUnmaps
<1>3. s.at \in Address \ {0} /\ s.obj \in Objects("spanPool")
  BY <1>0 DEF SpansOK, SpanOK
<1>4. /\ given' = [given EXCEPT !["spanPool"] = @ \ {s.obj}]
      /\ freeList' = [freeList EXCEPT !["spanPool"] = @ \cup {s.obj}]
  BY DEF ReleaseLarge, Delete
<1>5. PoolTypes'
  <2>1. s.obj \in Nat
    BY <1>0, <1>3 DEF PoolTypes, Objects
  <2> QED BY <1>0, <1>1, <1>4, <2>1 DEF PoolTypes
<1>6. \A p \in Pool : Objects(p)' = Objects(p)
  <2>1. Objects("spanPool")' = Objects("spanPool")
    BY <1>0, <1>3, <1>4 DEF Objects, PoolTypes
  <2>2. ASSUME NEW p \in Pool, p # "spanPool" PROVE Objects(p)' = Objects(p)
    BY <1>0, <1>4, <2>2 DEF Objects, PoolTypes
  <2> QED BY <2>1, <2>2
<1>7. MemoryOK'
  <2>1. owner' \in [Address -> Address]
    <3>1. 0 \in Address
      BY Sizes DEF Address
    <3>2. owner' = [a \in Address |-> IF a \in Bytes(Start(s), s.n * PAGE) THEN 0 ELSE owner[a]]
      BY DEF ReleaseLarge, Unmap, SystemFree
    <3> QED BY <1>0, <3>1, <3>2 DEF MemoryOK
  <2>2. ASSUME NEW a \in Address, owner'[a] # 0 PROVE owner'[owner'[a]] = owner'[a]
    <3>1. owner'[a] = owner[a] /\ owner[a] # s.at /\ owner[a] \in Address
      BY <1>0, <1>2, <2>2 DEF MemoryOK
    <3>2. owner[owner[a]] = owner[a]
      BY <1>0, <2>2, <3>1 DEF MemoryOK
    <3> QED BY <1>2, <3>1, <3>2
  <2> QED BY <2>1, <2>2 DEF MemoryOK
<1>8. \A c, l : c # 0 /\ c # s.at /\ Whole(c, l) => Whole(c, l)'
  <2>1. SUFFICES ASSUME NEW c, NEW l, c # 0, c # s.at, Whole(c, l) PROVE Whole(c, l)'
    OBVIOUS
  <2>2. \A a \in Address : owner'[a] = c <=> owner[a] = c
    BY <1>2, <2>1
  <2> QED BY <2>1, <2>2 DEF Whole, Bytes
<1>9. SpansOK'
  <2>1. ASSUME NEW t \in spans', NEW d, d = s.at PROVE SpanOK(t)'
    <3>1. t \in spans /\ t # s /\ t.at # d
      BY <1>0, <1>1, <2>1 DEF SpansOK
    <3>2. t.at # 0 /\ Whole(t.at, t.n * PAGE) /\ t.obj \in Objects("spanPool")
      BY <1>0, <3>1 DEF SpansOK, SpanOK
    <3>3. Whole(t.at, t.n * PAGE)'
      BY <1>8, <2>1, <3>1, <3>2
    <3> QED BY <1>0, <1>6, <3>1, <3>2, <3>3, SpanStays
  <2> QED BY <1>0, <1>1, <2>1 DEF SpansOK
<1>10. LocalsOK'
  BY <1>0, <1>1 DEF LocalsOK
<1>11. NothingLeaks'
  <2> SUFFICES ASSUME NEW b \in Address, owner'[b] # 0
               PROVE  \/ \E t \in spans' : b \in Extent(t)'
                      \/ \E p \in Pool : owner'[b] \in Objects(p)'
    BY DEF NothingLeaks
  <2>1. owner'[b] = owner[b] /\ owner[b] # 0 /\ owner[b] # s.at
    BY <1>2
  <2>2. \/ \E t \in spans : b \in Extent(t)
        \/ \E p \in Pool : owner[b] \in Objects(p)
    BY <1>0, <1>1, <2>1 DEF NothingLeaks
  <2>3. ASSUME NEW t \in spans, b \in Extent(t) PROVE t \in spans'
    <3>1. owner[b] = t.at
      BY <1>0, <2>3 DEF SpansOK, SpanOK, Whole, Extent
    <3> QED BY <1>1, <2>1, <3>1
  <2>4. \A t : Extent(t)' = Extent(t)
    BY DEF Extent, Start
  <2> QED BY <1>6, <2>1, <2>2, <2>3, <2>4
<1>12. ASSUME NEW p \in Pool PROVE PoolOK(p)'
  <2>1. Kept(p)' = Kept(p) /\ memory'[p] = memory[p] /\ remain'[p] = remain[p] /\ threw' = threw
    BY <1>1 DEF Kept
  <2> SUFFICES ASSUME Kept(p)
               PROVE  Chunked(p)' /\ Apart(p)' /\ Foreign(p)' /\ (~threw[p] => Ahead(p)')
    BY <2>1 DEF PoolOK
  <2>2. Chunked(p) /\ Apart(p) /\ Foreign(p) /\ (~threw[p] => Ahead(p))
    BY <1>0 DEF PoolOK
  <2>3. ASSUME NEW c \in Objects(p), ChunkAt(c) PROVE ChunkAt(c)'
    <3>1. c # s.at
      BY <2>2 DEF Foreign
    <3>2. \A a \in Bytes(c, CHUNK) : a \in Address /\ owner'[a] = c
      BY <1>2, <2>3, <3>1 DEF ChunkAt, Belong
    <3> QED BY <2>3, <3>2 DEF ChunkAt, Belong
  <2>4. Chunked(p)' /\ Apart(p)' /\ (~threw[p] => Ahead(p)')
    BY <1>0, <1>6, <2>1, <2>2, <2>3, PoolUntouched
  <2>5. Foreign(p)'
    BY <1>1, <1>6, <2>2 DEF Foreign
  <2> QED BY <2>4, <2>5
<1> QED BY <1>5, <1>7, <1>9, <1>10, <1>11, <1>12 DEF Inv

LEMMA StutterKeeps == Inv /\ UNCHANGED vars => Inv'
<1> SUFFICES ASSUME Inv, UNCHANGED vars PROVE Inv'
  OBVIOUS
<1>1. MemoryOK' /\ LocalsOK' /\ PoolTypes'
  BY DEF Inv, vars, poolVars, MemoryOK, LocalsOK, PoolTypes, Whole
<1>2. \A p \in Pool : Objects(p)' = Objects(p)
  BY DEF vars, poolVars, Objects
<1>3. SpansOK'
  <2>1. ASSUME NEW s \in spans PROVE SpanOK(s)'
    <3>1. Whole(s.at, s.n * PAGE)' /\ s.obj \in Objects("spanPool")'
      BY <1>2, Sizes DEF Inv, SpansOK, SpanOK, Whole, vars
    <3> QED BY <3>1, SpanStays DEF Inv
  <2> QED BY <2>1 DEF Inv, SpansOK, vars
<1>4. NothingLeaks'
  BY <1>2 DEF Inv, NothingLeaks, Extent, Start, vars
<1>5. ASSUME NEW p \in Pool PROVE PoolOK(p)'
  BY <1>2, <1>5 DEF Inv, PoolOK, Kept, Chunked, Apart, Foreign, Ahead, ChunkAt, Belong,
                    ObjSize, vars, poolVars
<1> QED BY <1>1, <1>3, <1>4, <1>5 DEF Inv

-----------------------------------------------------------------------------
(* The theorems.                                                             *)

\* Every operation keeps the invariant, throwing ones and unlocked ones too.
LEMMA InvStep == ASSUME Inv, Aligned, [Next]_vars PROVE Inv'
<1>1. CASE \E k \in LargeSizes \cup {NPAGES - 1} : NewSpan(k)
  BY <1>1, NewSpanKeeps
<1>2. CASE NameSpan
  BY <1>2, NameSpanKeeps
<1>3. CASE NewSpanThrows
  BY <1>3, NewSpanThrowsKeeps
<1>4. CASE \E s \in spans : ReleaseLarge(s)
  BY <1>4, ReleaseLargeKeeps
<1>5. CASE NewThread
  BY <1>5, NewThreadKeeps
<1>6. CASE NewThreadThrows
  BY <1>6, NewThreadThrowsKeeps
<1>7. CASE MutexHeldForever \/ UNCHANGED vars
  BY <1>7, StutterKeeps DEF MutexHeldForever
<1> QED BY <1>1, <1>2, <1>3, <1>4, <1>5, <1>6, <1>7 DEF Next

\* Every reachable state satisfies the invariant the others rest on.
THEOREM Invariance == ASSUME Aligned PROVE Spec => []Inv
<1>1. Aligned => (Inv /\ [Next]_vars => Inv')
  BY InvStep
<1>2. Inv /\ [Next]_vars => Inv'
  BY <1>1
<1> QED BY <1>2, InvInit, PTL DEF Spec

\* A block of NewSpan (PageCache.cpp:31-40, 86-90) starts where mmap put it and
\* ends where the mapping ends, though its address went through >> PAGE_SHIFT.
THEOREM Writable == ASSUME Aligned PROVE Spec => []SpansMapped
<1>1. Inv => SpansMapped
  BY DEF Inv, SpansOK, SpanOK, Whole, SpansMapped, Belong, Extent
<1> QED BY <1>1, Invariance, PTL

\* Whatever is mapped is in use by a span, by a NewSpan or by a pool: munmap is
\* called for each large block once (PageCache.cpp:99-105), of its full length.
THEOREM Frugality == ASSUME Aligned PROVE Spec => []NothingLeaks
<1>1. Inv => NothingLeaks
  BY DEF Inv
<1> QED BY <1>1, Invariance, PTL

\* Two Spans never share a byte, and no two ThreadCaches do until SystemAlloc
\* throws in ObjectPool::New (ObjectPool.h:28-38).
THEOREM Distinctness == ASSUME Aligned PROVE Spec => []PoolsSoundUntilThrow
<1>1. Inv => PoolsSoundUntilThrow
  <2> SUFFICES ASSUME Inv, NEW p \in Pool, Kept(p) PROVE PoolSound(p)
    BY DEF PoolsSoundUntilThrow, Kept
  <2>1. Chunked(p) /\ Apart(p) /\ PoolTypes
    BY DEF Inv, PoolOK
  <2>2. ASSUME NEW obj \in Objects(p) PROVE InChunk(p, obj)
    <3>1. PICK c \in Objects(p) : ChunkAt(c) /\ c <= obj /\ obj + SizeOf[p] <= c + CHUNK
      BY <2>1 DEF Chunked
    <3> QED BY <3>1, Sizes DEF InChunk, ChunkAt
  <2> QED BY <2>1, <2>2 DEF PoolSound
<1> QED BY <1>1, Invariance, PTL

\* What a release unmaps (PageCache.cpp:99-105) belonged to the released block.
THEOREM Munmap == ASSUME Aligned PROVE Spec => UnmapsItsOwn
<1> DEFINE A == \A a \in Address : owner[a] # 0 /\ owner'[a] = 0 =>
                    \E s \in spans \ spans' : owner[a] = s.at
<1>1. Inv /\ [Next]_vars => [A]_vars
  <2> SUFFICES ASSUME Inv, Next, NEW a \in Address, owner[a] # 0, owner'[a] = 0
               PROVE  \E s \in spans \ spans' : owner[a] = s.at
    BY DEF vars
  <2>0. MemoryOK /\ PoolTypes /\ "spanPool" \in Pool /\ "tcPool" \in Pool
    BY Sizes DEF Inv
  <2>1. ASSUME NEW b, NEW k \in Nat \ {0}, SystemAlloc(b, k) PROVE FALSE
    BY <2>0, <2>1, Maps
  <2>2. ASSUME NEW p \in Pool, NEW obj, New(p, obj) PROVE FALSE
    BY <2>0, <2>1, <2>2, NewEffect, Sizes
  <2>3. CASE \E k \in LargeSizes \cup {NPAGES - 1} : NewSpan(k)
    BY <2>1, <2>3, SpansAssumption DEF NewSpan
  <2>4. CASE NameSpan
    BY <2>0, <2>2, <2>4 DEF NameSpan
  <2>5. CASE NewThread
    BY <2>0, <2>2, <2>5 DEF NewThread
  <2>6. CASE NewSpanThrows \/ NewThreadThrows \/ MutexHeldForever
    BY <2>6 DEF NewSpanThrows, NewThreadThrows, NewThrows, MutexHeldForever, vars
  <2>7. CASE \E s \in spans : ReleaseLarge(s)
    <3>1. PICK s \in spans : ReleaseLarge(s)
      BY <2>7
    <3>2. spans' = spans \ {s}
      BY <3>1 DEF ReleaseLarge
    <3>3. owner[a] = s.at
      BY <3>1, ReleaseUnmaps
    <3> QED BY <3>2, <3>3
  <2> QED BY <2>3, <2>4, <2>5, <2>6, <2>7 DEF Next
<1> QED BY <1>1, Invariance, PTL DEF Spec, UnmapsItsOwn
=============================================================================
