--------------------------- MODULE Radix64Proofs ----------------------------
(***************************************************************************)
(* Radix64 is a map that may be asked without a mutex, whatever the sizes  *)
(* of its nodes, the page ids and the number of readers.                   *)
(***************************************************************************)
EXTENDS Radix64, Arithmetic, TLAPS

-----------------------------------------------------------------------------
(* The inductive invariant.                                                  *)

\* What kind of entry a place can hold.
Holds(p, v) ==
    /\ p[1] = Root => v \in Mid \cup {Null}
    /\ p[1] \in Mid => v \in Leaf \cup {Null, Garbage}
    /\ p[1] \in Leaf => v \in Value \cup {Null, Garbage}

\* The three kinds of store.
Clear(w, n) == n \in Node /\ w.places = Entries(n) /\ w.value = Null /\ ~w.release
Link(w, p) == p \in Place /\ w.places = {p} /\ w.value \in Node /\ w.release /\ Holds(p, w.value)
Put(w, p) == p \in Place /\ p[1] \in Leaf /\ w.places = {p} /\ w.value \in Value /\ w.release

Record == [places : SUBSET Place, value : Node \cup Value \cup {Null}, release : BOOLEAN, when : Nat]

MemOK ==
    /\ mem \in [Place -> Node \cup Value \cup {Null, Garbage}]
    /\ own \in [Place -> Node \cup Value \cup {Null, Garbage}]
    /\ \A p \in Place : Holds(p, mem[p]) /\ Holds(p, own[p])
    /\ pending \subseteq Record
    /\ clock \in Nat
    /\ fresh \subseteq Node
    /\ latest \in [Key -> Value \cup {Null}]

ReadersOK ==
    /\ at \in [Reader -> {"idle", "beyond", "root", "mid", "leaf"}]
    /\ asked \in [Reader -> Key \cup {Null}]
    /\ node \in [Reader -> Node \cup {Null}]
    /\ answer \in [Reader -> Node \cup Value \cup {Null, Garbage}]

\* Every store is of one kind, and they are numbered.
Stores ==
    /\ \A w \in pending : \/ \E n \in Node : Clear(w, n)
                          \/ \E p \in Place : Link(w, p) \/ Put(w, p)
    /\ \A w \in pending : w.when < clock
    /\ \A w, u \in pending : w.when = u.when => w = u

\* What the holder of the mutex sees is a tree.
OneParent == \A p, q \in Place : own[p] \in Node /\ own[p] = own[q] => p = q

\* A node SystemAlloc has not given is nowhere.
FreshUnused ==
    \A n \in fresh :
        /\ \A p \in Place : own[p] # n
        /\ \A w \in pending : w.value # n /\ w.places \cap Entries(n) = {}
        /\ \A p \in Entries(n) : mem[p] = Garbage

\* Other threads see an entry as it is, or its pending stores decide it.
Seen ==
    /\ \A p \in Place : (\A w \in pending : p \notin w.places) => mem[p] = own[p]
    /\ \A w \in pending : \A p \in w.places :
          (\A u \in pending : p \in u.places => u.when <= w.when) => own[p] = w.value
    /\ \A p \in Place : mem[p] \in Node => own[p] = mem[p]

\* A node is cleared, then published, then filled.
ClearFirst ==
    \A w \in pending, n \in Node : Clear(w, n) =>
        /\ n \notin fresh
        /\ \A p \in Entries(n) : mem[p] = Garbage
        /\ \A u \in pending : u # w /\ u.places \cap Entries(n) # {} => w.when < u.when
        /\ \A u \in pending, p \in Place : Link(u, p) /\ u.value = n => w.when < u.when
        /\ \A p \in Place : mem[p] # n

LinkNext ==
    \A w \in pending, p \in Place : Link(w, p) =>
        /\ own[p] = w.value
        /\ \A u \in pending : Link(u, p) => u = w
        /\ \A u \in pending : u.release /\ u.places \subseteq Entries(w.value) => w.when < u.when
        /\ (\A u \in pending : ~Clear(u, w.value)) => \A q \in Entries(w.value) : mem[q] = Null
        /\ \A q \in Place : mem[q] # w.value

\* A node other threads can reach has been cleared.
NoGarbage ==
    \A p \in Place : mem[p] \in Node => \A q \in Entries(mem[p]) : mem[q] # Garbage

\* The holder of the mutex sees no memory that was not cleared.
OwnCleared == \A p \in Place : own[p] = Garbage => p[1] \in fresh

\* A value is stored where its page id leads.
PutWhereItLeads ==
    \A w \in pending, p \in Place : Put(w, p) =>
        \E k \in Key :
            /\ InRange(k)
            /\ p[2] = I3(k)
            /\ own[<<Root, I1(k)>>] \in Mid
            /\ own[<<own[<<Root, I1(k)>>], I2(k)>>] = p[1]

\* The locals of set().
Locals ==
    /\ pc \in {"unlocked", "locked", "mid", "leaf", "value", "thrown"}
    /\ pc \in {"mid", "leaf", "value"} => key \in Key /\ InRange(key) /\ val \in Value
    /\ pc \in {"leaf", "value"} => mid \in Mid /\ own[MidEntry] = mid
    /\ pc = "value" => leaf \in Leaf /\ own[LeafEntry] = leaf

\* The locals of get(): what was found stays found.
Finds(r) ==
    /\ at[r] = "idle" <=> asked[r] = Null
    /\ at[r] # "idle" => asked[r] \in Key
    /\ at[r] = "beyond" => ~InRange(asked[r])
    /\ at[r] \in {"root", "mid", "leaf"} => InRange(asked[r])
    /\ at[r] = "mid" => node[r] \in Mid /\ mem[<<Root, I1(asked[r])>>] = node[r]
    /\ at[r] = "leaf" => \E m \in Mid :
          /\ mem[<<Root, I1(asked[r])>>] = m
          /\ node[r] \in Leaf /\ mem[<<m, I2(asked[r])>>] = node[r]

\* The walk of the holder of the mutex.
OwnWalk(k) ==
    LET m == own[<<Root, I1(k)>>]
        l == own[<<m, I2(k)>>]
    IN  IF ~InRange(k) THEN Null
        ELSE IF m \notin Mid THEN m
        ELSE IF l \notin Leaf THEN l
        ELSE own[<<l, I3(k)>>]

\* It ends at what set() stored last.
OwnLatest == \A k \in Key : OwnWalk(k) = latest[k]

Tree ==
    /\ MemOK /\ Stores /\ OneParent /\ FreshUnused /\ Seen /\ ClearFirst /\ LinkNext
    /\ NoGarbage /\ OwnCleared /\ PutWhereItLeads /\ OwnLatest

Inv == Tree /\ Locals /\ ReadersOK /\ \A r \in Reader : Finds(r)

-----------------------------------------------------------------------------
(* Page ids and places.                                                      *)

\* A page id is its three indices (PageMap.h:190-192).
LEMMA OneKey ==
    ASSUME NEW k \in Key, NEW j \in Key, I1(k) = I1(j), I2(k) = I2(j), I3(k) = I3(j)
    PROVE  k = j
<1> DEFINE L == LEAF_LENGTH
           M == MID_LENGTH
<1>1. L \in Nat \ {0} /\ M \in Nat \ {0} /\ k \in Nat /\ j \in Nat
  BY RadixAssumption
<1>2. \A x \in Nat : x \div (L * M) = (x \div L) \div M
  <2>1. TAKE x \in Nat
  <2> DEFINE q == x \div L
             r == x % L
             Q == q \div M
             R == q % M
  <2>2. q \in Nat /\ r \in Nat /\ r < L /\ x = L * q + r
    BY <1>1, DivMod
  <2>3. Q \in Nat /\ R \in Nat /\ R < M /\ q = M * Q + R
    BY <1>1, <2>2, DivMod
  <2> HIDE DEF q, r, Q, R, L, M
  <2>4. x = (L * M) * Q + (L * R + r)
    BY <1>1, <2>2, <2>3
  <2>5. L * R <= L * (M - 1)
    BY <1>1, <2>3
  <2>6. L * R + r \in Nat /\ L * R + r < L * M
    BY <1>1, <2>2, <2>3, <2>5
  <2>7. L * M \in Nat \ {0}
    BY <1>1
  <2>8. x \div (L * M) = Q
    BY <2>3, <2>4, <2>6, <2>7, Quotient
  <2> QED BY <2>8 DEF Q, q
<1> HIDE DEF L, M
<1>3. k \div L = j \div L
  <2>1. k \div L \in Nat /\ j \div L \in Nat
    BY <1>1, DivMod
  <2>2. (k \div L) \div M = (j \div L) \div M /\ (k \div L) % M = (j \div L) % M
    <3>1. k \div (L * M) = j \div (L * M) /\ (k \div L) % M = (j \div L) % M
      BY DEF I1, I2, L, M
    <3> QED BY <1>1, <1>2, <3>1
  <2> DEFINE a == k \div L
             b == j \div L
  <2>3. a = M * (a \div M) + (a % M) /\ b = M * (b \div M) + (b % M)
    BY <1>1, <2>1, DivMod
  <2> QED BY <2>2, <2>3
<1>4. k = L * (k \div L) + (k % L) /\ j = L * (j \div L) + (j % L)
  BY <1>1, DivMod
<1>5. k % L = j % L
  BY DEF I3, L
<1> QED BY <1>3, <1>4, <1>5

LEMMA Places ==
    /\ \A k \in Key : I1(k) \in Index /\ I2(k) \in Index /\ I3(k) \in Index
    /\ \A n \in Node \cup {Root} : \A x \in Index : <<n, x>> \in Place
    /\ \A p \in Place : p[1] \in Node \cup {Root} /\ p = <<p[1], p[2]>> /\ p[2] \in Index
    /\ \A n \in Node, p \in Place : p \in Entries(n) <=> p[1] = n
    /\ \A n \in Node : Entries(n) \subseteq Place /\ Entries(n) # {}
<1>1. Key # {} /\ \A k \in Key : {I1(k), I2(k), I3(k)} \subseteq Index
  BY RadixAssumption DEF Index
<1>2. Index # {}
  BY <1>1
<1>3. \A k \in Key : I1(k) \in Index /\ I2(k) \in Index /\ I3(k) \in Index
  BY <1>1
<1>4. \A p \in Place : p[1] \in Node \cup {Root} /\ p = <<p[1], p[2]>> /\ p[2] \in Index
  BY DEF Place
<1>5. \A n \in Node, p \in Place : p \in Entries(n) <=> p[1] = n
  BY DEF Place, Entries
<1>6. \A n \in Node : Entries(n) \subseteq Place
  BY DEF Place, Entries
<1>7. \A n \in Node : Entries(n) # {}
  <2>1. PICK i \in Index : TRUE
    BY <1>2
  <2>2. \A n \in Node : <<n, i>> \in Entries(n)
    BY <2>1 DEF Entries
  <2> QED BY <2>2
<1>8. \A n \in Node \cup {Root} : \A x \in Index : <<n, x>> \in Place
  BY DEF Place
<1> QED BY <1>3, <1>4, <1>5, <1>6, <1>7, <1>8

LEMMA Distinct ==
    /\ Node = Mid \cup Leaf /\ Mid \cap Leaf = {} /\ Root \notin Node
    /\ Value \cap Node = {}
    /\ Null \notin Node /\ Null \notin Value /\ Null \notin Key /\ Null # Garbage
    /\ Garbage \notin Node /\ Garbage \notin Value
BY RadixAssumption DEF Node

-----------------------------------------------------------------------------
(* A store becomes visible.                                                  *)

\* What a store puts where.
LEMMA Kind ==
    ASSUME MemOK, Stores, NEW w \in pending
    PROVE  /\ w.places \subseteq Place /\ w.when \in Nat
           /\ \A n \in Node : Clear(w, n) => w.value = Null
           /\ w.value \in Node => \E p \in Place : Link(w, p)
           /\ w.value = Null => \E n \in Node : Clear(w, n)
           /\ w.value \in Node \/ w.value = Null \/ w.value \in Value
           /\ \A p \in Place : Put(w, p) => w.value \notin Node
           /\ \A p \in w.places : Holds(p, w.value)
<1>1. w \in Record
  BY DEF MemOK
<1>2. w.places \subseteq Place /\ w.when \in Nat
  BY <1>1 DEF Record
<1>3. \/ \E n \in Node : Clear(w, n)
      \/ \E p \in Place : Link(w, p) \/ Put(w, p)
  BY DEF Stores
<1>4. \A n \in Node : Clear(w, n) => w.value = Null
  BY DEF Clear
<1>5. \A p \in Place : Put(w, p) => w.value \in Value
  BY DEF Put
<1>6. \A p \in Place : Link(w, p) => w.value \in Node
  BY DEF Link
<1>7. \A p \in w.places : Holds(p, w.value)
  <2>1. ASSUME NEW n \in Node, Clear(w, n), NEW p \in w.places PROVE Holds(p, w.value)
    BY <2>1, Places, Distinct DEF Clear, Holds, Entries
  <2>2. ASSUME NEW q \in Place, Link(w, q), NEW p \in w.places PROVE Holds(p, w.value)
    BY <2>2 DEF Link
  <2>3. ASSUME NEW q \in Place, Put(w, q), NEW p \in w.places PROVE Holds(p, w.value)
    BY <2>3, Distinct DEF Put, Holds
  <2> QED BY <1>3, <2>1, <2>2, <2>3
<1> QED BY <1>2, <1>3, <1>4, <1>5, <1>6, <1>7, Distinct

\* A pointer to a node is changed by no store (PageMap.h:137-140).
LEMMA DrainKeepsNodes ==
    ASSUME Tree, NEW w \in pending, Drain(w), NEW p \in Place, mem[p] \in Node
    PROVE  mem'[p] = mem[p]
<1>1. CASE p \notin w.places
  BY <1>1 DEF Drain
<1>2. CASE p \in w.places
  <2>1. ASSUME NEW n \in Node, Clear(w, n) PROVE FALSE
    BY <1>2, <2>1, Distinct DEF Tree, ClearFirst, Clear
  <2>2. ASSUME NEW q \in Place, Link(w, q) PROVE mem'[p] = mem[p]
    <3>1. p = q
      BY <1>2, <2>2 DEF Link
    <3>2. own[p] = w.value /\ own[p] = mem[p]
      BY <2>2, <3>1 DEF Tree, LinkNext, Seen
    <3>3. mem'[p] = w.value
      BY <1>2 DEF Drain
    <3> QED BY <3>2, <3>3
  <2>3. ASSUME NEW q \in Place, Put(w, q) PROVE FALSE
    <3>1. p = q /\ p[1] \in Leaf
      BY <1>2, <2>3 DEF Put
    <3>2. mem[p] \in Value \cup {Null, Garbage}
      BY <3>1 DEF Tree, MemOK, Holds
    <3> QED BY <3>2, Distinct
  <2> QED BY <2>1, <2>2, <2>3 DEF Tree, Stores
<1> QED BY <1>1, <1>2

LEMMA DrainKeepsTree ==
    ASSUME Tree, NEW w \in pending, Drain(w)
    PROVE  Tree'
<1> USE DEF Tree
<1>0. /\ UNCHANGED <<own, clock, fresh, latest>>
      /\ pending' = pending \ {w}
      /\ mem' = [p \in Place |-> IF p \in w.places THEN w.value ELSE mem[p]]
      /\ \A u \in pending : u.when < w.when => ~w.release /\ w.places \cap u.places = {}
  BY DEF Drain, Before, setter
<1>1. \A u \in pending : /\ u.places \subseteq Place /\ u.when \in Nat
                         /\ u.value \in Node \/ u.value = Null \/ u.value \in Value
                         /\ \A p \in u.places : Holds(p, u.value)
  BY Kind
<1>2. MemOK'
  <2>1. mem' \in [Place -> Node \cup Value \cup {Null, Garbage}]
    BY <1>0, <1>1 DEF MemOK
  <2>2. \A p \in Place : Holds(p, mem'[p])
    BY <1>0, <1>1 DEF MemOK
  <2>3. (\A p \in Place : Holds(p, mem[p]))'
    BY <2>2 DEF Holds
  <2>4. (\A p \in Place : Holds(p, own[p]))'
    BY <1>0 DEF MemOK, Holds
  <2> QED BY <1>0, <2>1, <2>3, <2>4 DEF MemOK
<1>3. Stores'
  BY <1>0 DEF Stores, Clear, Link, Put, Holds
<1>4. OneParent'
  BY <1>0 DEF OneParent
<1>5. FreshUnused'
  BY <1>0, Places DEF FreshUnused, MemOK
<1>6. Seen'
  <2>1. ASSUME NEW p \in Place, \A u \in pending' : p \notin u.places PROVE mem'[p] = own[p]
    <3>1. CASE p \notin w.places
      BY <1>0, <2>1, <3>1 DEF Seen
    <3>2. CASE p \in w.places
      <4>1. \A u \in pending : p \in u.places => u.when <= w.when
        BY <1>0, <1>1, <2>1
      <4> QED BY <1>0, <3>2, <4>1 DEF Seen
    <3> QED BY <3>1, <3>2
  <2>2. ASSUME NEW u \in pending', NEW p \in u.places,
               \A x \in pending' : p \in x.places => x.when <= u.when
        PROVE  own[p] = u.value
    <3>1. p \in w.places => w.when <= u.when
      BY <1>0, <1>1, <2>2
    <3>2. \A x \in pending : p \in x.places => x.when <= u.when
      BY <1>0, <2>2, <3>1
    <3> QED BY <1>0, <2>2, <3>2 DEF Seen
  <2>3. ASSUME NEW p \in Place, mem'[p] \in Node PROVE own[p] = mem'[p]
    <3>1. CASE p \notin w.places
      BY <1>0, <2>3, <3>1 DEF Seen
    <3>2. CASE p \in w.places
      <4>1. w.value \in Node
        BY <1>0, <2>3, <3>2
      <4>2. Link(w, p)
        <5>1. PICK q \in Place : Link(w, q)
          BY <4>1, Kind
        <5> QED BY <3>2, <5>1 DEF Link
      <4> QED BY <1>0, <2>3, <3>2, <4>2 DEF LinkNext
    <3> QED BY <3>1, <3>2
  <2> QED BY <1>0, <2>1, <2>2, <2>3 DEF Seen
<1>7. ClearFirst'
  <2> SUFFICES ASSUME NEW u \in pending', NEW n \in Node, Clear(u, n)
               PROVE  /\ n \notin fresh
                      /\ \A p \in Entries(n) : mem'[p] = Garbage
                      /\ \A x \in pending' : x # u /\ x.places \cap Entries(n) # {} => u.when < x.when
                      /\ \A x \in pending', p \in Place :
                            Link(x, p) /\ x.value = n => u.when < x.when
                      /\ \A p \in Place : mem'[p] # n
    BY <1>0 DEF ClearFirst, Clear, Link, Holds
  <2>1. u \in pending /\ u # w
    BY <1>0
  <2>2. u.places = Entries(n) /\ Entries(n) \subseteq Place
    BY Places DEF Clear
  <2>3. ASSUME NEW p \in Entries(n) PROVE p \notin w.places
    BY <1>0, <1>1, <2>1, <2>2, <2>3 DEF ClearFirst
  <2>4. ASSUME NEW p \in Place PROVE mem'[p] # n
    <3>1. CASE p \in w.places /\ w.value = n
      <4>1. PICK q \in Place : Link(w, q)
        BY <3>1, Kind
      <4>2. u.when < w.when /\ w.release
        BY <2>1, <3>1, <4>1 DEF ClearFirst, Link
      <4> QED BY <1>0, <2>1, <4>2
    <3> QED BY <1>0, <2>1, <3>1 DEF ClearFirst
  <2> QED BY <1>0, <2>1, <2>2, <2>3, <2>4 DEF ClearFirst
<1>8. LinkNext'
  <2> SUFFICES ASSUME NEW u \in pending', NEW p \in Place, Link(u, p)
               PROVE  /\ own[p] = u.value
                      /\ \A x \in pending' : Link(x, p) => x = u
                      /\ \A x \in pending' :
                            x.release /\ x.places \subseteq Entries(u.value) => u.when < x.when
                      /\ (\A x \in pending' : ~Clear(x, u.value)) =>
                            \A q \in Entries(u.value) : mem'[q] = Null
                      /\ \A q \in Place : mem'[q] # u.value
    BY <1>0 DEF LinkNext, Clear, Link, Holds
  <2>1. u \in pending /\ u # w /\ u.value \in Node
    BY <1>0 DEF Link
  <2>2. ASSUME \A x \in pending' : ~Clear(x, u.value), NEW q \in Entries(u.value)
        PROVE  mem'[q] = Null
    <3>0. q \in Place /\ q[1] = u.value
      BY <2>1, Places
    <3>1. CASE q \in w.places
      <4>1. ASSUME NEW n \in Node, Clear(w, n) PROVE mem'[q] = Null
        BY <1>0, <3>0, <3>1, <4>1 DEF Clear
      <4>2. ASSUME NEW x \in Place, Link(w, x) \/ Put(w, x) PROVE FALSE
        <5>1. w.release /\ w.places = {q}
          BY <3>1, <4>2 DEF Link, Put
        <5>2. w.places \subseteq Entries(u.value)
          BY <5>1
        <5>3. u.when < w.when
          BY <2>1, <5>1, <5>2 DEF LinkNext
        <5> QED BY <1>0, <2>1, <5>1, <5>3
      <4> QED BY <4>1, <4>2 DEF Stores
    <3>2. CASE q \notin w.places
      <4>1. ~Clear(w, u.value)
        BY <3>2 DEF Clear
      <4>2. \A x \in pending : ~Clear(x, u.value)
        BY <1>0, <2>2, <4>1
      <4>3. mem[q] = Null
        BY <2>1, <4>2 DEF LinkNext
      <4> QED BY <1>0, <3>0, <3>2, <4>3
    <3> QED BY <3>1, <3>2
  <2>3. ASSUME NEW q \in Place PROVE mem'[q] # u.value
    <3>1. CASE q \in w.places /\ w.value = u.value
      <4>1. Link(w, q)
        <5>1. PICK x \in Place : Link(w, x)
          BY <2>1, <3>1, Kind
        <5> QED BY <3>1, <5>1 DEF Link
      <4>2. own[q] = u.value /\ own[p] = u.value
        BY <2>1, <3>1, <4>1 DEF LinkNext
      <4>3. q = p
        BY <2>1, <4>2 DEF OneParent
      <4> QED BY <2>1, <4>1, <4>3 DEF LinkNext
    <3> QED BY <1>0, <2>1, <3>1 DEF LinkNext
  <2> QED BY <1>0, <2>1, <2>2, <2>3 DEF LinkNext
<1>9. NoGarbage'
  <2> SUFFICES ASSUME NEW p \in Place, mem'[p] \in Node, NEW q \in Entries(mem'[p])
               PROVE  mem'[q] # Garbage
    BY DEF NoGarbage, Entries
  <2>0. q \in Place
    BY Places
  <2>1. CASE q \in w.places
    BY <1>0, <1>1, <2>0, <2>1, Distinct
  <2>2. CASE q \notin w.places
    <3>1. CASE p \notin w.places
      BY <1>0, <2>0, <2>2, <3>1 DEF NoGarbage
    <3>2. CASE p \in w.places
      <4>1. w.value \in Node /\ mem'[p] = w.value
        BY <1>0, <3>2
      <4>2. PICK x \in Place : Link(w, x)
        BY <4>1, Kind
      <4>3. \A u \in pending : ~Clear(u, w.value)
        <5>1. ASSUME NEW u \in pending, Clear(u, w.value) PROVE FALSE
          <6>1. u.when < w.when /\ w.release
            BY <4>1, <4>2, <5>1 DEF ClearFirst, Link
          <6> QED BY <1>0, <6>1
        <5> QED BY <5>1
      <4>4. mem[q] = Null
        BY <4>1, <4>2, <4>3 DEF LinkNext
      <4> QED BY <1>0, <2>0, <2>2, <4>4, Distinct
    <3> QED BY <3>1, <3>2
  <2> QED BY <2>1, <2>2
<1>10. PutWhereItLeads'
  BY <1>0 DEF PutWhereItLeads, Put
<1>11. OwnLatest'
  BY <1>0 DEF OwnLatest, OwnWalk
<1>12. OwnCleared'
  BY <1>0 DEF OwnCleared
<1> QED BY <1>2, <1>3, <1>4, <1>5, <1>6, <1>7, <1>8, <1>9, <1>10, <1>11, <1>12

-----------------------------------------------------------------------------
(* A node is made.                                                           *)

\* Where NewNode's caller publishes it.
Vacant(n, parent) ==
    /\ parent \in Place
    /\ own[parent] = Null
    /\ parent[1] \notin fresh
    /\ Holds(parent, n)

LEMMA NewNodeKeepsTree ==
    ASSUME Tree, NEW n \in Node, NEW parent, Vacant(n, parent), NewNode(n, parent),
           latest' = latest
    PROVE  Tree' /\ \A p \in Place : own[p] \in Node => own'[p] = own[p]
<1> USE DEF Tree
<1> DEFINE C == Store(Entries(n), Null, FALSE, clock)
           L == Store({parent}, n, TRUE, clock + 1)
<1>0. /\ mem' = mem /\ latest' = latest
      /\ n \in fresh /\ fresh' = fresh \ {n} /\ clock' = clock + 2
      /\ pending' = pending \cup {C, L}
      /\ own' = [p \in Place |-> IF p = parent THEN n ELSE IF p \in Entries(n) THEN Null ELSE own[p]]
  BY DEF NewNode, ClearThenPublish
<1>1. /\ C.places = Entries(n) /\ C.value = Null /\ C.release = FALSE /\ C.when = clock
      /\ L.places = {parent} /\ L.value = n /\ L.release = TRUE /\ L.when = clock + 1
  BY DEF Store
<1>2. C \in Record /\ L \in Record
  BY Places DEF Record, MemOK, Vacant, Store
<1> HIDE DEF C, L
<1>3. /\ clock \in Nat /\ fresh \subseteq Node
      /\ \A u \in pending : u.when \in Nat /\ u.when < clock /\ u.places \subseteq Place
  BY Kind DEF MemOK, Stores
<1>4. /\ \A p \in Place : own[p] # n
      /\ \A u \in pending : u.value # n /\ u.places \cap Entries(n) = {}
      /\ \A p \in Entries(n) : mem[p] = Garbage
  BY <1>0 DEF FreshUnused
<1>5. parent \in Place /\ parent \notin Entries(n) /\ own[parent] = Null
  BY <1>0, Places DEF Vacant
<1>6. Entries(n) \subseteq Place /\ Entries(n) # {}
  BY Places
<1>7. \A m \in Node : Entries(m) \cap Entries(n) # {} => m = n
  BY Places
<1>9. Clear(C, n) /\ Link(L, parent)
  BY <1>1, <1>5 DEF Clear, Link, Vacant
<1>10. /\ \A m \in Node : Clear(C, m) => m = n
       /\ \A m \in Node : ~Clear(L, m)
       /\ \A p \in Place : ~Link(C, p) /\ ~Put(C, p) /\ ~Put(L, p)
       /\ \A p \in Place : Link(L, p) => p = parent
  BY <1>1, <1>6, <1>7, Distinct DEF Clear, Link, Put
<1>11. (parent[1] = Root /\ n \in Mid) \/ (parent[1] \in Mid /\ n \in Leaf)
  BY <1>5, Places, Distinct DEF Vacant, Holds
<1>12. \A p \in Place : p \in Entries(n) => own[p] \notin Node
  \* A node in a fresh node's entry would be seen, or be in a pending store.
  <2>1. TAKE p \in Place
  <2>2. HAVE p \in Entries(n)
  <2>3. mem[p] = own[p]
    BY <1>4, <2>2 DEF Seen
  <2> QED BY <1>4, <2>2, <2>3, Distinct
<1>13. MemOK'
  <2>1. own' \in [Place -> Node \cup Value \cup {Null, Garbage}]
    BY <1>0 DEF MemOK
  <2>2. \A p \in Place : Holds(p, own'[p])
    BY <1>0, <1>5, <1>6, Places, Distinct DEF MemOK, Holds, Vacant
  <2>3. (\A p \in Place : Holds(p, own[p]))'
    BY <2>2 DEF Holds
  <2>4. (\A p \in Place : Holds(p, mem[p]))'
    BY <1>0 DEF MemOK, Holds
  <2>5. pending' \subseteq Record
    BY <1>0, <1>2 DEF MemOK
  <2> QED BY <1>0, <1>3, <2>1, <2>3, <2>4, <2>5 DEF MemOK
<1>14. Stores'
  <2>1. \A w \in pending' : \/ \E m \in Node : Clear(w, m)
                            \/ \E p \in Place : Link(w, p) \/ Put(w, p)
    BY <1>0, <1>5, <1>9 DEF Stores
  <2>2. (\A w \in pending : \/ \E m \in Node : Clear(w, m)
                            \/ \E p \in Place : Link(w, p) \/ Put(w, p))'
    BY <2>1 DEF Clear, Link, Put, Holds
  <2>3. \A w \in pending' : w.when < clock'
    BY <1>0, <1>1, <1>3
  <2>4. \A w, u \in pending' : w.when = u.when => w = u
    BY <1>0, <1>1, <1>3 DEF Stores
  <2> QED BY <2>2, <2>3, <2>4 DEF Stores
<1>15. OneParent'
  <2>1. \A p \in Place : own'[p] \in Node => own'[p] = own[p] \/ p = parent
    BY <1>0, Distinct
  <2>2. own'[parent] = n
    BY <1>0, <1>5
  <2> QED BY <1>4, <2>1, <2>2 DEF OneParent
<1>16. FreshUnused'
  <2> SUFFICES ASSUME NEW m \in fresh, m # n
               PROVE  /\ \A p \in Place : own'[p] # m
                      /\ \A w \in pending' : w.value # m /\ w.places \cap Entries(m) = {}
                      /\ \A p \in Entries(m) : mem'[p] = Garbage
    BY <1>0 DEF FreshUnused, Entries
  <2>0. m \in Node
    BY <1>3
  <2>1. \A p \in Place : own'[p] # m
    BY <1>0, <2>0, Distinct DEF FreshUnused
  <2>2. parent \notin Entries(m)
    BY <1>5, <2>0, Places DEF Vacant
  <2>3. \A w \in pending' : w.value # m /\ w.places \cap Entries(m) = {}
    BY <1>0, <1>1, <1>7, <2>0, <2>2, Distinct DEF FreshUnused
  <2> QED BY <1>0, <2>1, <2>3 DEF FreshUnused
<1>17. Seen'
  <2>1. ASSUME NEW p \in Place, \A u \in pending' : p \notin u.places PROVE mem'[p] = own'[p]
    <3>1. p # parent /\ p \notin Entries(n)
      BY <1>0, <1>1, <2>1
    <3> QED BY <1>0, <2>1, <3>1 DEF Seen
  <2>2. ASSUME NEW u \in pending', NEW p \in u.places,
               \A x \in pending' : p \in x.places => x.when <= u.when
        PROVE  own'[p] = u.value
    <3>1. CASE u = C
      BY <1>0, <1>1, <1>5, <1>6, <3>1
    <3>2. CASE u = L
      BY <1>0, <1>1, <1>5, <3>2
    <3>3. CASE u \in pending
      <4>1. p \in Place /\ p \notin Entries(n)
        BY <1>3, <1>4, <3>3
      <4>2. p # parent
        BY <1>0, <1>1, <1>3, <2>2, <3>3
      <4>3. own[p] = u.value
        BY <1>0, <2>2, <3>3 DEF Seen
      <4> QED BY <1>0, <4>1, <4>2, <4>3
    <3> QED BY <1>0, <3>1, <3>2, <3>3
  <2>3. ASSUME NEW p \in Place, mem'[p] \in Node PROVE own'[p] = mem'[p]
    <3>1. own[p] = mem[p] /\ p \notin Entries(n) /\ p # parent
      BY <1>0, <1>4, <1>5, <2>3, Distinct DEF Seen
    <3> QED BY <1>0, <3>1
  <2> QED BY <1>0, <2>1, <2>2, <2>3 DEF Seen
<1>18. ClearFirst'
  <2> SUFFICES ASSUME NEW u \in pending', NEW m \in Node, Clear(u, m)
               PROVE  /\ m \notin fresh'
                      /\ \A p \in Entries(m) : mem'[p] = Garbage
                      /\ \A x \in pending' : x # u /\ x.places \cap Entries(m) # {} => u.when < x.when
                      /\ \A x \in pending', p \in Place :
                            Link(x, p) /\ x.value = m => u.when < x.when
                      /\ \A p \in Place : mem'[p] # m
    BY <1>0 DEF ClearFirst, Clear, Link, Holds
  <2>1. CASE u \in pending
    <3>1. m # n
      BY <1>4, <1>6, <2>1 DEF Clear
    <3> QED BY <1>0, <1>1, <1>3, <1>7, <2>1, <3>1 DEF ClearFirst
  <2>2. CASE u = C
    <3>1. m = n
      BY <1>10, <2>2
    <3>2. \A x \in pending' : x # u /\ x.places \cap Entries(m) # {} => u.when < x.when
      BY <1>0, <1>1, <1>4, <1>5, <2>2, <3>1
    <3>3. \A x \in pending', p \in Place : Link(x, p) /\ x.value = m => u.when < x.when
      BY <1>0, <1>1, <1>3, <1>4, <1>10, <2>2, <3>1
    <3>4. \A p \in Place : mem'[p] # m
      BY <1>0, <1>4, <3>1 DEF Seen
    <3> QED BY <1>0, <1>4, <3>1, <3>2, <3>3, <3>4
  <2>3. CASE u = L
    BY <1>10, <2>3
  <2> QED BY <1>0, <2>1, <2>2, <2>3
<1>19. LinkNext'
  <2> SUFFICES ASSUME NEW u \in pending', NEW p \in Place, Link(u, p)
               PROVE  /\ own'[p] = u.value
                      /\ \A x \in pending' : Link(x, p) => x = u
                      /\ \A x \in pending' :
                            x.release /\ x.places \subseteq Entries(u.value) => u.when < x.when
                      /\ (\A x \in pending' : ~Clear(x, u.value)) =>
                            \A q \in Entries(u.value) : mem'[q] = Null
                      /\ \A q \in Place : mem'[q] # u.value
    BY <1>0 DEF LinkNext, Clear, Link, Holds, Entries
  <2>0. u.value \in Node
    BY DEF Link
  <2>1. CASE u \in pending
    <3>1. own[p] = u.value
      BY <2>1 DEF LinkNext
    <3>2. p # parent /\ p \notin Entries(n)
      BY <1>4, <1>5, <1>12, <2>0, <2>1, <3>1, Distinct DEF Link
    <3>3. own'[p] = u.value
      BY <1>0, <3>1, <3>2
    <3>4. \A x \in pending' : Link(x, p) => x = u
      BY <1>0, <1>10, <2>1, <3>2 DEF LinkNext
    <3>5. \A x \in pending' : x.release /\ x.places \subseteq Entries(u.value) => u.when < x.when
      BY <1>0, <1>1, <1>3, <2>1 DEF LinkNext
    <3>6. (\A x \in pending' : ~Clear(x, u.value)) => \A q \in Entries(u.value) : mem'[q] = Null
      BY <1>0, <2>1 DEF LinkNext
    <3>7. \A q \in Place : mem'[q] # u.value
      BY <1>0, <2>1 DEF LinkNext
    <3> QED BY <3>3, <3>4, <3>5, <3>6, <3>7
  <2>2. CASE u = L
    <3>1. p = parent /\ u.value = n
      BY <1>1, <1>10, <2>2
    <3>2. own'[p] = u.value
      BY <1>0, <1>5, <3>1
    <3>3. \A x \in pending : ~Link(x, p)
      BY <1>5, <3>1, Distinct DEF LinkNext, Link
    <3>4. \A x \in pending' : x.release /\ x.places \subseteq Entries(n) => u.when < x.when
      <4>1. \A x \in pending : x.release => x.places # {}
        BY DEF Stores, Clear, Link, Put
      <4> QED BY <1>0, <1>1, <1>4, <1>5, <4>1
    <3>5. \A q \in Place : mem'[q] # n
      BY <1>0, <1>4 DEF Seen
    <3> QED BY <1>0, <1>9, <1>10, <2>2, <3>1, <3>2, <3>3, <3>4, <3>5
  <2>3. CASE u = C
    BY <1>10, <2>3
  <2> QED BY <1>0, <2>1, <2>2, <2>3
<1>20. NoGarbage'
  BY <1>0 DEF NoGarbage, Entries
<1>21. PutWhereItLeads'
  <2> SUFFICES ASSUME NEW w \in pending', NEW p \in Place, Put(w, p)
               PROVE  \E k \in Key :
                          /\ InRange(k)
                          /\ p[2] = I3(k)
                          /\ own'[<<Root, I1(k)>>] \in Mid
                          /\ own'[<<own'[<<Root, I1(k)>>], I2(k)>>] = p[1]
    BY DEF PutWhereItLeads, Put
  <2>1. w \in pending
    BY <1>0, <1>10
  <2>2. PICK k \in Key : /\ InRange(k)
                         /\ p[2] = I3(k)
                         /\ own[<<Root, I1(k)>>] \in Mid
                         /\ own[<<own[<<Root, I1(k)>>], I2(k)>>] = p[1]
    BY <2>1 DEF PutWhereItLeads
  <2> DEFINE m == own[<<Root, I1(k)>>]
  <2>3. <<Root, I1(k)>> \in Place /\ <<m, I2(k)>> \in Place
    BY <2>2, Places, Distinct
  <2>4. m \in Node /\ p[1] \in Node
    BY <2>2, Distinct DEF Put
  <2>5. own'[<<Root, I1(k)>>] = m
    BY <1>0, <1>5, <1>12, <2>3, <2>4, Distinct
  <2>6. own'[<<m, I2(k)>>] = p[1]
    BY <1>0, <1>5, <1>12, <2>2, <2>3, <2>4, Distinct
  <2> QED BY <2>2, <2>5, <2>6
<1>22. OwnLatest'
  <2> SUFFICES ASSUME NEW k \in Key PROVE OwnWalk(k)' = OwnWalk(k)
    BY <1>0 DEF OwnLatest
  <2> DEFINE top == <<Root, I1(k)>>
  <2>0. top \in Place
    BY Places
  <2>1. ASSUME NEW i \in Index PROVE own'[<<n, i>>] = Null
    BY <1>0, <1>5, <2>1, Places DEF Entries
  <2>2. CASE top = parent
    <3>1. own[top] = Null /\ own'[top] = n
      BY <1>0, <1>5, <2>2
    <3>2. own'[<<n, I2(k)>>] = Null
      BY <2>1, Places
    <3>3. n \in Mid
      BY <1>11, <2>2, Distinct
    <3> QED BY <3>1, <3>2, <3>3, Distinct DEF OwnWalk
  <2>3. CASE top # parent
    <3>1. own'[top] = own[top]
      BY <1>0, <2>0, <2>3, Places, Distinct
    <3>2. CASE own[top] \notin Mid
      BY <3>1, <3>2 DEF OwnWalk
    <3>3. CASE own[top] \in Mid
      <4> DEFINE m == own[top]
                 e == <<m, I2(k)>>
      <4>1. e \in Place /\ m # n /\ e \notin Entries(n)
        BY <1>4, <2>0, <3>3, Places, Distinct
      <4>2. CASE e = parent
        <5>1. own[e] = Null /\ own'[e] = n
          BY <1>0, <1>5, <4>2
        <5>2. own'[<<n, I3(k)>>] = Null
          BY <2>1, Places
        <5>3. n \in Leaf
          BY <1>11, <3>3, <4>2, Distinct
        <5> QED BY <3>1, <3>3, <5>1, <5>2, <5>3, Distinct DEF OwnWalk
      <4>3. CASE e # parent
        <5>1. own'[e] = own[e]
          BY <1>0, <4>1, <4>3
        <5>2. CASE own[e] \notin Leaf
          BY <3>1, <3>3, <5>1, <5>2 DEF OwnWalk
        <5>3. CASE own[e] \in Leaf
          <6> DEFINE b == <<own[e], I3(k)>>
          <6>1. b \in Place /\ own[e] # n /\ b[1] = own[e] /\ b[1] \in Leaf
            BY <1>4, <4>1, <5>3, Places, Distinct
          <6>2. b # parent /\ b \notin Entries(n)
            BY <1>11, <6>1, Places, Distinct
          <6>3. own'[b] = own[b]
            BY <1>0, <6>1, <6>2
          <6> QED BY <3>1, <3>3, <5>1, <5>3, <6>3 DEF OwnWalk
        <5> QED BY <5>2, <5>3
      <4> QED BY <4>2, <4>3
    <3> QED BY <3>2, <3>3
  <2> QED BY <2>2, <2>3
<1>23. \A p \in Place : own[p] \in Node => own'[p] = own[p]
  BY <1>0, <1>5, <1>12, Distinct
<1>24. OwnCleared'
  BY <1>0, Places, Distinct DEF OwnCleared
<1> QED BY <1>13, <1>14, <1>15, <1>16, <1>17, <1>18, <1>19, <1>20, <1>21, <1>22, <1>23, <1>24

-----------------------------------------------------------------------------
(* A value is stored.                                                        *)

\* An entry of a Leaf belongs to one page id.
LEMMA OneLeaf ==
    ASSUME Tree, NEW k \in Key, NEW j \in Key,
           own[<<Root, I1(k)>>] \in Mid, own[<<Root, I1(j)>>] \in Mid,
           own[<<own[<<Root, I1(k)>>], I2(k)>>] \in Leaf,
           own[<<own[<<Root, I1(k)>>], I2(k)>>] = own[<<own[<<Root, I1(j)>>], I2(j)>>],
           I3(k) = I3(j)
    PROVE  k = j
<1> DEFINE m == own[<<Root, I1(k)>>]
           o == own[<<Root, I1(j)>>]
<1>1. /\ <<Root, I1(k)>> \in Place /\ <<Root, I1(j)>> \in Place
      /\ <<m, I2(k)>> \in Place /\ <<o, I2(j)>> \in Place
  BY Places, Distinct
<1>2. \A p, q \in Place : own[p] \in Node /\ own[p] = own[q] => p = q
  BY DEF Tree, OneParent
<1>3. <<m, I2(k)>> = <<o, I2(j)>>
  BY <1>1, <1>2, Distinct
<1>4. <<Root, I1(k)>> = <<Root, I1(j)>>
  BY <1>1, <1>2, <1>3, Distinct
<1> QED BY <1>3, <1>4, OneKey

LEMMA SetValueKeepsTree ==
    ASSUME Tree, Locals, SetValue
    PROVE  Tree'
<1> USE DEF Tree
<1> DEFINE P == Store({ValueEntry}, val, TRUE, clock)
           V == ValueEntry
<1>0. /\ mem' = mem /\ fresh' = fresh
      /\ clock' = clock + 1
      /\ pending' = pending \cup {P}
      /\ own' = [own EXCEPT ![V] = val]
      /\ latest' = [latest EXCEPT ![key] = val]
      /\ key \in Key /\ InRange(key) /\ val \in Value
      /\ mid \in Mid /\ own[<<Root, I1(key)>>] = mid
      /\ leaf \in Leaf /\ own[<<mid, I2(key)>>] = leaf
  BY DEF SetValue, Locals, MidEntry, LeafEntry
<1>1. P.places = {V} /\ P.value = val /\ P.release = TRUE /\ P.when = clock
  BY DEF Store
<1>2. V \in Place /\ V[1] = leaf /\ V[2] = I3(key) /\ V = <<leaf, I3(key)>>
  BY <1>0, Places, Distinct DEF ValueEntry
<1>3. P \in Record
  BY <1>0, <1>2, Places DEF Record, MemOK, Store
<1> HIDE DEF P, V
<1>4. /\ clock \in Nat
      /\ \A u \in pending : u.when \in Nat /\ u.when < clock /\ u.places \subseteq Place
  BY Kind DEF MemOK, Stores
<1>5. \A p \in Place : own'[p] = IF p = V THEN val ELSE own[p]
  BY <1>0, <1>2 DEF MemOK
<1>6. own[V] \notin Node /\ mem[V] \notin Node /\ V[1] \notin fresh
  <2>1. own[V] \in Value \cup {Null, Garbage} /\ mem[V] \in Value \cup {Null, Garbage}
    BY <1>0, <1>2 DEF MemOK, Holds
  <2>2. <<mid, I2(key)>> \in Place
    BY <1>0, Places, Distinct
  <2>3. leaf \notin fresh
    BY <1>0, <2>2 DEF FreshUnused
  <2> QED BY <1>2, <2>1, <2>3, Distinct
<1>7. /\ Put(P, V)
      /\ \A n \in Node : ~Clear(P, n)
      /\ \A p \in Place : ~Link(P, p) /\ (Put(P, p) => p = V)
  BY <1>0, <1>1, <1>2, Distinct DEF Clear, Link, Put
<1>8. \A p \in Place : own[p] \in Node => own'[p] = own[p]
  BY <1>5, <1>6
<1>9. MemOK'
  <2>1. own' \in [Place -> Node \cup Value \cup {Null, Garbage}]
    BY <1>0 DEF MemOK
  <2>2. \A p \in Place : Holds(p, own'[p])
    BY <1>0, <1>2, <1>5, Distinct DEF MemOK, Holds
  <2>3. (\A p \in Place : Holds(p, own[p]))'
    BY <2>2 DEF Holds
  <2>4. (\A p \in Place : Holds(p, mem[p]))'
    BY <1>0 DEF MemOK, Holds
  <2> QED BY <1>0, <1>3, <1>4, <2>1, <2>3, <2>4 DEF MemOK
<1>10. Stores'
  <2>1. (\A w \in pending : \/ \E m \in Node : Clear(w, m)
                            \/ \E p \in Place : Link(w, p) \/ Put(w, p))'
    BY <1>0, <1>2, <1>7 DEF Stores, Clear, Link, Put, Holds
  <2>2. \A w \in pending' : w.when < clock'
    BY <1>0, <1>1, <1>4
  <2>3. \A w, u \in pending' : w.when = u.when => w = u
    BY <1>0, <1>1, <1>4 DEF Stores
  <2> QED BY <2>1, <2>2, <2>3 DEF Stores
<1>11. OneParent'
  BY <1>0, <1>5, Distinct DEF OneParent
<1>12. FreshUnused'
  <2> SUFFICES ASSUME NEW m \in fresh
               PROVE  /\ \A p \in Place : own'[p] # m
                      /\ \A w \in pending' : w.value # m /\ w.places \cap Entries(m) = {}
                      /\ \A p \in Entries(m) : mem'[p] = Garbage
    BY <1>0 DEF FreshUnused, Entries
  <2>0. m \in Node
    BY DEF MemOK
  <2>1. \A p \in Place : own'[p] # m
    BY <1>0, <1>5, <2>0, Distinct DEF FreshUnused
  <2>2. V \notin Entries(m)
    BY <1>2, <1>6, <2>0, Places
  <2> QED BY <1>0, <1>1, <2>0, <2>1, <2>2, Distinct DEF FreshUnused
<1>13. Seen'
  <2>1. ASSUME NEW p \in Place, \A u \in pending' : p \notin u.places PROVE mem'[p] = own'[p]
    BY <1>0, <1>1, <1>5, <2>1 DEF Seen
  <2>2. ASSUME NEW u \in pending', NEW p \in u.places,
               \A x \in pending' : p \in x.places => x.when <= u.when
        PROVE  own'[p] = u.value
    <3>1. CASE u = P
      BY <1>1, <1>2, <1>5, <3>1
    <3>2. CASE u \in pending
      <4>1. p \in Place /\ p # V
        BY <1>0, <1>1, <1>4, <2>2, <3>2
      <4> QED BY <1>0, <1>5, <2>2, <3>2, <4>1 DEF Seen
    <3> QED BY <1>0, <3>1, <3>2
  <2>3. ASSUME NEW p \in Place, mem'[p] \in Node PROVE own'[p] = mem'[p]
    BY <1>0, <1>5, <1>6, <2>3 DEF Seen
  <2> QED BY <1>0, <2>1, <2>2, <2>3 DEF Seen
<1>14. ClearFirst'
  <2> SUFFICES ASSUME NEW u \in pending', NEW m \in Node, Clear(u, m)
               PROVE  /\ m \notin fresh'
                      /\ \A p \in Entries(m) : mem'[p] = Garbage
                      /\ \A x \in pending' : x # u /\ x.places \cap Entries(m) # {} => u.when < x.when
                      /\ \A x \in pending', p \in Place :
                            Link(x, p) /\ x.value = m => u.when < x.when
                      /\ \A p \in Place : mem'[p] # m
    BY <1>0 DEF ClearFirst, Clear, Link, Holds
  <2>1. u \in pending
    BY <1>0, <1>7
  <2> QED BY <1>0, <1>1, <1>4, <2>1 DEF ClearFirst
<1>15. LinkNext'
  <2> SUFFICES ASSUME NEW u \in pending', NEW p \in Place, Link(u, p)
               PROVE  /\ own'[p] = u.value
                      /\ \A x \in pending' : Link(x, p) => x = u
                      /\ \A x \in pending' :
                            x.release /\ x.places \subseteq Entries(u.value) => u.when < x.when
                      /\ (\A x \in pending' : ~Clear(x, u.value)) =>
                            \A q \in Entries(u.value) : mem'[q] = Null
                      /\ \A q \in Place : mem'[q] # u.value
    BY <1>0 DEF LinkNext, Clear, Link, Holds, Entries
  <2>1. u \in pending /\ u.value \in Node
    BY <1>0, <1>7 DEF Link
  <2>2. own'[p] = u.value
    BY <1>8, <2>1 DEF LinkNext
  <2>3. \A x \in pending' : Link(x, p) => x = u
    BY <1>0, <1>7, <2>1 DEF LinkNext
  <2>4. \A x \in pending' : x.release /\ x.places \subseteq Entries(u.value) => u.when < x.when
    BY <1>0, <1>1, <1>4, <2>1 DEF LinkNext
  <2>5. (\A x \in pending' : ~Clear(x, u.value)) => \A q \in Entries(u.value) : mem'[q] = Null
    BY <1>0, <2>1 DEF LinkNext
  <2>6. \A q \in Place : mem'[q] # u.value
    BY <1>0, <2>1 DEF LinkNext
  <2> QED BY <2>2, <2>3, <2>4, <2>5, <2>6
<1>16. NoGarbage'
  BY <1>0 DEF NoGarbage, Entries
<1>17. PutWhereItLeads'
  <2> SUFFICES ASSUME NEW w \in pending', NEW p \in Place, Put(w, p)
               PROVE  \E k \in Key :
                          /\ InRange(k)
                          /\ p[2] = I3(k)
                          /\ own'[<<Root, I1(k)>>] \in Mid
                          /\ own'[<<own'[<<Root, I1(k)>>], I2(k)>>] = p[1]
    BY DEF PutWhereItLeads, Put
  <2>0. PICK k \in Key : /\ InRange(k)
                         /\ p[2] = I3(k)
                         /\ own[<<Root, I1(k)>>] \in Mid
                         /\ own[<<own[<<Root, I1(k)>>], I2(k)>>] = p[1]
    <3>1. CASE w \in pending
      BY <3>1 DEF PutWhereItLeads
    <3>2. CASE w = P
      BY <1>0, <1>2, <1>7, <3>2
    <3> QED BY <1>0, <3>1, <3>2
  <2> DEFINE m == own[<<Root, I1(k)>>]
  <2>1. <<Root, I1(k)>> \in Place /\ <<m, I2(k)>> \in Place
    BY <2>0, Places, Distinct
  <2>2. m \in Node /\ p[1] \in Node
    BY <2>0, Distinct DEF Put
  <2>3. own'[<<Root, I1(k)>>] = m /\ own'[<<m, I2(k)>>] = p[1]
    BY <1>8, <2>0, <2>1, <2>2
  <2> QED BY <2>0, <2>3
<1>18. OwnLatest'
  <2> SUFFICES ASSUME NEW k \in Key PROVE OwnWalk(k)' = latest'[k]
    BY DEF OwnLatest
  <2> DEFINE top == <<Root, I1(k)>>
             m == own[top]
             e == <<m, I2(k)>>
             l == own[e]
             b == <<l, I3(k)>>
  <2>0. top \in Place /\ top # V /\ own'[top] = m
    BY <1>0, <1>2, <1>5, Places, Distinct
  <2>1. latest'[k] = IF k = key THEN val ELSE latest[k]
    BY <1>0 DEF MemOK
  <2>2. OwnWalk(k) = latest[k]
    BY DEF OwnLatest
  <2>3. CASE ~InRange(k) \/ m \notin Mid
    <3>1. k # key
      BY <1>0, <2>3
    <3> QED BY <2>0, <2>1, <2>2, <2>3, <3>1 DEF OwnWalk
  <2>4. CASE InRange(k) /\ m \in Mid
    <3>1. e \in Place /\ e # V /\ own'[e] = l
      BY <1>0, <1>2, <1>5, <2>4, Places, Distinct
    <3>2. CASE l \notin Leaf
      <4>1. k # key
        BY <1>0, <3>2
      <4> QED BY <2>0, <2>1, <2>2, <2>4, <3>1, <3>2, <4>1 DEF OwnWalk
    <3>3. CASE l \in Leaf
      <4>1. b \in Place
        BY <3>3, Places, Distinct
      <4>2. OwnWalk(k)' = own'[b] /\ OwnWalk(k) = own[b]
        BY <2>0, <2>4, <3>1, <3>3 DEF OwnWalk
      <4>3. b = V <=> k = key
        <5>1. k = key => b = V
          BY <1>0, <1>2
        <5>2. b = V => l = leaf /\ I3(k) = I3(key)
          BY <1>2
        <5>3. b = V => k = key
          BY <1>0, <2>4, <3>3, <5>2, OneLeaf
        <5> QED BY <5>1, <5>3
      <4> QED BY <1>5, <2>1, <2>2, <4>1, <4>2, <4>3
    <3> QED BY <3>2, <3>3
  <2> QED BY <2>3, <2>4
<1>19. OwnCleared'
  BY <1>0, <1>5, Distinct DEF OwnCleared
<1> QED BY <1>9, <1>10, <1>11, <1>12, <1>13, <1>14, <1>15, <1>16, <1>17, <1>18, <1>19

-----------------------------------------------------------------------------
(* The invariant.                                                            *)

LEMMA InitialTree == Init => Inv
<1> SUFFICES ASSUME Init PROVE Inv
  OBVIOUS
<1> USE DEF Init
<1>1. MemOK
  <2>1. \A p \in Place : mem[p] = (IF p[1] = Root THEN Null ELSE Garbage) /\ own[p] = mem[p]
    OBVIOUS
  <2>2. \A p \in Place : Holds(p, mem[p]) /\ Holds(p, own[p])
    BY <2>1, Distinct DEF Holds
  <2> QED BY <2>2 DEF MemOK
<1>2. Stores /\ ClearFirst /\ LinkNext /\ PutWhereItLeads
  BY DEF Stores, ClearFirst, LinkNext, PutWhereItLeads
<1>3. \A p \in Place : mem[p] = own[p] /\ mem[p] \notin Node
  BY Distinct
<1>4. OneParent /\ Seen /\ NoGarbage
  BY <1>3 DEF OneParent, Seen, NoGarbage
<1>5. FreshUnused
  BY <1>3, Places, Distinct DEF FreshUnused
<1>6. OwnCleared
  BY Places, Distinct DEF OwnCleared
<1>7. OwnLatest
  <2>1. \A k \in Key : own[<<Root, I1(k)>>] = Null
    BY Places
  <2> QED BY <2>1, Distinct DEF OwnLatest, OwnWalk
<1>8. Locals
  BY DEF Locals
<1>9. ReadersOK /\ \A r \in Reader : Finds(r)
  BY Distinct DEF ReadersOK, Finds
<1> QED BY <1>1, <1>2, <1>4, <1>5, <1>6, <1>7, <1>8, <1>9 DEF Inv, Tree

LEMMA TreeUntouched ==
    ASSUME Tree, UNCHANGED <<mem, own, pending, fresh, latest>>,
           clock' = clock \/ (pending = {} /\ clock' = 0)
    PROVE  Tree'
<1> USE DEF Tree
<1>1. MemOK'
  BY DEF MemOK, Holds
<1>2. Stores'
  BY DEF Stores, Clear, Link, Put, Holds
<1>3. OneParent' /\ FreshUnused' /\ Seen' /\ NoGarbage' /\ OwnCleared'
  BY DEF OneParent, FreshUnused, Seen, NoGarbage, OwnCleared, Entries
<1>4. ClearFirst' /\ LinkNext'
  BY DEF ClearFirst, LinkNext, Clear, Link, Holds, Entries
<1>5. PutWhereItLeads' /\ OwnLatest'
  BY DEF PutWhereItLeads, OwnLatest, OwnWalk, Put
<1> QED BY <1>1, <1>2, <1>3, <1>4, <1>5

\* What readers found stays found, as long as nodes stay.
LEMMA ReadersUntouched ==
    ASSUME ReadersOK, \A r \in Reader : Finds(r), UNCHANGED getters, MemOK,
           \A p \in Place : mem[p] \in Node => mem'[p] = mem[p]
    PROVE  ReadersOK' /\ (\A r \in Reader : Finds(r))'
<1>1. UNCHANGED <<at, asked, node, answer>>
  BY DEF getters
<1>2. ReadersOK'
  BY <1>1 DEF ReadersOK
<1>3. ASSUME NEW r \in Reader PROVE Finds(r)'
  <2> DEFINE top == <<Root, I1(asked[r])>>
  <2>1. asked[r] \in Key => top \in Place
    BY Places
  <2>2. CASE at[r] \notin {"mid", "leaf"}
    BY <1>1, <2>2 DEF Finds
  <2>3. CASE at[r] = "mid"
    <3>1. asked[r] \in Key /\ node[r] \in Mid /\ mem[top] = node[r]
      BY <2>3 DEF Finds
    <3>2. mem'[top] = mem[top]
      BY <2>1, <3>1, Distinct
    <3> QED BY <1>1, <2>3, <3>1, <3>2 DEF Finds
  <2>4. CASE at[r] = "leaf"
    <3>1. asked[r] \in Key
      BY <2>4 DEF Finds
    <3>2. PICK m \in Mid : mem[top] = m /\ node[r] \in Leaf /\ mem[<<m, I2(asked[r])>>] = node[r]
      BY <2>4 DEF Finds
    <3>3. mem'[top] = m
      BY <2>1, <3>1, <3>2, Distinct
    <3>4. mem'[<<m, I2(asked[r])>>] = node[r]
      BY <3>1, <3>2, Places, Distinct
    <3> QED BY <1>1, <2>4, <3>2, <3>3, <3>4 DEF Finds
  <2> QED BY <2>2, <2>3, <2>4
<1> QED BY <1>2, <1>3

LEMMA SetMidKeeps ==
    ASSUME Inv, SetMid
    PROVE  Inv'
<1> USE DEF Inv
<1>0. key \in Key /\ InRange(key) /\ val \in Value /\ MidEntry \in Place /\ MidEntry[1] = Root
  BY Places DEF SetMid, Locals, MidEntry
<1>1. UNCHANGED <<key, val, leaf, latest, getters>> /\ pc' = "leaf" /\ MidEntry' = MidEntry
  BY DEF SetMid, MidEntry
<1>2. CASE ~Missing(own[MidEntry]) /\ mid' = own[MidEntry] /\ UNCHANGED memory
  <2>1. own[MidEntry] \in Mid
    BY <1>0, <1>2 DEF Tree, MemOK, Holds, Missing
  <2>2. Locals'
    BY <1>0, <1>1, <1>2, <2>1 DEF Locals, memory
  <2>3. Tree'
    BY <1>1, <1>2, TreeUntouched DEF memory
  <2> QED BY <1>1, <1>2, <2>2, <2>3, ReadersUntouched DEF memory, Tree
<1>3. ASSUME Missing(own[MidEntry]), NEW n \in Mid, NewNode(n, MidEntry), mid' = n PROVE Inv'
  <2>1. Vacant(n, MidEntry)
    BY <1>0, <1>3, Distinct DEF Vacant, Missing, Holds, Tree, MemOK
  <2>2. Tree'
    BY <1>1, <1>3, <2>1, NewNodeKeepsTree, Distinct
  <2>3. own'[MidEntry] = n /\ mem' = mem
    BY <1>0, <1>3 DEF NewNode
  <2>4. Locals'
    BY <1>0, <1>1, <1>3, <2>3 DEF Locals
  <2> QED BY <1>1, <2>2, <2>3, <2>4, ReadersUntouched DEF Tree
<1> QED BY <1>2, <1>3 DEF SetMid

LEMMA SetLeafKeeps ==
    ASSUME Inv, SetLeaf
    PROVE  Inv'
<1> USE DEF Inv
<1>0. /\ key \in Key /\ InRange(key) /\ val \in Value
      /\ mid \in Mid /\ MidEntry \in Place /\ own[MidEntry] = mid
      /\ LeafEntry \in Place /\ LeafEntry[1] = mid
  BY Places, Distinct DEF SetLeaf, Locals, MidEntry, LeafEntry
<1>1. /\ UNCHANGED <<key, val, mid, latest, getters>> /\ pc' = "value"
      /\ MidEntry' = MidEntry /\ LeafEntry' = LeafEntry
  BY DEF SetLeaf, MidEntry, LeafEntry
<1>2. mid \notin fresh
  BY <1>0 DEF Tree, FreshUnused
<1>3. CASE ~Missing(own[LeafEntry]) /\ leaf' = own[LeafEntry] /\ UNCHANGED memory
  <2>1. own[LeafEntry] \in Leaf
    BY <1>0, <1>2, <1>3 DEF Tree, MemOK, Holds, Missing, OwnCleared
  <2>2. Locals'
    BY <1>0, <1>1, <1>3, <2>1 DEF Locals, memory
  <2>3. Tree'
    BY <1>1, <1>3, TreeUntouched DEF memory
  <2> QED BY <1>1, <1>3, <2>2, <2>3, ReadersUntouched DEF memory, Tree
<1>4. ASSUME Missing(own[LeafEntry]), NEW n \in Leaf, NewNode(n, LeafEntry), leaf' = n PROVE Inv'
  <2>1. Vacant(n, LeafEntry)
    BY <1>0, <1>2, <1>4, Distinct DEF Vacant, Missing, Holds
  <2>2. Tree' /\ own'[MidEntry] = mid
    BY <1>0, <1>1, <1>4, <2>1, NewNodeKeepsTree, Distinct
  <2>3. own'[LeafEntry] = n /\ mem' = mem
    BY <1>0, <1>4 DEF NewNode
  <2>4. Locals'
    BY <1>0, <1>1, <1>4, <2>2, <2>3 DEF Locals
  <2> QED BY <1>1, <2>2, <2>3, <2>4, ReadersUntouched DEF Tree
<1> QED BY <1>3, <1>4 DEF SetLeaf

LEMMA SetStepKeeps ==
    ASSUME Inv, SetStep
    PROVE  Inv'
<1> USE DEF Inv
<1>1. CASE Lock
  BY <1>1, TreeUntouched, ReadersUntouched DEF Lock, Locals, Tree
<1>2. CASE Unlock
  BY <1>2, TreeUntouched, ReadersUntouched DEF Unlock, Locals, Tree, memory
<1>3. CASE SetMid
  BY <1>3, SetMidKeeps
<1>4. CASE SetLeaf
  BY <1>4, SetLeafKeeps
<1>5. CASE SetValue
  <2>1. Tree'
    BY <1>5, SetValueKeepsTree
  <2>2. Locals' /\ UNCHANGED <<mem, getters>>
    BY <1>5 DEF SetValue, Locals
  <2> QED BY <2>1, <2>2, ReadersUntouched DEF Tree
<1>6. CASE SetThrows
  BY <1>6, TreeUntouched, ReadersUntouched DEF SetThrows, Locals, Tree, memory
<1>7. ASSUME NEW k \in Key, NEW v \in Value, Set(k, v) PROVE Inv'
  <2>1. Locals'
    BY <1>7 DEF Set, Locals
  <2> QED BY <1>7, <2>1, TreeUntouched, ReadersUntouched DEF Set, Tree, memory
<1> QED BY <1>1, <1>2, <1>3, <1>4, <1>5, <1>6, <1>7 DEF SetStep

LEMMA GetStepKeeps ==
    ASSUME Inv, NEW r \in Reader, GetStep(r)
    PROVE  Inv'
<1> USE DEF Inv
<1>1. UNCHANGED <<memory, setter>>
  BY DEF GetStep, Get, GetBeyond, GetMid, GetLeaf, GetValue
<1>2. Tree' /\ Locals'
  BY <1>1, TreeUntouched DEF memory, setter, Locals, MidEntry, LeafEntry
<1>3. mem' = mem
  BY <1>1 DEF memory
<1>4. MemOK /\ \A p \in Place : mem[p] \in Node \cup Value \cup {Null, Garbage}
  BY DEF Tree, MemOK
<1> SUFFICES ReadersOK' /\ (\A s \in Reader : Finds(s))'
  BY <1>2
<1> DEFINE Others == \A s \in Reader \ {r} : at'[s] = at[s] /\ asked'[s] = asked[s] /\ node'[s] = node[s]
<1>5. ASSUME Others, Finds(r)' PROVE (\A s \in Reader : Finds(s))'
  <2>1. ASSUME NEW s \in Reader \ {r} PROVE Finds(s)'
    BY <1>3, <1>5, <2>1 DEF Finds
  <2> QED BY <1>5, <2>1
<1>6. ASSUME NEW k \in Key, Get(r, k) PROVE ReadersOK' /\ Finds(r)' /\ Others
  BY <1>6, Distinct DEF Get, Goto, ReadersOK, Finds
<1>7. ASSUME NEW v \in Node \cup Value \cup {Null, Garbage}, Return(r, v)
      PROVE  ReadersOK' /\ Finds(r)' /\ Others
  BY <1>7 DEF Return, Goto, ReadersOK, Finds
<1>8. CASE GetBeyond(r)
  BY <1>5, <1>7, <1>8 DEF GetBeyond
<1>9. CASE GetMid(r)
  <2> DEFINE p == <<Root, I1(asked[r])>>
  <2>1. asked[r] \in Key /\ p \in Place /\ InRange(asked[r])
    BY <1>9, Places DEF GetMid, Finds
  <2>2. CASE Return(r, mem[p])
    BY <1>4, <1>5, <1>7, <2>1, <2>2
  <2>3. CASE mem[p] \in Mid /\ node' = [node EXCEPT ![r] = mem[p]] /\ Goto(r, "mid")
             /\ UNCHANGED <<asked, answer>>
    <3>1. ReadersOK' /\ Others
      BY <2>3, Distinct DEF ReadersOK, Goto
    <3>2. Finds(r)'
      BY <1>3, <2>1, <2>3, Distinct DEF ReadersOK, Finds, Goto
    <3> QED BY <1>5, <3>1, <3>2
  <2> QED BY <1>9, <2>2, <2>3 DEF GetMid, Load
<1>10. CASE GetLeaf(r)
  <2> DEFINE p == <<node[r], I2(asked[r])>>
  <2>1. /\ asked[r] \in Key /\ InRange(asked[r]) /\ node[r] \in Mid
        /\ mem[<<Root, I1(asked[r])>>] = node[r]
    BY <1>10 DEF GetLeaf, Finds
  <2>2. p \in Place
    BY <2>1, Places, Distinct
  <2>3. CASE Return(r, mem[p])
    BY <1>4, <1>5, <1>7, <2>2, <2>3
  <2>4. CASE mem[p] \in Leaf /\ node' = [node EXCEPT ![r] = mem[p]] /\ Goto(r, "leaf")
             /\ UNCHANGED <<asked, answer>>
    <3>1. ReadersOK' /\ Others
      BY <2>4, Distinct DEF ReadersOK, Goto
    <3>2. at'[r] = "leaf" /\ asked'[r] = asked[r] /\ node'[r] = mem[p]
      BY <2>4 DEF ReadersOK, Goto
    <3>3. Finds(r)'
      BY <1>3, <2>1, <2>4, <3>2, Distinct DEF Finds
    <3> QED BY <1>5, <3>1, <3>3
  <2> QED BY <1>10, <2>3, <2>4 DEF GetLeaf, Load
<1>11. CASE GetValue(r)
  <2>1. asked[r] \in Key /\ node[r] \in Leaf
    BY <1>11 DEF GetValue, Finds
  <2>2. <<node[r], I3(asked[r])>> \in Place
    BY <2>1, Places, Distinct
  <2> QED BY <1>4, <1>5, <1>7, <1>11, <2>2 DEF GetValue
<1> QED BY <1>5, <1>6, <1>8, <1>9, <1>10, <1>11 DEF GetStep

LEMMA NextKeeps == Inv /\ [Next]_vars => Inv'
<1> SUFFICES ASSUME Inv, [Next]_vars PROVE Inv'
  OBVIOUS
<1>1. CASE SetStep
  BY <1>1, SetStepKeeps
<1>2. ASSUME NEW w \in pending, Drain(w) PROVE Inv'
  <2>1. Tree'
    BY <1>2, DrainKeepsTree DEF Inv
  <2>2. Locals'
    BY <1>2 DEF Inv, Drain, setter, Locals, MidEntry, LeafEntry
  <2>3. \A p \in Place : mem[p] \in Node => mem'[p] = mem[p]
    BY <1>2, DrainKeepsNodes DEF Inv
  <2>4. UNCHANGED getters
    BY <1>2 DEF Drain
  <2> QED BY <2>1, <2>2, <2>3, <2>4, ReadersUntouched DEF Inv, Tree
<1>3. ASSUME NEW r \in Reader, GetStep(r) PROVE Inv'
  BY <1>3, GetStepKeeps
<1>4. CASE UNCHANGED vars
  <2>1. Tree' /\ Locals'
    BY <1>4, TreeUntouched DEF Inv, vars, memory, setter, Locals, MidEntry, LeafEntry
  <2> QED BY <1>4, <2>1, ReadersUntouched DEF Inv, Tree, vars, memory
<1> QED BY <1>1, <1>2, <1>3, <1>4 DEF Next

\* The invariant of the tree: what is published is cleared, what is stored is
\* where its page id leads, and no pointer to a node changes (PageMap.h:183-221).
THEOREM Invariance == Spec => []Inv
BY InitialTree, NextKeeps, PTL DEF Spec

-----------------------------------------------------------------------------
(* The properties.                                                           *)

\* Once all stores are visible, get() finds what set() stored last, for every
\* page id (PageMap.h:204-221).
THEOREM Arrival == Spec => []SetsArrive
<1>1. Inv => SetsArrive
  <2> SUFFICES ASSUME Inv, pending = {}, NEW k \in Key PROVE Walk(k) = latest[k]
    BY DEF SetsArrive
  <2>1. \A p \in Place : mem[p] = own[p]
    BY DEF Inv, Tree, Seen
  <2>2. OwnWalk(k) = latest[k]
    BY DEF Inv, Tree, OwnLatest
  <2> DEFINE top == <<Root, I1(k)>>
  <2>3. mem[top] = own[top]
    BY <2>1, Places
  <2>4. own[top] \in Mid => mem[<<own[top], I2(k)>>] = own[<<own[top], I2(k)>>]
    BY <2>1, Places, Distinct
  <2>5. own[top] \in Mid /\ own[<<own[top], I2(k)>>] \in Leaf =>
           mem[<<own[<<own[top], I2(k)>>], I3(k)>>] = own[<<own[<<own[top], I2(k)>>], I3(k)>>]
    BY <2>1, Places, Distinct
  <2> QED BY <2>2, <2>3, <2>4, <2>5 DEF Walk, OwnWalk
<1> QED BY <1>1, Invariance, PTL

\* Only Drain changes what other threads see.
LEMMA MemoryMoves ==
    ASSUME [Next]_vars
    PROVE  (\E w \in pending : Drain(w)) \/ mem' = mem
BY DEF Next, SetStep, Lock, Unlock, Set, SetMid, SetLeaf, SetValue, SetThrows, NewNode, memory,
       GetStep, Get, GetBeyond, GetMid, GetLeaf, GetValue, vars

\* "a pointer that was once published stays valid" (PageMap.h:137-140).
THEOREM Publication == Spec => PublishedStays
<1>1. Inv /\ [Next]_vars => [\A p \in Place : mem[p] \in Node => mem'[p] = mem[p]]_vars
  <2> SUFFICES ASSUME Inv, [Next]_vars, NEW p \in Place, mem[p] \in Node PROVE mem'[p] = mem[p]
    OBVIOUS
  <2> QED BY MemoryMoves, DrainKeepsNodes DEF Inv
<1> QED BY <1>1, Invariance, PTL DEF Spec, PublishedStays

-----------------------------------------------------------------------------
(* The tree is a map.                                                        *)

\* A store that becomes visible changes the answer for one page id, or none.
LEMMA DrainIsPut ==
    ASSUME Inv, NEW w \in pending, Drain(w)
    PROVE  \/ \A k \in Key : Walk(k)' = Walk(k)
           \/ \E j \in Key : /\ InRange(j) /\ w.value \in Value
                             /\ \A k \in Key : Walk(k)' = IF k = j THEN w.value ELSE Walk(k)
<1> USE DEF Inv, Tree
<1>0. /\ mem' = [p \in Place |-> IF p \in w.places THEN w.value ELSE mem[p]]
      /\ \A u \in pending : u.when < w.when => ~w.release /\ w.places \cap u.places = {}
  BY DEF Drain, Before
<1>1. ASSUME NEW k \in Key, mem[<<Root, I1(k)>>] \in Mid
      PROVE  <<Root, I1(k)>> \in Place /\ <<mem[<<Root, I1(k)>>], I2(k)>> \in Place
  BY <1>1, Places, Distinct
<1>2. ASSUME NEW n \in Node, Clear(w, n), NEW k \in Key PROVE Walk(k)' = Walk(k)
  <2> DEFINE top == <<Root, I1(k)>>
             e == <<mem[top], I2(k)>>
             b == <<mem[e], I3(k)>>
  <2>1. \A p \in Place : mem[p] # n /\ (p[1] # n => mem'[p] = mem[p])
    BY <1>0, <1>2, Places DEF ClearFirst, Clear
  <2>2. mem'[top] = mem[top]
    BY <2>1, Places, Distinct
  <2>3. mem[top] \in Mid => mem'[e] = mem[e] /\ mem[e] # n
    BY <1>1, <2>1, Places
  <2>4. mem[top] \in Mid /\ mem[e] \in Leaf => mem'[b] = mem[b]
    <3>1. mem[e] \in Leaf => b \in Place /\ b[1] = mem[e]
      BY Places, Distinct
    <3> QED BY <2>1, <2>3, <3>1
  <2> QED BY <2>2, <2>3, <2>4 DEF Walk
<1>3. ASSUME NEW p \in Place, Link(w, p), NEW k \in Key PROVE Walk(k)' = Walk(k)
  <2> DEFINE n == w.value
             top == <<Root, I1(k)>>
             e == <<mem[top], I2(k)>>
             b == <<mem[e], I3(k)>>
  <2>0. n \in Node /\ top \in Place
    BY <1>3, Places DEF Link
  <2>1. \A q \in Place : mem'[q] = IF q = p THEN n ELSE mem[q]
    BY <1>0, <1>3 DEF Link
  <2>2. \A q \in Place : mem[q] # n
    BY <1>3 DEF LinkNext
  <2>3. mem[p] \notin Node
    BY <1>3, <2>2 DEF LinkNext, Seen
  <2>4. \A i \in Index : mem[<<n, i>>] = Null /\ mem'[<<n, i>>] = Null
    <3>1. \A u \in pending : ~Clear(u, n)
      <4>1. ASSUME NEW u \in pending, Clear(u, n) PROVE FALSE
        <5>1. u.when < w.when /\ w.release
          BY <1>3, <2>0, <4>1 DEF ClearFirst, Link
        <5> QED BY <1>0, <5>1
      <4> QED BY <4>1
    <3>2. \A q \in Entries(n) : mem[q] = Null
      BY <1>3, <3>1 DEF LinkNext
    <3>3. p \notin Entries(n)
      \* A node does not lead to itself: it would be its own parent.
      <4>1. ASSUME p \in Entries(n) PROVE FALSE
        <5>1. p[1] = n
          BY <2>0, <4>1, Places
        <5>2. Holds(p, n)
          BY <1>3 DEF Link
        <5> QED BY <2>0, <5>1, <5>2, Distinct DEF Holds
      <4> QED BY <4>1
    <3> QED BY <2>0, <2>1, <3>2, <3>3, Places DEF Entries
  <2>5. (p[1] = Root /\ n \in Mid) \/ (p[1] \in Mid /\ n \in Leaf)
    <3>1. Holds(p, n)
      BY <1>3 DEF Link
    <3> QED BY <2>0, <3>1, Places, Distinct DEF Holds
  <2>6. CASE top = p
    <3>1. mem'[top] = n /\ n \in Mid
      BY <2>0, <2>1, <2>5, <2>6, Distinct
    <3>2. mem'[<<n, I2(k)>>] = Null
      BY <2>4, Places
    <3>3. mem[top] = Null
      BY <2>3, <2>6, Distinct DEF MemOK, Holds
    <3> QED BY <3>1, <3>2, <3>3, Distinct DEF Walk
  <2>7. CASE top # p
    <3>1. mem'[top] = mem[top]
      BY <2>0, <2>1, <2>7
    <3>2. CASE mem[top] \notin Mid
      BY <3>1, <3>2 DEF Walk
    <3>3. CASE mem[top] \in Mid /\ e = p
      <4>1. mem'[e] = n /\ n \in Leaf
        BY <1>1, <2>1, <2>5, <3>3, Distinct
      <4>2. mem'[<<n, I3(k)>>] = Null
        BY <2>4, Places
      <4>3. mem[e] = Null
        <5>1. mem[e] \in Leaf \cup {Null, Garbage}
          BY <1>1, <3>3 DEF MemOK, Holds
        <5>2. e \in Entries(mem[top])
          BY <3>3, Places DEF Entries
        <5>3. mem[e] # Garbage
          BY <2>0, <3>3, <5>2, Distinct DEF NoGarbage
        <5> QED BY <2>3, <3>3, <5>1, <5>3, Distinct
      <4> QED BY <3>1, <3>3, <4>1, <4>2, <4>3, Distinct DEF Walk
    <3>4. CASE mem[top] \in Mid /\ e # p
      <4>1. mem'[e] = mem[e]
        BY <1>1, <2>1, <3>4
      <4>2. mem[e] \in Leaf => mem'[b] = mem[b]
        <5>1. mem[e] \in Leaf => b \in Place /\ b # p
          BY <2>5, Places, Distinct
        <5> QED BY <2>1, <5>1
      <4> QED BY <3>1, <3>4, <4>1, <4>2 DEF Walk
    <3> QED BY <3>2, <3>3, <3>4
  <2> QED BY <2>6, <2>7
<1>4. ASSUME NEW p \in Place, Put(w, p)
      PROVE  \/ \A k \in Key : Walk(k)' = Walk(k)
             \/ \E j \in Key : /\ InRange(j) /\ w.value \in Value
                               /\ \A k \in Key : Walk(k)' = IF k = j THEN w.value ELSE Walk(k)
  <2>1. PICK j \in Key : /\ InRange(j)
                         /\ p[2] = I3(j)
                         /\ own[<<Root, I1(j)>>] \in Mid
                         /\ own[<<own[<<Root, I1(j)>>], I2(j)>>] = p[1]
    BY <1>4 DEF PutWhereItLeads
  <2> DEFINE V == w.value
             Top(k) == <<Root, I1(k)>>
             E(k) == <<mem[Top(k)], I2(k)>>
             B(k) == <<mem[E(k)], I3(k)>>
             Reaches(k) == mem[Top(k)] \in Mid /\ mem[E(k)] \in Leaf /\ B(k) = p
  <2>2. V \in Value /\ p[1] \in Leaf /\ \A q \in Place : mem'[q] = IF q = p THEN V ELSE mem[q]
    BY <1>0, <1>4 DEF Put
  <2>3. ASSUME NEW k \in Key
        PROVE  Walk(k)' = IF InRange(k) /\ Reaches(k) THEN V ELSE Walk(k)
    <3>1. mem'[Top(k)] = mem[Top(k)]
      BY <2>2, Places, Distinct
    <3>2. mem[Top(k)] \in Mid => mem'[E(k)] = mem[E(k)]
      <4>1. mem[Top(k)] \in Mid => E(k) \in Place /\ E(k) # p
        BY <1>1, <2>2, Distinct
      <4> QED BY <2>2, <4>1
    <3>3. mem[E(k)] \in Leaf => mem'[B(k)] = IF B(k) = p THEN V ELSE mem[B(k)]
      <4>1. mem[E(k)] \in Leaf => B(k) \in Place
        BY Places, Distinct
      <4> QED BY <2>2, <4>1
    <3>4. CASE ~InRange(k)
      BY <3>4 DEF Walk
    <3>5. CASE InRange(k) /\ mem[Top(k)] \notin Mid
      BY <3>1, <3>5 DEF Walk
    <3>6. CASE InRange(k) /\ mem[Top(k)] \in Mid /\ mem[E(k)] \notin Leaf
      BY <3>1, <3>2, <3>6 DEF Walk
    <3>7. CASE InRange(k) /\ mem[Top(k)] \in Mid /\ mem[E(k)] \in Leaf
      BY <3>1, <3>2, <3>3, <3>7 DEF Walk
    <3> QED BY <3>4, <3>5, <3>6, <3>7
  <2>4. ASSUME NEW k \in Key, Reaches(k) PROVE k = j
    <3>1. Top(k) \in Place /\ E(k) \in Place
      BY <1>1, <2>4
    <3>2. own[Top(k)] = mem[Top(k)] /\ own[E(k)] = mem[E(k)]
      BY <2>4, <3>1, Distinct DEF Seen
    <3>3. mem[E(k)] = p[1] /\ I3(k) = p[2]
      BY <2>4
    <3>4. own[<<own[Top(k)], I2(k)>>] = p[1] /\ own[Top(k)] \in Mid
      BY <2>4, <3>2, <3>3
    <3> QED BY <2>1, <2>2, <3>3, <3>4, OneLeaf
  <2> HIDE DEF Reaches, V
  <2>5. CASE Reaches(j)
    BY <2>1, <2>2, <2>3, <2>4, <2>5 DEF V
  <2>6. CASE ~Reaches(j)
    BY <2>3, <2>4, <2>6
  <2> QED BY <2>5, <2>6
<1> QED BY <1>2, <1>3, <1>4 DEF Stores

\* Radix64 implements PageMap: get() answers with what the map holds for its
\* page id at one moment of the call, and set() changes one page id at once.
THEOREM Refinement == Spec => ImplementsPageMap
<1> DEFINE map == [k \in Key |-> Walk(k)]
           Settable == {k \in Key : InRange(k)}
<1>1. Init => Map!PageMapInit
  <2> SUFFICES ASSUME Init PROVE Map!PageMapInit
    OBVIOUS
  <2>1. ASSUME NEW k \in Key PROVE Walk(k) = Null
    <3>1. mem[<<Root, I1(k)>>] = Null
      BY Places DEF Init
    <3> QED BY <3>1, Distinct DEF Walk
  <2> QED BY <2>1 DEF Map!PageMapInit, Init
<1>2. Inv /\ [Next]_vars => [Map!PageMapNext]_<<map, asked, answer>>
  <2> SUFFICES ASSUME Inv, [Next]_vars
               PROVE  Map!PageMapNext \/ UNCHANGED <<map, asked, answer>>
    OBVIOUS
  <2>1. ASSUME mem' = mem PROVE UNCHANGED map
    BY <2>1 DEF Walk
  <2>2. CASE SetStep
    <3>1. mem' = mem /\ UNCHANGED getters
      BY <2>2 DEF SetStep, Lock, Unlock, Set, SetMid, SetLeaf, SetValue, SetThrows, NewNode, memory
    <3> QED BY <2>1, <3>1 DEF getters
  <2>3. ASSUME NEW w \in pending, Drain(w)
        PROVE  Map!PageMapNext \/ UNCHANGED <<map, asked, answer>>
    <3>1. UNCHANGED <<asked, answer>>
      BY <2>3 DEF Drain, getters
    <3>2. CASE \A k \in Key : Walk(k)' = Walk(k)
      BY <3>1, <3>2
    <3>3. ASSUME NEW j \in Key, InRange(j), w.value \in Value,
                 \A k \in Key : Walk(k)' = IF k = j THEN w.value ELSE Walk(k)
          PROVE  Map!PageMapNext
      <4>1. map' = [map EXCEPT ![j] = w.value]
        BY <3>3
      <4>2. Map!Put(j, w.value)
        BY <3>1, <4>1 DEF Map!Put
      <4> QED BY <3>3, <4>2 DEF Map!PageMapNext
    <3> QED BY <2>3, <3>2, <3>3, DrainIsPut
  <2>4. ASSUME NEW r \in Reader, GetStep(r)
        PROVE  Map!PageMapNext \/ UNCHANGED <<map, asked, answer>>
    <3>1. UNCHANGED map
      <4>1. mem' = mem
        BY <2>4 DEF GetStep, Get, GetBeyond, GetMid, GetLeaf, GetValue, memory
      <4> QED BY <2>1, <4>1
    <3>2. Finds(r)
      BY DEF Inv
    <3>3. ASSUME NEW k \in Key, Get(r, k) PROVE Map!PageMapNext
      <4>1. Map!Ask(r, k)
        BY <3>1, <3>2, <3>3 DEF Map!Ask, Get, Finds
      <4> QED BY <4>1 DEF Map!PageMapNext
    <3>4. ASSUME asked[r] \in Key, Return(r, Walk(asked[r])) PROVE Map!PageMapNext
      <4>1. map[asked[r]] = Walk(asked[r])
        BY <3>4
      <4>2. Map!Tell(r)
        BY <3>1, <3>4, <4>1, Distinct DEF Map!Tell, Return
      <4> QED BY <4>2 DEF Map!PageMapNext
    <3>5. CASE GetBeyond(r)
      <4>1. asked[r] \in Key /\ Walk(asked[r]) = Null
        BY <3>2, <3>5 DEF GetBeyond, Finds, Walk
      <4> QED BY <3>4, <3>5, <4>1 DEF GetBeyond
    <3>6. CASE GetMid(r)
      <4>1. asked[r] \in Key /\ InRange(asked[r])
        BY <3>2, <3>6 DEF GetMid, Finds
      <4>2. mem[<<Root, I1(asked[r])>>] \notin Mid =>
               Walk(asked[r]) = mem[<<Root, I1(asked[r])>>]
        BY <4>1 DEF Walk
      <4> QED BY <3>1, <3>4, <3>6, <4>1, <4>2 DEF GetMid, Load
    <3>7. CASE GetLeaf(r)
      <4>1. /\ asked[r] \in Key /\ InRange(asked[r]) /\ node[r] \in Mid
            /\ mem[<<Root, I1(asked[r])>>] = node[r]
        BY <3>2, <3>7 DEF GetLeaf, Finds
      <4>2. mem[<<node[r], I2(asked[r])>>] \notin Leaf =>
               Walk(asked[r]) = mem[<<node[r], I2(asked[r])>>]
        BY <4>1 DEF Walk
      <4> QED BY <3>1, <3>4, <3>7, <4>1, <4>2 DEF GetLeaf, Load
    <3>8. CASE GetValue(r)
      <4>1. /\ asked[r] \in Key /\ InRange(asked[r]) /\ node[r] \in Leaf
            /\ \E m \in Mid : /\ mem[<<Root, I1(asked[r])>>] = m
                              /\ mem[<<m, I2(asked[r])>>] = node[r]
        BY <3>2, <3>8 DEF GetValue, Finds
      <4>2. Walk(asked[r]) = mem[<<node[r], I3(asked[r])>>]
        BY <4>1 DEF Walk
      <4> QED BY <3>4, <3>8, <4>1, <4>2 DEF GetValue
    <3> QED BY <2>4, <3>3, <3>5, <3>6, <3>7, <3>8 DEF GetStep
  <2>5. CASE UNCHANGED vars
    <3>1. mem' = mem /\ UNCHANGED <<asked, answer>>
      BY <2>5 DEF vars, memory, getters
    <3> QED BY <2>1, <3>1
  <2> QED BY <2>2, <2>3, <2>4, <2>5 DEF Next
<1> QED BY <1>1, <1>2, Invariance, PTL DEF Spec, ImplementsPageMap, Map!PageMapSpec
=============================================================================
