------------------------------ MODULE Radix64 -------------------------------
(***************************************************************************)
(* TCMalloc_PageMapRadix64 (PageMap.h:142-222): a three-level tree that    *)
(* set() grows with the PageCache's mutex held, and that get() walks with  *)
(* no mutex.                                                               *)
(*                                                                         *)
(* Stores become visible to other threads later than they are executed,    *)
(* and in any order but for two rules: stores to one place keep their      *)
(* order, and a release store comes after everything stored before it.     *)
(* The loads of get() are acquire loads and happen in order.               *)
(***************************************************************************)
EXTENDS Integers, FiniteSets

CONSTANTS
    Reader,      \* the threads inside get()
    Key,         \* bound: the page ids used
    Value,       \* the spans
    Mid, Leaf,   \* bound: the nodes SystemAlloc can give
    Root,        \* the array root_
    ROOT_LENGTH, MID_LENGTH, LEAF_LENGTH,
    Null,
    Garbage,     \* what memory holds before it is set
    MaxSets      \* bound: the calls of set() in one critical section

Node == Mid \cup Leaf

ASSUME RadixAssumption ==
    /\ {ROOT_LENGTH, MID_LENGTH, LEAF_LENGTH} \subseteq Nat \ {0}
    /\ Key # {} /\ Key \subseteq Nat
    /\ Mid \cap Leaf = {} /\ Root \notin Node
    /\ Value \cap (Node \cup {Root}) = {}
    /\ {Null, Garbage} \cap (Node \cup {Root} \cup Value \cup Key) = {} /\ Null # Garbage

VARIABLES
    mem,      \* the entries of root_ and of the nodes, as other threads see them
    own,      \* the same, as the holder of the mutex sees them
    pending,  \* the stores executed and not visible yet
    clock,    \* how many stores the critical section has executed
    fresh,    \* the nodes SystemAlloc has not given yet
    pc,       \* where the holder of the mutex is in set(), or "unlocked"
    key, val, \* the arguments of set()
    mid, leaf,\* its locals
    latest,   \* history: what set() last stored for each page id
    sets,     \* the calls of set() in this critical section
    at,       \* where each reader is in get()
    asked,    \* the argument of get()
    node,     \* its local mid, then leaf
    answer    \* what it returned

memory == <<mem, own, pending, clock, fresh>>
setter == <<pc, key, val, mid, leaf, latest, sets>>
getters == <<at, asked, node, answer>>
vars == <<memory, setter, getters>>

\* The three indices a page id falls into.
I1(k) == k \div (LEAF_LENGTH * MID_LENGTH)
I2_NoShift(k) == k % MID_LENGTH
I2(k) == (k \div LEAF_LENGTH) % MID_LENGTH
I3(k) == k % LEAF_LENGTH
InRange(k) == I1(k) < ROOT_LENGTH

\* The places of memory that matter: an array and an index page ids fall into.
Index == UNION {{I1(k), I2(k), I3(k)} : k \in Key}
Place == ({Root} \cup Node) \X Index

Init ==
    /\ mem = [p \in Place |-> IF p[1] = Root THEN Null ELSE Garbage]
    /\ own = mem
    /\ pending = {}
    /\ clock = 0
    /\ fresh = Node
    /\ pc = "unlocked"
    /\ key = Null /\ val = Null /\ mid = Null /\ leaf = Null
    /\ latest = [k \in Key |-> Null]
    /\ sets = 0
    /\ at = [r \in Reader |-> "idle"]
    /\ asked = [r \in Reader |-> Null]
    /\ node = [r \in Reader |-> Null]
    /\ answer = [r \in Reader |-> Null]

-----------------------------------------------------------------------------
(* Stores.                                                                   *)

Store(places, v, release, when) ==
    [places |-> places, value |-> v, release |-> release, when |-> when]

\* The stores that have to be visible before w.
Before(w) == {u \in pending : u.when < w.when /\ (w.release \/ w.places \cap u.places # {})}

\* A store becomes visible.
Drain(w) ==
    /\ Before(w) = {}
    /\ mem' = [p \in Place |-> IF p \in w.places THEN w.value ELSE mem[p]]
    /\ pending' = pending \ {w}
    /\ UNCHANGED <<own, clock, fresh, setter, getters>>

-----------------------------------------------------------------------------
(* set(k, v), by the thread that holds the PageCache's mutex.                *)

\* The mutex: who takes it sees everything stored under it before.
Lock ==
    /\ pc = "unlocked"
    /\ pending = {}
    /\ pc' = "locked"
    /\ clock' = 0
    /\ sets' = 0
    /\ UNCHANGED <<mem, own, pending, fresh, key, val, mid, leaf, latest, getters>>

Unlock ==
    /\ pc = "locked"
    /\ pc' = "unlocked"
    /\ UNCHANGED <<memory, key, val, mid, leaf, latest, sets, getters>>

Set(k, v) ==
    /\ pc = "locked"
    /\ sets < MaxSets
    /\ InRange(k)
    /\ pc' = "mid"
    /\ key' = k
    /\ val' = v
    /\ sets' = sets + 1
    /\ UNCHANGED <<memory, mid, leaf, latest, getters>>

Entries(n) == {n} \X Index

\* NewNode clears the memory, and its caller publishes the node in its parent.
PublishThenClear(n, parent) ==
    {Store({parent}, n, TRUE, clock), Store(Entries(n), Null, FALSE, clock + 1)}
ClearThenPublish(n, parent) ==
    {Store(Entries(n), Null, FALSE, clock), Store({parent}, n, TRUE, clock + 1)}

NewNode(n, parent) ==
    /\ n \in fresh
    /\ fresh' = fresh \ {n}
    /\ pending' = pending \cup ClearThenPublish(n, parent)
    /\ own' = [p \in Place |-> IF p = parent THEN n ELSE IF p \in Entries(n) THEN Null ELSE own[p]]
    /\ clock' = clock + 2
    /\ UNCHANGED mem

Missing_Always(pointer) == TRUE
Missing(pointer) == pointer = Null

MidEntry == <<Root, I1(key)>>
LeafEntry == <<mid, I2(key)>>
ValueEntry == <<leaf, I3(key)>>

\* The Mid is there, or it is made.
SetMid ==
    /\ pc = "mid"
    /\ pc' = "leaf"
    /\ \/ ~Missing(own[MidEntry]) /\ mid' = own[MidEntry] /\ UNCHANGED memory
       \/ Missing(own[MidEntry]) /\ \E n \in Mid : NewNode(n, MidEntry) /\ mid' = n
    /\ UNCHANGED <<key, val, leaf, latest, sets, getters>>

\* The Leaf likewise.
SetLeaf ==
    /\ pc = "leaf"
    /\ pc' = "value"
    /\ \/ ~Missing(own[LeafEntry]) /\ leaf' = own[LeafEntry] /\ UNCHANGED memory
       \/ Missing(own[LeafEntry]) /\ \E n \in Leaf : NewNode(n, LeafEntry) /\ leaf' = n
    /\ UNCHANGED <<key, val, mid, latest, sets, getters>>

SetValue ==
    /\ pc = "value"
    /\ pc' = "locked"
    /\ pending' = pending \cup {Store({ValueEntry}, val, TRUE, clock)}
    /\ own' = [own EXCEPT ![ValueEntry] = val]
    /\ clock' = clock + 1
    /\ latest' = [latest EXCEPT ![key] = val]
    /\ key' = Null /\ val' = Null /\ mid' = Null /\ leaf' = Null
    /\ UNCHANGED <<mem, fresh, sets, getters>>

\* SystemAlloc throws in NewNode, out of set() and of its callers, which leave
\* the mutex locked.
SetThrows ==
    /\ \/ pc = "mid" /\ Missing(own[MidEntry])
       \/ pc = "leaf" /\ Missing(own[LeafEntry])
    /\ pc' = "thrown"
    /\ UNCHANGED <<memory, key, val, mid, leaf, latest, sets, getters>>

-----------------------------------------------------------------------------
(* get(k), by any thread, with no mutex.                                     *)

Goto(r, where) == at' = [at EXCEPT ![r] = where]

Return(r, v) ==
    /\ answer' = [answer EXCEPT ![r] = v]
    /\ asked' = [asked EXCEPT ![r] = Null]
    /\ node' = [node EXCEPT ![r] = Null]
    /\ Goto(r, "idle")

Get(r, k) ==
    /\ at[r] = "idle"
    /\ asked' = [asked EXCEPT ![r] = k]
    /\ Goto(r, IF InRange(k) THEN "root" ELSE "beyond")
    /\ UNCHANGED <<memory, setter, node, answer>>

GetBeyond(r) ==
    /\ at[r] = "beyond"
    /\ Return(r, Null)
    /\ UNCHANGED <<memory, setter>>

\* A load of a pointer: nullptr is the answer, a node is followed, and what was
\* never stored leads nowhere.
Load(r, p, nodes, next) ==
    \/ mem[p] \notin nodes /\ Return(r, mem[p])
    \/ /\ mem[p] \in nodes
       /\ node' = [node EXCEPT ![r] = mem[p]]
       /\ Goto(r, next)
       /\ UNCHANGED <<asked, answer>>

GetMid(r) ==
    /\ at[r] = "root"
    /\ Load(r, <<Root, I1(asked[r])>>, Mid, "mid")
    /\ UNCHANGED <<memory, setter>>

GetLeaf(r) ==
    /\ at[r] = "mid"
    /\ Load(r, <<node[r], I2(asked[r])>>, Leaf, "leaf")
    /\ UNCHANGED <<memory, setter>>

GetValue(r) ==
    /\ at[r] = "leaf"
    /\ Return(r, mem[<<node[r], I3(asked[r])>>])
    /\ UNCHANGED <<memory, setter>>

-----------------------------------------------------------------------------
SetStep ==
    \/ Lock \/ Unlock \/ SetMid \/ SetLeaf \/ SetValue \/ SetThrows
    \/ \E k \in Key, v \in Value : Set(k, v)

GetStep(r) ==
    \/ \E k \in Key : Get(r, k)
    \/ GetBeyond(r) \/ GetMid(r) \/ GetLeaf(r) \/ GetValue(r)

Next ==
    \/ SetStep
    \/ \E w \in pending : Drain(w)
    \/ \E r \in Reader : GetStep(r)

Spec == Init /\ [][Next]_vars

-----------------------------------------------------------------------------
(* Properties.                                                               *)

\* What a get() that ran now, undisturbed, would answer.
Walk(k) ==
    LET m == mem[<<Root, I1(k)>>]
        l == mem[<<m, I2(k)>>]
    IN  IF ~InRange(k) THEN Null
        ELSE IF m \notin Mid THEN m
        ELSE IF l \notin Leaf THEN l
        ELSE mem[<<l, I3(k)>>]

\* The tree is a map that is asked without a mutex: a get() answers with what
\* the map holds for its page id at one moment of the call, never with what
\* memory held before, and a set() changes one page id at once (PageMap.h:183-203).
Map == INSTANCE PageMap WITH map <- [k \in Key |-> Walk(k)],
                             Settable <- {k \in Key : InRange(k)}
ImplementsPageMap == Map!PageMapSpec

\* Once the stores of a critical section are visible, every page id has the
\* span it was last given, those that share nodes with it too, and a set() that
\* threw has changed none (PageMap.h:204-221).
SetsArrive == pending = {} => \A k \in Key : Walk(k) = latest[k]

\* "a pointer that was once published stays valid" (PageMap.h:137-140).
PublishedStays == [][\A p \in Place : mem[p] \in Node => mem'[p] = mem[p]]_vars
=============================================================================
