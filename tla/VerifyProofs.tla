---------------------------- MODULE VerifyProofs ----------------------------
(***************************************************************************)
(* The programs that drive an allocator never accuse a correct one, free   *)
(* only what is live, give everything back and report one that hands a     *)
(* block out twice: for any number of workers, blocks, rounds and places.  *)
(***************************************************************************)
EXTENDS Verify, Arithmetic, FiniteSetTheorems, TLAPS

-----------------------------------------------------------------------------
(* The inductive invariant.                                                  *)

\* Types.
Pc == {"alloc", "insert", "fill", "store", "next", "check", "erase", "free", "given",
       "load", "arrive", "spin", "clock", "add", "done"}
Tags == Nat \X Nat
Block == [p : Cell, tag : Tags]

Types ==
    /\ cfg \in Configs
    /\ pc \in [Worker -> Pc]
    /\ round \in [Worker -> Nat]
    /\ i \in [Worker -> Nat]
    /\ half \in [Worker -> {1, 2}]
    /\ hand \in [Worker -> Block \cup {Null}]
    /\ store \in [Worker -> [Slots -> Block \cup {Null}]]
    /\ gen \in [Worker -> Nat]
    /\ barrier \in Nat
    /\ heap \in [Cell -> Int]
    /\ cursor \in Nat
    /\ mem \in [Cell -> Tags \cup {Null}]
    /\ duplicate \in BOOLEAN
    /\ corrupted \in BOOLEAN
    /\ twice \in BOOLEAN
    /\ ms \in [Worker -> Nat]
    /\ cur \in [Worker -> Nat]
    /\ total \in Nat

\* A worker makes a block between two stores, and waits only in "cross".
Waiting(k) == pc[k] \in {"load", "arrive", "spin"}
HandsOK(k) ==
    /\ hand[k] # Null => Taking(k) \/ Giving(k)
    /\ pc[k] \in {"insert", "fill", "store"} => hand[k] # Null
    /\ pc[k] \in {"alloc", "next"} => hand[k] = Null
    /\ Waiting(k) => cfg.pattern = "cross"
Hands == \A k \in Worker : HandsOK(k)

\* The barrier.  Passed: how many barriers a worker has left behind.  The workers
\* that have arrived since the generation last advanced wait in Arrived.
Passed(k) == 2 * round[k] + half[k] - 1
Now == Generation(barrier, cfg.nworks)
Arrived == {k \in Worker : pc[k] = "spin" /\ gen[k] = Now}
InStep ==
    cfg.pattern = "cross" =>
        /\ barrier = cfg.nworks * Now + Cardinality(Arrived)
        /\ \A k \in Worker :
              /\ pc[k] \in {"arrive", "spin"} => gen[k] = Passed(k)
              /\ Passed(k) = Now \/ (pc[k] = "spin" /\ Passed(k) + 1 = Now)

\* What a worker's place in the round says of half, and of the blocks in hand.
HalvesOK(k) ==
    /\ cfg.pattern = "cross" => (half[k] = 1 => ~Giving(k)) /\ (half[k] = 2 => ~Taking(k))
    /\ cfg.pattern # "cross" /\ cfg.program # "boundary" => half[k] = 1
    /\ cfg.program = "boundary" /\ half[k] = 2 => ~Taking(k) /\ pc[k] # "check"
    /\ cfg.program = "boundary" => pc[k] # "erase" /\ (pc[k] = "free" => half[k] = 2)
    /\ cfg.program = "bench" => pc[k] \notin {"insert", "fill", "check", "erase"}
    /\ cfg.program # "bench" => pc[k] \notin {"clock", "add"}
    /\ hand[k] # Null /\ Giving(k) => cfg.pattern = "interleaved"
Halves == \A k \in Worker : HalvesOK(k)

Empty(v) == \A x \in Slots : store[v][x] = Null

\* Which places are empty: those a round has not come to, those it has given
\* back, and all of them from then until the next round.
VacantOK(k) ==
    /\ Taking(k) /\ cfg.pattern # "interleaved" =>
          i[k] \in Slots /\ \A x \in Slots : x >= i[k] => store[k][x] = Null
    /\ Giving(k) /\ hand[k] = Null /\ ~CheckedAll(k) =>
          \A x \in Slots : x < i[k] => store[Victim(k)][x] = Null
    /\ Waiting(k) /\ half[k] = 2 /\ Passed(k) = Now => Empty(Victim(k))
    /\ pc[k] = "spin" /\ half[k] = 2 /\ gen[k] # Now => Empty(k)
    /\ pc[k] \in {"clock", "add", "done"} => Empty(k)
Vacant == \A k \in Worker : VacantOK(k)

\* The block that is given back is there.
Busy(k) == pc[k] \in {"check", "erase", "free", "given"}
PresentOK(k) ==
    /\ Busy(k) => Given(k) # Null
    /\ Busy(k) /\ hand[k] = Null => i[k] \in Slots
    /\ pc[k] = "store" => store[k][Pos(k)] = Null
Present == \A k \in Worker : PresentOK(k)

Order == Halves /\ Vacant /\ Present

\* The places a block can be in: a worker's slots, and its hand.  A slot
\* whose block has been freed is about to be emptied.
Hand == -1
Spot == Worker \X (Slots \cup {Hand})
At(l) == IF l[2] = Hand THEN hand[l[1]] ELSE store[l[1]][l[2]]
Front(k) == <<Victim(k), Pos(k)>>
Emptying(m) == pc[m] = "given" /\ ~CheckedAll(m)
Stale(l) == \E m \in Worker : Emptying(m) /\ l = Front(m)
Live(l) == At(l) # Null /\ ~Stale(l)
Spots(p) == {l \in Spot : Live(l) /\ At(l).p = p}

\* The heap's count of a cell is the number of places it is in, and a correct
\* allocator puts it in one.
Counted ==
    \A p \in Cell :
        /\ heap[p] = Cardinality(Spots(p))
        /\ ~cfg.broken => heap[p] <= 1
Once == ~cfg.broken => ~twice

\* A registered cell is in a place, from which it has not been erased.
Fresh(l) == l[2] = Hand /\ pc[l[1]] = "insert"
Erased(l) == \E m \in Worker : pc[m] = "free" /\ l = Front(m)
Registered ==
    /\ cfg.program = "check" \/ (\A k \in Worker : Taking(k)) =>
          \A p \in registry : \E l \in Spot : l \in Spots(p) /\ ~Fresh(l) /\ ~Erased(l)
    /\ cfg.program = "bench" => registry = {}

\* A filled block keeps its stamp.
Blank(l) == l[2] = Hand /\ pc[l[1]] \in {"insert", "fill"}
Stamped ==
    ~cfg.broken /\ cfg.program # "bench" =>
        \A l \in Spot : Live(l) /\ ~Blank(l) => mem[At(l).p] = At(l).tag

-----------------------------------------------------------------------------
(* The configuration, the places and the neighbours.                         *)

\* What ConfigsAssumption says of the program that runs.
LEMMA Config ==
    ASSUME cfg \in Configs
    PROVE  /\ cfg.nworks \in Nat \ {0} /\ cfg.ntimes \in Nat \ {0}
           /\ cfg.rounds \in Nat \ {0} /\ cfg.window \in Nat \ {0} /\ cfg.cells \in Nat \ {0}
           /\ cfg.pattern \in {"bulk", "interleaved", "cross"}
           /\ cfg.program \in {"check", "bench", "boundary"}
           /\ cfg.broken \in BOOLEAN /\ cfg.registry \in BOOLEAN /\ cfg.latency \in BOOLEAN
           /\ cfg.program = "boundary" => cfg.nworks = 1 /\ cfg.rounds = 1 /\ cfg.pattern = "bulk"
           /\ cfg.latency => cfg.program = "bench" /\ cfg.pattern # "cross"
BY ConfigsAssumption

\* A remainder is itself below its modulus.
LEMMA Small ==
    ASSUME NEW d \in Nat \ {0}, NEW r \in Nat, r < d
    PROVE  r % d = r
<1>1. (d * 0 + r) \div d = 0
  BY Quotient
<1>2. d * 0 + r = r
  OBVIOUS
<1>3. r \div d = 0
  BY <1>1, <1>2
<1>4. r = d * (r \div d) + (r % d) /\ r % d \in Nat
  BY DivMod
<1> QED
  BY <1>3, <1>4

\* The ring's position is one of its slots, and a slot's number is its own.
LEMMA Position ==
    ASSUME cfg \in Configs, NEW j \in Nat
    PROVE  /\ j % Cardinality(Slots) \in Slots
           /\ j \in Slots => j % Cardinality(Slots) = j
<1> DEFINE size == IF cfg.pattern = "interleaved" THEN cfg.window ELSE cfg.ntimes
<1>1. size \in Nat \ {0}
  BY Config
<1>2. Slots = 0 .. size - 1
  BY DEF Slots
<1>3. Cardinality(Slots) = size
  BY <1>1, <1>2, FS_Interval
<1>4. j % size \in Nat /\ j % size < size
  BY <1>1, DivMod
<1>5. j < size => j % size = j
  BY <1>1, Small
<1> HIDE DEF size
<1> QED
  BY <1>1, <1>2, <1>3, <1>4, <1>5

\* A worker gives back its own blocks, or its neighbour's, and nobody else does.
LEMMA Neighbour ==
    ASSUME cfg \in Configs, NEW k \in Worker
    PROVE  /\ Victim(k) \in Worker
           /\ cfg.pattern # "cross" => Victim(k) = k
           /\ cfg.pattern = "cross" => Victim(k) = IF k + 1 = cfg.nworks THEN 0 ELSE k + 1
<1>1. cfg.nworks \in Nat \ {0} /\ k \in Nat /\ k + 1 <= cfg.nworks
  BY Config DEF Worker
<1>2. k + 1 < cfg.nworks => (k + 1) % cfg.nworks = k + 1
  BY <1>1, Small
<1>3. cfg.nworks % cfg.nworks = 0
  <2>1. (cfg.nworks * 1 + 0) \div cfg.nworks = 1
    BY <1>1, Quotient
  <2>2. cfg.nworks = cfg.nworks * 1 + 0
    BY <1>1
  <2>3. cfg.nworks \div cfg.nworks = 1
    BY <2>1, <2>2
  <2>4. cfg.nworks = cfg.nworks * (cfg.nworks \div cfg.nworks) + (cfg.nworks % cfg.nworks)
        /\ cfg.nworks % cfg.nworks \in Nat
    BY <1>1, DivMod
  <2> QED
    BY <1>1, <2>3, <2>4
<1> QED
  BY <1>1, <1>2, <1>3 DEF Victim, Worker

LEMMA OneGiver ==
    ASSUME cfg \in Configs, NEW k \in Worker, NEW m \in Worker, Victim(k) = Victim(m)
    PROVE  k = m
<1>1. cfg.nworks \in Nat \ {0} /\ k \in Nat /\ m \in Nat
  BY Config DEF Worker
<1> QED
  BY <1>1, Neighbour DEF Worker

LEMMA SomeGiver ==
    ASSUME cfg \in Configs, NEW v \in Worker
    PROVE  \E k \in Worker : Victim(k) = v
<1>1. cfg.nworks \in Nat \ {0} /\ v \in Nat /\ v < cfg.nworks
  BY Config DEF Worker
<1>2. CASE cfg.pattern # "cross"
  BY <1>2, Neighbour
<1>3. CASE cfg.pattern = "cross" /\ v = 0
  <2>1. cfg.nworks - 1 \in Worker
    BY <1>1 DEF Worker
  <2> QED
    BY <1>1, <1>3, <2>1, Neighbour
<1>4. CASE cfg.pattern = "cross" /\ v # 0
  <2>1. v - 1 \in Worker
    BY <1>1, <1>4 DEF Worker
  <2> QED
    BY <1>1, <1>4, <2>1, Neighbour
<1> QED
  BY <1>2, <1>3, <1>4

\* Whatever happens is a step of one worker, of a program that has such a step.
Does(k) ==
    \/ Alloc(k) \/ Store(k) \/ NextGive(k) \/ Free(k) \/ GiveDone(k)
    \/ (Insert(k) \/ Fill(k) \/ Check(k)) /\ cfg.program # "bench"
    \/ Erase(k) /\ cfg.program = "check"
    \/ (Load(k) \/ Arrive(k) \/ Spin(k)) /\ cfg.program # "boundary"
    \/ (Clock(k) \/ AddTime(k)) /\ cfg.program = "bench"

LEMMA Steps ==
    ASSUME Next
    PROVE  \E k \in Worker : Does(k)
<1>1. PICK k \in Worker : Step(k)
  BY DEF Next
<1>2. Does(k)
  BY <1>1 DEF Step, RunCheck, RunOnce, RunBoundaryCheck, Barriers, Does
<1> QED
  BY <1>2

\* Nothing changes the configuration, nor what it says of workers, cells and places.
LEMMA SameConfig ==
    ASSUME NEW k \in Worker, Does(k)
    PROVE  cfg' = cfg
<1>1. Alloc(k) => cfg' = cfg
  BY DEF Alloc
<1>2. Store(k) => cfg' = cfg
  BY DEF Store
<1>3. NextGive(k) => cfg' = cfg
  BY DEF NextGive
<1>4. Free(k) => cfg' = cfg
  BY DEF Free
<1>5. GiveDone(k) => cfg' = cfg
  BY DEF GiveDone
<1>6. Insert(k) => cfg' = cfg
  BY DEF Insert
<1>7. Fill(k) => cfg' = cfg
  BY DEF Fill
<1>8. Check(k) => cfg' = cfg
  BY DEF Check
<1>9. Erase(k) => cfg' = cfg
  BY DEF Erase
<1>10. Load(k) => cfg' = cfg
  BY DEF Load
<1>11. Arrive(k) => cfg' = cfg
  BY DEF Arrive
<1>12. Spin(k) => cfg' = cfg
  BY DEF Spin
<1>13. Clock(k) => cfg' = cfg
  BY DEF Clock
<1>14. AddTime(k) => cfg' = cfg
  BY DEF AddTime
<1> QED
  BY <1>1, <1>2, <1>3, <1>4, <1>5, <1>6, <1>7, <1>8, <1>9, <1>10, <1>11, <1>12, <1>13, <1>14 DEF Does

-----------------------------------------------------------------------------
(* Types, and what a worker has in its hand.                                 *)

\* What is looked at when a block is given back has its type.
LEMMA GivenType ==
    ASSUME Types, NEW k \in Worker
    PROVE  /\ Pos(k) \in Slots /\ (i[k] \in Slots => Pos(k) = i[k])
           /\ Given(k) \in Block \cup {Null}
           /\ GivenCell(k) \subseteq Cell
<1>1. Pos(k) \in Slots /\ (i[k] \in Slots => Pos(k) = i[k])
  BY Position DEF Types, Pos
<1>2. Victim(k) \in Worker
  BY Neighbour DEF Types
<1>3. Given(k) \in Block \cup {Null}
  BY <1>1, <1>2 DEF Types, Given
<1> QED
  BY <1>1, <1>3 DEF GivenCell, Block

\* nullptr is no block.
LEMMA NotNull ==
    ASSUME cfg \in Configs, NEW b \in Block
    PROVE  b # Null
BY Config, NullAssumption DEF Block, Cell, Tags

LEMMA InitTypes ==
    ASSUME Init
    PROVE  Types /\ Hands
<1>1. cfg \in Configs /\ cfg.nworks \in Nat \ {0} /\ cfg.cells \in Nat \ {0}
  BY Config DEF Init
<1>2. Types
  <2>1. /\ pc \in [Worker -> Pc] /\ round \in [Worker -> Nat] /\ i \in [Worker -> Nat]
        /\ half \in [Worker -> {1, 2}] /\ gen \in [Worker -> Nat]
        /\ ms \in [Worker -> Nat] /\ cur \in [Worker -> Nat]
    BY DEF Init, Pc
  <2>2. hand \in [Worker -> Block \cup {Null}] /\ store \in [Worker -> [Slots -> Block \cup {Null}]]
    BY DEF Init
  <2>3. heap \in [Cell -> Int] /\ mem \in [Cell -> Tags \cup {Null}]
    BY DEF Init
  <2> QED
    BY <1>1, <2>1, <2>2, <2>3 DEF Init, Types
<1>3. Hands
  BY <1>1 DEF Init, Hands, HandsOK, Waiting, Taking, Giving
<1> QED
  BY <1>2, <1>3

\* The block an allocation puts in a worker's hand.
LEMMA AllocBlock ==
    ASSUME Types, NEW k \in Worker, Alloc(k)
    PROVE  \E b \in Block :
              /\ b # Null /\ b.p \in Answers /\ b.p \in Cell /\ b.tag = Tag(k, Counter(k))
              /\ hand' = [hand EXCEPT ![k] = b]
              /\ heap' = [heap EXCEPT ![b.p] = @ + 1]
              /\ twice' = (twice \/ heap[b.p] > 0)
<1>1. /\ cfg.nworks \in Nat \ {0} /\ cfg.ntimes \in Nat \ {0} /\ cfg.cells \in Nat \ {0}
      /\ cursor \in Nat
  BY Config DEF Types
<1>2. PICK p \in Answers : /\ hand' = [hand EXCEPT ![k] = [p |-> p, tag |-> Tag(k, Counter(k))]]
                           /\ heap' = [heap EXCEPT ![p] = @ + 1]
                           /\ twice' = (twice \/ heap[p] > 0)
  BY DEF Alloc
<1>3. p \in Cell
  BY <1>1, <1>2, DivMod DEF Answers, Cell
<1>4. Tag(k, Counter(k)) \in Tags
  <2>1. round[k] \in Nat /\ i[k] \in Nat
    BY DEF Types
  <2>2. k \in Nat
    BY <1>1 DEF Worker
  <2>3. round[k] * cfg.ntimes \in Nat
    BY <1>1, <2>1
  <2>4. Counter(k) \in Nat
    BY <2>1, <2>3 DEF Counter
  <2> QED
    BY <2>2, <2>4 DEF Tag, Tags
<1> DEFINE b == [p |-> p, tag |-> Tag(k, Counter(k))]
<1>5. b \in Block /\ b.p = p /\ b.tag = Tag(k, Counter(k))
  BY <1>3, <1>4 DEF Block
<1>6. b # Null
  BY <1>5, NotNull DEF Types
<1> QED
  BY <1>2, <1>3, <1>5, <1>6

LEMMA TypesStep ==
    ASSUME Types, Hands, NEW k \in Worker, Does(k)
    PROVE  Types' /\ Hands'
<1>a. cfg' = cfg
  BY SameConfig
<1>b. Worker' = Worker /\ Cell' = Cell /\ Slots' = Slots /\ Block' = Block
  BY <1>a DEF Worker, Cell, Slots, Block
<1>t. i \in [Worker -> Nat] /\ round \in [Worker -> Nat] /\ half \in [Worker -> {1, 2}]
  BY DEF Types
<1> USE <1>b DEF Goto
<1>2. /\ cfg.nworks \in Nat \ {0} /\ cfg.ntimes \in Nat \ {0} /\ cfg.cells \in Nat \ {0}
      /\ cfg.pattern \in {"bulk", "interleaved", "cross"}
  BY Config DEF Types
<1>3. Pos(k) \in Slots /\ Given(k) \in Block \cup {Null} /\ GivenCell(k) \subseteq Cell
  BY GivenType
<1>4. Victim(k) \in Worker
  BY Neighbour DEF Types
<1> USE DEF allocator, checks, timing, waits, loops
<1>5. CASE Alloc(k)
  <2>1. Taken(k) \in {"store", "check", "free"}
    BY DEF Taken, FirstGive
  <2>2. PICK b \in Block : /\ b # Null /\ b.p \in Cell
                           /\ hand' = [hand EXCEPT ![k] = b]
                           /\ heap' = [heap EXCEPT ![b.p] = @ + 1]
                           /\ twice' = (twice \/ heap[b.p] > 0)
    BY <1>5, AllocBlock
  <2>3. (cursor + 1) % cfg.cells \in Nat
    <3>1. cursor + 1 \in Nat
      BY DEF Types
    <3> QED
      BY <1>2, <3>1, DivMod
  <2>6. UNCHANGED <<ms, cur, total, cfg, round, i, half, store, gen, barrier, mem, registry, duplicate, corrupted>>
    BY <1>5 DEF Alloc, Sample
  <2>7. pc' = [pc EXCEPT ![k] = IF cfg.program = "bench" THEN Taken(k) ELSE "insert"]
    BY <1>5 DEF Alloc
  <2>8. cursor' \in Nat
    BY <1>5, <2>3 DEF Alloc, Types
  <2>9. Types'
    BY <2>1, <2>2, <2>6, <2>7, <2>8 DEF Types, Pc, Block
  <2>11. Hands'
    BY <1>5, <2>1, <2>2, <2>6, <2>7 DEF Types, Hands, HandsOK, Waiting, Taking, Giving, Alloc
  <2> QED
    BY <2>9, <2>11
<1>6. CASE Insert(k)
  <2>1. Types'
    BY <1>6 DEF Insert, Types, Pc, Block
  <2>2. Hands'
    BY <1>6 DEF Insert, Types, Hands, HandsOK, Waiting, Taking, Giving
  <2> QED
    BY <2>1, <2>2
<1>7. CASE Fill(k)
  <2>1. Taken(k) \in {"store", "check", "free"}
    BY DEF Taken, FirstGive
  <2>2. hand[k] \in Block
    BY <1>7 DEF Fill, Hands, HandsOK, Types
  <2>3. hand[k].p \in Cell /\ hand[k].tag \in Tags
    BY <2>2 DEF Block
  <2>4. Types'
    BY <1>7, <2>1, <2>3 DEF Fill, Types, Pc, Block
  <2>5. Hands'
    BY <1>7, <2>1 DEF Fill, Types, Hands, HandsOK, Waiting, Taking, Giving
  <2> QED
    BY <2>4, <2>5
<1>8. CASE Store(k)
  <2>1. AfterTaking \in {"load", "next"} /\ (AfterTaking = "load" => cfg.pattern = "cross")
    BY DEF AfterTaking
  <2>2. Types'
    <3>1. pc' \in [Worker -> Pc]
      <4>1. pc' = [pc EXCEPT ![k] = "alloc"] \/ pc' = [pc EXCEPT ![k] = AfterTaking]
        BY <1>8 DEF Store
      <4> QED
        BY <4>1, <2>1 DEF Types, Pc
    <3>2. i' \in [Worker -> Nat]
      <4>1. i' = [i EXCEPT ![k] = @ + 1] \/ i' = [i EXCEPT ![k] = 0]
        BY <1>8 DEF Store
      <4> QED
        BY <4>1, <1>t
    <3>3. store' \in [Worker -> [Slots -> Block \cup {Null}]]
      BY <1>8, <2>1, <1>2, <1>3 DEF Store, Types, Pc
    <3>4. hand' \in [Worker -> Block \cup {Null}]
      BY <1>8, <2>1, <1>2, <1>3 DEF Store, Types, Pc
    <3>5. UNCHANGED <<cfg, round, half, gen, barrier, ms, cur, total, duplicate, corrupted, twice, heap, cursor, mem>>
      BY <1>8 DEF Store
    <3> QED
      BY <3>1, <3>2, <3>3, <3>4, <3>5 DEF Types, Block
  <2>3. Hands'
    BY <1>8, <2>1 DEF Store, Types, Hands, HandsOK, Waiting, Taking, Giving
  <2> QED
    BY <2>2, <2>3
<1>9. CASE NextGive(k)
  <2>1. FirstGive(k) \in {"check", "free"}
    BY DEF FirstGive
  <2>2. Types'
    <3>1. pc' \in [Worker -> Pc]
      <4>1. pc' = pc \/ pc' = [pc EXCEPT ![k] = FirstGive(k)] \/ pc' = [pc EXCEPT ![k] = "load"]
            \/ pc' = [pc EXCEPT ![k] = "alloc"] \/ pc' = [pc EXCEPT ![k] = "clock"]
            \/ pc' = [pc EXCEPT ![k] = "done"]
        BY <1>9 DEF NextGive, EndRound
      <4> QED
        BY <2>1, <4>1 DEF Types, Pc
    <3>2. round' \in [Worker -> Nat]
      <4>1. round' = round \/ round' = [round EXCEPT ![k] = @ + 1]
        BY <1>9 DEF NextGive, EndRound
      <4> QED
        BY <4>1, <1>t
    <3>3. i' \in [Worker -> Nat]
      <4>1. i' = i \/ i' = [i EXCEPT ![k] = @ + 1] \/ i' = [i EXCEPT ![k] = 0]
        BY <1>9 DEF NextGive, EndRound
      <4> QED
        BY <4>1, <1>t
    <3>4. half' \in [Worker -> {1, 2}]
      BY <1>9, <2>1 DEF NextGive, EndRound, Types, Pc
    <3>5. UNCHANGED <<cfg, hand, store, gen, barrier, ms, cur, total, duplicate, corrupted, twice, heap, cursor, mem>>
      BY <1>9 DEF NextGive, EndRound
    <3> QED
      BY <3>1, <3>2, <3>3, <3>4, <3>5 DEF Types, Block
  <2>3. Hands'
    BY <1>9, <2>1 DEF NextGive, EndRound, SecondBarrier, Types, Hands, HandsOK, Waiting, Taking, Giving
  <2> QED
    BY <2>2, <2>3
<1>10. CASE Check(k)
  <2>1. Types'
    BY <1>10 DEF Check, Afterwards, Types, Pc, Block
  <2>2. Hands'
    BY <1>10 DEF Check, Afterwards, Types, Hands, HandsOK, Waiting, Taking, Giving
  <2> QED
    BY <2>1, <2>2
<1>11. CASE Erase(k)
  <2>1. Types'
    BY <1>11 DEF Erase, Afterwards, Types, Pc, Block
  <2>2. Hands'
    BY <1>11 DEF Erase, Afterwards, Types, Hands, HandsOK, Waiting, Taking, Giving
  <2> QED
    BY <2>1, <2>2
<1>12. CASE Free(k)
  <2>1. UNCHANGED <<ms, cur, total>>
    BY <1>12 DEF Free, Sample
  <2>2. Types'
    BY <1>12, <2>1 DEF Free, Afterwards, Types, Pc, Block
  <2>3. Hands'
    BY <1>12 DEF Free, Afterwards, Types, Hands, HandsOK, Waiting, Taking, Giving
  <2> QED
    BY <2>2, <2>3
<1>13. CASE GiveDone(k)
  <2>1. Types'
    <3>1. pc' \in [Worker -> Pc]
      BY <1>13, <1>3, <1>4 DEF GiveDone, Types, Pc
    <3>2. i' \in [Worker -> Nat]
      <4>1. i' = i \/ i' = [i EXCEPT ![k] = @ + 1]
        BY <1>13 DEF GiveDone
      <4> QED
        BY <4>1, <1>t
    <3>3. store' \in [Worker -> [Slots -> Block \cup {Null}]]
      <4>1. store' = store \/ store' = [store EXCEPT ![Victim(k)][Pos(k)] = Null]
        BY <1>13 DEF GiveDone
      <4> QED
        BY <1>3, <1>4, <4>1 DEF Types
    <3>4. UNCHANGED <<cfg, round, half, hand, gen, barrier, ms, cur, total, duplicate, corrupted, twice, heap, cursor, mem>>
      BY <1>13 DEF GiveDone
    <3> QED
      BY <3>1, <3>2, <3>3, <3>4 DEF Types, Block
  <2>2. Hands'
    BY <1>13 DEF GiveDone, Types, Hands, HandsOK, Waiting, Taking, Giving
  <2> QED
    BY <2>1, <2>2
<1>14. CASE Load(k)
  <2>1. Generation(barrier, cfg.nworks) \in Nat
    BY <1>2, DivMod DEF Generation, Types
  <2>2. Types'
    BY <1>14, <2>1 DEF Load, Types, Pc, Block
  <2>3. Hands'
    BY <1>14 DEF Load, Types, Hands, HandsOK, Waiting, Taking, Giving
  <2> QED
    BY <2>2, <2>3
<1>15. CASE Arrive(k)
  <2>1. Types'
    <3>1. pc' \in [Worker -> Pc]
      <4>1. pc' = [pc EXCEPT ![k] = "spin"] \/ pc' = [pc EXCEPT ![k] = "next"] \/ pc' = [pc EXCEPT ![k] = "alloc"] \/ pc' = [pc EXCEPT ![k] = "clock"] \/ pc' = [pc EXCEPT ![k] = "done"]
        BY <1>15 DEF Arrive, Leave, EndRound
      <4> QED
        BY <4>1 DEF Types, Pc
    <3>2. barrier' \in Nat
      BY <1>15 DEF Arrive, Leave, EndRound, Types, Pc
    <3>3. round' \in [Worker -> Nat]
      <4>1. round' = round \/ round' = [round EXCEPT ![k] = @ + 1]
        BY <1>15 DEF Arrive, Leave, EndRound
      <4> QED
        BY <4>1, <1>t
    <3>4. i' \in [Worker -> Nat]
      <4>1. i' = i \/ i' = [i EXCEPT ![k] = 0]
        BY <1>15 DEF Arrive, Leave, EndRound
      <4> QED
        BY <4>1, <1>t
    <3>5. half' \in [Worker -> {1, 2}]
      <4>1. half' = half \/ half' = [half EXCEPT ![k] = 1] \/ half' = [half EXCEPT ![k] = 2]
        BY <1>15 DEF Arrive, Leave, EndRound
      <4> QED
        BY <4>1 DEF Types, Pc
    <3>6. UNCHANGED <<cfg, hand, store, gen, ms, cur, total, duplicate, corrupted, twice, heap, cursor, mem>>
      BY <1>15 DEF Arrive, Leave, EndRound
    <3> QED
      BY <3>1, <3>2, <3>3, <3>4, <3>5, <3>6 DEF Types, Block
  <2>2. Hands'
    <3>1. pc[k] = "arrive" /\ hand' = hand /\ \A m \in Worker : m # k => pc'[m] = pc[m]
      BY <1>15 DEF Arrive, Leave, EndRound, Goto, Types
    <3>2. pc'[k] \in {"next", "alloc", "clock", "done", "spin"}
      BY <1>15 DEF Arrive, Leave, EndRound, Goto, Types
    <3>3. hand[k] = Null /\ cfg.pattern = "cross"
      BY <3>1 DEF Hands, HandsOK, Waiting, Taking, Giving
    <3>4. HandsOK(k)'
      BY <1>a, <3>1, <3>2, <3>3 DEF HandsOK
    <3>5. \A m \in Worker : m # k => HandsOK(m)'
      BY <1>a, <3>1 DEF Hands, HandsOK, Waiting, Taking, Giving
    <3> QED
      BY <1>b, <3>4, <3>5 DEF Hands
  <2> QED
    BY <2>1, <2>2
<1>16. CASE Spin(k)
  <2>1. Types'
    <3>1. pc' \in [Worker -> Pc]
      <4>1. pc' = [pc EXCEPT ![k] = "next"] \/ pc' = [pc EXCEPT ![k] = "alloc"] \/ pc' = [pc EXCEPT ![k] = "clock"] \/ pc' = [pc EXCEPT ![k] = "done"]
        BY <1>16 DEF Spin, Leave, EndRound
      <4> QED
        BY <4>1 DEF Types, Pc
    <3>2. round' \in [Worker -> Nat]
      <4>1. round' = round \/ round' = [round EXCEPT ![k] = @ + 1]
        BY <1>16 DEF Spin, Leave, EndRound
      <4> QED
        BY <4>1, <1>t
    <3>3. i' \in [Worker -> Nat]
      <4>1. i' = i \/ i' = [i EXCEPT ![k] = 0]
        BY <1>16 DEF Spin, Leave, EndRound
      <4> QED
        BY <4>1, <1>t
    <3>4. half' \in [Worker -> {1, 2}]
      <4>1. half' = half \/ half' = [half EXCEPT ![k] = 1] \/ half' = [half EXCEPT ![k] = 2]
        BY <1>16 DEF Spin, Leave, EndRound
      <4> QED
        BY <4>1 DEF Types, Pc
    <3>5. UNCHANGED <<cfg, hand, store, gen, barrier, ms, cur, total, duplicate, corrupted, twice, heap, cursor, mem>>
      BY <1>16 DEF Spin, Leave, EndRound
    <3> QED
      BY <3>1, <3>2, <3>3, <3>4, <3>5 DEF Types, Block
  <2>2. Hands'
    BY <1>16 DEF Spin, Leave, EndRound, Types, Hands, HandsOK, Waiting, Taking, Giving
  <2> QED
    BY <2>1, <2>2
<1>17. CASE Clock(k)
  <2>1. Types'
    BY <1>17, ConfigsAssumption DEF Clock, Types, Pc, Block
  <2>2. Hands'
    BY <1>17 DEF Clock, Types, Hands, HandsOK, Waiting, Taking, Giving
  <2> QED
    BY <2>1, <2>2
<1>18. CASE AddTime(k)
  <2>1. Types'
    <3>1. pc' \in [Worker -> Pc]
      BY <1>18 DEF AddTime, Exchange, Types, Pc
    <3>2. cur' \in [Worker -> Nat]
      BY <1>18 DEF AddTime, Exchange, Types, Pc
    <3>3. total' \in Nat
      BY <1>18 DEF AddTime, Exchange, Types, Pc
    <3>4. UNCHANGED <<cfg, round, i, half, hand, store, gen, barrier, ms, duplicate, corrupted, twice, heap, cursor, mem>>
      BY <1>18 DEF AddTime, Exchange
    <3> QED
      BY <3>1, <3>2, <3>3, <3>4 DEF Types, Block
  <2>2. Hands'
    BY <1>18 DEF AddTime, Exchange, Types, Hands, HandsOK, Waiting, Taking, Giving
  <2> QED
    BY <2>1, <2>2
<1> QED
  BY <1>5, <1>6, <1>7, <1>8, <1>9, <1>10, <1>11, <1>12, <1>13, <1>14, <1>15, <1>16, <1>17, <1>18
     DEF Does

LEMMA TypesStutter ==
    ASSUME Types, Hands, UNCHANGED vars
    PROVE  Types' /\ Hands'
<1> USE DEF vars, loops, waits, allocator, checks, timing
<1>1. Types'
  BY DEF Types, Worker, Cell, Slots, Block
<1>2. Hands'
  BY DEF Hands, HandsOK, Worker, Waiting, Taking, Giving
<1> QED
  BY <1>1, <1>2

-----------------------------------------------------------------------------
(* The barrier.                                                              *)

\* The generation of a counter, and what is counted within one.
LEMMA Generations ==
    ASSUME NEW n \in Nat \ {0}, NEW s \in Nat
    PROVE  /\ Generation(s, n) \in Nat
           /\ \A q, r \in Nat : s = n * q + r /\ r < n => Generation(s, n) = q
           /\ \A r \in Nat : s = n * Generation(s, n) + r => r < n
<1>1. Generation(s, n) \in Nat
  BY DivMod DEF Generation
<1>2. \A q, r \in Nat : s = n * q + r /\ r < n => Generation(s, n) = q
  BY Quotient DEF Generation
<1>3. \A r \in Nat : s = n * Generation(s, n) + r => r < n
  <2> TAKE r \in Nat
  <2>1. s = n * (s \div n) + (s % n) /\ s % n < n /\ s % n \in Nat /\ n * (s \div n) \in Nat
    BY DivMod
  <2> QED
    BY <2>1 DEF Generation
<1> QED
  BY <1>1, <1>2, <1>3

LEMMA Interval ==
    ASSUME NEW n \in Nat \ {0}
    PROVE  IsFiniteSet(0 .. n - 1) /\ Cardinality(0 .. n - 1) = n
BY FS_Interval

LEMMA NextMultiple ==
    ASSUME NEW n \in Nat, NEW g \in Nat
    PROVE  (g + 1) * n = n * g + n /\ n * g \in Nat
OBVIOUS

LEMMA Workers ==
    ASSUME cfg \in Configs
    PROVE  IsFiniteSet(Worker) /\ Cardinality(Worker) = cfg.nworks
<1>1. cfg.nworks \in Nat \ {0}
  BY Config
<1> QED
  BY <1>1, Interval DEF Worker

\* Nothing about the barrier changes when a worker steps outside it.
LEMMA Outside ==
    ASSUME Types, InStep, NEW k \in Worker, cfg' = cfg,
           UNCHANGED <<round, half, gen, barrier>>,
           pc[k] \notin {"arrive", "spin"}, NEW w \in Pc \ {"arrive", "spin"},
           pc' = pc \/ pc' = [pc EXCEPT ![k] = w]
    PROVE  InStep' /\ Arrived' = Arrived /\ Now' = Now
<1>1. Worker' = Worker /\ Now' = Now
  BY DEF Worker, Now
<1>2. pc \in [Worker -> Pc]
  BY DEF Types
<1>3. \A m \in Worker : /\ pc'[m] = "spin" <=> pc[m] = "spin"
                        /\ pc'[m] \in {"arrive", "spin"} => pc'[m] = pc[m]
  BY <1>2
<1>4. Arrived' = Arrived
  BY <1>1, <1>3 DEF Arrived
<1>5. InStep'
  BY <1>1, <1>3, <1>4 DEF InStep, Passed
<1> QED
  BY <1>1, <1>4, <1>5

\* A worker that leaves has passed one barrier more.
LEMMA Leaving ==
    ASSUME Types, NEW k \in Worker, cfg' = cfg, Leave(k)
    PROVE  /\ \E w \in {"next", "alloc", "clock", "done"} : pc' = [pc EXCEPT ![k] = w]
           /\ Passed(k)' = Passed(k) + 1
           /\ \A m \in Worker \ {k} : Passed(m)' = Passed(m)
<1>1. \E w \in {"next", "alloc", "clock", "done"} : pc' = [pc EXCEPT ![k] = w]
  BY DEF Leave, EndRound, Goto
<1>2. round \in [Worker -> Nat] /\ half \in [Worker -> {1, 2}]
  BY DEF Types
<1>3. \/ half[k] = 1 /\ half' = [half EXCEPT ![k] = 2] /\ round' = round
      \/ half[k] = 2 /\ half' = [half EXCEPT ![k] = 1] /\ round' = [round EXCEPT ![k] = @ + 1]
  BY DEF Leave, EndRound
<1>4. \/ half[k] = 1 /\ half'[k] = 2 /\ round'[k] = round[k]
      \/ half[k] = 2 /\ half'[k] = 1 /\ round'[k] = round[k] + 1
  BY <1>2, <1>3
<1>5. \A m \in Worker \ {k} : half'[m] = half[m] /\ round'[m] = round[m]
  BY <1>2, <1>3
<1>6. round[k] \in Nat
  BY <1>2
<1>7. Passed(k)' = Passed(k) + 1
  BY <1>4, <1>6 DEF Passed
<1> QED
  BY <1>1, <1>5, <1>7 DEF Passed

\* All but the last to arrive wait already.
LEMMA AllArrived ==
    ASSUME Types, InStep, cfg.pattern = "cross", NEW k \in Worker, pc[k] = "arrive",
           LastThrough(barrier, gen[k], cfg.nworks)
    PROVE  /\ gen[k] = Now /\ Passed(k) = Now
           /\ barrier + 1 = cfg.nworks * (Now + 1)
           /\ \A m \in Worker \ {k} : pc[m] = "spin" /\ gen[m] = Now /\ Passed(m) = Now
<1> DEFINE n == cfg.nworks
           a == Cardinality(Arrived)
<1>1. n \in Nat \ {0} /\ IsFiniteSet(Worker) /\ Cardinality(Worker) = n
  BY Config, Workers DEF Types
<1>2. barrier \in Nat /\ Now \in Nat
  BY <1>1, Generations DEF Types, Now
<1>3. Arrived \subseteq Worker \ {k}
  BY DEF Arrived
<1>4. IsFiniteSet(Worker \ {k}) /\ Cardinality(Worker \ {k}) = n - 1
  BY <1>1, FS_RemoveElement
<1>5. IsFiniteSet(Arrived) /\ (Cardinality(Arrived) = n - 1 => Arrived = Worker \ {k})
  BY <1>3, <1>4, FS_Subset
<1>6. a \in Nat
  BY <1>5, FS_CardinalityType
<1>7. barrier = n * Now + a
  BY DEF InStep
<1>8. gen[k] = Passed(k) /\ Passed(k) = Now
  BY DEF InStep
<1>9. barrier + 1 = (Now + 1) * n
  BY <1>8 DEF LastThrough
<1>10. a = n - 1
  <2>1. (Now + 1) * n = n * Now + n /\ n * Now \in Nat
    BY <1>1, <1>2, NextMultiple
  <2> QED
    BY <1>1, <1>2, <1>6, <1>7, <1>9, <2>1
<1>11. \A m \in Worker \ {k} : m \in Arrived
  BY <1>5, <1>10
<1>12. barrier + 1 = n * (Now + 1)
  BY <1>1, <1>2, <1>9
<1>13. \A m \in Worker \ {k} : pc[m] = "spin" /\ gen[m] = Now /\ Passed(m) = Now
  BY <1>11 DEF Arrived, InStep
<1> QED
  BY <1>8, <1>12, <1>13

\* The last to arrive starts a generation.
LEMMA LastArrives ==
    ASSUME Types, InStep, cfg.pattern = "cross", NEW k \in Worker, Arrive(k),
           LastThrough(barrier, gen[k], cfg.nworks)
    PROVE  InStep' /\ Now' = Now + 1
<1>1. cfg' = cfg /\ gen' = gen /\ barrier' = barrier + 1 /\ Leave(k) /\ pc[k] = "arrive"
  BY DEF Arrive
<1>2. /\ Passed(k) = Now /\ barrier + 1 = cfg.nworks * (Now + 1)
      /\ \A m \in Worker \ {k} : pc[m] = "spin" /\ gen[m] = Now /\ Passed(m) = Now
  BY <1>1, AllArrived
<1>3. cfg.nworks \in Nat \ {0} /\ barrier \in Nat /\ pc \in [Worker -> Pc]
  BY Config DEF Types
<1>4. Now \in Nat
  BY <1>3, Generations DEF Now
<1>5. Now' = Now + 1
  <2>1. barrier + 1 = cfg.nworks * (Now + 1) + 0 /\ barrier + 1 \in Nat /\ Now + 1 \in Nat
    BY <1>2, <1>3, <1>4
  <2>2. Generation(barrier + 1, cfg.nworks) = Now + 1
    BY <1>3, <2>1, Quotient DEF Generation
  <2> QED
    BY <1>1, <2>2 DEF Now
<1>6. PICK w \in {"next", "alloc", "clock", "done"} : pc' = [pc EXCEPT ![k] = w]
  BY <1>1, Leaving
<1>7. /\ Passed(k)' = Passed(k) + 1
      /\ \A m \in Worker \ {k} : Passed(m)' = Passed(m)
  BY <1>1, Leaving
<1>8. Worker' = Worker
  BY <1>1 DEF Worker
<1>9. pc'[k] \notin {"arrive", "spin"} /\ \A m \in Worker \ {k} : pc'[m] = "spin"
  BY <1>2, <1>3, <1>6
<1>10. Arrived' = {}
  BY <1>1, <1>2, <1>4, <1>5, <1>8, <1>9 DEF Arrived
<1>11. barrier' = cfg.nworks * (Now + 1) + Cardinality({})
  BY <1>1, <1>2, <1>3, <1>4, FS_EmptySet
<1>12. \A m \in Worker : /\ pc'[m] \in {"arrive", "spin"} => gen[m] = Passed(m)'
                         /\ Passed(m)' = Now + 1 \/ (pc'[m] = "spin" /\ Passed(m)' + 1 = Now + 1)
  BY <1>2, <1>4, <1>7, <1>9
<1>13. InStep'
  BY <1>1, <1>5, <1>8, <1>10, <1>11, <1>12 DEF InStep
<1> QED
  BY <1>5, <1>13

\* Any other waits.
LEMMA OtherArrives ==
    ASSUME Types, InStep, cfg.pattern = "cross", NEW k \in Worker, Arrive(k),
           ~LastThrough(barrier, gen[k], cfg.nworks)
    PROVE  /\ InStep' /\ Now' = Now
           /\ gen[k] = Now /\ pc' = [pc EXCEPT ![k] = "spin"] /\ UNCHANGED loops
<1> DEFINE n == cfg.nworks
           a == Cardinality(Arrived)
<1>1. /\ cfg' = cfg /\ gen' = gen /\ barrier' = barrier + 1 /\ pc[k] = "arrive"
      /\ pc' = [pc EXCEPT ![k] = "spin"] /\ UNCHANGED loops
  BY DEF Arrive, Goto
<1>2. n \in Nat \ {0} /\ barrier \in Nat /\ pc \in [Worker -> Pc]
  BY Config DEF Types
<1>3. Now \in Nat
  BY <1>2, Generations DEF Now
<1>4. IsFiniteSet(Arrived)
  BY FS_Subset, Workers DEF Arrived, Types
<1>5. a \in Nat
  BY <1>4, FS_CardinalityType
<1>6. gen[k] = Now /\ Passed(k) = Now
  BY <1>1 DEF InStep
<1>7. barrier = n * Now + a
  BY DEF InStep
<1>8. a < n
  BY <1>2, <1>5, <1>7, Generations DEF Now
<1>9. a + 1 < n
  <2>1. barrier + 1 # (Now + 1) * n
    BY <1>6 DEF LastThrough
  <2>2. (Now + 1) * n = n * Now + n /\ n * Now \in Nat
    BY <1>2, <1>3, NextMultiple
  <2> QED
    BY <1>2, <1>5, <1>7, <1>8, <2>1, <2>2
<1>10. Now' = Now
  <2>1. barrier + 1 \in Nat /\ a + 1 \in Nat /\ barrier + 1 = n * Now + (a + 1)
    <3>1. n * Now \in Nat
      BY <1>2, <1>3
    <3> QED
      BY <1>2, <1>5, <1>7, <3>1
  <2>2. Generation(barrier + 1, n) = Now
    BY <1>2, <1>3, <1>9, <2>1, Generations
  <2> QED
    BY <1>1, <2>2 DEF Now
<1>11. Worker' = Worker
  BY <1>1 DEF Worker
<1>12. Arrived' = Arrived \cup {k}
  BY <1>1, <1>2, <1>6, <1>10, <1>11 DEF Arrived
<1>13. Cardinality(Arrived') = a + 1
  BY <1>1, <1>4, <1>12, FS_AddElement DEF Arrived
<1>14. barrier' = n * Now + (a + 1)
  <2>1. n * Now \in Nat
    BY <1>2, <1>3
  <2> QED
    BY <1>1, <1>2, <1>5, <1>7, <2>1
<1>15. \A m \in Worker : Passed(m)' = Passed(m)
  BY <1>1 DEF Passed, loops
<1>16. InStep'
  BY <1>1, <1>2, <1>6, <1>10, <1>11, <1>13, <1>14, <1>15 DEF InStep
<1> QED
  BY <1>1, <1>6, <1>10, <1>16

\* A worker that waits goes on once the generation has advanced.
LEMMA GoesOn ==
    ASSUME Types, InStep, cfg.pattern = "cross", NEW k \in Worker, Spin(k)
    PROVE  InStep' /\ Now' = Now /\ gen[k] # Now /\ Passed(k) + 1 = Now
<1>1. cfg' = cfg /\ gen' = gen /\ barrier' = barrier /\ Leave(k) /\ pc[k] = "spin" /\ gen[k] # Now
  BY DEF Spin, waits, Advanced, Now
<1>2. PICK w \in {"next", "alloc", "clock", "done"} : pc' = [pc EXCEPT ![k] = w]
  BY <1>1, Leaving
<1>3. /\ Passed(k)' = Passed(k) + 1
      /\ \A m \in Worker \ {k} : Passed(m)' = Passed(m)
  BY <1>1, Leaving
<1>4. Worker' = Worker /\ Now' = Now /\ pc \in [Worker -> Pc]
  BY <1>1 DEF Worker, Now, Types
<1>5. Passed(k) + 1 = Now
  BY <1>1 DEF InStep
<1>6. pc'[k] \notin {"arrive", "spin"} /\ \A m \in Worker \ {k} : pc'[m] = pc[m]
  BY <1>2, <1>4
<1>7. Arrived' = Arrived
  BY <1>1, <1>4, <1>6 DEF Arrived
<1>8. InStep'
  BY <1>1, <1>3, <1>4, <1>5, <1>6, <1>7 DEF InStep
<1> QED
  BY <1>1, <1>4, <1>5, <1>8

-----------------------------------------------------------------------------
(* Whose turn it is, and which places are empty.                             *)

\* At the barriers the workers are at most one half of a round apart.
LEMMA Apart ==
    ASSUME Types, InStep, cfg.pattern = "cross",
           NEW k \in Worker, NEW m \in Worker, pc[k] # "spin", half[k] = 1, half[m] = 2
    PROVE  pc[m] = "spin" /\ Passed(m) + 1 = Now
<1>1. round[k] \in Nat /\ round[m] \in Nat
  BY DEF Types
<1>2. Passed(k) = Now
  BY DEF InStep
<1>3. Passed(m) = Now \/ (pc[m] = "spin" /\ Passed(m) + 1 = Now)
  BY DEF InStep
<1> QED
  BY <1>1, <1>2, <1>3 DEF Passed

\* Where no worker is in the other's half, the phases are apart.
LEMMA Phases ==
    ASSUME Types, InStep, Halves, cfg.pattern = "cross",
           NEW k \in Worker, NEW m \in Worker, Taking(k), Giving(m)
    PROVE  FALSE
<1>1. half[k] = 1 /\ half[m] = 2
  BY DEF Types, Halves, HalvesOK
<1>2. pc[m] # "spin" /\ pc[k] # "spin"
  BY DEF Taking, Giving
<1> QED
  BY <1>1, <1>2, Apart

\* A worker nothing of which changes stays where it is in the order.
Untouched(m) ==
    /\ pc'[m] = pc[m] /\ round'[m] = round[m] /\ i'[m] = i[m] /\ half'[m] = half[m]
    /\ hand'[m] = hand[m] /\ gen'[m] = gen[m]

LEMMA Bystander ==
    ASSUME cfg' = cfg, Now' = Now, store' = store, NEW m \in Worker, Untouched(m),
           HalvesOK(m), VacantOK(m), PresentOK(m)
    PROVE  HalvesOK(m)' /\ VacantOK(m)' /\ PresentOK(m)'
<1> USE DEF Untouched
<1>1. Slots' = Slots /\ Victim(m)' = Victim(m)
  BY DEF Slots, Victim
<1>2. Pos(m)' = Pos(m)
  BY <1>1 DEF Pos
<1>3. /\ Taking(m)' = Taking(m) /\ Giving(m)' = Giving(m) /\ Waiting(m)' = Waiting(m)
      /\ CheckedAll(m)' = CheckedAll(m) /\ Passed(m)' = Passed(m) /\ Busy(m)' = Busy(m)
  BY DEF Taking, Giving, Waiting, CheckedAll, Passed, Busy
<1>4. HalvesOK(m)'
  BY <1>3 DEF HalvesOK
<1>5. VacantOK(m)'
  BY <1>1, <1>3 DEF VacantOK, Empty
<1>6. PresentOK(m)'
  BY <1>1, <1>2, <1>3 DEF PresentOK, Given
<1> QED
  BY <1>4, <1>5, <1>6

\* A worker changes nothing of another.
LEMMA OnlyOne ==
    ASSUME Types, NEW k \in Worker, Does(k), NEW m \in Worker, m # k
    PROVE  Untouched(m)
<1> USE DEF Untouched, Goto
<1>0. /\ pc \in [Worker -> Pc] /\ round \in [Worker -> Nat] /\ i \in [Worker -> Nat]
      /\ half \in [Worker -> {1, 2}] /\ hand \in [Worker -> Block \cup {Null}]
      /\ gen \in [Worker -> Nat]
  BY DEF Types
<1>1. Alloc(k) => Untouched(m)
  BY <1>0 DEF Alloc, loops, waits
<1>2. Store(k) => Untouched(m)
  BY <1>0 DEF Store, loops, waits
<1>3. NextGive(k) => Untouched(m)
  BY <1>0 DEF NextGive, EndRound, loops, waits
<1>4. Free(k) => Untouched(m)
  BY <1>0 DEF Free, loops, waits
<1>5. GiveDone(k) => Untouched(m)
  BY <1>0 DEF GiveDone, loops, waits
<1>6. Insert(k) => Untouched(m)
  BY <1>0 DEF Insert, loops, waits
<1>7. Fill(k) => Untouched(m)
  BY <1>0 DEF Fill, loops, waits
<1>8. Check(k) => Untouched(m)
  BY <1>0 DEF Check, loops, waits
<1>9. Erase(k) => Untouched(m)
  BY <1>0 DEF Erase, loops, waits
<1>10. Load(k) => Untouched(m)
  BY <1>0 DEF Load, loops, waits
<1>11. Arrive(k) => Untouched(m)
  BY <1>0 DEF Arrive, Leave, EndRound, loops, waits
<1>12. Spin(k) => Untouched(m)
  BY <1>0 DEF Spin, Leave, EndRound, loops, waits
<1>13. Clock(k) => Untouched(m)
  BY <1>0 DEF Clock, loops, waits
<1>14. AddTime(k) => Untouched(m)
  BY <1>0 DEF AddTime, loops, waits
<1> QED
  BY <1>1, <1>2, <1>3, <1>4, <1>5, <1>6, <1>7, <1>8, <1>9, <1>10, <1>11, <1>12, <1>13, <1>14 DEF Does

\* One worker's place in the order after each of its steps.
LEMMA OrderAlloc ==
    ASSUME Types, Hands, InStep, Order, NEW k \in Worker, Alloc(k)
    PROVE  HalvesOK(k)' /\ VacantOK(k)' /\ PresentOK(k)'
<1>t. /\ pc \in [Worker -> Pc] /\ round \in [Worker -> Nat] /\ i \in [Worker -> Nat]
      /\ half \in [Worker -> {1, 2}] /\ hand \in [Worker -> Block \cup {Null}]
      /\ gen \in [Worker -> Nat] /\ Victim(k) \in Worker
      /\ Pos(k) \in Slots /\ (i[k] \in Slots => Pos(k) = i[k])
  BY GivenType, Neighbour DEF Types
<1>c. /\ cfg.pattern \in {"bulk", "interleaved", "cross"}
      /\ cfg.program \in {"check", "bench", "boundary"}
      /\ cfg.program = "boundary" => cfg.nworks = 1 /\ cfg.rounds = 1 /\ cfg.pattern = "bulk"
      /\ cfg.pattern # "cross" => Victim(k) = k
      /\ cfg.ntimes \in Nat \ {0} /\ cfg.window \in Nat \ {0}
  BY Config, Neighbour DEF Types
<1>o. HalvesOK(k) /\ VacantOK(k) /\ PresentOK(k) /\ HandsOK(k)
  BY DEF Order, Halves, Vacant, Present, Hands
<1>s. /\ cfg' = cfg /\ Worker' = Worker /\ Slots' = Slots /\ Victim(k)' = Victim(k)
      /\ i'[k] = i[k] => Pos(k)' = Pos(k)
  BY DEF Alloc, Worker, Slots, Victim, Pos
<1>1. pc[k] = "alloc"
  BY DEF Alloc
<1>2. UNCHANGED <<round, i, half, store, gen, barrier>>
  BY DEF Alloc, loops, waits
<1>3. Taken(k) = "store" \/ (cfg.pattern = "interleaved" /\ Taken(k) = FirstGive(k))
  BY <1>t, <1>c, <1>o, <1>1 DEF Taken, VacantOK, Taking, Slots
<1>4. Taken(k) = "store" => store[k][Pos(k)] = Null
  BY DEF Taken, FirstGive
<1>5. FirstGive(k) \in {"check", "free"} /\ (FirstGive(k) = "check" => cfg.program # "bench")
      /\ (cfg.program = "boundary" /\ half[k] = 2 => FirstGive(k) = "free")
      /\ (cfg.program = "boundary" /\ half[k] = 1 => FirstGive(k) = "check")
  BY DEF FirstGive
<1>6. Taken(k) # "store" => Given(k) # Null
  BY <1>c, <1>3 DEF Taken, Given
<1>7. pc'[k] = IF cfg.program = "bench" THEN Taken(k) ELSE "insert"
  BY <1>t DEF Alloc, Goto
<1>8. hand'[k] # Null
  BY <1>t, AllocBlock
<1>h. HalvesOK(k)'
  BY <1>t, <1>c, <1>o, <1>s, <1>1, <1>2, <1>3, <1>5, <1>7 DEF HalvesOK, Taking, Giving
<1>v. VacantOK(k)'
  BY <1>t, <1>c, <1>o, <1>s, <1>1, <1>2, <1>3, <1>5, <1>7, <1>8 DEF VacantOK, Taking, Giving, Waiting, CheckedAll, Empty, Passed, Slots, Now
<1>p. PresentOK(k)'
  BY <1>t, <1>c, <1>o, <1>s, <1>1, <1>2, <1>3, <1>4, <1>5, <1>6, <1>7, <1>8 DEF PresentOK, Given, Busy
<1> QED
  BY <1>h, <1>v, <1>p

LEMMA OrderInsert ==
    ASSUME Types, Hands, InStep, Order, NEW k \in Worker, Insert(k), cfg.program # "bench"
    PROVE  HalvesOK(k)' /\ VacantOK(k)' /\ PresentOK(k)'
<1>t. /\ pc \in [Worker -> Pc] /\ round \in [Worker -> Nat] /\ i \in [Worker -> Nat]
      /\ half \in [Worker -> {1, 2}] /\ hand \in [Worker -> Block \cup {Null}]
      /\ gen \in [Worker -> Nat] /\ Victim(k) \in Worker
      /\ Pos(k) \in Slots /\ (i[k] \in Slots => Pos(k) = i[k])
  BY GivenType, Neighbour DEF Types
<1>c. /\ cfg.pattern \in {"bulk", "interleaved", "cross"}
      /\ cfg.program \in {"check", "bench", "boundary"}
      /\ cfg.program = "boundary" => cfg.nworks = 1 /\ cfg.rounds = 1 /\ cfg.pattern = "bulk"
      /\ cfg.pattern # "cross" => Victim(k) = k
      /\ cfg.ntimes \in Nat \ {0} /\ cfg.window \in Nat \ {0}
  BY Config, Neighbour DEF Types
<1>o. HalvesOK(k) /\ VacantOK(k) /\ PresentOK(k) /\ HandsOK(k)
  BY DEF Order, Halves, Vacant, Present, Hands
<1>s. /\ cfg' = cfg /\ Worker' = Worker /\ Slots' = Slots /\ Victim(k)' = Victim(k)
      /\ i'[k] = i[k] => Pos(k)' = Pos(k)
  BY DEF Insert, Worker, Slots, Victim, Pos
<1>1. pc[k] = "insert"
  BY DEF Insert
<1>2. UNCHANGED <<round, i, half, hand, store, gen, barrier>>
  BY DEF Insert, loops, waits
<1>7. pc'[k] = "fill"
  BY <1>t DEF Insert, Goto
<1>h. HalvesOK(k)'
  BY <1>t, <1>c, <1>o, <1>s, <1>1, <1>2, <1>7 DEF HalvesOK, Taking, Giving
<1>v. VacantOK(k)'
  BY <1>t, <1>c, <1>o, <1>s, <1>1, <1>2, <1>7 DEF VacantOK, Taking, Giving, Waiting, CheckedAll, Empty, Passed, Slots, Now
<1>p. PresentOK(k)'
  BY <1>t, <1>c, <1>o, <1>s, <1>1, <1>2, <1>7 DEF PresentOK, Given, Busy
<1> QED
  BY <1>h, <1>v, <1>p

LEMMA OrderFill ==
    ASSUME Types, Hands, InStep, Order, NEW k \in Worker, Fill(k), cfg.program # "bench"
    PROVE  HalvesOK(k)' /\ VacantOK(k)' /\ PresentOK(k)'
<1>t. /\ pc \in [Worker -> Pc] /\ round \in [Worker -> Nat] /\ i \in [Worker -> Nat]
      /\ half \in [Worker -> {1, 2}] /\ hand \in [Worker -> Block \cup {Null}]
      /\ gen \in [Worker -> Nat] /\ Victim(k) \in Worker
      /\ Pos(k) \in Slots /\ (i[k] \in Slots => Pos(k) = i[k])
  BY GivenType, Neighbour DEF Types
<1>c. /\ cfg.pattern \in {"bulk", "interleaved", "cross"}
      /\ cfg.program \in {"check", "bench", "boundary"}
      /\ cfg.program = "boundary" => cfg.nworks = 1 /\ cfg.rounds = 1 /\ cfg.pattern = "bulk"
      /\ cfg.pattern # "cross" => Victim(k) = k
      /\ cfg.ntimes \in Nat \ {0} /\ cfg.window \in Nat \ {0}
  BY Config, Neighbour DEF Types
<1>o. HalvesOK(k) /\ VacantOK(k) /\ PresentOK(k) /\ HandsOK(k)
  BY DEF Order, Halves, Vacant, Present, Hands
<1>s. /\ cfg' = cfg /\ Worker' = Worker /\ Slots' = Slots /\ Victim(k)' = Victim(k)
      /\ i'[k] = i[k] => Pos(k)' = Pos(k)
  BY DEF Fill, Worker, Slots, Victim, Pos
<1>1. pc[k] = "fill"
  BY DEF Fill
<1>2. UNCHANGED <<round, i, half, hand, store, gen, barrier>>
  BY DEF Fill, loops, waits
<1>3. Taken(k) = "store" \/ (cfg.pattern = "interleaved" /\ Taken(k) = FirstGive(k))
  BY <1>t, <1>c, <1>o, <1>1 DEF Taken, VacantOK, Taking, Slots
<1>4. Taken(k) = "store" => store[k][Pos(k)] = Null
  BY DEF Taken, FirstGive
<1>5. FirstGive(k) \in {"check", "free"} /\ (FirstGive(k) = "check" => cfg.program # "bench")
      /\ (cfg.program = "boundary" /\ half[k] = 2 => FirstGive(k) = "free")
      /\ (cfg.program = "boundary" /\ half[k] = 1 => FirstGive(k) = "check")
  BY DEF FirstGive
<1>6. Taken(k) # "store" => Given(k) # Null
  BY <1>c, <1>3 DEF Taken, Given
<1>7. pc'[k] = Taken(k)
  BY <1>t DEF Fill, Goto
<1>8. hand[k] # Null
  BY <1>1, <1>o DEF HandsOK
<1>h. HalvesOK(k)'
  BY <1>t, <1>c, <1>o, <1>s, <1>1, <1>2, <1>3, <1>5, <1>7 DEF HalvesOK, Taking, Giving
<1>v. VacantOK(k)'
  BY <1>t, <1>c, <1>o, <1>s, <1>1, <1>2, <1>3, <1>5, <1>7, <1>8 DEF VacantOK, Taking, Giving, Waiting, CheckedAll, Empty, Passed, Slots, Now
<1>p. PresentOK(k)'
  BY <1>t, <1>c, <1>o, <1>s, <1>1, <1>2, <1>3, <1>4, <1>5, <1>6, <1>7, <1>8 DEF PresentOK, Given, Busy
<1> QED
  BY <1>h, <1>v, <1>p

LEMMA OrderStore ==
    ASSUME Types, Hands, InStep, Order, NEW k \in Worker, Store(k)
    PROVE  HalvesOK(k)' /\ VacantOK(k)' /\ PresentOK(k)'
<1>t. /\ pc \in [Worker -> Pc] /\ round \in [Worker -> Nat] /\ i \in [Worker -> Nat]
      /\ half \in [Worker -> {1, 2}] /\ hand \in [Worker -> Block \cup {Null}]
      /\ gen \in [Worker -> Nat] /\ Victim(k) \in Worker
      /\ Pos(k) \in Slots /\ (i[k] \in Slots => Pos(k) = i[k])
  BY GivenType, Neighbour DEF Types
<1>c. /\ cfg.pattern \in {"bulk", "interleaved", "cross"}
      /\ cfg.program \in {"check", "bench", "boundary"}
      /\ cfg.program = "boundary" => cfg.nworks = 1 /\ cfg.rounds = 1 /\ cfg.pattern = "bulk"
      /\ cfg.pattern # "cross" => Victim(k) = k
      /\ cfg.ntimes \in Nat \ {0} /\ cfg.window \in Nat \ {0}
  BY Config, Neighbour DEF Types
<1>o. HalvesOK(k) /\ VacantOK(k) /\ PresentOK(k) /\ HandsOK(k)
  BY DEF Order, Halves, Vacant, Present, Hands
<1>s. /\ cfg' = cfg /\ Worker' = Worker /\ Slots' = Slots /\ Victim(k)' = Victim(k)
      /\ i'[k] = i[k] => Pos(k)' = Pos(k)
  BY DEF Store, Worker, Slots, Victim, Pos
<1>1. pc[k] = "store"
  BY DEF Store
<1>2. UNCHANGED <<round, half, gen, barrier>>
  BY DEF Store, loops, waits
<1>3. AfterTaking = IF cfg.pattern = "cross" THEN "load" ELSE "next"
  BY DEF AfterTaking
<1>4. hand'[k] = Null
  BY <1>t DEF Store
<1>5. IF i[k] + 1 < cfg.ntimes THEN i'[k] = i[k] + 1 /\ pc'[k] = "alloc"
                              ELSE i'[k] = 0 /\ pc'[k] = AfterTaking
  BY <1>t DEF Store, Goto
<1>6. store \in [Worker -> [Slots -> Block \cup {Null}]]
  BY DEF Types
<1>7. \A x \in Slots \ {Pos(k)} : store'[k][x] = store[k][x]
  BY <1>t, <1>6 DEF Store
<1>h. HalvesOK(k)'
  BY <1>t, <1>c, <1>o, <1>s, <1>1, <1>2, <1>3, <1>4, <1>5 DEF HalvesOK, Taking, Giving
<1>n. Slots \subseteq Nat
  BY DEF Slots
<1>v. VacantOK(k)'
  <2>1. pc'[k] = "alloc" /\ cfg.pattern # "interleaved" =>
           i'[k] \in Slots /\ \A x \in Slots : x >= i'[k] => store'[k][x] = Null
    <3> SUFFICES ASSUME pc'[k] = "alloc", cfg.pattern # "interleaved"
                 PROVE  i'[k] \in Slots /\ \A x \in Slots : x >= i'[k] => store'[k][x] = Null
      OBVIOUS
    <3>1. i'[k] = i[k] + 1 /\ i[k] + 1 < cfg.ntimes
      BY <1>5, <1>c, <1>3
    <3>2. i[k] \in Slots /\ \A x \in Slots : x >= i[k] => store[k][x] = Null
      BY <1>o, <1>1 DEF VacantOK, Taking
    <3>3. i'[k] \in Slots
      BY <3>1, <3>2, <1>t, <1>c DEF Slots
    <3>4. ASSUME NEW x \in Slots, x >= i'[k]
          PROVE  store'[k][x] = Null
      <4>1. x # Pos(k) /\ x >= i[k]
        BY <3>1, <3>2, <3>4, <1>t, <1>n
      <4> QED
        BY <3>2, <4>1, <1>7
    <3> QED
      BY <3>3, <3>4
  <2>2. pc'[k] = "next" => \A x \in Slots : ~(x < i'[k])
    BY <1>5, <1>3, <1>c, <1>n
  <2>3. pc'[k] = "load" => half'[k] = 1
    BY <1>5, <1>3, <1>c, <1>o, <1>1, <1>2, <1>t DEF HalvesOK, Taking
  <2>4. pc'[k] \in {"alloc", "next", "load"}
    BY <1>5, <1>3, <1>c
  <2> QED
    BY <1>s, <2>1, <2>2, <2>3, <2>4 DEF VacantOK, Taking, Giving, Waiting, CheckedAll
<1>p. PresentOK(k)'
  BY <1>t, <1>c, <1>o, <1>s, <1>1, <1>3, <1>4, <1>5 DEF PresentOK, Given, Busy
<1> QED
  BY <1>h, <1>v, <1>p

LEMMA OrderNextGive ==
    ASSUME Types, Hands, InStep, Order, NEW k \in Worker, NextGive(k)
    PROVE  HalvesOK(k)' /\ VacantOK(k)' /\ PresentOK(k)'
<1>t. /\ pc \in [Worker -> Pc] /\ round \in [Worker -> Nat] /\ i \in [Worker -> Nat]
      /\ half \in [Worker -> {1, 2}] /\ hand \in [Worker -> Block \cup {Null}]
      /\ gen \in [Worker -> Nat] /\ Victim(k) \in Worker
      /\ Pos(k) \in Slots /\ (i[k] \in Slots => Pos(k) = i[k])
  BY GivenType, Neighbour DEF Types
<1>c. /\ cfg.pattern \in {"bulk", "interleaved", "cross"}
      /\ cfg.program \in {"check", "bench", "boundary"}
      /\ cfg.program = "boundary" => cfg.nworks = 1 /\ cfg.rounds = 1 /\ cfg.pattern = "bulk"
      /\ cfg.pattern # "cross" => Victim(k) = k
      /\ cfg.ntimes \in Nat \ {0} /\ cfg.window \in Nat \ {0}
  BY Config, Neighbour DEF Types
<1>o. HalvesOK(k) /\ VacantOK(k) /\ PresentOK(k) /\ HandsOK(k)
  BY DEF Order, Halves, Vacant, Present, Hands
<1>s. /\ cfg' = cfg /\ Worker' = Worker /\ Slots' = Slots /\ Victim(k)' = Victim(k)
      /\ i'[k] = i[k] => Pos(k)' = Pos(k)
  BY DEF NextGive, Worker, Slots, Victim, Pos
<1>1. pc[k] = "next"
  BY DEF NextGive
<1>2. UNCHANGED <<hand, store, gen, barrier>>
  BY DEF NextGive, loops, waits
<1>3. FirstGive(k) \in {"check", "free"} /\ (FirstGive(k) = "check" => cfg.program # "bench")
      /\ (cfg.program = "boundary" /\ half[k] = 2 => FirstGive(k) = "free")
      /\ (cfg.program = "boundary" /\ half[k] = 1 => FirstGive(k) = "check")
  BY DEF FirstGive
<1>4. hand[k] = Null
  BY <1>1, <1>o DEF HandsOK
<1>5. \/ /\ i[k] \in Slots /\ Given(k) = Null /\ i'[k] = i[k] + 1 /\ pc'[k] = "next"
         /\ half'[k] = half[k] /\ round'[k] = round[k]
      \/ /\ i[k] \in Slots /\ Given(k) # Null /\ i'[k] = i[k] /\ pc'[k] = FirstGive(k)
         /\ half'[k] = half[k] /\ round'[k] = round[k]
      \/ /\ i[k] \notin Slots /\ cfg.pattern = "cross" /\ pc'[k] = "load"
         /\ i'[k] = i[k] /\ half'[k] = half[k] /\ round'[k] = round[k]
      \/ /\ i[k] \notin Slots /\ CheckedAll(k) /\ pc'[k] = "next" /\ i'[k] = 0 /\ half'[k] = 2
         /\ round'[k] = round[k]
      \/ /\ i[k] \notin Slots /\ cfg.pattern # "cross" /\ ~CheckedAll(k) /\ i'[k] = 0 /\ half'[k] = 1
         /\ round'[k] = round[k] + 1
         /\ pc'[k] = IF round[k] + 1 < cfg.rounds THEN "alloc"
                     ELSE IF cfg.program = "bench" THEN "clock" ELSE "done"
  BY <1>t, <1>1 DEF NextGive, EndRound, SecondBarrier, Goto, loops
<1>h. HalvesOK(k)'
  BY <1>t, <1>c, <1>o, <1>s, <1>1, <1>2, <1>3, <1>4, <1>5 DEF HalvesOK, Taking, Giving, CheckedAll
<1>n. Slots \subseteq Nat /\ 0 \in Slots /\ \A j \in Nat \ Slots : \A x \in Slots : x < j
  BY <1>c DEF Slots
<1>e. ~CheckedAll(k) => \A x \in Slots : x < i[k] => store[Victim(k)][x] = Null
  BY <1>1, <1>4, <1>o DEF VacantOK, Giving
<1>f. i[k] \notin Slots /\ ~CheckedAll(k) => Empty(Victim(k))
  BY <1>t, <1>e, <1>n DEF Empty
<1>v. VacantOK(k)'
  <2>1. CASE i[k] \in Slots /\ Given(k) = Null /\ i'[k] = i[k] + 1 /\ pc'[k] = "next"
             /\ half'[k] = half[k] /\ round'[k] = round[k]
    <3>1. store[Victim(k)][i[k]] = Null
      BY <2>1, <1>t DEF Given
    <3>2. \A x \in Slots : x < i[k] + 1 => x < i[k] \/ x = i[k]
      BY <1>t, <1>n
    <3>3. CheckedAll(k)' = CheckedAll(k)
      BY <1>s, <2>1 DEF CheckedAll
    <3> QED
      BY <1>s, <1>2, <1>4, <1>e, <2>1, <3>1, <3>2, <3>3 DEF VacantOK, Taking, Giving, Waiting
  <2>2. CASE i[k] \in Slots /\ Given(k) # Null /\ i'[k] = i[k] /\ pc'[k] = FirstGive(k)
             /\ half'[k] = half[k] /\ round'[k] = round[k]
    <3>3. CheckedAll(k)' = CheckedAll(k)
      BY <1>s, <2>2 DEF CheckedAll
    <3> QED
      BY <1>s, <1>2, <1>3, <1>4, <1>e, <2>2, <3>3 DEF VacantOK, Taking, Giving, Waiting
  <2>3. CASE i[k] \notin Slots /\ cfg.pattern = "cross" /\ pc'[k] = "load"
    <3>1. Empty(Victim(k))
      BY <1>c, <1>f, <2>3 DEF CheckedAll
    <3> QED
      BY <1>s, <1>2, <2>3, <3>1 DEF VacantOK, Taking, Giving, Waiting, Empty
  <2>4. CASE i[k] \notin Slots /\ CheckedAll(k) /\ pc'[k] = "next" /\ i'[k] = 0 /\ half'[k] = 2
    BY <1>s, <1>n, <2>4 DEF VacantOK, Taking, Giving, Waiting
  <2>5. CASE /\ i[k] \notin Slots /\ cfg.pattern # "cross" /\ ~CheckedAll(k) /\ i'[k] = 0
             /\ pc'[k] = IF round[k] + 1 < cfg.rounds THEN "alloc"
                         ELSE IF cfg.program = "bench" THEN "clock" ELSE "done"
    <3>1. Empty(k) /\ pc'[k] \in {"alloc", "clock", "done"}
      BY <1>c, <1>f, <2>5
    <3> QED
      BY <1>s, <1>2, <1>n, <2>5, <3>1 DEF VacantOK, Taking, Giving, Waiting, Empty
  <2> QED
    BY <1>5, <2>1, <2>2, <2>3, <2>4, <2>5
<1>p. PresentOK(k)'
  BY <1>t, <1>c, <1>o, <1>s, <1>1, <1>2, <1>3, <1>4, <1>5 DEF PresentOK, Given, Busy, Pos
<1> QED
  BY <1>h, <1>v, <1>p

LEMMA OrderCheck ==
    ASSUME Types, Hands, InStep, Order, NEW k \in Worker, Check(k), cfg.program # "bench"
    PROVE  HalvesOK(k)' /\ VacantOK(k)' /\ PresentOK(k)'
<1>t. /\ pc \in [Worker -> Pc] /\ round \in [Worker -> Nat] /\ i \in [Worker -> Nat]
      /\ half \in [Worker -> {1, 2}] /\ hand \in [Worker -> Block \cup {Null}]
      /\ gen \in [Worker -> Nat] /\ Victim(k) \in Worker
      /\ Pos(k) \in Slots /\ (i[k] \in Slots => Pos(k) = i[k])
  BY GivenType, Neighbour DEF Types
<1>c. /\ cfg.pattern \in {"bulk", "interleaved", "cross"}
      /\ cfg.program \in {"check", "bench", "boundary"}
      /\ cfg.program = "boundary" => cfg.nworks = 1 /\ cfg.rounds = 1 /\ cfg.pattern = "bulk"
      /\ cfg.pattern # "cross" => Victim(k) = k
      /\ cfg.ntimes \in Nat \ {0} /\ cfg.window \in Nat \ {0}
  BY Config, Neighbour DEF Types
<1>o. HalvesOK(k) /\ VacantOK(k) /\ PresentOK(k) /\ HandsOK(k)
  BY DEF Order, Halves, Vacant, Present, Hands
<1>s. /\ cfg' = cfg /\ Worker' = Worker /\ Slots' = Slots /\ Victim(k)' = Victim(k)
      /\ i'[k] = i[k] => Pos(k)' = Pos(k)
  BY DEF Check, Worker, Slots, Victim, Pos
<1>1. pc[k] = "check"
  BY DEF Check
<1>2. UNCHANGED <<round, i, half, hand, store, gen, barrier>>
  BY DEF Check, loops, waits
<1>7. pc'[k] = IF CheckedAll(k) THEN "given" ELSE "erase"
  BY <1>t DEF Check, Goto, Afterwards
<1>h. HalvesOK(k)'
  BY <1>t, <1>c, <1>o, <1>s, <1>1, <1>2, <1>7 DEF HalvesOK, Taking, Giving, CheckedAll
<1>v. VacantOK(k)'
  BY <1>t, <1>c, <1>o, <1>s, <1>1, <1>2, <1>7 DEF VacantOK, Taking, Giving, Waiting, CheckedAll, Empty, Passed, Slots, Now
<1>p. PresentOK(k)'
  BY <1>t, <1>c, <1>o, <1>s, <1>1, <1>2, <1>7 DEF PresentOK, Given, Busy
<1> QED
  BY <1>h, <1>v, <1>p

LEMMA OrderErase ==
    ASSUME Types, Hands, InStep, Order, NEW k \in Worker, Erase(k), cfg.program = "check"
    PROVE  HalvesOK(k)' /\ VacantOK(k)' /\ PresentOK(k)'
<1>t. /\ pc \in [Worker -> Pc] /\ round \in [Worker -> Nat] /\ i \in [Worker -> Nat]
      /\ half \in [Worker -> {1, 2}] /\ hand \in [Worker -> Block \cup {Null}]
      /\ gen \in [Worker -> Nat] /\ Victim(k) \in Worker
      /\ Pos(k) \in Slots /\ (i[k] \in Slots => Pos(k) = i[k])
  BY GivenType, Neighbour DEF Types
<1>c. /\ cfg.pattern \in {"bulk", "interleaved", "cross"}
      /\ cfg.program \in {"check", "bench", "boundary"}
      /\ cfg.program = "boundary" => cfg.nworks = 1 /\ cfg.rounds = 1 /\ cfg.pattern = "bulk"
      /\ cfg.pattern # "cross" => Victim(k) = k
      /\ cfg.ntimes \in Nat \ {0} /\ cfg.window \in Nat \ {0}
  BY Config, Neighbour DEF Types
<1>o. HalvesOK(k) /\ VacantOK(k) /\ PresentOK(k) /\ HandsOK(k)
  BY DEF Order, Halves, Vacant, Present, Hands
<1>s. /\ cfg' = cfg /\ Worker' = Worker /\ Slots' = Slots /\ Victim(k)' = Victim(k)
      /\ i'[k] = i[k] => Pos(k)' = Pos(k)
  BY DEF Erase, Worker, Slots, Victim, Pos
<1>1. pc[k] = "erase"
  BY DEF Erase
<1>2. UNCHANGED <<round, i, half, hand, store, gen, barrier>>
  BY DEF Erase, loops, waits
<1>7. pc'[k] = "free"
  BY <1>t DEF Erase, Goto, Afterwards
<1>h. HalvesOK(k)'
  BY <1>t, <1>c, <1>o, <1>s, <1>1, <1>2, <1>7 DEF HalvesOK, Taking, Giving
<1>v. VacantOK(k)'
  BY <1>t, <1>c, <1>o, <1>s, <1>1, <1>2, <1>7 DEF VacantOK, Taking, Giving, Waiting, CheckedAll, Empty, Passed, Slots, Now
<1>p. PresentOK(k)'
  BY <1>t, <1>c, <1>o, <1>s, <1>1, <1>2, <1>7 DEF PresentOK, Given, Busy
<1> QED
  BY <1>h, <1>v, <1>p

LEMMA OrderFree ==
    ASSUME Types, Hands, InStep, Order, NEW k \in Worker, Free(k)
    PROVE  HalvesOK(k)' /\ VacantOK(k)' /\ PresentOK(k)'
<1>t. /\ pc \in [Worker -> Pc] /\ round \in [Worker -> Nat] /\ i \in [Worker -> Nat]
      /\ half \in [Worker -> {1, 2}] /\ hand \in [Worker -> Block \cup {Null}]
      /\ gen \in [Worker -> Nat] /\ Victim(k) \in Worker
      /\ Pos(k) \in Slots /\ (i[k] \in Slots => Pos(k) = i[k])
  BY GivenType, Neighbour DEF Types
<1>c. /\ cfg.pattern \in {"bulk", "interleaved", "cross"}
      /\ cfg.program \in {"check", "bench", "boundary"}
      /\ cfg.program = "boundary" => cfg.nworks = 1 /\ cfg.rounds = 1 /\ cfg.pattern = "bulk"
      /\ cfg.pattern # "cross" => Victim(k) = k
      /\ cfg.ntimes \in Nat \ {0} /\ cfg.window \in Nat \ {0}
  BY Config, Neighbour DEF Types
<1>o. HalvesOK(k) /\ VacantOK(k) /\ PresentOK(k) /\ HandsOK(k)
  BY DEF Order, Halves, Vacant, Present, Hands
<1>s. /\ cfg' = cfg /\ Worker' = Worker /\ Slots' = Slots /\ Victim(k)' = Victim(k)
      /\ i'[k] = i[k] => Pos(k)' = Pos(k)
  BY DEF Free, Worker, Slots, Victim, Pos
<1>1. pc[k] = "free"
  BY DEF Free
<1>2. UNCHANGED <<round, i, half, hand, store, gen, barrier>>
  BY DEF Free, loops, waits
<1>7. pc'[k] = "given"
  BY <1>t DEF Free, Goto, Afterwards
<1>h. HalvesOK(k)'
  BY <1>t, <1>c, <1>o, <1>s, <1>1, <1>2, <1>7 DEF HalvesOK, Taking, Giving
<1>v. VacantOK(k)'
  BY <1>t, <1>c, <1>o, <1>s, <1>1, <1>2, <1>7 DEF VacantOK, Taking, Giving, Waiting, CheckedAll, Empty, Passed, Slots, Now
<1>p. PresentOK(k)'
  BY <1>t, <1>c, <1>o, <1>s, <1>1, <1>2, <1>7 DEF PresentOK, Given, Busy
<1> QED
  BY <1>h, <1>v, <1>p

LEMMA OrderGiveDone ==
    ASSUME Types, Hands, InStep, Order, NEW k \in Worker, GiveDone(k)
    PROVE  HalvesOK(k)' /\ VacantOK(k)' /\ PresentOK(k)'
<1>t. /\ pc \in [Worker -> Pc] /\ round \in [Worker -> Nat] /\ i \in [Worker -> Nat]
      /\ half \in [Worker -> {1, 2}] /\ hand \in [Worker -> Block \cup {Null}]
      /\ gen \in [Worker -> Nat] /\ Victim(k) \in Worker
      /\ Pos(k) \in Slots /\ (i[k] \in Slots => Pos(k) = i[k])
  BY GivenType, Neighbour DEF Types
<1>c. /\ cfg.pattern \in {"bulk", "interleaved", "cross"}
      /\ cfg.program \in {"check", "bench", "boundary"}
      /\ cfg.program = "boundary" => cfg.nworks = 1 /\ cfg.rounds = 1 /\ cfg.pattern = "bulk"
      /\ cfg.pattern # "cross" => Victim(k) = k
      /\ cfg.ntimes \in Nat \ {0} /\ cfg.window \in Nat \ {0}
  BY Config, Neighbour DEF Types
<1>o. HalvesOK(k) /\ VacantOK(k) /\ PresentOK(k) /\ HandsOK(k)
  BY DEF Order, Halves, Vacant, Present, Hands
<1>s. /\ cfg' = cfg /\ Worker' = Worker /\ Slots' = Slots /\ Victim(k)' = Victim(k)
      /\ i'[k] = i[k] => Pos(k)' = Pos(k)
  BY DEF GiveDone, Worker, Slots, Victim, Pos
<1>1. pc[k] = "given"
  BY DEF GiveDone
<1>2. UNCHANGED <<round, half, hand, gen, barrier>>
  BY DEF GiveDone, loops, waits
<1>3. IF hand[k] # Null THEN pc'[k] = "store" /\ i'[k] = i[k]
                        ELSE pc'[k] = "next" /\ i'[k] = i[k] + 1
  BY <1>t DEF GiveDone, Goto
<1>4. store \in [Worker -> [Slots -> Block \cup {Null}]]
  BY DEF Types
<1>5. ~CheckedAll(k) => /\ store'[Victim(k)][Pos(k)] = Null
                        /\ \A x \in Slots : x # Pos(k) => store'[Victim(k)][x] = store[Victim(k)][x]
  BY <1>t, <1>4 DEF GiveDone
<1>6. hand[k] = Null => i[k] \in Slots
  BY <1>1, <1>o DEF PresentOK, Busy
<1>h. HalvesOK(k)'
  BY <1>t, <1>c, <1>o, <1>s, <1>1, <1>2, <1>3 DEF HalvesOK, Taking, Giving
<1>n. Slots \subseteq Nat
  BY DEF Slots
<1>7. pc'[k] = "store" => i'[k] = i[k] /\ cfg.pattern = "interleaved"
  BY <1>1, <1>3, <1>o DEF HalvesOK, Giving
<1>8. pc'[k] = "next" => hand[k] = Null /\ i'[k] = i[k] + 1 /\ Pos(k) = i[k]
  BY <1>3, <1>6, <1>t
<1>9. pc'[k] \in {"store", "next"}
  BY <1>3
<1>v. VacantOK(k)'
  <2>1. pc'[k] = "next" /\ ~CheckedAll(k) =>
           \A x \in Slots : x < i'[k] => store'[Victim(k)][x] = Null
    <3> SUFFICES ASSUME pc'[k] = "next", ~CheckedAll(k), NEW x \in Slots, x < i'[k]
                 PROVE  store'[Victim(k)][x] = Null
      OBVIOUS
    <3>1. x < i[k] => store[Victim(k)][x] = Null
      BY <1>1, <1>8, <1>o DEF VacantOK, Giving
    <3>2. x < i[k] \/ x = Pos(k)
      BY <1>8, <1>t, <1>n
    <3> QED
      BY <1>5, <3>1, <3>2
  <2>2. CheckedAll(k)' = CheckedAll(k)
    BY <1>2, <1>s DEF CheckedAll
  <2> QED
    BY <1>7, <1>9, <1>s, <2>1, <2>2 DEF VacantOK, Taking, Giving, Waiting
<1>p. PresentOK(k)'
  BY <1>t, <1>c, <1>o, <1>s, <1>1, <1>2, <1>3, <1>5 DEF PresentOK, Given, Busy, CheckedAll, HalvesOK, Giving
<1> QED
  BY <1>h, <1>v, <1>p

LEMMA OrderLoad ==
    ASSUME Types, Hands, InStep, Order, NEW k \in Worker, Load(k)
    PROVE  HalvesOK(k)' /\ VacantOK(k)' /\ PresentOK(k)'
<1>t. /\ pc \in [Worker -> Pc] /\ round \in [Worker -> Nat] /\ i \in [Worker -> Nat]
      /\ half \in [Worker -> {1, 2}] /\ hand \in [Worker -> Block \cup {Null}]
      /\ gen \in [Worker -> Nat] /\ Victim(k) \in Worker
      /\ Pos(k) \in Slots /\ (i[k] \in Slots => Pos(k) = i[k])
  BY GivenType, Neighbour DEF Types
<1>c. /\ cfg.pattern \in {"bulk", "interleaved", "cross"}
      /\ cfg.program \in {"check", "bench", "boundary"}
      /\ cfg.program = "boundary" => cfg.nworks = 1 /\ cfg.rounds = 1 /\ cfg.pattern = "bulk"
      /\ cfg.pattern # "cross" => Victim(k) = k
      /\ cfg.ntimes \in Nat \ {0} /\ cfg.window \in Nat \ {0}
  BY Config, Neighbour DEF Types
<1>o. HalvesOK(k) /\ VacantOK(k) /\ PresentOK(k) /\ HandsOK(k)
  BY DEF Order, Halves, Vacant, Present, Hands
<1>s. /\ cfg' = cfg /\ Worker' = Worker /\ Slots' = Slots /\ Victim(k)' = Victim(k)
      /\ i'[k] = i[k] => Pos(k)' = Pos(k)
  BY DEF Load, Worker, Slots, Victim, Pos
<1>1. pc[k] = "load"
  BY DEF Load
<1>2. UNCHANGED <<round, i, half, hand, store, barrier>>
  BY DEF Load, loops, waits
<1>7. pc'[k] = "arrive"
  BY <1>t DEF Load, Goto
<1>h. HalvesOK(k)'
  BY <1>t, <1>c, <1>o, <1>s, <1>1, <1>2, <1>7 DEF HalvesOK, Taking, Giving
<1>v. VacantOK(k)'
  BY <1>t, <1>c, <1>o, <1>s, <1>1, <1>2, <1>7 DEF VacantOK, Taking, Giving, Waiting, CheckedAll, Empty, Passed, Slots, Now
<1>p. PresentOK(k)'
  BY <1>t, <1>c, <1>o, <1>s, <1>1, <1>2, <1>7 DEF PresentOK, Given, Busy
<1> QED
  BY <1>h, <1>v, <1>p

LEMMA OrderClock ==
    ASSUME Types, Hands, InStep, Order, NEW k \in Worker, Clock(k), cfg.program = "bench"
    PROVE  HalvesOK(k)' /\ VacantOK(k)' /\ PresentOK(k)'
<1>t. /\ pc \in [Worker -> Pc] /\ round \in [Worker -> Nat] /\ i \in [Worker -> Nat]
      /\ half \in [Worker -> {1, 2}] /\ hand \in [Worker -> Block \cup {Null}]
      /\ gen \in [Worker -> Nat] /\ Victim(k) \in Worker
      /\ Pos(k) \in Slots /\ (i[k] \in Slots => Pos(k) = i[k])
  BY GivenType, Neighbour DEF Types
<1>c. /\ cfg.pattern \in {"bulk", "interleaved", "cross"}
      /\ cfg.program \in {"check", "bench", "boundary"}
      /\ cfg.program = "boundary" => cfg.nworks = 1 /\ cfg.rounds = 1 /\ cfg.pattern = "bulk"
      /\ cfg.pattern # "cross" => Victim(k) = k
      /\ cfg.ntimes \in Nat \ {0} /\ cfg.window \in Nat \ {0}
  BY Config, Neighbour DEF Types
<1>o. HalvesOK(k) /\ VacantOK(k) /\ PresentOK(k) /\ HandsOK(k)
  BY DEF Order, Halves, Vacant, Present, Hands
<1>s. /\ cfg' = cfg /\ Worker' = Worker /\ Slots' = Slots /\ Victim(k)' = Victim(k)
      /\ i'[k] = i[k] => Pos(k)' = Pos(k)
  BY DEF Clock, Worker, Slots, Victim, Pos
<1>1. pc[k] = "clock"
  BY DEF Clock
<1>2. UNCHANGED <<round, i, half, hand, store, gen, barrier>>
  BY DEF Clock, loops, waits
<1>7. pc'[k] = "add"
  BY <1>t, <1>1 DEF Clock, Exchange, Goto
<1>h. HalvesOK(k)'
  BY <1>t, <1>c, <1>o, <1>s, <1>1, <1>2, <1>7 DEF HalvesOK, Taking, Giving
<1>v. VacantOK(k)'
  BY <1>t, <1>c, <1>o, <1>s, <1>1, <1>2, <1>7 DEF VacantOK, Taking, Giving, Waiting, CheckedAll, Empty, Passed, Slots, Now
<1>p. PresentOK(k)'
  BY <1>t, <1>c, <1>o, <1>s, <1>1, <1>2, <1>7 DEF PresentOK, Given, Busy
<1> QED
  BY <1>h, <1>v, <1>p

LEMMA OrderAddTime ==
    ASSUME Types, Hands, InStep, Order, NEW k \in Worker, AddTime(k), cfg.program = "bench"
    PROVE  HalvesOK(k)' /\ VacantOK(k)' /\ PresentOK(k)'
<1>t. /\ pc \in [Worker -> Pc] /\ round \in [Worker -> Nat] /\ i \in [Worker -> Nat]
      /\ half \in [Worker -> {1, 2}] /\ hand \in [Worker -> Block \cup {Null}]
      /\ gen \in [Worker -> Nat] /\ Victim(k) \in Worker
      /\ Pos(k) \in Slots /\ (i[k] \in Slots => Pos(k) = i[k])
  BY GivenType, Neighbour DEF Types
<1>c. /\ cfg.pattern \in {"bulk", "interleaved", "cross"}
      /\ cfg.program \in {"check", "bench", "boundary"}
      /\ cfg.program = "boundary" => cfg.nworks = 1 /\ cfg.rounds = 1 /\ cfg.pattern = "bulk"
      /\ cfg.pattern # "cross" => Victim(k) = k
      /\ cfg.ntimes \in Nat \ {0} /\ cfg.window \in Nat \ {0}
  BY Config, Neighbour DEF Types
<1>o. HalvesOK(k) /\ VacantOK(k) /\ PresentOK(k) /\ HandsOK(k)
  BY DEF Order, Halves, Vacant, Present, Hands
<1>s. /\ cfg' = cfg /\ Worker' = Worker /\ Slots' = Slots /\ Victim(k)' = Victim(k)
      /\ i'[k] = i[k] => Pos(k)' = Pos(k)
  BY DEF AddTime, Worker, Slots, Victim, Pos
<1>1. pc[k] = "add"
  BY DEF AddTime
<1>2. UNCHANGED <<round, i, half, hand, store, gen, barrier>>
  BY DEF AddTime, loops, waits
<1>7. pc'[k] = "done" \/ pc'[k] = "add"
  BY <1>t, <1>1 DEF AddTime, Exchange, Goto
<1>h. HalvesOK(k)'
  BY <1>t, <1>c, <1>o, <1>s, <1>1, <1>2, <1>7 DEF HalvesOK, Taking, Giving
<1>v. VacantOK(k)'
  BY <1>t, <1>c, <1>o, <1>s, <1>1, <1>2, <1>7 DEF VacantOK, Taking, Giving, Waiting, CheckedAll, Empty, Passed, Slots, Now
<1>p. PresentOK(k)'
  BY <1>t, <1>c, <1>o, <1>s, <1>1, <1>2, <1>7 DEF PresentOK, Given, Busy
<1> QED
  BY <1>h, <1>v, <1>p

LEMMA OrderSpin ==
    ASSUME Types, Hands, InStep, Order, NEW k \in Worker, Spin(k)
    PROVE  HalvesOK(k)' /\ VacantOK(k)' /\ PresentOK(k)'
<1>t. /\ pc \in [Worker -> Pc] /\ round \in [Worker -> Nat] /\ i \in [Worker -> Nat]
      /\ half \in [Worker -> {1, 2}] /\ hand \in [Worker -> Block \cup {Null}]
      /\ gen \in [Worker -> Nat] /\ Victim(k) \in Worker
      /\ Pos(k) \in Slots /\ (i[k] \in Slots => Pos(k) = i[k])
  BY GivenType, Neighbour DEF Types
<1>c. /\ cfg.pattern \in {"bulk", "interleaved", "cross"}
      /\ cfg.program \in {"check", "bench", "boundary"}
      /\ cfg.program = "boundary" => cfg.nworks = 1 /\ cfg.rounds = 1 /\ cfg.pattern = "bulk"
      /\ cfg.pattern # "cross" => Victim(k) = k
      /\ cfg.ntimes \in Nat \ {0} /\ cfg.window \in Nat \ {0}
  BY Config, Neighbour DEF Types
<1>o. HalvesOK(k) /\ VacantOK(k) /\ PresentOK(k) /\ HandsOK(k)
  BY DEF Order, Halves, Vacant, Present, Hands
<1>s. /\ cfg' = cfg /\ Worker' = Worker /\ Slots' = Slots /\ Victim(k)' = Victim(k)
      /\ i'[k] = i[k] => Pos(k)' = Pos(k)
  BY DEF Spin, Worker, Slots, Victim, Pos
<1>1. pc[k] = "spin"
  BY DEF Spin
<1>2. UNCHANGED <<hand, store, gen, barrier>>
  BY DEF Spin, loops, waits
<1>3. cfg.pattern = "cross" /\ Leave(k)
  BY <1>1, <1>o DEF HandsOK, Waiting, Spin
<1>4. gen[k] # Now /\ hand[k] = Null
  BY <1>1, <1>3, <1>o, GoesOn DEF HandsOK, Taking, Giving
<1>5. \/ half[k] = 1 /\ half'[k] = 2 /\ i'[k] = 0 /\ pc'[k] = "next" /\ round'[k] = round[k]
      \/ /\ half[k] = 2 /\ half'[k] = 1 /\ i'[k] = 0 /\ round'[k] = round[k] + 1
         /\ pc'[k] = IF round[k] + 1 < cfg.rounds THEN "alloc"
                     ELSE IF cfg.program = "bench" THEN "clock" ELSE "done"
  BY <1>t, <1>3 DEF Leave, EndRound, Goto
<1>h. HalvesOK(k)'
  BY <1>t, <1>c, <1>o, <1>s, <1>1, <1>2, <1>3, <1>4, <1>5 DEF HalvesOK, Taking, Giving
<1>v. VacantOK(k)'
  BY <1>t, <1>c, <1>o, <1>s, <1>1, <1>2, <1>3, <1>4, <1>5 DEF VacantOK, Taking, Giving, Waiting, CheckedAll, Empty, Passed, Slots, Now
<1>p. PresentOK(k)'
  BY <1>t, <1>c, <1>o, <1>s, <1>1, <1>2, <1>3, <1>4, <1>5 DEF PresentOK, Given, Busy
<1> QED
  BY <1>h, <1>v, <1>p

\* Every step keeps the workers in step.
LEMMA InStepStep ==
    ASSUME Types, Hands, InStep, NEW k \in Worker, Does(k)
    PROVE  /\ InStep'
           /\ Now' = Now \/ (Arrive(k) /\ LastThrough(barrier, gen[k], cfg.nworks))
<1> USE DEF Goto
<1>1. cfg' = cfg
  BY SameConfig
<1>2. /\ FirstGive(k) \in {"check", "free"} /\ Taken(k) \in {"store", "check", "free"}
      /\ AfterTaking \in {"load", "next"}
  BY DEF FirstGive, Taken, AfterTaking
<1>3. pc \in [Worker -> Pc] /\ gen \in [Worker -> Nat]
  BY DEF Types
<1>4. pc[k] \in {"load", "arrive", "spin"} => cfg.pattern = "cross"
  BY DEF Hands, HandsOK, Waiting
<1>5. CASE barrier' = barrier /\ cfg.pattern # "cross"
  BY <1>1, <1>5 DEF InStep, Now
<1>6. CASE Alloc(k)
  <2>1. UNCHANGED <<round, half, gen, barrier>> /\ pc[k] \notin {"arrive", "spin"}
    BY <1>6 DEF Alloc, loops, waits
  <2>2. pc' = pc \/ \E w \in {"insert", "store", "check", "free"} : pc' = [pc EXCEPT ![k] = w]
    BY <1>6, <1>2, <1>3 DEF Alloc
  <2> QED
    BY <1>1, <2>1, <2>2, Outside DEF Pc
<1>7. CASE Insert(k)
  <2>1. UNCHANGED <<round, half, gen, barrier>> /\ pc[k] \notin {"arrive", "spin"}
    BY <1>7 DEF Insert, loops, waits
  <2>2. pc' = pc \/ \E w \in {"fill"} : pc' = [pc EXCEPT ![k] = w]
    BY <1>7, <1>2, <1>3 DEF Insert
  <2> QED
    BY <1>1, <2>1, <2>2, Outside DEF Pc
<1>8. CASE Fill(k)
  <2>1. UNCHANGED <<round, half, gen, barrier>> /\ pc[k] \notin {"arrive", "spin"}
    BY <1>8 DEF Fill, loops, waits
  <2>2. pc' = pc \/ \E w \in {"store", "check", "free"} : pc' = [pc EXCEPT ![k] = w]
    BY <1>8, <1>2, <1>3 DEF Fill
  <2> QED
    BY <1>1, <2>1, <2>2, Outside DEF Pc
<1>9. CASE Store(k)
  <2>1. UNCHANGED <<round, half, gen, barrier>> /\ pc[k] \notin {"arrive", "spin"}
    BY <1>9 DEF Store, loops, waits
  <2>2. pc' = pc \/ \E w \in {"alloc", "load", "next"} : pc' = [pc EXCEPT ![k] = w]
    BY <1>9, <1>2, <1>3 DEF Store
  <2> QED
    BY <1>1, <2>1, <2>2, Outside DEF Pc
<1>10. CASE NextGive(k)
  <2>1. CASE cfg.pattern # "cross"
    BY <1>10, <1>5, <2>1 DEF NextGive, waits, Now
  <2>2. CASE cfg.pattern = "cross"
    <3>1. UNCHANGED <<round, half, gen, barrier>> /\ pc[k] = "next"
      BY <1>10, <2>2, Config DEF NextGive, SecondBarrier, CheckedAll, waits, loops, Types
    <3>2. \E w \in {"load", "check", "free"} : pc' = pc \/ pc' = [pc EXCEPT ![k] = w]
      BY <1>10, <1>2, <2>2, Config DEF NextGive, SecondBarrier, CheckedAll, Types
    <3> QED
      BY <1>1, <3>1, <3>2, Outside DEF Pc
  <2> QED
    BY <2>1, <2>2
<1>11. CASE Check(k)
  <2>1. UNCHANGED <<round, half, gen, barrier>> /\ pc[k] \notin {"arrive", "spin"}
    BY <1>11 DEF Check, Afterwards, loops, waits
  <2>2. pc' = pc \/ \E w \in {"given", "erase"} : pc' = [pc EXCEPT ![k] = w]
    BY <1>11, <1>2, <1>3 DEF Check, Afterwards
  <2> QED
    BY <1>1, <2>1, <2>2, Outside DEF Pc
<1>12. CASE Erase(k)
  <2>1. UNCHANGED <<round, half, gen, barrier>> /\ pc[k] \notin {"arrive", "spin"}
    BY <1>12 DEF Erase, Afterwards, loops, waits
  <2>2. pc' = pc \/ \E w \in {"free"} : pc' = [pc EXCEPT ![k] = w]
    BY <1>12, <1>2, <1>3 DEF Erase, Afterwards
  <2> QED
    BY <1>1, <2>1, <2>2, Outside DEF Pc
<1>13. CASE Free(k)
  <2>1. UNCHANGED <<round, half, gen, barrier>> /\ pc[k] \notin {"arrive", "spin"}
    BY <1>13 DEF Free, Afterwards, loops, waits
  <2>2. pc' = pc \/ \E w \in {"given"} : pc' = [pc EXCEPT ![k] = w]
    BY <1>13, <1>2, <1>3 DEF Free, Afterwards
  <2> QED
    BY <1>1, <2>1, <2>2, Outside DEF Pc
<1>14. CASE GiveDone(k)
  <2>1. UNCHANGED <<round, half, gen, barrier>> /\ pc[k] \notin {"arrive", "spin"}
    BY <1>14 DEF GiveDone, loops, waits
  <2>2. pc' = pc \/ \E w \in {"store", "next"} : pc' = [pc EXCEPT ![k] = w]
    BY <1>14, <1>2, <1>3 DEF GiveDone
  <2> QED
    BY <1>1, <2>1, <2>2, Outside DEF Pc
<1>15. CASE Clock(k)
  <2>1. UNCHANGED <<round, half, gen, barrier>> /\ pc[k] \notin {"arrive", "spin"}
    BY <1>15 DEF Clock, loops, waits
  <2>2. pc' = pc \/ \E w \in {"add"} : pc' = [pc EXCEPT ![k] = w]
    BY <1>15, <1>2, <1>3 DEF Clock
  <2> QED
    BY <1>1, <2>1, <2>2, Outside DEF Pc
<1>16. CASE AddTime(k)
  <2>1. UNCHANGED <<round, half, gen, barrier>> /\ pc[k] \notin {"arrive", "spin"}
    BY <1>16 DEF AddTime, Exchange, loops, waits
  <2>2. pc' = pc \/ \E w \in {"add", "done"} : pc' = [pc EXCEPT ![k] = w]
    BY <1>16, <1>2, <1>3 DEF AddTime, Exchange
  <2> QED
    BY <1>1, <2>1, <2>2, Outside DEF Pc
<1>20. CASE Load(k)
  <2>1. /\ cfg.pattern = "cross" /\ pc[k] = "load" /\ pc' = [pc EXCEPT ![k] = "arrive"]
        /\ gen' = [gen EXCEPT ![k] = Now] /\ UNCHANGED <<round, half, barrier>>
    BY <1>4, <1>20 DEF Load, loops, Now
  <2>2. Worker' = Worker /\ Now' = Now
    BY <1>1, <2>1 DEF Worker, Now
  <2>3. Passed(k) = Now
    BY <2>1 DEF InStep
  <2>4. \A m \in Worker : Passed(m)' = Passed(m)
    BY <2>1 DEF Passed
  <2>5. pc'[k] = "arrive" /\ gen'[k] = Now /\ \A m \in Worker \ {k} : pc'[m] = pc[m] /\ gen'[m] = gen[m]
    BY <1>3, <2>1
  <2>6. Arrived' = Arrived
    BY <2>1, <2>2, <2>5 DEF Arrived
  <2>7. InStep'
    BY <1>1, <2>1, <2>2, <2>3, <2>4, <2>5, <2>6 DEF InStep
  <2> QED
    BY <2>2, <2>7
<1>21. CASE Arrive(k)
  <2>1. cfg.pattern = "cross"
    BY <1>4, <1>21 DEF Arrive
  <2> QED
    BY <1>21, <2>1, LastArrives, OtherArrives
<1>22. CASE Spin(k)
  <2>1. cfg.pattern = "cross"
    BY <1>4, <1>22 DEF Spin
  <2> QED
    BY <1>22, <2>1, GoesOn
<1> QED
  BY <1>6, <1>7, <1>8, <1>9, <1>10, <1>11, <1>12, <1>13, <1>14, <1>15, <1>16, <1>20, <1>21, <1>22 DEF Does

\* A worker that arrives, and is not the last.
LEMMA OrderArrive ==
    ASSUME Types, Hands, InStep, Order, NEW k \in Worker, Arrive(k),
           ~LastThrough(barrier, gen[k], cfg.nworks)
    PROVE  HalvesOK(k)' /\ VacantOK(k)' /\ PresentOK(k)'
<1>1. pc[k] = "arrive" /\ cfg.pattern = "cross"
  BY DEF Arrive, Hands, HandsOK, Waiting
<1>2. /\ pc' = [pc EXCEPT ![k] = "spin"] /\ gen[k] = Now /\ Now' = Now
      /\ UNCHANGED <<cfg, round, i, half, hand, store, gen>>
  BY <1>1, OtherArrives DEF Arrive, loops
<1>3. HalvesOK(k) /\ VacantOK(k) /\ PresentOK(k)
  BY DEF Order, Halves, Vacant, Present
<1>4. pc'[k] = "spin"
  BY <1>2 DEF Types
<1>5. Slots' = Slots /\ Victim(k)' = Victim(k) /\ Passed(k)' = Passed(k)
  BY <1>2 DEF Slots, Victim, Passed
<1>6. HalvesOK(k)'
  BY <1>1, <1>2, <1>3, <1>4 DEF HalvesOK, Taking, Giving
<1>7. VacantOK(k)'
  BY <1>1, <1>2, <1>3, <1>4, <1>5 DEF VacantOK, Taking, Giving, Waiting, Empty
<1>8. PresentOK(k)'
  BY <1>4 DEF PresentOK, Busy
<1> QED
  BY <1>6, <1>7, <1>8

\* When the last worker arrives at a second barrier, every place is empty.
LEMMA AllEmpty ==
    ASSUME Types, Hands, InStep, Order, NEW k \in Worker, pc[k] = "arrive", half[k] = 2,
           cfg.pattern = "cross", LastThrough(barrier, gen[k], cfg.nworks)
    PROVE  \A v \in Worker : Empty(v)
<1>1. /\ Passed(k) = Now
      /\ \A m \in Worker \ {k} : pc[m] = "spin" /\ gen[m] = Now /\ Passed(m) = Now
  BY AllArrived
<1>2. \A m \in Worker : Waiting(m) /\ Passed(m) = Now
  BY <1>1 DEF Waiting
<1>3. ASSUME NEW m \in Worker
      PROVE  half[m] = 2
  <2>1. round[m] \in Nat /\ round[k] \in Nat /\ half[m] \in {1, 2}
    BY DEF Types
  <2>2. 2 * round[m] + half[m] - 1 = 2 * round[k] + 2 - 1
    BY <1>2 DEF Passed
  <2> QED
    BY <2>1, <2>2
<1>4. \A m \in Worker : Empty(Victim(m))
  BY <1>2, <1>3 DEF Order, Vacant, VacantOK
<1> QED
  BY <1>4, SomeGiver DEF Types

\* The last worker to arrive, and the others, when the generation advances.
LEMMA OrderLastArrive ==
    ASSUME Types, Hands, InStep, Order, NEW k \in Worker, Arrive(k),
           LastThrough(barrier, gen[k], cfg.nworks), NEW m \in Worker
    PROVE  HalvesOK(m)' /\ VacantOK(m)' /\ PresentOK(m)'
<1>1. pc[k] = "arrive" /\ cfg.pattern = "cross"
  BY DEF Arrive, Hands, HandsOK, Waiting
<1>2. /\ Now' = Now + 1 /\ Now \in Nat
      /\ \A x \in Worker \ {k} : pc[x] = "spin" /\ gen[x] = Now /\ Passed(x) = Now
  <2>1. Now \in Nat
    BY Config, Generations DEF Now, Types
  <2> QED
    BY <1>1, <2>1, AllArrived, LastArrives
<1>3. cfg' = cfg /\ gen' = gen /\ hand' = hand /\ store' = store /\ Leave(k)
  BY DEF Arrive
<1>4. HalvesOK(m) /\ VacantOK(m) /\ PresentOK(m) /\ HandsOK(m)
  BY DEF Order, Halves, Vacant, Present, Hands
<1>t. /\ pc \in [Worker -> Pc] /\ round \in [Worker -> Nat] /\ i \in [Worker -> Nat]
      /\ half \in [Worker -> {1, 2}]
  BY DEF Types
<1>c. /\ cfg.program \in {"check", "bench", "boundary"}
      /\ cfg.program = "boundary" => cfg.pattern = "bulk"
      /\ cfg.ntimes \in Nat \ {0}
  BY Config DEF Types
<1>5. half[k] = 2 => \A v \in Worker : Empty(v)
  BY <1>1, AllEmpty
<1>6. Slots' = Slots /\ Victim(m)' = Victim(m)
  BY <1>3 DEF Slots, Victim
<1>7. CASE m = k
  <2>1. \/ half[k] = 1 /\ half'[k] = 2 /\ i'[k] = 0 /\ pc'[k] = "next" /\ round'[k] = round[k]
        \/ /\ half[k] = 2 /\ half'[k] = 1 /\ i'[k] = 0 /\ round'[k] = round[k] + 1
           /\ pc'[k] = IF round[k] + 1 < cfg.rounds THEN "alloc"
                       ELSE IF cfg.program = "bench" THEN "clock" ELSE "done"
    BY <1>t, <1>3 DEF Leave, EndRound, Goto
  <2>2. hand[k] = Null
    BY <1>1, <1>4, <1>7 DEF HandsOK, Taking, Giving
  <2>3. HalvesOK(k)'
    BY <1>1, <1>3, <1>4, <1>c, <2>1, <2>2 DEF HalvesOK, Taking, Giving
  <2>4. VacantOK(k)'
    BY <1>1, <1>3, <1>4, <1>5, <1>6, <1>7, <1>c, <2>1 DEF VacantOK, Taking, Giving, Waiting, Empty, Slots
  <2>5. PresentOK(k)'
    BY <2>1 DEF PresentOK, Busy
  <2> QED
    BY <1>7, <2>3, <2>4, <2>5
<1>8. CASE m # k
  <2>1. Untouched(m)
    BY <1>1, <1>8, <1>c, OnlyOne DEF Does
  <2>2. pc[m] = "spin" /\ gen[m] = Now /\ Passed(m) = Now /\ Passed(m)' = Now
    BY <1>2, <1>8, <2>1 DEF Untouched, Passed
  <2>3. HalvesOK(m)'
    BY <1>3, <1>4, <2>1 DEF HalvesOK, Taking, Giving, Untouched
  <2>4. half[m] = half[k]
    <3>1. Passed(k) = Now
      BY <1>1, AllArrived
    <3>2. round[m] \in Nat /\ round[k] \in Nat /\ half[m] \in {1, 2} /\ half[k] \in {1, 2}
      BY <1>t
    <3>3. 2 * round[m] + half[m] - 1 = 2 * round[k] + half[k] - 1
      BY <2>2, <3>1 DEF Passed
    <3> QED
      BY <3>2, <3>3
  <2>5. half[m] = 2 => Empty(m)
    BY <1>5, <2>4
  <2>6. VacantOK(m)'
    BY <1>2, <1>3, <1>6, <2>1, <2>2, <2>5 DEF VacantOK, Taking, Giving, Waiting, Empty, Untouched
  <2>7. PresentOK(m)'
    BY <2>1, <2>2 DEF PresentOK, Busy, Untouched
  <2> QED
    BY <2>3, <2>6, <2>7
<1> QED
  BY <1>7, <1>8

\* What a worker stores leaves the others where they are.
LEMMA OrderStoreOther ==
    ASSUME Types, Hands, InStep, Order, NEW k \in Worker, Store(k), NEW m \in Worker, m # k
    PROVE  HalvesOK(m)' /\ VacantOK(m)' /\ PresentOK(m)'
<1>1. Untouched(m)
  BY OnlyOne DEF Does
<1>2. cfg' = cfg /\ barrier' = barrier /\ pc[k] = "store" /\ store' = [store EXCEPT ![k][Pos(k)] = hand[k]]
  BY DEF Store, waits
<1>3. /\ store \in [Worker -> [Slots -> Block \cup {Null}]] /\ Pos(k) \in Slots
      /\ Victim(m) \in Worker /\ half \in [Worker -> {1, 2}] /\ Pos(m) \in Slots
  BY GivenType, Neighbour DEF Types
<1>4. \A v \in Worker \ {k} : store'[v] = store[v]
  BY <1>2, <1>3
<1>5. HalvesOK(m) /\ VacantOK(m) /\ PresentOK(m) /\ HandsOK(k)
  BY DEF Order, Halves, Vacant, Present, Hands
<1>6. Slots' = Slots /\ Victim(m)' = Victim(m) /\ Now' = Now /\ Passed(m)' = Passed(m)
  BY <1>1, <1>2 DEF Slots, Victim, Now, Untouched, Passed
<1>7. Pos(m)' = Pos(m)
  BY <1>1, <1>6 DEF Pos, Untouched
<1>8. Giving(m) \/ (Waiting(m) /\ half[m] = 2 /\ Passed(m) = Now) => Victim(m) # k
  <2> SUFFICES ASSUME Giving(m) \/ (Waiting(m) /\ half[m] = 2 /\ Passed(m) = Now), Victim(m) = k
               PROVE  FALSE
    OBVIOUS
  <2>1. cfg.pattern = "cross"
    BY Neighbour DEF Types
  <2>2. Taking(k) /\ pc[k] # "spin"
    BY <1>2 DEF Taking
  <2>3. half[k] = 1
    BY <2>1, <2>2, <1>3 DEF Order, Halves, HalvesOK
  <2>4. CASE Giving(m)
    BY <2>1, <2>2, <2>4, Phases DEF Order
  <2>5. CASE Waiting(m) /\ half[m] = 2 /\ Passed(m) = Now
    <3>1. Passed(m) + 1 = Now
      BY <2>1, <2>2, <2>3, <2>5, Apart
    <3>2. round[m] \in Nat
      BY DEF Types
    <3> QED
      BY <2>5, <3>1, <3>2 DEF Passed
  <2> QED
    BY <2>4, <2>5
<1>9. HalvesOK(m)'
  BY <1>1, <1>2, <1>5 DEF HalvesOK, Taking, Giving, Untouched
<1>10. VacantOK(m)'
  BY <1>1, <1>2, <1>3, <1>4, <1>5, <1>6, <1>8
     DEF VacantOK, Taking, Giving, Waiting, Empty, Untouched, CheckedAll
<1>11. PresentOK(m)'
  <2>1. Busy(m) => Giving(m)
    BY DEF Busy, Giving
  <2> QED
    BY <1>1, <1>3, <1>4, <1>5, <1>6, <1>7, <1>8, <2>1 DEF PresentOK, Busy, Given, Untouched
<1> QED
  BY <1>9, <1>10, <1>11

\* Nor does the place it empties matter to them.
LEMMA OrderGiveDoneOther ==
    ASSUME Types, Hands, InStep, Order, NEW k \in Worker, GiveDone(k), NEW m \in Worker, m # k
    PROVE  HalvesOK(m)' /\ VacantOK(m)' /\ PresentOK(m)'
<1>1. Untouched(m)
  BY OnlyOne DEF Does
<1>2. /\ cfg' = cfg /\ barrier' = barrier /\ pc[k] = "given"
      /\ store' = store \/ store' = [store EXCEPT ![Victim(k)][Pos(k)] = Null]
  BY DEF GiveDone, waits
<1>3. /\ store \in [Worker -> [Slots -> Block \cup {Null}]] /\ Pos(k) \in Slots /\ Victim(k) \in Worker
      /\ Victim(m) \in Worker /\ Pos(m) \in Slots
  BY GivenType, Neighbour DEF Types
<1>4. \A v \in Worker : v # Victim(k) => store'[v] = store[v]
  BY <1>2, <1>3
<1>5. \A v \in Worker, x \in Slots : store[v][x] = Null => store'[v][x] = Null
  BY <1>2, <1>3
<1>6. HalvesOK(m) /\ VacantOK(m) /\ PresentOK(m)
  BY DEF Order, Halves, Vacant, Present
<1>7. Slots' = Slots /\ Victim(m)' = Victim(m) /\ Now' = Now /\ Passed(m)' = Passed(m)
  BY <1>1, <1>2 DEF Slots, Victim, Now, Untouched, Passed
<1>8. Pos(m)' = Pos(m)
  BY <1>1, <1>7 DEF Pos, Untouched
<1>9. Victim(m) # Victim(k)
  BY OneGiver DEF Types
<1>10. HalvesOK(m)'
  BY <1>1, <1>2, <1>6 DEF HalvesOK, Taking, Giving, Untouched
<1>11. VacantOK(m)'
  BY <1>1, <1>2, <1>3, <1>5, <1>6, <1>7
     DEF VacantOK, Taking, Giving, Waiting, Empty, Untouched, CheckedAll
<1>12. PresentOK(m)'
  BY <1>1, <1>3, <1>4, <1>5, <1>6, <1>7, <1>8, <1>9 DEF PresentOK, Busy, Given, Untouched
<1> QED
  BY <1>10, <1>11, <1>12

\* Every step keeps the order.
LEMMA OrderStep ==
    ASSUME Types, Hands, InStep, Order, NEW k \in Worker, Does(k)
    PROVE  Order'
<1>1. ASSUME NEW m \in Worker
      PROVE  HalvesOK(m)' /\ VacantOK(m)' /\ PresentOK(m)'
  <2>1. CASE Arrive(k) /\ LastThrough(barrier, gen[k], cfg.nworks)
    BY <2>1, OrderLastArrive
  <2>2. CASE ~(Arrive(k) /\ LastThrough(barrier, gen[k], cfg.nworks)) /\ m = k
    BY <2>2, OrderAlloc, OrderStore, OrderNextGive, OrderFree, OrderGiveDone, OrderInsert, OrderFill,
       OrderCheck, OrderErase, OrderLoad, OrderArrive, OrderSpin, OrderClock, OrderAddTime DEF Does
  <2>3. CASE Store(k) /\ m # k
    BY <2>3, OrderStoreOther
  <2>4. CASE GiveDone(k) /\ m # k
    BY <2>4, OrderGiveDoneOther
  <2>5. CASE ~(Arrive(k) /\ LastThrough(barrier, gen[k], cfg.nworks)) /\ m # k /\ ~Store(k) /\ ~GiveDone(k)
    <3>5. m # k
      BY <2>5
    <3>1. Untouched(m) /\ cfg' = cfg
      BY <3>5, OnlyOne, SameConfig
    <3>2. Now' = Now
      BY <2>5, InStepStep
    <3>3. store' = store
      BY <2>5 DEF Does, Alloc, NextGive, Free, Insert, Fill, Check, Erase, Load, Arrive, Spin, Clock, AddTime
    <3>4. HalvesOK(m) /\ VacantOK(m) /\ PresentOK(m)
      BY DEF Order, Halves, Vacant, Present
    <3> QED
      BY <3>1, <3>2, <3>3, <3>4, Bystander
  <2> QED
    BY <2>1, <2>2, <2>3, <2>4, <2>5
<1>2. Worker' = Worker
  BY SameConfig DEF Worker
<1> QED
  BY <1>1, <1>2 DEF Order, Halves, Vacant, Present

-----------------------------------------------------------------------------
(* How many places a block is in.                                            *)

LEMMA SpotsFinite ==
    ASSUME cfg \in Configs, NEW p
    PROVE  IsFiniteSet(Spots(p)) /\ Cardinality(Spots(p)) \in Nat
<1>1. cfg.nworks \in Nat \ {0} /\ cfg.ntimes \in Nat \ {0} /\ cfg.window \in Nat \ {0}
  BY Config
<1>2. IsFiniteSet(Worker)
  BY Workers
<1>3. IsFiniteSet(Slots)
  <2>1. IsFiniteSet(0 .. cfg.window - 1) /\ IsFiniteSet(0 .. cfg.ntimes - 1)
    BY <1>1, Interval
  <2> QED
    BY <2>1 DEF Slots
<1>4. IsFiniteSet(Slots \cup {Hand})
  BY <1>3, FS_AddElement
<1>5. IsFiniteSet(Spot)
  BY <1>2, <1>4, FS_Product DEF Spot
<1>6. Spots(p) \in SUBSET Spot
  BY DEF Spots
<1> QED
  BY <1>5, <1>6, FS_Subset, FS_CardinalityType

\* A hand is no slot, and the place a worker gives back from is one.
LEMMA Fronts ==
    ASSUME Types, NEW m \in Worker
    PROVE  /\ Front(m) \in Spot /\ Front(m) = <<Victim(m), Pos(m)>>
           /\ Pos(m) # Hand /\ Hand \notin Slots
           /\ At(Front(m)) = Given(m)
           /\ \A k \in Worker : Front(m) = Front(k) => m = k
<1>1. Pos(m) \in Slots /\ Victim(m) \in Worker
  BY GivenType, Neighbour DEF Types
<1>2. Slots \subseteq Nat
  BY DEF Slots
<1>3. Hand \notin Slots /\ Pos(m) # Hand
  BY <1>1, <1>2 DEF Hand
<1>4. ASSUME NEW k \in Worker, Front(m) = Front(k)
      PROVE  m = k
  <2>1. Victim(m) = Victim(k)
    BY <1>4 DEF Front
  <2> QED
    BY <2>1, OneGiver DEF Types
<1> QED
  BY <1>1, <1>3, <1>4 DEF Front, Spot, At, Given

\* A hand is never about to be emptied.
LEMMA HandFresh ==
    ASSUME Types, NEW k \in Worker
    PROVE  ~Stale(<<k, Hand>>) /\ <<k, Hand>> \in Spot /\ At(<<k, Hand>>) = hand[k]
<1>1. \A m \in Worker : Front(m) # <<k, Hand>>
  BY Fronts
<1> QED
  BY <1>1 DEF Stale, Spot, At

\* What the other workers are emptying stays the same.
LEMMA OthersEmptying ==
    ASSUME Types, NEW k \in Worker, Does(k), NEW m \in Worker, m # k
    PROVE  Emptying(m)' = Emptying(m) /\ Front(m)' = Front(m)
<1>1. Untouched(m) /\ cfg' = cfg
  BY OnlyOne, SameConfig
<1> QED
  BY <1>1 DEF Untouched, Emptying, CheckedAll, Front, Victim, Pos, Slots

\* When neither what is stored, nor what is being emptied, changes, the places
\* a cell is in do not.
LEMMA SameSpots ==
    ASSUME Types, NEW k \in Worker, Does(k), ~Emptying(k), ~Emptying(k)',
           UNCHANGED <<hand, store>>
    PROVE  /\ \A l \in Spot : Live(l)' = Live(l) /\ At(l)' = At(l)
           /\ \A p : Spots(p)' = Spots(p)
<1>1. cfg' = cfg /\ Worker' = Worker /\ Slots' = Slots
  BY SameConfig DEF Worker, Slots
<1>2. Spot' = Spot
  BY <1>1 DEF Spot
<1>3. \A l : Stale(l)' = Stale(l)
  BY <1>1, OthersEmptying DEF Stale
<1>4. \A l \in Spot : At(l)' = At(l)
  BY DEF At
<1>5. \A l \in Spot : Live(l)' = Live(l)
  BY <1>3, <1>4 DEF Live
<1> QED
  BY <1>2, <1>4, <1>5 DEF Spots

\* A block comes into a worker's hand.
LEMMA AllocSpots ==
    ASSUME Types, Hands, NEW k \in Worker, Alloc(k), NEW b \in Block,
           hand' = [hand EXCEPT ![k] = b]
    PROVE  /\ <<k, Hand>> \in Spot /\ Live(<<k, Hand>>)' /\ At(<<k, Hand>>)' = b
           /\ ~Live(<<k, Hand>>)
           /\ \A l \in Spot : l # <<k, Hand>> => Live(l)' = Live(l) /\ At(l)' = At(l)
           /\ Spot' = Spot
<1>0. Does(k)
  BY DEF Does
<1>1. cfg' = cfg /\ Worker' = Worker /\ Slots' = Slots /\ store' = store /\ pc[k] = "alloc"
  BY <1>0, SameConfig DEF Worker, Slots, Alloc
<1>2. Spot' = Spot
  BY <1>1 DEF Spot
<1>3. ~Emptying(k) /\ ~Emptying(k)'
  <2>1. pc'[k] # "given"
    BY DEF Alloc, Goto, Taken, FirstGive, Types
  <2> QED
    BY <1>1, <2>1 DEF Emptying
<1>4. \A l : Stale(l)' = Stale(l)
  BY <1>0, <1>1, <1>3, OthersEmptying DEF Stale
<1>5. <<k, Hand>> \in Spot /\ ~Stale(<<k, Hand>>) /\ At(<<k, Hand>>) = hand[k]
  BY HandFresh
<1>6. hand[k] = Null /\ hand \in [Worker -> Block \cup {Null}]
  BY <1>1 DEF Hands, HandsOK, Types
<1>7. At(<<k, Hand>>)' = b
  BY <1>6 DEF At
<1>8. b # Null
  BY NotNull DEF Types
<1>9. \A l \in Spot : l # <<k, Hand>> => At(l)' = At(l)
  BY <1>1, <1>6 DEF At, Spot
<1> QED
  BY <1>2, <1>4, <1>5, <1>6, <1>7, <1>8, <1>9 DEF Live

\* And from there into one of its slots.
LEMMA StoreSpots ==
    ASSUME Types, Hands, InStep, Order, NEW k \in Worker, Store(k), NEW x, x = Pos(k)
    PROVE  /\ <<k, Hand>> \in Spot /\ <<k, x>> \in Spot /\ <<k, x>> # <<k, Hand>>
           /\ Live(<<k, Hand>>) /\ ~Live(<<k, Hand>>)'
           /\ ~Live(<<k, x>>) /\ Live(<<k, x>>)'
           /\ At(<<k, Hand>>) = hand[k] /\ At(<<k, x>>)' = hand[k]
           /\ hand[k] \in Block
           /\ \A l \in Spot : l # <<k, Hand>> /\ l # <<k, x>> => Live(l)' = Live(l) /\ At(l)' = At(l)
           /\ Spot' = Spot
<1>0. Does(k)
  BY DEF Does
<1>1. cfg' = cfg /\ Worker' = Worker /\ Slots' = Slots /\ pc[k] = "store"
  BY <1>0, SameConfig DEF Worker, Slots, Store
<1>2. Spot' = Spot
  BY <1>1 DEF Spot
<1>3. ~Emptying(k) /\ ~Emptying(k)'
  <2>1. pc'[k] # "given"
    BY DEF Store, Goto, AfterTaking, Types
  <2> QED
    BY <1>1, <2>1 DEF Emptying
<1>4. \A l : Stale(l)' = Stale(l)
  BY <1>0, <1>1, <1>3, OthersEmptying DEF Stale
<1>5. <<k, Hand>> \in Spot /\ ~Stale(<<k, Hand>>) /\ At(<<k, Hand>>) = hand[k]
  BY HandFresh
<1>6. /\ hand[k] # Null /\ hand[k] \in Block /\ store[k][x] = Null
      /\ hand \in [Worker -> Block \cup {Null}]
      /\ store \in [Worker -> [Slots -> Block \cup {Null}]]
  BY <1>1 DEF Hands, HandsOK, Types, Order, Present, PresentOK
<1>7. x \in Slots /\ x # Hand
  BY GivenType, Fronts
<1>8. <<k, x>> \in Spot /\ At(<<k, x>>) = Null
  BY <1>6, <1>7 DEF Spot, At
<1>9. hand' = [hand EXCEPT ![k] = Null] /\ store' = [store EXCEPT ![k][x] = hand[k]]
  BY DEF Store
<1>10. At(<<k, Hand>>)' = Null /\ At(<<k, x>>)' = hand[k]
  BY <1>6, <1>7, <1>9 DEF At
<1>11. \A l \in Spot : l # <<k, Hand>> /\ l # <<k, x>> => At(l)' = At(l)
  BY <1>6, <1>7, <1>9 DEF At, Spot
<1>12. ~Stale(<<k, x>>)
  <2> SUFFICES ASSUME NEW m \in Worker, Emptying(m), <<k, x>> = Front(m)
               PROVE  FALSE
    BY DEF Stale
  <2>1. Victim(m) = k /\ Giving(m) /\ Taking(k) /\ m # k
    BY <1>1, Fronts DEF Emptying, Giving, Taking
  <2>2. cfg.pattern = "cross"
    BY <2>1, Neighbour DEF Types
  <2> QED
    BY <2>1, <2>2, Phases DEF Order
<1> QED
  BY <1>2, <1>4, <1>5, <1>6, <1>7, <1>8, <1>10, <1>11, <1>12 DEF Live

\* A freed block's place is not counted any more, though it is emptied later.
LEMMA FreeSpots ==
    ASSUME Types, Hands, InStep, Order, NEW k \in Worker, Free(k), NEW f, f = Front(k)
    PROVE  /\ f \in Spot /\ Live(f) /\ ~Live(f)'
           /\ At(f) = Given(k) /\ Given(k) \in Block /\ GivenCell(k) = {Given(k).p}
           /\ \A l \in Spot : At(l)' = At(l) /\ (l # f => Live(l)' = Live(l))
           /\ Spot' = Spot
<1>0. Does(k)
  BY DEF Does
<1>1. /\ cfg' = cfg /\ Worker' = Worker /\ Slots' = Slots /\ pc[k] = "free"
      /\ UNCHANGED <<i, half, hand, store>>
  BY <1>0, SameConfig DEF Worker, Slots, Free, loops
<1>2. Spot' = Spot
  BY <1>1 DEF Spot
<1>3. ~Emptying(k) /\ Emptying(k)' /\ Front(k)' = Front(k)
  <2>1. pc'[k] = "given"
    BY DEF Free, Goto, Afterwards, Types
  <2>2. ~CheckedAll(k)
    BY <1>1 DEF CheckedAll, Order, Halves, HalvesOK
  <2> QED
    BY <1>1, <2>1, <2>2 DEF Emptying, CheckedAll, Front, Victim, Pos
<1>4. \A l : Stale(l)' <=> Stale(l) \/ l = f
  BY <1>0, <1>1, <1>3, OthersEmptying DEF Stale
<1>5. ~Stale(f)
  BY <1>3, Fronts DEF Stale
<1>6. Given(k) # Null
  BY <1>1 DEF Order, Present, PresentOK, Busy
<1>7. Given(k) \in Block /\ GivenCell(k) = {Given(k).p}
  BY <1>6, GivenType DEF GivenCell
<1>8. f \in Spot /\ At(f) = Given(k)
  BY Fronts
<1>9. \A l \in Spot : At(l)' = At(l)
  BY <1>1 DEF At
<1> QED
  BY <1>2, <1>4, <1>5, <1>6, <1>7, <1>8, <1>9 DEF Live

LEMMA GiveDoneSpots ==
    ASSUME Types, Hands, InStep, Order, NEW k \in Worker, GiveDone(k)
    PROVE  /\ \A l \in Spot : /\ Live(l)' = Live(l)
                              /\ Live(l) => At(l)' = At(l)
           /\ Spot' = Spot
<1>0. Does(k)
  BY DEF Does
<1>1. /\ cfg' = cfg /\ Worker' = Worker /\ Slots' = Slots /\ pc[k] = "given"
      /\ UNCHANGED <<half, hand>>
  BY <1>0, SameConfig DEF Worker, Slots, GiveDone
<1>2. Spot' = Spot
  BY <1>1 DEF Spot
<1>3. ~Emptying(k)'
  <2>1. pc'[k] # "given"
    BY DEF GiveDone, Goto, Types
  <2> QED
    BY <2>1 DEF Emptying
<1>4. CASE CheckedAll(k)
  <2>1. store' = store /\ ~Emptying(k)
    BY <1>4 DEF GiveDone, Emptying
  <2> QED
    BY <1>0, <1>1, <1>2, <1>3, <2>1, SameSpots
<1>5. CASE ~CheckedAll(k)
  <2>0. PICK f, v, x : f = Front(k) /\ v = Victim(k) /\ x = Pos(k)
    OBVIOUS
  <2>1. store' = [store EXCEPT ![v][x] = Null] /\ Emptying(k)
    BY <1>1, <1>5, <2>0 DEF GiveDone, Emptying
  <2>2. store \in [Worker -> [Slots -> Block \cup {Null}]] /\ v \in Worker /\ x \in Slots
        /\ x # Hand
    BY <2>0, GivenType, Neighbour, Fronts DEF Types
  <2>3. f = <<v, x>>
    BY <2>0 DEF Front
  <2>4. At(f)' = Null
    <3>1. store'[v][x] = Null
      BY <2>1, <2>2
    <3> QED
      BY <2>2, <2>3, <3>1 DEF At
  <2>5. \A l \in Spot : l # f => At(l)' = At(l)
    BY <1>1, <2>1, <2>2, <2>3 DEF At, Spot
  <2>6. \A l : Stale(l) <=> Stale(l)' \/ l = f
    BY <1>0, <1>1, <1>3, <2>0, <2>1, OthersEmptying DEF Stale
  <2> QED
    BY <1>2, <2>4, <2>5, <2>6 DEF Live
<1> QED
  BY <1>4, <1>5

\* The other actions neither move a block nor ask the allocator for anything.
Moves(k) == Alloc(k) \/ Store(k) \/ Free(k) \/ GiveDone(k)

LEMMA Quiet ==
    ASSUME Types, NEW k \in Worker, Does(k), ~Moves(k)
    PROVE  /\ UNCHANGED <<hand, store, heap, twice>>
           /\ ~Emptying(k) /\ ~Emptying(k)'
<1> USE DEF Goto, allocator
<1>0. pc \in [Worker -> Pc]
  BY DEF Types
<1>1. CASE Insert(k)
  BY <1>0, <1>1 DEF Insert, Emptying
<1>2. CASE Fill(k)
  BY <1>0, <1>2 DEF Fill, Taken, FirstGive, Emptying
<1>3. CASE NextGive(k)
  <2>1. pc[k] = "next" /\ (pc' = pc \/ \E w \in Pc \ {"given"} : pc' = [pc EXCEPT ![k] = w])
    BY <1>3 DEF NextGive, FirstGive, EndRound, Pc, loops
  <2> QED
    BY <1>0, <1>3, <2>1 DEF NextGive, Emptying
<1>4. CASE Check(k)
  <2>1. CheckedAll(k)' = CheckedAll(k)
    BY <1>4 DEF Check, CheckedAll, loops
  <2> QED
    BY <1>0, <1>4, <2>1 DEF Check, Emptying, Afterwards
<1>5. CASE Erase(k)
  BY <1>0, <1>5 DEF Erase, Emptying, Afterwards
<1>6. CASE Load(k)
  BY <1>0, <1>6 DEF Load, Emptying
<1>7. CASE Arrive(k)
  <2>1. pc[k] = "arrive" /\ \E w \in Pc \ {"given"} : pc' = [pc EXCEPT ![k] = w]
    BY <1>7 DEF Arrive, Leave, EndRound, Pc
  <2> QED
    BY <1>0, <1>7, <2>1 DEF Arrive, Emptying
<1>8. CASE Spin(k)
  <2>1. pc[k] = "spin" /\ \E w \in Pc \ {"given"} : pc' = [pc EXCEPT ![k] = w]
    BY <1>8 DEF Spin, Leave, EndRound, Pc
  <2> QED
    BY <1>0, <1>8, <2>1 DEF Spin, Emptying
<1>9. CASE Clock(k)
  BY <1>0, <1>9 DEF Clock, Emptying
<1>10. CASE AddTime(k)
  BY <1>0, <1>10 DEF AddTime, Emptying
<1> QED
  BY <1>1, <1>2, <1>3, <1>4, <1>5, <1>6, <1>7, <1>8, <1>9, <1>10 DEF Does, Moves

\* A correct allocator hands out a cell that is not out.
LEMMA Vacancy ==
    ASSUME Types, Counted, NEW k \in Worker, Alloc(k), NEW b \in Block, b.p \in Answers,
           heap' = [heap EXCEPT ![b.p] = @ + 1]
    PROVE  /\ b.p \in Cell /\ heap \in [Cell -> Int]
           /\ heap'[b.p] = heap[b.p] + 1
           /\ ~cfg.broken => heap[b.p] = 0
<1>1. b.p \in Cell
  BY DEF Block
<1> QED
  BY <1>1 DEF Types, Answers

LEMMA CountedAlloc ==
    ASSUME Types, Hands, Counted, NEW k \in Worker, Alloc(k)
    PROVE  Counted'
<1>1. PICK b \in Block :
         /\ b.p \in Answers
         /\ hand' = [hand EXCEPT ![k] = b] /\ heap' = [heap EXCEPT ![b.p] = @ + 1]
  BY AllocBlock
<1> DEFINE h == <<k, Hand>>
<1>2. /\ h \in Spot /\ Live(h)' /\ At(h)' = b /\ ~Live(h) /\ Spot' = Spot
      /\ \A l \in Spot : l # h => Live(l)' = Live(l) /\ At(l)' = At(l)
  BY <1>1, AllocSpots
<1>3. cfg' = cfg /\ Cell' = Cell
  BY DEF Alloc, Cell
<1>4. /\ b.p \in Cell /\ heap \in [Cell -> Int] /\ heap'[b.p] = heap[b.p] + 1
      /\ ~cfg.broken => heap[b.p] = 0
  BY <1>1, Vacancy
<1> HIDE DEF h
<1>5. ASSUME NEW p \in Cell
      PROVE  heap'[p] = Cardinality(Spots(p)') /\ (~cfg.broken => heap'[p] <= 1)
  <2>1. IsFiniteSet(Spots(p)) /\ heap[p] = Cardinality(Spots(p)) /\ (~cfg.broken => heap[p] <= 1)
        /\ h \notin Spots(p)
    BY <1>2, SpotsFinite DEF Types, Counted, Spots
  <2>2. CASE p = b.p
    <3>1. Spots(p)' = Spots(p) \cup {h}
      BY <1>2, <2>2 DEF Spots
    <3>2. Cardinality(Spots(p) \cup {h}) = Cardinality(Spots(p)) + 1
      BY <2>1, FS_AddElement
    <3> QED
      BY <1>4, <2>1, <2>2, <3>1, <3>2
  <2>3. CASE p # b.p
    <3>1. Spots(p)' = Spots(p)
      BY <1>2, <2>3 DEF Spots
    <3>2. heap'[p] = heap[p]
      BY <1>1, <1>4, <2>3
    <3> QED
      BY <2>1, <3>1, <3>2
  <2> QED
    BY <2>2, <2>3
<1> QED
  BY <1>3, <1>5 DEF Counted

LEMMA CountedStore ==
    ASSUME Types, Hands, InStep, Order, Counted, NEW k \in Worker, Store(k)
    PROVE  Counted'
<1>0. PICK x : x = Pos(k)
  OBVIOUS
<1> DEFINE h == <<k, Hand>>
           y == <<k, x>>
<1>1. /\ h \in Spot /\ y \in Spot /\ h # y /\ Spot' = Spot
      /\ Live(h) /\ ~Live(h)' /\ ~Live(y) /\ Live(y)' /\ At(h) = hand[k] /\ At(y)' = hand[k]
      /\ \A l \in Spot : l # h /\ l # y => Live(l)' = Live(l) /\ At(l)' = At(l)
  BY <1>0, StoreSpots
<1>2. cfg' = cfg /\ Cell' = Cell /\ heap' = heap
  BY DEF Store, Cell, allocator
<1> HIDE DEF h, y
<1>3. ASSUME NEW p \in Cell
      PROVE  Cardinality(Spots(p)') = Cardinality(Spots(p))
  <2>1. IsFiniteSet(Spots(p)) /\ Cardinality(Spots(p)) \in Nat
    BY SpotsFinite DEF Types
  <2>2. CASE hand[k].p = p
    <3>1. Spots(p)' = (Spots(p) \ {h}) \cup {y} /\ h \in Spots(p) /\ y \notin Spots(p) \ {h}
      BY <1>1, <2>2 DEF Spots
    <3>2. IsFiniteSet(Spots(p) \ {h}) /\ Cardinality(Spots(p) \ {h}) = Cardinality(Spots(p)) - 1
      BY <2>1, <3>1, FS_RemoveElement
    <3>3. Cardinality((Spots(p) \ {h}) \cup {y}) = Cardinality(Spots(p) \ {h}) + 1
      BY <3>1, <3>2, FS_AddElement
    <3> QED
      BY <2>1, <3>1, <3>2, <3>3
  <2>3. CASE hand[k].p # p
    BY <1>1, <2>3 DEF Spots
  <2> QED
    BY <2>2, <2>3
<1> QED
  BY <1>2, <1>3 DEF Counted

LEMMA CountedFree ==
    ASSUME Types, Hands, InStep, Order, Counted, NEW k \in Worker, Free(k)
    PROVE  Counted'
<1>0. PICK f : f = Front(k)
  OBVIOUS
<1>1. /\ f \in Spot /\ Live(f) /\ ~Live(f)' /\ At(f) = Given(k) /\ GivenCell(k) = {Given(k).p}
      /\ \A l \in Spot : At(l)' = At(l) /\ (l # f => Live(l)' = Live(l))
      /\ Spot' = Spot
  BY <1>0, FreeSpots
<1>2. /\ cfg' = cfg /\ Cell' = Cell
      /\ heap' = [p \in Cell |-> IF p \in GivenCell(k) THEN heap[p] - 1 ELSE heap[p]]
  BY DEF Free, Cell
<1>3. ASSUME NEW p \in Cell
      PROVE  heap'[p] = Cardinality(Spots(p)') /\ (~cfg.broken => heap'[p] <= 1)
  <2>1. IsFiniteSet(Spots(p)) /\ Cardinality(Spots(p)) \in Nat
    BY SpotsFinite DEF Types
  <2>2. heap[p] = Cardinality(Spots(p)) /\ (~cfg.broken => heap[p] <= 1)
    BY DEF Counted
  <2>3. CASE p = Given(k).p
    <3>1. Spots(p)' = Spots(p) \ {f} /\ f \in Spots(p)
      BY <1>1, <2>3 DEF Spots
    <3>2. Cardinality(Spots(p) \ {f}) = Cardinality(Spots(p)) - 1
      BY <2>1, <3>1, FS_RemoveElement
    <3>3. heap'[p] = heap[p] - 1
      BY <1>1, <1>2, <2>3
    <3> QED
      BY <2>1, <2>2, <3>1, <3>2, <3>3
  <2>4. CASE p # Given(k).p
    <3>1. Spots(p)' = Spots(p)
      BY <1>1, <2>4 DEF Spots
    <3>2. heap'[p] = heap[p]
      BY <1>1, <1>2, <2>4
    <3> QED
      BY <2>2, <3>1, <3>2
  <2> QED
    BY <2>3, <2>4
<1> QED
  BY <1>2, <1>3 DEF Counted

LEMMA CountedStep ==
    ASSUME Types, Hands, InStep, Order, Counted, Once, NEW k \in Worker, Does(k)
    PROVE  Counted' /\ Once'
<1>1. cfg' = cfg /\ Cell' = Cell
  BY SameConfig DEF Cell
<1>2. Counted'
  <2>1. CASE GiveDone(k)
    <3>1. \A l \in Spot : Live(l)' = Live(l) /\ (Live(l) => At(l)' = At(l))
      BY <2>1, GiveDoneSpots
    <3>2. Spot' = Spot
      BY <2>1, GiveDoneSpots
    <3>3. \A p : Spots(p)' = Spots(p)
      BY <3>1, <3>2 DEF Spots
    <3>4. heap' = heap
      BY <2>1 DEF GiveDone, allocator
    <3> QED
      BY <1>1, <3>3, <3>4 DEF Counted
  <2>2. CASE ~Moves(k)
    <3>1. UNCHANGED <<hand, store, heap>> /\ ~Emptying(k) /\ ~Emptying(k)'
      BY <2>2, Quiet
    <3>2. \A p : Spots(p)' = Spots(p)
      BY <3>1, SameSpots
    <3> QED
      BY <1>1, <3>1, <3>2 DEF Counted
  <2> QED
    BY <2>1, <2>2, CountedAlloc, CountedStore, CountedFree DEF Moves
<1>3. Once'
  <2>1. CASE Alloc(k)
    <3>1. PICK b \in Block :
             /\ b.p \in Answers /\ heap' = [heap EXCEPT ![b.p] = @ + 1]
             /\ twice' = (twice \/ heap[b.p] > 0)
      BY <2>1, AllocBlock
    <3>2. ~cfg.broken => ~(heap[b.p] > 0)
      <4>1. ~cfg.broken => heap[b.p] = 0
        BY <2>1, <3>1, Vacancy
      <4> QED
        BY <4>1
    <3> QED
      BY <1>1, <3>1, <3>2 DEF Once
  <2>2. CASE ~Alloc(k)
    <3>1. twice' = twice
      <4>1. Store(k) \/ Free(k) \/ GiveDone(k) \/ ~Moves(k)
        BY <2>2 DEF Moves
      <4> QED
        BY <4>1, Quiet DEF Store, Free, GiveDone, allocator
    <3> QED
      BY <1>1, <3>1 DEF Once
  <2> QED
    BY <2>1, <2>2
<1> QED
  BY <1>2, <1>3

\* Over a correct allocator a cell is in one place at a time.
LEMMA OnePlace ==
    ASSUME Types, Counted, ~cfg.broken, NEW l \in Spot, NEW m \in Spot,
           Live(l), Live(m), At(l).p = At(m).p, At(l).p \in Cell
    PROVE  l = m
<1> DEFINE p == At(l).p
           s == Spots(p)
<1>1. l \in s /\ m \in s
  BY DEF Spots
<1>2. IsFiniteSet(s) /\ Cardinality(s) \in Nat /\ Cardinality(s) <= 1
  BY SpotsFinite DEF Types, Counted
<1> HIDE DEF s
<1>3. IsFiniteSet(s \ {l}) /\ Cardinality(s \ {l}) = Cardinality(s) - 1
  BY <1>1, <1>2, FS_RemoveElement
<1>4. Cardinality(s \ {l}) \in Nat
  BY <1>3, FS_CardinalityType
<1>5. Cardinality(s \ {l}) = 0
  BY <1>2, <1>3, <1>4
<1>6. s \ {l} = {}
  BY <1>3, <1>5, FS_EmptySet
<1> QED
  BY <1>1, <1>6

\* What a live place holds is a block.
LEMMA LiveBlock ==
    ASSUME Types, NEW l \in Spot, Live(l)
    PROVE  At(l) \in Block /\ At(l).p \in Cell
<1>1. At(l) \in Block \cup {Null} /\ At(l) # Null
  BY DEF Types, Live, At, Spot
<1> QED
  BY <1>1 DEF Block

-----------------------------------------------------------------------------
(* The registry and the stamps.                                              *)

\* Which marks of a place a step can change.
LEMMA Marks ==
    ASSUME Types, NEW k \in Worker, Does(k), NEW l \in Spot
    PROVE  /\ Erased(l)' => Erased(l) \/ (pc'[k] = "free" /\ \E f : f = Front(k)' /\ l = f)
           /\ Fresh(l)' => Fresh(l) \/ (pc'[k] = "insert" /\ l = <<k, Hand>>)
           /\ Blank(l) => Blank(l)' \/ (pc[k] \in {"insert", "fill"} /\ l = <<k, Hand>>)
<1>1. cfg' = cfg /\ Worker' = Worker
  BY SameConfig DEF Worker
<1>2. \A m \in Worker \ {k} : Untouched(m)
  BY OnlyOne
<1>3. \A m \in Worker \ {k} : pc'[m] = pc[m] /\ Front(m)' = Front(m)
  BY <1>1, <1>2 DEF Untouched, Front, Victim, Pos, Slots
<1>4. l = <<l[1], l[2]>> /\ l[1] \in Worker
  BY DEF Spot
<1>5. Erased(l)' => Erased(l) \/ (pc'[k] = "free" /\ \E f : f = Front(k)' /\ l = f)
  <2> SUFFICES ASSUME NEW m \in Worker, pc'[m] = "free", l = Front(m)'
               PROVE  Erased(l) \/ (pc'[k] = "free" /\ \E f : f = Front(k)' /\ l = f)
    BY <1>1 DEF Erased
  <2>1. CASE m = k
    BY <2>1
  <2>2. CASE m # k
    <3>1. pc[m] = "free" /\ l = Front(m)
      BY <1>3, <2>2
    <3> QED
      BY <3>1 DEF Erased
  <2> QED
    BY <2>1, <2>2
<1>6. Fresh(l)' => Fresh(l) \/ (pc'[k] = "insert" /\ l = <<k, Hand>>)
  BY <1>3, <1>4 DEF Fresh
<1>7. Blank(l) => Blank(l)' \/ (pc[k] \in {"insert", "fill"} /\ l = <<k, Hand>>)
  BY <1>3, <1>4 DEF Blank
<1> QED
  BY <1>5, <1>6, <1>7

\* How a worker comes to unregister a block, to free one, and to take one.
LEMMA Comes ==
    ASSUME Types, Hands, Order, NEW k \in Worker, Does(k)
    PROVE  /\ pc'[k] = "insert" => Alloc(k)
           /\ cfg.program = "check" /\ pc'[k] = "free" => Erase(k)
           /\ cfg.program = "boundary" /\ Taking(k)' => Taking(k)
<1> USE DEF Goto, Taking
<1>0. pc \in [Worker -> Pc] /\ round \in [Worker -> Nat] /\ cfg.rounds \in Nat \ {0}
      /\ (cfg.program = "boundary" => cfg.rounds = 1 /\ cfg.pattern = "bulk")
  BY Config DEF Types
<1>1. Alloc(k) => pc'[k] # "free" \/ cfg.program = "bench"
  BY <1>0 DEF Alloc
<1>2. Insert(k) => pc'[k] = "fill"
  BY <1>0 DEF Insert
<1>3. Fill(k) => pc'[k] \in {"store", "check", "free"} /\ (cfg.program = "check" => pc'[k] # "free")
  BY <1>0 DEF Fill, Taken, FirstGive
<1>4. Store(k) => pc'[k] \in {"alloc", "next", "load"}
  BY <1>0 DEF Store, AfterTaking
<1>5. NextGive(k) => /\ pc'[k] \in {"next", "check", "free", "load", "alloc", "clock", "done"}
                     /\ cfg.program = "check" => pc'[k] # "free"
                     /\ cfg.program = "boundary" => pc'[k] # "alloc"
  <2>1. EndRound(k) => /\ pc'[k] \in {"alloc", "clock", "done"}
                       /\ cfg.program = "boundary" => pc'[k] # "alloc"
    BY <1>0 DEF EndRound
  <2> QED
    BY <1>0, <2>1 DEF NextGive, FirstGive, loops
<1>6. Check(k) => pc'[k] \in {"given", "erase"}
  BY <1>0 DEF Check, Afterwards
<1>7. Erase(k) => pc'[k] = "free"
  BY <1>0 DEF Erase, Afterwards
<1>8. Free(k) => pc'[k] = "given"
  BY <1>0 DEF Free, Afterwards
<1>9. GiveDone(k) => pc'[k] \in {"store", "next"} /\ (cfg.program = "boundary" => pc'[k] = "next")
  <2>1. ASSUME GiveDone(k), cfg.program = "boundary"
        PROVE  hand[k] = Null
    BY <1>0, <2>1 DEF GiveDone, Order, Halves, HalvesOK, Giving
  <2> QED
    BY <1>0, <2>1 DEF GiveDone
<1>10. Load(k) \/ Arrive(k) \/ Spin(k) => pc'[k] \in {"arrive", "spin", "next", "alloc", "clock", "done"}
  BY <1>0 DEF Load, Arrive, Spin, Leave, EndRound
<1>11. Clock(k) \/ AddTime(k) => pc'[k] \in {"add", "done"}
  BY <1>0 DEF Clock, AddTime
<1>12. pc'[k] = "insert" => Alloc(k)
  BY <1>2, <1>3, <1>4, <1>5, <1>6, <1>7, <1>8, <1>9, <1>10, <1>11 DEF Does
<1>13. cfg.program = "check" /\ pc'[k] = "free" => Erase(k)
  BY <1>1, <1>2, <1>3, <1>4, <1>5, <1>6, <1>8, <1>9, <1>10, <1>11 DEF Does
<1>14. cfg.program = "boundary" /\ Taking(k)' => Taking(k)
  <2>1. Alloc(k) \/ Insert(k) \/ Fill(k) \/ Store(k) => Taking(k)
    BY DEF Alloc, Insert, Fill, Store
  <2> QED
    BY <2>1, <1>5, <1>6, <1>8, <1>9 DEF Does
<1> QED
  BY <1>12, <1>13, <1>14

\* A place whose block has been checked.
Checked(l) == \E m \in Worker : pc[m] \in {"erase", "free", "given"} /\ l = Front(m)

\* A slot a worker stores in is not one that is being given back.
LEMMA NotErased ==
    ASSUME Types, InStep, Order, NEW k \in Worker, pc[k] = "store", NEW x, x = Pos(k)
    PROVE  ~Checked(<<k, x>>) /\ ~Erased(<<k, x>>)
<1> SUFFICES ASSUME NEW m \in Worker, pc[m] \in {"erase", "free", "given"}, <<k, x>> = Front(m)
             PROVE  FALSE
  BY DEF Erased, Checked
<1>1. Victim(m) = k /\ Giving(m) /\ Taking(k) /\ m # k
  BY Fronts DEF Giving, Taking
<1>2. cfg.pattern = "cross"
  BY <1>1, Neighbour DEF Types
<1> QED
  BY <1>1, <1>2, Phases DEF Order

\* The place of a registered cell, after a step.
Holds(l, p) == l \in Spots(p) /\ ~Fresh(l) /\ ~Erased(l)

LEMMA HoldsAlloc ==
    ASSUME Types, Hands, InStep, Order, NEW k \in Worker, Alloc(k), pc'[k] # "free",
           NEW p, NEW l \in Spot, Holds(l, p)
    PROVE  l \in Spot' /\ Holds(l, p)'
<1>0. Does(k)
  BY DEF Does
<1>1. PICK b \in Block : hand' = [hand EXCEPT ![k] = b]
  BY AllocBlock
<1>2. l # <<k, Hand>> /\ Live(l)' = Live(l) /\ At(l)' = At(l) /\ Spot' = Spot
  BY <1>1, AllocSpots DEF Holds, Spots
<1>3. ~Fresh(l)' /\ ~Erased(l)'
  BY <1>0, <1>2, Marks DEF Holds
<1> QED
  BY <1>2, <1>3 DEF Holds, Spots

LEMMA HoldsStore ==
    ASSUME Types, Hands, InStep, Order, NEW k \in Worker, Store(k),
           NEW p, NEW l \in Spot, Holds(l, p)
    PROVE  \E m \in Spot' : Holds(m, p)'
<1>0. PICK x : x = Pos(k)
  OBVIOUS
<1>a. Does(k) /\ pc[k] = "store"
  BY DEF Does, Store
<1>b. pc'[k] # "free" /\ pc'[k] # "insert"
  BY <1>a DEF Store, Goto, AfterTaking, Types
<1> DEFINE h == <<k, Hand>>
           y == <<k, x>>
<1>1. /\ h \in Spot /\ y \in Spot /\ h # y /\ Spot' = Spot
      /\ Live(h) /\ ~Live(h)' /\ ~Live(y) /\ Live(y)' /\ At(h) = hand[k] /\ At(y)' = hand[k]
      /\ \A m \in Spot : m # h /\ m # y => Live(m)' = Live(m) /\ At(m)' = At(m)
  BY <1>0, StoreSpots
<1>2. Live(l) /\ At(l).p = p /\ ~Fresh(l) /\ ~Erased(l)
  BY DEF Holds, Spots
<1>3. CASE l = h
  <2>1. x # Hand
    BY <1>0, Fronts
  <2>2. ~Fresh(y) /\ ~Erased(y)
    BY <1>0, <1>a, <2>1, NotErased DEF Fresh
  <2>3. ~Fresh(y)' /\ ~Erased(y)'
    BY <1>a, <1>b, <1>1, <2>2, Marks
  <2> HIDE DEF h, y
  <2>4. Holds(y, p)'
    BY <1>1, <1>2, <1>3, <2>3 DEF Holds, Spots
  <2> QED
    BY <1>1, <2>4
<1>4. CASE l # h
  <2>1. ~Fresh(l)' /\ ~Erased(l)'
    BY <1>a, <1>b, <1>2, Marks
  <2> HIDE DEF h, y
  <2>2. Holds(l, p)'
    BY <1>1, <1>2, <1>4, <2>1 DEF Holds, Spots
  <2> QED
    BY <1>1, <2>2
<1> QED
  BY <1>3, <1>4

LEMMA HoldsFree ==
    ASSUME Types, Hands, InStep, Order, NEW k \in Worker, Free(k),
           NEW p, NEW l \in Spot, Holds(l, p)
    PROVE  l \in Spot' /\ Holds(l, p)'
<1>0. PICK f : f = Front(k)
  OBVIOUS
<1>1. Does(k) /\ pc[k] = "free" /\ pc'[k] = "given"
  BY DEF Does, Free, Goto, Afterwards, Types
<1>2. l # f
  BY <1>0, <1>1 DEF Holds, Erased
<1>3. Live(l)' = Live(l) /\ At(l)' = At(l) /\ Spot' = Spot
  BY <1>0, <1>2, FreeSpots
<1>4. ~Fresh(l)' /\ ~Erased(l)'
  BY <1>1, Marks DEF Holds
<1> QED
  BY <1>3, <1>4 DEF Holds, Spots

LEMMA HoldsGiveDone ==
    ASSUME Types, Hands, InStep, Order, NEW k \in Worker, GiveDone(k),
           NEW p, NEW l \in Spot, Holds(l, p)
    PROVE  l \in Spot' /\ Holds(l, p)'
<1>1. Does(k) /\ pc[k] = "given" /\ pc'[k] \in {"store", "next"}
  BY DEF Does, GiveDone, Goto, Types
<1>2. Live(l)' = Live(l) /\ (Live(l) => At(l)' = At(l)) /\ Spot' = Spot
  BY GiveDoneSpots
<1>3. ~Fresh(l)' /\ ~Erased(l)'
  BY <1>1, Marks DEF Holds
<1> QED
  BY <1>2, <1>3 DEF Holds, Spots

LEMMA HoldsQuiet ==
    ASSUME Types, Hands, InStep, Order, NEW k \in Worker, Does(k), ~Moves(k),
           NEW p, NEW l \in Spot, Holds(l, p),
           pc'[k] = "free" => Erase(k) /\ p \notin GivenCell(k)
    PROVE  l \in Spot' /\ Holds(l, p)'
<1>1. UNCHANGED <<hand, store>> /\ ~Emptying(k) /\ ~Emptying(k)'
  BY Quiet
<1>2. Live(l)' = Live(l) /\ At(l)' = At(l)
  BY <1>1, SameSpots
<1>3. Spot' = Spot
  BY SameConfig DEF Spot, Worker, Slots
<1>4. ~Fresh(l)'
  <2>1. pc'[k] # "insert"
    BY Comes DEF Moves
  <2> QED
    BY <2>1, Marks DEF Holds
<1>5. ~Erased(l)'
  <2>1. CASE pc'[k] # "free"
    BY <2>1, Marks DEF Holds
  <2>2. CASE pc'[k] = "free"
    <3>1. Erase(k) /\ p \notin GivenCell(k)
      BY <2>2
    <3>2. Front(k)' = Front(k)
      BY <3>1, SameConfig DEF Erase, loops, Front, Victim, Pos, Slots
    <3>3. l # Front(k)
      <4> SUFFICES ASSUME l = Front(k)
                   PROVE  FALSE
        OBVIOUS
      <4>1. At(l) = Given(k) /\ At(l) # Null /\ At(l).p = p
        BY Fronts DEF Holds, Spots, Live
      <4> QED
        BY <3>1, <4>1 DEF GivenCell
    <3>4. ~(\E f : f = Front(k)' /\ l = f)
      BY <3>2, <3>3
    <3> QED
      BY <3>4, Marks DEF Holds
  <2> QED
    BY <2>1, <2>2
<1> QED
  BY <1>2, <1>3, <1>4, <1>5 DEF Holds, Spots

\* What the registry is after a step.
LEMMA RegistryStep ==
    ASSUME NEW k \in Worker, Does(k), NEW p \in registry'
    PROVE  /\ p \in registry \/ (Insert(k) /\ p = hand[k].p)
           /\ Erase(k) => p \notin GivenCell(k)
<1> QED
  BY DEF Does, Alloc, Insert, Fill, Store, NextGive, Check, Erase, Free, GiveDone, Load, Arrive, Spin,
         Clock, AddTime, checks

LEMMA RegisteredStep ==
    ASSUME Types, Hands, InStep, Order, Registered, NEW k \in Worker, Does(k)
    PROVE  Registered'
<1>1. cfg' = cfg /\ Worker' = Worker /\ Spot' = Spot
  BY SameConfig DEF Worker, Spot, Slots
<1>2. cfg.program = "bench" => registry' = {}
  <2>1. cfg.program = "bench" => ~Insert(k)
    BY DEF Order, Halves, HalvesOK, Insert
  <2> QED
    BY <2>1, RegistryStep DEF Registered
<1>3. ASSUME cfg.program # "bench", cfg.program = "check" \/ (\A m \in Worker : Taking(m)'),
             NEW p \in registry'
      PROVE  \E l \in Spot : Holds(l, p)'
  <2>1. cfg.program = "check" \/ (cfg.program = "boundary" /\ Taking(k)' /\ \A m \in Worker : Taking(m))
    <3>1. cfg.program \in {"check", "boundary"}
      BY <1>3, Config DEF Types
    <3>2. \A m \in Worker \ {k} : Taking(m)' = Taking(m)
      BY OnlyOne DEF Untouched, Taking
    <3> QED
      BY <1>3, <3>1, <3>2, Comes
  <2>2. pc'[k] = "free" => Erase(k)
    BY <2>1, Comes DEF Taking
  <2>3. CASE p \in registry
    <3>1. PICK l \in Spot : Holds(l, p)
      BY <2>1, <2>3 DEF Registered, Holds
    <3>2. CASE Alloc(k)
      <4>1. ~Erase(k)
        BY <3>2 DEF Alloc, Erase
      <4> QED
        BY <1>1, <2>2, <3>1, <3>2, <4>1, HoldsAlloc
    <3>3. CASE Store(k)
      BY <1>1, <3>1, <3>3, HoldsStore
    <3>4. CASE Free(k)
      BY <1>1, <3>1, <3>4, HoldsFree
    <3>5. CASE GiveDone(k)
      BY <1>1, <3>1, <3>5, HoldsGiveDone
    <3>6. CASE ~Moves(k)
      <4>1. pc'[k] = "free" => Erase(k) /\ p \notin GivenCell(k)
        BY <1>3, <2>2, RegistryStep
      <4> QED
        BY <1>1, <3>1, <3>6, <4>1, HoldsQuiet
    <3> QED
      BY <3>2, <3>3, <3>4, <3>5, <3>6 DEF Moves
  <2>4. CASE Insert(k) /\ p = hand[k].p
    <3> DEFINE h == <<k, Hand>>
    <3>1. h \in Spot /\ At(h) = hand[k] /\ ~Stale(h)
      BY HandFresh
    <3>2. pc[k] = "insert" /\ pc'[k] = "fill" /\ hand[k] # Null
      BY <2>4 DEF Insert, Goto, Types, Hands, HandsOK
    <3>3. ~Moves(k)
      BY <3>2 DEF Moves, Alloc, Store, Free, GiveDone
    <3>4. Live(h)' = Live(h) /\ At(h)' = At(h)
      BY <3>1, <3>3, Quiet, SameSpots
    <3>5. ~Erased(h)
      BY Fronts DEF Erased
    <3>6. ~Erased(h)'
      BY <3>1, <3>2, <3>5, Marks
    <3>7. ~Fresh(h)'
      BY <3>2 DEF Fresh
    <3>8. Holds(h, p)'
      BY <1>1, <2>4, <3>1, <3>2, <3>4, <3>6, <3>7 DEF Holds, Spots, Live
    <3> QED
      BY <3>1, <3>8
  <2> QED
    BY <1>3, <2>3, <2>4, RegistryStep
<1> QED
  BY <1>1, <1>2, <1>3 DEF Registered, Holds

LEMMA StampedStep ==
    ASSUME Types, Hands, InStep, Order, Counted, Stamped, NEW k \in Worker, Does(k)
    PROVE  Stamped'
<1>1. cfg' = cfg /\ Worker' = Worker /\ Spot' = Spot
  BY SameConfig DEF Worker, Spot, Slots
<1> SUFFICES ASSUME ~cfg.broken, cfg.program # "bench", NEW l \in Spot, Live(l)', ~Blank(l)'
             PROVE  mem'[At(l)'.p] = At(l)'.tag
  BY <1>1 DEF Stamped
<1>2. \A m \in Spot : Live(m) /\ ~Blank(m) => mem[At(m).p] = At(m).tag
  BY DEF Stamped
<1>3. pc \in [Worker -> Pc] /\ mem \in [Cell -> Tags \cup {Null}]
  BY DEF Types
<1> DEFINE h == <<k, Hand>>
<1>4. CASE Alloc(k)
  <2>1. PICK b \in Block : hand' = [hand EXCEPT ![k] = b]
    BY <1>4, AllocBlock
  <2>2. l # h
    <3>1. pc'[k] = "insert"
      BY <1>3, <1>4 DEF Alloc, Goto
    <3> QED
      BY <3>1 DEF Blank
  <2>3. Live(l) /\ At(l)' = At(l)
    BY <1>4, <2>1, <2>2, AllocSpots
  <2>4. ~Blank(l)
    BY <2>2, Marks
  <2>5. mem' = mem
    BY <1>4 DEF Alloc, checks
  <2> QED
    BY <1>2, <2>3, <2>4, <2>5
<1>5. CASE Store(k)
  <2>0. PICK x : x = Pos(k)
    OBVIOUS
  <2> DEFINE y == <<k, x>>
  <2>1. /\ h \in Spot /\ y \in Spot /\ h # y
        /\ Live(h) /\ ~Live(h)' /\ ~Live(y) /\ Live(y)' /\ At(h) = hand[k] /\ At(y)' = hand[k]
        /\ \A m \in Spot : m # h /\ m # y => Live(m)' = Live(m) /\ At(m)' = At(m)
    BY <1>5, <2>0, StoreSpots
  <2>2. mem' = mem /\ pc[k] = "store"
    BY <1>5 DEF Store, checks
  <2>3. ~Blank(h)
    BY <2>2 DEF Blank
  <2>4. CASE l = y
    BY <1>2, <2>1, <2>2, <2>3, <2>4
  <2>5. CASE l # y
    <3>1. l # h
      BY <2>1
    <3>2. ~Blank(l)
      BY <3>1, Marks
    <3> QED
      BY <1>2, <2>1, <2>2, <2>5, <3>1, <3>2
  <2> QED
    BY <2>4, <2>5
<1>6. CASE Free(k)
  <2>0. PICK f : f = Front(k)
    OBVIOUS
  <2>1. /\ f \in Spot /\ Live(f) /\ ~Live(f)' /\ At(f) = Given(k)
        /\ GivenCell(k) = {Given(k).p}
        /\ \A m \in Spot : At(m)' = At(m) /\ (m # f => Live(m)' = Live(m))
    BY <1>6, <2>0, FreeSpots
  <2>2. l # f /\ Live(l) /\ At(l)' = At(l)
    BY <2>1
  <2>3. ~Blank(l)
    <3>1. pc[k] = "free"
      BY <1>6 DEF Free
    <3> QED
      BY <3>1, Marks
  <2>4. At(l).p \in Cell /\ At(l).p # Given(k).p
    BY <2>1, <2>2, LiveBlock, OnePlace
  <2>5. mem'[At(l).p] = mem[At(l).p]
    BY <1>6, <2>1, <2>4 DEF Free
  <2> QED
    BY <1>2, <2>2, <2>3, <2>5
<1>7. CASE GiveDone(k)
  <2>1. Live(l) /\ At(l)' = At(l)
    BY <1>7, GiveDoneSpots
  <2>2. ~Blank(l) /\ mem' = mem
    BY <1>7, Marks DEF GiveDone, checks
  <2> QED
    BY <1>2, <2>1, <2>2
<1>8. CASE ~Moves(k)
  <2>1. Live(l) /\ At(l)' = At(l) /\ hand' = hand
    BY <1>8, Quiet, SameSpots
  <2>2. CASE Fill(k)
    <3>1. /\ h \in Spot /\ At(h) = hand[k] /\ ~Stale(h) /\ hand[k] # Null
          /\ mem' = [mem EXCEPT ![hand[k].p] = hand[k].tag]
      BY <2>2, HandFresh DEF Fill, Hands, HandsOK
    <3>2. Live(h) /\ hand[k].p \in Cell
      BY <3>1, LiveBlock DEF Live
    <3>3. CASE l = h
      BY <1>3, <2>1, <3>1, <3>2, <3>3
    <3>4. CASE l # h
      <4>1. At(l).p \in Cell /\ At(l).p # hand[k].p
        BY <2>1, <3>1, <3>2, <3>4, LiveBlock, OnePlace
      <4>2. ~Blank(l)
        BY <3>4, Marks
      <4> QED
        BY <1>2, <1>3, <2>1, <3>1, <4>1, <4>2
    <3> QED
      BY <3>3, <3>4
  <2>3. CASE ~Fill(k)
    <3>1. mem' = mem
      BY <1>8, <2>3 DEF Does, Moves, Insert, NextGive, Check, Erase, Load, Arrive, Spin, Clock, AddTime, checks
    <3>2. ~Blank(l)
      <4>1. CASE Insert(k)
        <5>1. pc'[k] = "fill"
          BY <1>3, <4>1 DEF Insert, Goto
        <5>2. l # h
          BY <5>1 DEF Blank
        <5> QED
          BY <5>2, Marks
      <4>2. CASE ~Insert(k)
        <5>1. pc[k] \notin {"insert", "fill"}
          BY <1>8, <2>3, <4>2 DEF Does, Moves, NextGive, Check, Erase, Load, Arrive, Spin, Clock, AddTime
        <5> QED
          BY <5>1, Marks
      <4> QED
        BY <4>1, <4>2
    <3> QED
      BY <1>2, <2>1, <3>1, <3>2
  <2> QED
    BY <2>2, <2>3
<1> QED
  BY <1>4, <1>5, <1>6, <1>7, <1>8 DEF Moves

-----------------------------------------------------------------------------
(* What the invariant implies.                                               *)

\* A worker that gives a block back gives a live one.
LEMMA GivenLive ==
    ASSUME Types, Order, NEW k \in Worker, pc[k] \in {"check", "erase", "free"}
    PROVE  /\ Front(k) \in Spot /\ Live(Front(k)) /\ At(Front(k)) = Given(k)
           /\ Given(k) \in Block /\ Given(k) # Null /\ GivenCell(k) = {Given(k).p}
<1>1. Given(k) # Null
  BY DEF Order, Present, PresentOK, Busy
<1>2. Given(k) \in Block /\ GivenCell(k) = {Given(k).p}
  BY <1>1, GivenType DEF GivenCell
<1>3. Front(k) \in Spot /\ At(Front(k)) = Given(k)
  BY Fronts
<1>4. ~Stale(Front(k))
  <2> SUFFICES ASSUME NEW m \in Worker, Emptying(m), Front(k) = Front(m)
               PROVE  FALSE
    BY DEF Stale
  <2>1. m = k
    BY Fronts
  <2> QED
    BY <2>1 DEF Emptying
<1> QED
  BY <1>1, <1>2, <1>3, <1>4 DEF Live

LEMMA AlarmStep ==
    ASSUME Types, Hands, InStep, Order, Counted, Registered, Stamped, NoFalseAlarm,
           NEW k \in Worker, Does(k)
    PROVE  NoFalseAlarm'
<1>1. cfg' = cfg
  BY SameConfig
<1> SUFFICES ASSUME ~cfg.broken
             PROVE  ~duplicate' /\ ~corrupted'
  BY <1>1 DEF NoFalseAlarm
<1>2. ~duplicate /\ ~corrupted
  BY DEF NoFalseAlarm
<1>3. CASE Insert(k)
  <2> DEFINE h == <<k, Hand>>
  <2>1. /\ h \in Spot /\ At(h) = hand[k] /\ ~Stale(h) /\ hand[k] # Null /\ pc[k] = "insert"
    BY <1>3, HandFresh DEF Insert, Hands, HandsOK
  <2>2. Live(h) /\ hand[k].p \in Cell
    BY <2>1, LiveBlock DEF Live
  <2>3. hand[k].p \notin registry
    <3>1. cfg.program = "check" \/ (\A m \in Worker : Taking(m))
      <4>1. cfg.program = "check" \/ (cfg.program = "boundary" /\ cfg.nworks = 1)
        BY <2>1, Config DEF Types, Order, Halves, HalvesOK
      <4>2. cfg.nworks = 1 => \A m \in Worker : m = k
        BY DEF Worker
      <4>3. Taking(k)
        BY <2>1 DEF Taking
      <4> QED
        BY <4>1, <4>2, <4>3
    <3> SUFFICES ASSUME hand[k].p \in registry
                 PROVE  FALSE
      OBVIOUS
    <3>2. PICK l \in Spot : l \in Spots(hand[k].p) /\ ~Fresh(l)
      BY <3>1 DEF Registered
    <3>3. l = h
      BY <2>1, <2>2, <3>2, OnePlace DEF Spots
    <3> QED
      BY <2>1, <3>2, <3>3 DEF Fresh
  <2> QED
    BY <1>2, <1>3, <2>3 DEF Insert
<1>4. CASE Check(k)
  <2>0. PICK f : f = Front(k)
    OBVIOUS
  <2>1. /\ f \in Spot /\ Live(f) /\ At(f) = Given(k) /\ GivenCell(k) = {Given(k).p}
        /\ pc[k] = "check" /\ cfg.program # "bench"
    BY <1>4, <2>0, GivenLive DEF Check, Order, Halves, HalvesOK
  <2>2. ~Blank(f)
    BY <2>0, Fronts DEF Blank, Front
  <2>3. mem[Given(k).p] = Given(k).tag
    BY <2>1, <2>2 DEF Stamped
  <2> QED
    BY <1>2, <1>4, <2>1, <2>3 DEF Check
<1>5. CASE ~Insert(k) /\ ~Check(k)
  <2>1. duplicate' = duplicate /\ corrupted' = corrupted
    BY <1>5 DEF Does, Alloc, Fill, Store, NextGive, Erase, Free, GiveDone, Load, Arrive, Spin,
                Clock, AddTime, checks
  <2> QED
    BY <1>2, <2>1
<1> QED
  BY <1>3, <1>4, <1>5

LEMMA LiveFrees ==
    ASSUME Types, Order, Counted
    PROVE  FreesLive
<1> SUFFICES ASSUME ~cfg.broken, NEW k \in Worker, pc[k] \in {"check", "erase", "free"}
             PROVE  /\ Given(k) # Null
                    /\ \A p \in GivenCell(k) : heap[p] > 0
                    /\ \A m \in Worker \ {k} :
                          pc[m] \in {"check", "erase", "free"} => GivenCell(m) \cap GivenCell(k) = {}
  BY DEF FreesLive
<1>1. /\ Front(k) \in Spot /\ Live(Front(k)) /\ At(Front(k)) = Given(k)
      /\ Given(k) # Null /\ GivenCell(k) = {Given(k).p} /\ Given(k).p \in Cell
  BY GivenLive, LiveBlock
<1>2. \A p \in GivenCell(k) : heap[p] > 0
  <2> DEFINE p == Given(k).p
  <2>1. Front(k) \in Spots(p)
    BY <1>1 DEF Spots
  <2>2. IsFiniteSet(Spots(p)) /\ Cardinality(Spots(p)) \in Nat /\ heap[p] = Cardinality(Spots(p))
    BY <1>1, SpotsFinite DEF Types, Counted
  <2>3. Cardinality(Spots(p)) # 0
    BY <2>1, <2>2, FS_EmptySet
  <2> QED
    BY <1>1, <2>2, <2>3
<1>3. ASSUME NEW m \in Worker \ {k}, pc[m] \in {"check", "erase", "free"}
      PROVE  GivenCell(m) \cap GivenCell(k) = {}
  <2>1. /\ Front(m) \in Spot /\ Live(Front(m)) /\ At(Front(m)) = Given(m)
        /\ GivenCell(m) = {Given(m).p}
    BY <1>3, GivenLive
  <2>2. Front(m) # Front(k)
    BY Fronts
  <2>3. Given(m).p # Given(k).p
    BY <1>1, <2>1, <2>2, OnePlace
  <2> QED
    BY <1>1, <2>1, <2>3
<1> QED
  BY <1>1, <1>2, <1>3

LEMMA Returned ==
    ASSUME Types, Hands, Order, Counted, Registered
    PROVE  AllReturned
<1> SUFFICES ASSUME Done
             PROVE  /\ \A p \in Cell : heap[p] = 0
                    /\ cfg.program = "check" => registry = {}
  BY DEF AllReturned
<1>1. \A k \in Worker : pc[k] = "done" /\ hand[k] = Null /\ Empty(k)
  BY DEF Done, Hands, HandsOK, Taking, Giving, Order, Vacant, VacantOK
<1>2. \A l \in Spot : At(l) = Null
  BY <1>1 DEF Spot, At, Empty
<1>3. \A p : Spots(p) = {}
  BY <1>2 DEF Spots, Live
<1>4. \A p \in Cell : heap[p] = 0
  BY <1>3, FS_EmptySet DEF Counted
<1>5. cfg.program = "check" => registry = {}
  BY <1>3 DEF Registered
<1> QED
  BY <1>4, <1>5

LEMMA Separate ==
    ASSUME Types, InStep, Order
    PROVE  PhasesApart
BY Phases DEF PhasesApart, Order

-----------------------------------------------------------------------------
(* Where it starts.                                                          *)

LEMMA InitInStep ==
    ASSUME Init
    PROVE  InStep
<1>1. /\ cfg \in Configs /\ cfg.nworks \in Nat \ {0} /\ barrier = 0
      /\ \A k \in Worker : pc[k] = "alloc" /\ round[k] = 0 /\ half[k] = 1
  BY Config DEF Init
<1>2. Now = 0
  <2>1. 0 = cfg.nworks * 0 + 0
    BY <1>1
  <2> QED
    BY <1>1, <2>1, Generations DEF Now
<1>3. Arrived = {}
  BY <1>1 DEF Arrived
<1>4. Cardinality(Arrived) = 0
  BY <1>3, FS_EmptySet
<1>5. \A k \in Worker : Passed(k) = 0
  BY <1>1 DEF Passed
<1> QED
  BY <1>1, <1>2, <1>4, <1>5 DEF InStep

LEMMA InitRest ==
    ASSUME Init
    PROVE  Order /\ Counted /\ Once /\ Registered /\ Stamped /\ NoFalseAlarm
<1>0. Types
  BY InitTypes
<1>1. \A k \in Worker : /\ pc[k] = "alloc" /\ half[k] = 1 /\ i[k] = 0 /\ hand[k] = Null
                        /\ Empty(k)
  BY DEF Init, Empty
<1>2. 0 \in Slots
  BY <1>0, Config DEF Types, Slots
<1>3. Order
  BY <1>1, <1>2 DEF Order, Halves, HalvesOK, Vacant, VacantOK, Present, PresentOK, Busy, Taking, Giving,
                    Waiting, Empty
<1>4. \A l \in Spot : At(l) = Null
  BY <1>1 DEF Spot, At, Empty
<1>5. \A p : Spots(p) = {}
  BY <1>4 DEF Spots, Live
<1>6. Counted
  <2>1. \A p \in Cell : heap[p] = 0
    BY DEF Init
  <2> QED
    BY <1>5, <2>1, FS_EmptySet DEF Counted
<1>7. Stamped
  BY <1>4 DEF Stamped, Live
<1>8. Registered
  BY DEF Init, Registered
<1> QED
  BY <1>3, <1>6, <1>7, <1>8 DEF Once, NoFalseAlarm, Init

-----------------------------------------------------------------------------
(* The sum of a function.                                                    *)

\* The element FoldFunction takes next.
Chosen(s) == CHOOSE x \in s : TRUE

\* Over the parts of a finite set, one element taken away at a time.
LEMMA SetInduction ==
    ASSUME NEW S, IsFiniteSet(S), NEW G, {} \in G,
           \A s \in SUBSET S : s # {} /\ s \ {Chosen(s)} \in G => s \in G
    PROVE  SUBSET S \subseteq G
<1> DEFINE N == {n \in Nat : \A s \in SUBSET S : Cardinality(s) <= n => s \in G}
<1>0. \A s \in SUBSET S : IsFiniteSet(s) /\ Cardinality(s) \in Nat
  BY FS_Subset, FS_CardinalityType
<1>1. 0 \in N
  BY <1>0, FS_EmptySet
<1>2. ASSUME NEW n \in Nat, n \in N
      PROVE  n + 1 \in N
  <2> SUFFICES ASSUME NEW s \in SUBSET S, Cardinality(s) <= n + 1, s # {}
               PROVE  s \in G
    OBVIOUS
  <2>1. Chosen(s) \in s
    BY DEF Chosen
  <2>2. Cardinality(s \ {Chosen(s)}) = Cardinality(s) - 1
    BY <1>0, <2>1, FS_RemoveElement
  <2>3. s \ {Chosen(s)} \in SUBSET S /\ Cardinality(s \ {Chosen(s)}) <= n
    BY <1>0, <2>2
  <2>4. s \ {Chosen(s)} \in G
    BY <1>2, <2>3
  <2> QED
    BY <2>4
<1>3. Nat \subseteq N
  <2> HIDE DEF N
  <2> QED
    BY <1>1, <1>2, Induction
<1> QED
  BY <1>0, <1>3

Sum(f) == FoldFunction(LAMBDA x, y : x + y, 0, f)

\* What the fold adds up, for every part of the domain.
Body(f, g, s) == IF s = {} THEN 0 ELSE f[Chosen(s)] + g[s \ {Chosen(s)}]
Sums(f) == CHOOSE g : g = [s \in SUBSET DOMAIN f |-> Body(f, g, s)]

LEMMA SumIs ==
    ASSUME NEW f
    PROVE  Sum(f) = Sums(f)[DOMAIN f]
BY DEF Sum, Sums, Body, Chosen, FoldFunction, FoldFunctionOnSet, MapThenFoldSet

LEMMA SumsExist ==
    ASSUME NEW S, IsFiniteSet(S), NEW f \in [S -> Nat]
    PROVE  \A s \in SUBSET S : Sums(f)[s] = Body(f, Sums(f), s)
<1> DEFINE Right(g, n) == \A s \in SUBSET S : Cardinality(s) <= n => g[s] = Body(f, g, s)
           N == {n \in Nat : \E g : Right(g, n)}
<1>0. \A s \in SUBSET S : IsFiniteSet(s) /\ Cardinality(s) \in Nat
  BY FS_Subset, FS_CardinalityType
<1>1. 0 \in N
  <2> DEFINE g == [s \in SUBSET S |-> 0]
  <2>1. Right(g, 0)
    BY <1>0, FS_EmptySet DEF Body
  <2> QED
    BY <2>1
<1>2. ASSUME NEW n \in Nat, n \in N
      PROVE  n + 1 \in N
  <2>1. PICK g : Right(g, n)
    BY <1>2
  <2> DEFINE h == [s \in SUBSET S |-> Body(f, g, s)]
  <2>2. ASSUME NEW s \in SUBSET S, Cardinality(s) <= n + 1
        PROVE  h[s] = Body(f, h, s)
    <3>1. CASE s = {}
      BY <3>1 DEF Body
    <3>2. CASE s # {}
      <4>1. Chosen(s) \in s
        BY <3>2 DEF Chosen
      <4>2. Cardinality(s \ {Chosen(s)}) = Cardinality(s) - 1
        BY <1>0, <4>1, FS_RemoveElement
      <4>3. s \ {Chosen(s)} \in SUBSET S /\ Cardinality(s \ {Chosen(s)}) <= n
        BY <1>0, <2>2, <4>2
      <4>4. g[s \ {Chosen(s)}] = h[s \ {Chosen(s)}]
        BY <2>1, <4>3
      <4> QED
        BY <3>2, <4>4 DEF Body
    <3> QED
      BY <3>1, <3>2
  <2>3. Right(h, n + 1)
    BY <2>2
  <2> HIDE DEF h
  <2> QED
    BY <2>3
<1>3. Cardinality(S) \in N
  <2>1. Nat \subseteq N
    <3> HIDE DEF N
    <3> QED
      BY <1>1, <1>2, Induction
  <2> QED
    BY <1>0, <2>1
<1>4. PICK g : Right(g, Cardinality(S))
  BY <1>3
<1> DEFINE h == [s \in SUBSET S |-> Body(f, g, s)]
<1>5. \A s \in SUBSET S : Cardinality(s) <= Cardinality(S)
  BY FS_Subset
<1>6. \A s \in SUBSET S : g[s] = h[s]
  BY <1>4, <1>5
<1>7. \A s \in SUBSET S : Body(f, g, s) = Body(f, h, s)
  BY <1>6 DEF Body
<1>8. h = [s \in SUBSET S |-> Body(f, h, s)]
  BY <1>7
<1>9. DOMAIN f = S
  OBVIOUS
<1> HIDE DEF h
<1>10. Sums(f) = [s \in SUBSET S |-> Body(f, Sums(f), s)]
  BY <1>8, <1>9 DEF Sums
<1>11. PICK F : F = Sums(f) /\ F = [s \in SUBSET S |-> Body(f, F, s)]
  BY <1>10
<1>12. \A s \in SUBSET S : F[s] = Body(f, F, s)
  BY <1>11
<1> QED
  BY <1>11, <1>12

\* A sum of nothings is nothing.
LEMMA SumOfNothing ==
    ASSUME NEW S, IsFiniteSet(S), NEW f \in [S -> Nat], \A x \in S : f[x] = 0
    PROVE  Sum(f) = 0
<1> DEFINE G == {s \in SUBSET S : Sums(f)[s] = 0}
<1>1. \A s \in SUBSET S : Sums(f)[s] = Body(f, Sums(f), s)
  BY SumsExist
<1>2. {} \in G
  BY <1>1 DEF Body
<1>3. ASSUME NEW s \in SUBSET S, s # {}, s \ {Chosen(s)} \in G
      PROVE  s \in G
  <2>1. Chosen(s) \in S
    BY <1>3 DEF Chosen
  <2>2. Sums(f)[s] = f[Chosen(s)] + Sums(f)[s \ {Chosen(s)}]
    BY <1>1, <1>3 DEF Body
  <2> QED
    BY <1>3, <2>1, <2>2
<1>4. SUBSET S \subseteq G
  <2> HIDE DEF G
  <2> QED
    BY <1>2, <1>3, SetInduction
<1>5. Sums(f)[S] = 0
  BY <1>4
<1> QED
  BY <1>5, SumIs

\* What is added to one value is added to the sum.
LEMMA SumAdd ==
    ASSUME NEW S, IsFiniteSet(S), NEW f \in [S -> Nat]
    PROVE  \A k \in S : \A v \in Nat : Sum([f EXCEPT ![k] = f[k] + v]) = Sum(f) + v
<1> SUFFICES ASSUME NEW k \in S, NEW v \in Nat, NEW h, h = [f EXCEPT ![k] = f[k] + v]
             PROVE  Sum(h) = Sum(f) + v
  OBVIOUS
<1> DEFINE G == {s \in SUBSET S : /\ Sums(f)[s] \in Nat
                                  /\ Sums(h)[s] = Sums(f)[s] + (IF k \in s THEN v ELSE 0)}
<1>0. h \in [S -> Nat] /\ DOMAIN h = S /\ DOMAIN f = S
      /\ \A x \in S : h[x] = f[x] + (IF x = k THEN v ELSE 0)
  OBVIOUS
<1>1. \A s \in SUBSET S : Sums(f)[s] = Body(f, Sums(f), s) /\ Sums(h)[s] = Body(h, Sums(h), s)
  <2>1. \A s \in SUBSET S : Sums(f)[s] = Body(f, Sums(f), s)
    BY SumsExist
  <2>2. \A s \in SUBSET S : Sums(h)[s] = Body(h, Sums(h), s)
    BY <1>0, SumsExist
  <2> QED
    BY <2>1, <2>2
<1>2. {} \in G
  <2>1. Sums(f)[{}] = 0 /\ Sums(h)[{}] = 0
    BY <1>1 DEF Body
  <2> QED
    BY <2>1
<1>3. ASSUME NEW s \in SUBSET S, s # {}, s \ {Chosen(s)} \in G
      PROVE  s \in G
  <2> DEFINE x == Chosen(s)
             t == s \ {Chosen(s)}
  <2>1. x \in s /\ x \notin t /\ (k \in s <=> k \in t \/ k = x)
    BY <1>3 DEF Chosen
  <2>2. Sums(f)[t] \in Nat /\ Sums(h)[t] = Sums(f)[t] + (IF k \in t THEN v ELSE 0)
    BY <1>3
  <2>3. Sums(f)[s] = f[x] + Sums(f)[t] /\ Sums(h)[s] = h[x] + Sums(h)[t]
    BY <1>1, <1>3 DEF Body
  <2>4. f[x] \in Nat /\ h[x] = f[x] + (IF x = k THEN v ELSE 0)
    BY <1>0, <2>1
  <2> HIDE DEF x, t
  <2> QED
    BY <2>1, <2>2, <2>3, <2>4
<1>4. SUBSET S \subseteq G
  <2> HIDE DEF G
  <2> QED
    BY <1>2, <1>3, SetInduction
<1>5. Sums(f)[S] \in Nat /\ Sums(h)[S] = Sums(f)[S] + v
  BY <1>4
<1> QED
  BY <1>0, <1>5, SumIs

-----------------------------------------------------------------------------
(* RunOnce's counters and its total.                                         *)

Counters == [Worker -> [a : Nat, f : Nat]]
Sampling == ctr \in Counters /\ due \in Counters /\ SamplesGoOn

LEMMA SampleStep ==
    ASSUME cfg \in Configs, Sampling, NEW k \in Worker, NEW kind \in {"a", "f"},
           cfg' = cfg, Sample(k, kind)
    PROVE  Sampling'
<1>1. LatStride \in Nat \ {0}
  BY ConfigsAssumption
<1>2. Worker' = Worker /\ Counters' = Counters
  BY DEF Worker, Counters
<1>3. CASE ~cfg.latency
  BY <1>2, <1>3 DEF Sample, timing, Sampling, SamplesGoOn
<1>4. CASE cfg.latency
  <2>1. ctr' = [ctr EXCEPT ![k][kind] = @ + 1]
    BY <1>4 DEF Sample
  <2>2. \/ ctr[k][kind] = due[k][kind] /\ \E x \in Bump(k, kind) : due' = [due EXCEPT ![k][kind] = x]
        \/ ctr[k][kind] # due[k][kind] /\ due' = due
    BY <1>4 DEF Sample
  <2>3. ctr \in Counters /\ due \in Counters /\ ctr[k][kind] \in Nat /\ due[k][kind] \in Nat
    BY DEF Sampling, Counters
  <2>4. ctr' \in Counters /\ ctr'[k][kind] = ctr[k][kind] + 1
        /\ \A m \in Worker : \A d \in {"a", "f"} : m # k \/ d # kind => ctr'[m][d] = ctr[m][d]
    BY <2>1, <2>3 DEF Counters
  <2>5. \A m \in Worker : \A d \in {"a", "f"} : due[m][d] - ctr[m][d] \in Gap
    BY <1>4 DEF Sampling, SamplesGoOn
  <2>6. CASE ctr[k][kind] = due[k][kind]
    <3>1. PICK g \in Gap : due' = [due EXCEPT ![k][kind] = ctr[k][kind] + 1 + g]
      BY <2>2, <2>6 DEF Bump
    <3>2. g \in Nat
      BY DEF Gap
    <3>3. due' \in Counters /\ due'[k][kind] = ctr[k][kind] + 1 + g
          /\ \A m \in Worker : \A d \in {"a", "f"} : m # k \/ d # kind => due'[m][d] = due[m][d]
      BY <2>3, <3>1, <3>2 DEF Counters
    <3>4. due'[k][kind] - ctr'[k][kind] = g
      BY <2>3, <2>4, <3>2, <3>3
    <3>5. \A m \in Worker : \A d \in {"a", "f"} : due'[m][d] - ctr'[m][d] \in Gap
      BY <2>4, <2>5, <3>3, <3>4
    <3> QED
      BY <1>2, <2>4, <3>3, <3>5 DEF Sampling, SamplesGoOn
  <2>7. CASE ctr[k][kind] # due[k][kind]
    <3>1. due' = due
      BY <2>2, <2>7
    <3>2. due[k][kind] - (ctr[k][kind] + 1) \in Gap
      <4>1. due[k][kind] - ctr[k][kind] \in Gap
        BY <2>5
      <4> QED
        BY <1>1, <2>3, <2>7, <4>1 DEF Gap
    <3>3. \A m \in Worker : \A d \in {"a", "f"} : due'[m][d] - ctr'[m][d] \in Gap
      BY <2>4, <2>5, <3>1, <3>2
    <3> QED
      BY <1>2, <2>3, <2>4, <3>1, <3>3 DEF Sampling, SamplesGoOn
  <2> QED
    BY <2>6, <2>7
<1> QED
  BY <1>3, <1>4

LEMMA SamplingStep ==
    ASSUME cfg \in Configs, Sampling, NEW k \in Worker, Does(k)
    PROVE  Sampling'
<1>1. cfg' = cfg
  BY SameConfig
<1>2. CASE Alloc(k)
  BY <1>1, <1>2, SampleStep DEF Alloc
<1>3. CASE Free(k)
  BY <1>1, <1>3, SampleStep DEF Free
<1>4. CASE ~Alloc(k) /\ ~Free(k)
  <2>1. ctr' = ctr /\ due' = due
    BY <1>4 DEF Does, Insert, Fill, Store, NextGive, Check, Erase, GiveDone, Load, Arrive, Spin,
                Clock, AddTime, timing
  <2> QED
    BY <1>1, <2>1 DEF Sampling, SamplesGoOn, Counters, Worker
<1> QED
  BY <1>2, <1>3, <1>4

LEMMA InitSampling ==
    ASSUME Init
    PROVE  Sampling
<1>1. LatStride \in Nat \ {0}
  BY ConfigsAssumption
<1>2. FirstDue \subseteq Nat /\ FirstDue \subseteq Gap
  BY <1>1 DEF FirstDue, Gap
<1>3. ctr \in Counters /\ \A k \in Worker : \A kind \in {"a", "f"} : ctr[k][kind] = 0
  BY DEF Init, Counters
<1>4. due \in [Worker -> [a : FirstDue, f : FirstDue]]
  BY DEF Init
<1>5. due \in Counters
  BY <1>2, <1>4 DEF Counters
<1>6. \A k \in Worker : \A kind \in {"a", "f"} : due[k][kind] \in Gap /\ due[k][kind] \in Nat
  BY <1>2, <1>4, <1>5
<1>7. \A k \in Worker : \A kind \in {"a", "f"} : due[k][kind] - ctr[k][kind] \in Gap
  BY <1>3, <1>6
<1> QED
  BY <1>3, <1>5, <1>7 DEF Sampling, SamplesGoOn

\* What the workers that are done have added.
Added == [k \in Worker |-> IF pc[k] = "done" THEN ms[k] ELSE 0]
Counts == cfg.program = "bench" => total = Sum(Added)

LEMMA SumNext ==
    ASSUME NEW h, h = Added'
    PROVE  Sum(Added)' = Sum(h)
BY DEF Sum, FoldFunction, FoldFunctionOnSet, MapThenFoldSet

LEMMA CountsStep ==
    ASSUME Types, Order, Counts, NEW k \in Worker, Does(k)
    PROVE  Counts'
<1>1. cfg' = cfg /\ Worker' = Worker
  BY SameConfig DEF Worker
<1> SUFFICES ASSUME cfg.program = "bench"
             PROVE  total' = Sum(Added)'
  BY <1>1 DEF Counts
<1>2. /\ total = Sum(Added) /\ Added \in [Worker -> Nat] /\ pc \in [Worker -> Pc]
      /\ ms \in [Worker -> Nat] /\ IsFiniteSet(Worker)
  BY Workers DEF Counts, Types, Added
<1>3. \A m \in Worker \ {k} : pc'[m] = pc[m]
  BY OnlyOne DEF Untouched
<1>4. CASE AddTime(k) /\ Exchange(k)
  <2>1. total' = total + ms[k] /\ ms' = ms /\ pc[k] = "add"
    BY <1>4 DEF AddTime, Exchange
  <2>2. pc'[k] = "done" \/ total' = total
    BY <1>2, <1>4 DEF AddTime, Goto
  <2>3. CASE pc'[k] = "done"
    <3>1. Added' = [Added EXCEPT ![k] = Added[k] + ms[k]]
      BY <1>1, <1>2, <1>3, <2>1, <2>3 DEF Added
    <3>2. ms[k] \in Nat
      BY <1>2
    <3>3. PICK h : h = [Added EXCEPT ![k] = Added[k] + ms[k]]
      OBVIOUS
    <3>4. Sum(h) = Sum(Added) + ms[k]
      <4>1. \A m \in Worker : \A v \in Nat : Sum([Added EXCEPT ![m] = Added[m] + v]) = Sum(Added) + v
        <5>1. IsFiniteSet(Worker) /\ Added \in [Worker -> Nat]
          BY <1>2
        <5> HIDE DEF Added
        <5> QED
          BY <5>1, SumAdd
      <4> QED
        BY <3>2, <3>3, <4>1
    <3>5. Sum(Added)' = Sum(h)
      BY <3>1, <3>3, SumNext
    <3> QED
      BY <1>2, <2>1, <3>4, <3>5
  <2>4. CASE pc'[k] # "done"
    <3>1. total' = total
      BY <2>2, <2>4
    <3>2. Added' = Added
      BY <1>1, <1>2, <1>3, <2>1, <2>4 DEF Added
    <3> QED
      BY <1>2, <3>1, <3>2, SumNext
  <2> QED
    BY <2>3, <2>4
<1>5. CASE ~(AddTime(k) /\ Exchange(k))
  <2>1. total' = total
    BY <1>5 DEF Does, Alloc, Insert, Fill, Store, NextGive, Check, Erase, Free, GiveDone, Load, Arrive,
                Spin, Clock, AddTime, timing, Sample
  <2>2. Added' = Added
    <3>1. pc[k] # "done" /\ pc'[k] # "done"
      <4> USE DEF Goto
      <4>1. Alloc(k) \/ Store(k) \/ Free(k) \/ GiveDone(k) => pc[k] # "done" /\ pc'[k] # "done"
        BY <1>2 DEF Alloc, Store, Free, GiveDone, Taken, FirstGive, AfterTaking, Afterwards
      <4>2. EndRound(k) => pc'[k] # "done"
        BY <1>2 DEF EndRound
      <4>3. NextGive(k) => pc[k] # "done" /\ pc'[k] # "done"
        BY <1>2, <4>2 DEF NextGive, FirstGive
      <4>4. Load(k) \/ Arrive(k) \/ Spin(k) => pc[k] # "done" /\ pc'[k] # "done"
        BY <1>2, <4>2 DEF Load, Arrive, Spin, Leave
      <4>5. Clock(k) => pc[k] # "done" /\ pc'[k] # "done"
        BY <1>2 DEF Clock
      <4>6. AddTime(k) => pc[k] # "done" /\ pc'[k] # "done"
        BY <1>2, <1>5 DEF AddTime
      <4> QED
        BY <4>1, <4>3, <4>4, <4>5, <4>6, Config DEF Does, Types
    <3>2. \A m \in Worker \ {k} : ms'[m] = ms[m]
      BY <1>2 DEF Does, Alloc, Insert, Fill, Store, NextGive, Check, Erase, Free, GiveDone, Load, Arrive,
             Spin, Clock, AddTime, timing, Sample
    <3> QED
      BY <1>1, <1>2, <1>3, <3>1, <3>2 DEF Added
  <2> QED
    BY <1>2, <2>1, <2>2, SumNext
<1> QED
  BY <1>4, <1>5

LEMMA InitCounts ==
    ASSUME Init
    PROVE  Counts
<1>1. IsFiniteSet(Worker)
  BY Workers DEF Init
<1>2. Added \in [Worker -> Nat] /\ \A k \in Worker : Added[k] = 0
  BY DEF Added, Init
<1>3. Sum(Added) = 0
  BY <1>1, <1>2, SumOfNothing
<1> QED
  BY <1>3 DEF Counts, Init

\* When all are done they have added their times.
LEMMA TotalSum ==
    ASSUME Types, Counts
    PROVE  TotalIsSum
<1> SUFFICES ASSUME Done, cfg.program = "bench"
             PROVE  total = Sum(ms)
  BY DEF TotalIsSum, Sum
<1>1. Added = ms
  BY DEF Types, Added, Done
<1> QED
  BY <1>1 DEF Counts

-----------------------------------------------------------------------------
(* What the negative control is caught by.                                   *)

\* The tags of two places differ: they tell the worker, and the place.
Place(l) == IF l[2] = Hand THEN i[l[1]] ELSE l[2]
Tagged ==
    cfg.pattern # "interleaved" =>
        \A l \in Spot : At(l) # Null =>
            At(l).tag[1] = l[1] /\ \E r \in Nat : At(l).tag[2] = r * cfg.ntimes + Place(l)

\* When a generation is odd, every worker has taken its blocks and none gives up
\* its last: what is stamped stays stamped.
AllTaken == \E r \in Nat : Now = 2 * r + 1

\* A block handed out twice has two places, of which one has lost its stamp when
\* all are taken, unless it is already found.
Shared(l, m) == l # m /\ Live(l) /\ Live(m) /\ At(l).p = At(m).p /\ ~Checked(l) /\ ~Checked(m)
Lost(l) == AllTaken /\ Live(l) /\ ~Checked(l) /\ mem[At(l).p] # At(l).tag
Stamping == cfg.broken /\ cfg.program = "check" /\ cfg.pattern = "cross"
Caught ==
    Stamping /\ twice =>
        \/ corrupted
        \/ \E l, m \in Spot : Shared(l, m)
        \/ \E l \in Spot : Lost(l)

\* The boundary check has seen every block it has not just got.
Seen ==
    cfg.program = "boundary" =>
        /\ \A l \in Spot : Live(l) /\ ~Fresh(l) => At(l).p \in registry
        /\ twice => duplicate \/ \E k \in Worker : pc[k] = "insert" /\ hand[k].p \in registry

LEMMA TaggedStep ==
    ASSUME Types, Hands, Order, Tagged, NEW k \in Worker, Does(k)
    PROVE  Tagged'
<1>1. cfg' = cfg /\ Worker' = Worker /\ Slots' = Slots /\ Spot' = Spot
  BY SameConfig DEF Worker, Spot, Slots
<1> SUFFICES ASSUME cfg.pattern # "interleaved", NEW l \in Spot, At(l)' # Null
             PROVE  /\ At(l)'.tag[1] = l[1]
                    /\ \E r \in Nat : At(l)'.tag[2] = r * cfg.ntimes + Place(l)'
  BY <1>1 DEF Tagged
<1>2. /\ hand \in [Worker -> Block \cup {Null}] /\ store \in [Worker -> [Slots -> Block \cup {Null}]]
      /\ i \in [Worker -> Nat] /\ round \in [Worker -> Nat] /\ Hand \notin Slots
  BY Fronts DEF Types
<1>3. At(l) # Null => /\ At(l).tag[1] = l[1]
                      /\ \E r \in Nat : At(l).tag[2] = r * cfg.ntimes + Place(l)
  BY DEF Tagged
<1>4. l = <<l[1], l[2]>> /\ l[1] \in Worker /\ l[2] \in Slots \cup {Hand}
  BY DEF Spot
<1>5. ASSUME At(l)' = At(l), Place(l)' = Place(l)
      PROVE  /\ At(l)'.tag[1] = l[1]
             /\ \E r \in Nat : At(l)'.tag[2] = r * cfg.ntimes + Place(l)'
  BY <1>3, <1>5
<1>6. CASE Alloc(k)
  <2>1. PICK b \in Block : hand' = [hand EXCEPT ![k] = b] /\ b.tag = Tag(k, Counter(k))
    BY <1>6, AllocBlock
  <2>2. store' = store /\ i' = i
    BY <1>6 DEF Alloc, loops
  <2>3. CASE l = <<k, Hand>>
    <3>1. At(l)' = b /\ Place(l)' = i[k]
      BY <1>2, <2>1, <2>2, <2>3 DEF At, Place
    <3>2. b.tag[1] = k /\ b.tag[2] = round[k] * cfg.ntimes + i[k]
      BY <2>1 DEF Tag, Counter
    <3> QED
      BY <1>2, <2>3, <3>1, <3>2
  <2>4. CASE l # <<k, Hand>>
    <3>1. At(l)' = At(l) /\ Place(l)' = Place(l)
      BY <1>2, <1>4, <2>1, <2>2, <2>4 DEF At, Place
    <3> QED
      BY <1>5, <3>1
  <2> QED
    BY <2>3, <2>4
<1>7. CASE Store(k)
  <2>0. PICK x : x = Pos(k)
    OBVIOUS
  <2>1. /\ hand' = [hand EXCEPT ![k] = Null] /\ store' = [store EXCEPT ![k][x] = hand[k]]
        /\ \A m \in Worker \ {k} : i'[m] = i[m]
        /\ pc[k] = "store"
    BY <1>2, <1>7, <2>0 DEF Store
  <2>2. x = i[k] /\ x \in Slots
    <3>1. i[k] \in Slots
      BY <2>1 DEF Order, Vacant, VacantOK, Taking
    <3> QED
      BY <2>0, <3>1, GivenType
  <2>3. CASE l = <<k, x>>
    <3>1. At(l)' = hand[k] /\ Place(l)' = x /\ x # Hand
      BY <1>2, <2>1, <2>2, <2>3 DEF At, Place
    <3>2. <<k, Hand>> \in Spot /\ At(<<k, Hand>>) = hand[k] /\ Place(<<k, Hand>>) = i[k] /\ hand[k] # Null
      BY <2>1, HandFresh DEF Place, Hands, HandsOK
    <3>3. hand[k].tag[1] = k /\ \E r \in Nat : hand[k].tag[2] = r * cfg.ntimes + i[k]
      BY <3>2 DEF Tagged
    <3> QED
      BY <2>2, <2>3, <3>1, <3>3
  <2>4. CASE l # <<k, x>> /\ l # <<k, Hand>>
    <3>1. At(l)' = At(l) /\ Place(l)' = Place(l)
      BY <1>2, <1>4, <2>1, <2>2, <2>4 DEF At, Place
    <3> QED
      BY <1>5, <3>1
  <2>5. l # <<k, Hand>>
    BY <1>2, <2>1 DEF At
  <2> QED
    BY <2>3, <2>4, <2>5
<1>8. CASE GiveDone(k)
  <2>0. PICK v, x : v = Victim(k) /\ x = Pos(k)
    OBVIOUS
  <2>1. /\ hand' = hand /\ (store' = store \/ store' = [store EXCEPT ![v][x] = Null])
        /\ \A m \in Worker : hand[m] # Null => i'[m] = i[m]
    BY <1>2, <1>8, <2>0 DEF GiveDone
  <2>2. v \in Worker /\ x \in Slots
    BY <2>0, GivenType, Neighbour DEF Types
  <2>3. At(l)' = At(l)
    BY <1>2, <1>4, <2>1, <2>2 DEF At
  <2>4. Place(l)' = Place(l)
    BY <1>4, <2>1, <2>3 DEF At, Place
  <2> QED
    BY <1>5, <2>3, <2>4
<1>9. CASE ~Alloc(k) /\ ~Store(k) /\ ~GiveDone(k)
  <2>1. hand' = hand /\ store' = store
    BY <1>9, Quiet DEF Moves, Free
  <2>2. \A m \in Worker : hand[m] # Null => i'[m] = i[m]
    <3>1. \A m \in Worker \ {k} : i'[m] = i[m]
      BY OnlyOne DEF Untouched
    <3>2. i' = i \/ hand[k] = Null
      BY <1>9 DEF Does, Insert, Fill, NextGive, Check, Erase, Free, Load, Arrive, Spin, Clock, AddTime, loops,
                  Hands, HandsOK, Taking, Giving
    <3> QED
      BY <3>1, <3>2
  <2>3. At(l)' = At(l) /\ Place(l)' = Place(l)
    BY <1>4, <2>1, <2>2 DEF At, Place
  <2> QED
    BY <1>5, <2>3
<1> QED
  BY <1>6, <1>7, <1>8, <1>9

LEMMA Remainders ==
    ASSUME NEW n \in Nat \ {0}, NEW q \in Nat, NEW r \in Nat, NEW x \in 0 .. n - 1, NEW y \in 0 .. n - 1,
           q * n + x = r * n + y
    PROVE  x = y
<1>1. (n * q + x) \div n = q /\ (n * r + y) \div n = r
  BY Quotient
<1>2. n * q + x = q * n + x /\ n * r + y = r * n + y
  OBVIOUS
<1>3. q = r
  BY <1>1, <1>2
<1> QED
  BY <1>2, <1>3

LEMMA DistinctTags ==
    ASSUME Types, Hands, Order, Tagged, cfg.pattern = "cross",
           NEW l \in Spot, NEW m \in Spot, l # m, At(l) # Null, At(m) # Null
    PROVE  At(l).tag # At(m).tag
<1> SUFFICES ASSUME At(l).tag = At(m).tag
             PROVE  FALSE
  OBVIOUS
<1>1. l = <<l[1], l[2]>> /\ m = <<m[1], m[2]>> /\ l[1] \in Worker /\ m[1] \in Worker
      /\ l[2] \in Slots \cup {Hand} /\ m[2] \in Slots \cup {Hand}
  BY DEF Spot
<1>2. PICK q \in Nat, r \in Nat : /\ l[1] = m[1]
                                  /\ q * cfg.ntimes + Place(l) = r * cfg.ntimes + Place(m)
  BY DEF Tagged
<1>3. ASSUME NEW s \in Spot, At(s) # Null
      PROVE  /\ Place(s) \in Slots
             /\ s[2] = Hand => \A x \in Slots : store[s[1]][x] # Null => x # Place(s)
  <2>1. s[1] \in Worker /\ s[2] \in Slots \cup {Hand}
    BY DEF Spot
  <2>2. CASE s[2] = Hand
    <3>1. hand[s[1]] # Null
      BY <1>3, <2>2 DEF At
    <3>2. Taking(s[1])
      BY <2>1, <3>1 DEF Hands, HandsOK, Order, Halves, HalvesOK
    <3>3. i[s[1]] \in Slots /\ \A x \in Slots : x >= i[s[1]] => store[s[1]][x] = Null
      BY <2>1, <3>2 DEF Order, Vacant, VacantOK
    <3>4. Slots \subseteq Nat
      BY DEF Slots
    <3> QED
      BY <2>2, <3>3, <3>4 DEF Place
  <2>3. CASE s[2] # Hand
    BY <2>1, <2>3 DEF Place
  <2> QED
    BY <2>2, <2>3
<1>4. Place(l) = Place(m)
  <2>1. Slots = 0 .. cfg.ntimes - 1 /\ cfg.ntimes \in Nat \ {0}
    BY Config DEF Slots, Types
  <2>2. Place(l) \in Slots /\ Place(m) \in Slots
    BY <1>3
  <2> QED
    BY <1>2, <2>1, <2>2, Remainders
<1>5. CASE l[2] = Hand /\ m[2] # Hand
  <2>1. store[l[1]][m[2]] # Null /\ Place(m) = m[2] /\ m[2] \in Slots
    BY <1>1, <1>2, <1>5 DEF At, Place
  <2> QED
    BY <1>3, <1>4, <1>5, <2>1
<1>6. CASE l[2] # Hand /\ m[2] = Hand
  <2>1. store[m[1]][l[2]] # Null /\ Place(l) = l[2] /\ l[2] \in Slots
    BY <1>1, <1>2, <1>6 DEF At, Place
  <2> QED
    BY <1>3, <1>4, <1>6, <2>1
<1>7. CASE l[2] # Hand /\ m[2] # Hand
  BY <1>1, <1>2, <1>4, <1>7 DEF Place
<1>8. CASE l[2] = Hand /\ m[2] = Hand
  BY <1>1, <1>2, <1>8
<1> QED
  BY <1>5, <1>6, <1>7, <1>8

\* Where a live block that is not checked is after a step, if the step is not its check.
LEMMA Persist ==
    ASSUME Types, Hands, InStep, Order, cfg.program = "check", NEW k \in Worker, Does(k),
           NEW x, x = Pos(k), NEW l \in Spot, Live(l), ~Checked(l), ~(Check(k) /\ l = Front(k)),
           NEW y, y = IF pc[k] = "store" /\ l = <<k, Hand>> THEN <<k, x>> ELSE l
    PROVE  /\ y \in Spot' /\ Live(y)' /\ At(y)' = At(l) /\ ~Checked(y)'
           /\ pc[k] = "store" => ~Live(<<k, x>>)
<1>1. cfg' = cfg /\ Worker' = Worker /\ Slots' = Slots /\ Spot' = Spot
  BY SameConfig DEF Worker, Spot, Slots
<1>2. pc \in [Worker -> Pc]
  BY DEF Types
<1>3. \A m \in Worker \ {k} : pc'[m] = pc[m] /\ Front(m)' = Front(m)
  <2>1. \A m \in Worker \ {k} : Untouched(m)
    BY OnlyOne
  <2> QED
    BY <1>1, <2>1 DEF Untouched, Front, Victim, Pos
<1>4. pc'[k] \in {"erase", "free", "given"} =>
          /\ Check(k) \/ pc[k] \in {"erase", "free", "given"}
          /\ Front(k)' = Front(k)
  <2> USE DEF Goto
  <2>1. Alloc(k) \/ Insert(k) \/ Fill(k) \/ Store(k) \/ NextGive(k) \/ GiveDone(k) =>
            pc'[k] \notin {"erase", "free", "given"}
    <3>1. EndRound(k) => pc'[k] \notin {"erase", "free", "given"}
      BY <1>2 DEF EndRound
    <3> QED
      BY <1>2, <3>1 DEF Alloc, Insert, Fill, Store, NextGive, GiveDone, AfterTaking, Taken, FirstGive, loops
  <2>2. Load(k) \/ Arrive(k) \/ Spin(k) => pc'[k] \notin {"erase", "free", "given"}
    BY <1>2 DEF Load, Arrive, Spin, Leave, EndRound
  <2>3. Check(k) \/ Erase(k) \/ Free(k) => Front(k)' = Front(k)
    <3>1. Check(k) \/ Erase(k) \/ Free(k) => i' = i
      BY DEF Check, Erase, Free, loops
    <3> QED
      BY <1>1, <3>1 DEF Front, Victim, Pos
  <2>4. Erase(k) \/ Free(k) => pc[k] \in {"erase", "free", "given"}
    BY DEF Erase, Free
  <2>5. ~Clock(k) /\ ~AddTime(k)
    BY DEF Clock, AddTime, Order, Halves, HalvesOK
  <2> QED
    BY <2>1, <2>2, <2>3, <2>4, <2>5 DEF Does
<1>5. ASSUME NEW z \in Spot, ~Checked(z), ~(Check(k) /\ z = Front(k))
      PROVE  ~Checked(z)'
  <2> SUFFICES ASSUME NEW m \in Worker, pc'[m] \in {"erase", "free", "given"}, z = Front(m)'
               PROVE  FALSE
    BY <1>1 DEF Checked
  <2>1. m = k
    BY <1>3, <1>5 DEF Checked
  <2>2. z = Front(k) /\ (Check(k) \/ pc[k] \in {"erase", "free", "given"})
    BY <1>4, <2>1
  <2> QED
    BY <1>5, <2>2 DEF Checked
<1>6. CASE Alloc(k)
  <2>1. PICK b \in Block : hand' = [hand EXCEPT ![k] = b]
    BY <1>6, AllocBlock
  <2>2. pc[k] = "alloc"
    BY <1>6 DEF Alloc
  <2>3. l # <<k, Hand>> /\ y = l
    BY <1>6, <2>1, <2>2, AllocSpots
  <2>4. Live(l)' = Live(l) /\ At(l)' = At(l)
    BY <1>6, <2>1, <2>3, AllocSpots
  <2>5. ~Checked(l)'
    BY <1>5
  <2> QED
    BY <1>1, <2>2, <2>3, <2>4, <2>5
<1>7. CASE Store(k)
  <2> DEFINE h == <<k, Hand>>
             z == <<k, x>>
  <2>1. /\ h \in Spot /\ z \in Spot /\ h # z
        /\ Live(h) /\ ~Live(h)' /\ ~Live(z) /\ Live(z)' /\ At(h) = hand[k] /\ At(z)' = hand[k]
        /\ \A m \in Spot : m # h /\ m # z => Live(m)' = Live(m) /\ At(m)' = At(m)
    BY <1>7, StoreSpots
  <2>2. pc[k] = "store" /\ ~Check(k)
    BY <1>7 DEF Store, Check
  <2>3. ~Checked(z)
    BY <2>2, NotErased
  <2>4. ~Checked(z)' /\ ~Checked(l)'
    BY <1>5, <2>1, <2>2, <2>3
  <2>5. CASE l = h
    BY <1>1, <2>1, <2>2, <2>4, <2>5
  <2>6. CASE l # h
    <3>1. y = l /\ l # z
      BY <2>1, <2>6
    <3> HIDE DEF h, z
    <3>2. Live(l)' /\ At(l)' = At(l)
      BY <2>1, <2>6, <3>1
    <3> USE DEF z
    <3> QED
      BY <1>1, <2>1, <2>4, <3>1, <3>2
  <2> QED
    BY <2>5, <2>6
<1>8. CASE Free(k)
  <2>0. PICK f : f = Front(k)
    OBVIOUS
  <2>1. pc[k] = "free" /\ y = l
    BY <1>8 DEF Free
  <2>2. l # f
    BY <2>0, <2>1 DEF Checked
  <2>3. Live(l)' = Live(l) /\ At(l)' = At(l)
    BY <1>8, <2>0, <2>2, FreeSpots
  <2>4. ~Checked(l)'
    BY <1>5
  <2> QED
    BY <1>1, <2>1, <2>3, <2>4
<1>9. CASE GiveDone(k)
  <2>1. pc[k] = "given" /\ y = l
    BY <1>9 DEF GiveDone
  <2>2. Live(l)' = Live(l) /\ At(l)' = At(l)
    BY <1>9, GiveDoneSpots
  <2>3. ~Checked(l)'
    BY <1>5
  <2> QED
    BY <1>1, <2>1, <2>2, <2>3
<1>10. CASE ~Moves(k)
  <2>1. pc[k] # "store" /\ y = l
    BY <1>10 DEF Moves, Does, Insert, Fill, NextGive, Check, Erase, Load, Arrive, Spin, Clock, AddTime
  <2>2. Live(l)' = Live(l) /\ At(l)' = At(l)
    BY <1>10, Quiet, SameSpots
  <2>3. ~Checked(l)'
    BY <1>5
  <2> QED
    BY <1>1, <2>1, <2>2, <2>3
<1> QED
  BY <1>6, <1>7, <1>8, <1>9, <1>10 DEF Moves

\* While an odd generation lasts nobody takes a block, and it lasts while there is one.
LEMMA StaysTaken ==
    ASSUME Types, Hands, InStep, Order, cfg.pattern = "cross", NEW k \in Worker, Does(k),
           AllTaken, NEW l \in Spot, Live(l)
    PROVE  AllTaken' /\ ~Taking(k)
<1>1. PICK g \in Nat : Now = 2 * g + 1
  BY DEF AllTaken
<1>2. round \in [Worker -> Nat] /\ half \in [Worker -> {1, 2}]
  BY DEF Types
<1>3. ~Taking(k)
  <2> SUFFICES ASSUME Taking(k)
               PROVE  FALSE
    OBVIOUS
  <2>1. half[k] = 1 /\ pc[k] # "spin"
    BY <1>2 DEF Taking, Order, Halves, HalvesOK
  <2>2. 2 * round[k] = 2 * g + 1
    BY <1>1, <1>2, <2>1 DEF InStep, Passed
  <2> QED
    BY <1>1, <1>2, <2>2
<1>4. ~(Arrive(k) /\ LastThrough(barrier, gen[k], cfg.nworks))
  <2> SUFFICES ASSUME Arrive(k), LastThrough(barrier, gen[k], cfg.nworks)
               PROVE  FALSE
    OBVIOUS
  <2>1. pc[k] = "arrive" /\ Passed(k) = Now
        /\ \A m \in Worker \ {k} : pc[m] = "spin"
    BY AllArrived DEF Arrive
  <2>2. half[k] = 2
    <3>1. 2 * round[k] + half[k] - 1 = 2 * g + 1
      BY <1>1, <2>1 DEF Passed
    <3> QED
      BY <1>1, <1>2, <3>1
  <2>3. \A v \in Worker : Empty(v) /\ hand[v] = Null
    BY <2>1, <2>2, AllEmpty DEF Hands, HandsOK, Taking, Giving
  <2>4. At(l) = Null
    BY <2>3 DEF At, Empty, Spot
  <2> QED
    BY <2>4 DEF Live
<1>5. Now' = Now
  BY <1>4, InStepStep
<1> QED
  BY <1>1, <1>3, <1>5 DEF AllTaken

\* Whoever gives a block back does so when all are taken.
LEMMA GivingTaken ==
    ASSUME Types, InStep, Order, cfg.pattern = "cross", NEW k \in Worker, Giving(k)
    PROVE  AllTaken
<1>1. round \in [Worker -> Nat] /\ half[k] = 2 /\ pc[k] # "spin"
  BY DEF Types, Giving, Order, Halves, HalvesOK
<1>2. Now = 2 * round[k] + 1
  BY <1>1 DEF InStep, Passed
<1> QED
  BY <1>1, <1>2 DEF AllTaken

LEMMA SharedStays ==
    ASSUME Types, Hands, InStep, Order, cfg.program = "check", NEW k \in Worker, Does(k),
           NEW l \in Spot, NEW m \in Spot, Shared(l, m),
           ~(Check(k) /\ l = Front(k)), ~(Check(k) /\ m = Front(k))
    PROVE  \E y, z \in Spot' : Shared(y, z)'
<1>1. PICK x : x = Pos(k)
  OBVIOUS
<1>2. PICK y, z : /\ y = IF pc[k] = "store" /\ l = <<k, Hand>> THEN <<k, x>> ELSE l
                  /\ z = IF pc[k] = "store" /\ m = <<k, Hand>> THEN <<k, x>> ELSE m
  OBVIOUS
<1>3. l # m /\ Live(l) /\ Live(m) /\ At(l).p = At(m).p /\ ~Checked(l) /\ ~Checked(m)
  BY DEF Shared
<1>4. /\ y \in Spot' /\ Live(y)' /\ At(y)' = At(l) /\ ~Checked(y)'
      /\ pc[k] = "store" => ~Live(<<k, x>>)
  BY <1>1, <1>2, <1>3, Persist
<1>5. z \in Spot' /\ Live(z)' /\ At(z)' = At(m) /\ ~Checked(z)'
  BY <1>1, <1>2, <1>3, Persist
<1>6. y # z
  BY <1>2, <1>3, <1>4
<1>7. Shared(y, z)'
  BY <1>3, <1>4, <1>5, <1>6 DEF Shared
<1> QED
  BY <1>4, <1>5, <1>7

\* When one of two places with a block in common is checked, either it has lost its
\* stamp and is found, or the other one has.
LEMMA SharedChecked ==
    ASSUME Types, Hands, InStep, Order, Tagged, cfg.program = "check", cfg.pattern = "cross",
           NEW k \in Worker, Check(k), NEW l \in Spot, NEW m \in Spot, Shared(l, m), l = Front(k)
    PROVE  corrupted' \/ \E z \in Spot' : Lost(z)'
<1>0. Does(k) /\ pc[k] = "check" /\ mem' = mem
  BY Config DEF Does, Check, Order, Halves, HalvesOK, Types
<1>1. l # m /\ Live(l) /\ Live(m) /\ At(l).p = At(m).p /\ ~Checked(m)
  BY DEF Shared
<1>2. At(l) = Given(k) /\ GivenCell(k) = {Given(k).p}
  BY <1>0, GivenLive
<1>3. At(l).tag # At(m).tag
  BY <1>1, DistinctTags DEF Live
<1>4. CASE mem[At(l).p] # At(l).tag
  <2>1. \E p \in GivenCell(k) : mem[p] # Given(k).tag
    BY <1>2, <1>4
  <2> QED
    BY <2>1 DEF Check
<1>5. CASE mem[At(l).p] = At(l).tag
  <2>1. mem[At(m).p] # At(m).tag
    BY <1>1, <1>3, <1>5
  <2>2. PICK x, z : x = Pos(k) /\ z = IF pc[k] = "store" /\ m = <<k, Hand>> THEN <<k, x>> ELSE m
    OBVIOUS
  <2>3. z \in Spot' /\ Live(z)' /\ At(z)' = At(m) /\ ~Checked(z)'
    BY <1>0, <1>1, <2>2, Persist
  <2>4. AllTaken'
    <3>1. AllTaken
      BY <1>0, GivingTaken DEF Giving
    <3> QED
      BY <1>0, <1>1, <3>1, StaysTaken
  <2>5. Lost(z)'
    BY <1>0, <2>1, <2>3, <2>4 DEF Lost
  <2> QED
    BY <2>3, <2>5
<1> QED
  BY <1>4, <1>5

LEMMA LostStays ==
    ASSUME Types, Hands, InStep, Order, Stamping, NEW k \in Worker, Does(k),
           NEW l \in Spot, Lost(l)
    PROVE  corrupted' \/ \E z \in Spot' : Lost(z)'
<1>1. AllTaken /\ Live(l) /\ ~Checked(l) /\ mem[At(l).p] # At(l).tag
  BY DEF Lost
<1>2. AllTaken' /\ ~Taking(k)
  BY <1>1, StaysTaken DEF Stamping
<1>3. CASE Check(k) /\ l = Front(k)
  <2>1. At(l) = Given(k) /\ GivenCell(k) = {Given(k).p}
    BY <1>3, GivenLive DEF Check
  <2>2. \E p \in GivenCell(k) : mem[p] # Given(k).tag
    BY <1>1, <2>1
  <2> QED
    BY <1>3, <2>2 DEF Check
<1>4. CASE ~(Check(k) /\ l = Front(k))
  <2>1. pc[k] # "store"
    BY <1>2 DEF Taking
  <2>2. PICK x : x = Pos(k)
    OBVIOUS
  <2>3. l \in Spot' /\ Live(l)' /\ At(l)' = At(l) /\ ~Checked(l)'
    BY <1>1, <1>4, <2>1, <2>2, Persist DEF Stamping
  <2>4. mem' = mem
    <3>1. CASE Free(k)
      <4>1. mem \in [Cell -> Tags \cup {Null}] /\ cfg.broken
        BY DEF Types, Stamping
      <4>2. mem' = [p \in Cell |-> mem[p]]
        BY <3>1, <4>1 DEF Free
      <4> QED
        BY <4>1, <4>2
    <3>2. CASE ~Free(k)
      <4>1. ~Fill(k)
        BY <1>2 DEF Fill, Taking
      <4> QED
        BY <3>2, <4>1 DEF Does, Alloc, Insert, Store, NextGive, Check, Erase, GiveDone, Load, Arrive, Spin,
                          Clock, AddTime, checks
    <3> QED
      BY <3>1, <3>2
  <2>5. Lost(l)'
    BY <1>1, <1>2, <2>3, <2>4 DEF Lost
  <2> QED
    BY <2>3, <2>5
<1> QED
  BY <1>3, <1>4

\* A cell that is out is in some place.
LEMMA OutSomewhere ==
    ASSUME Types, Counted, NEW p \in Cell, heap[p] > 0
    PROVE  \E l \in Spot : Live(l) /\ At(l).p = p
<1>1. heap[p] = Cardinality(Spots(p)) /\ IsFiniteSet(Spots(p))
  BY SpotsFinite DEF Types, Counted
<1>2. Spots(p) # {}
  BY <1>1, FS_EmptySet
<1> QED
  BY <1>2 DEF Spots

LEMMA CaughtStep ==
    ASSUME Types, Hands, InStep, Order, Counted, Tagged, Caught, NEW k \in Worker, Does(k)
    PROVE  Caught'
<1>1. cfg' = cfg /\ Spot' = Spot
  BY SameConfig DEF Spot, Worker, Slots
<1> SUFFICES ASSUME Stamping, twice'
             PROVE  \/ corrupted'
                    \/ \E l, m \in Spot' : Shared(l, m)'
                    \/ \E l \in Spot' : Lost(l)'
  BY <1>1 DEF Caught, Stamping
<1>2. cfg.program = "check" /\ cfg.pattern = "cross"
  BY DEF Stamping
<1>3. CASE ~twice
  <2>1. Alloc(k)
    <3>1. ~Alloc(k) => Store(k) \/ Free(k) \/ GiveDone(k) \/ ~Moves(k)
      BY DEF Moves
    <3> QED
      BY <1>3, <3>1, Quiet DEF Store, Free, GiveDone, allocator
  <2>2. PICK b \in Block :
           /\ hand' = [hand EXCEPT ![k] = b] /\ b.p \in Cell
           /\ twice' = (twice \/ heap[b.p] > 0)
    BY <2>1, AllocBlock
  <2> DEFINE h == <<k, Hand>>
  <2>3. /\ h \in Spot /\ Live(h)' /\ At(h)' = b /\ ~Live(h)
        /\ \A l \in Spot : l # h => Live(l)' = Live(l) /\ At(l)' = At(l)
    BY <2>1, <2>2, AllocSpots
  <2>4. PICK l \in Spot : Live(l) /\ At(l).p = b.p
    BY <1>3, <2>2, OutSomewhere
  <2>5. \A m \in Worker : pc[m] \notin {"erase", "free", "given"}
    <3>1. pc[k] = "alloc"
      BY <2>1 DEF Alloc
    <3> QED
      BY <1>2, <3>1, Phases DEF Order, Taking, Giving
  <2>6. \A m \in Worker : pc'[m] \notin {"erase", "free", "given"}
    <3>1. \A m \in Worker \ {k} : pc'[m] = pc[m]
      BY OnlyOne DEF Untouched
    <3>2. pc'[k] = "insert"
      BY <1>2, <2>1 DEF Alloc, Goto, Types
    <3> QED
      BY <2>5, <3>1, <3>2
  <2>7. \A m : ~Checked(m)'
    BY <1>1, <2>6 DEF Checked, Worker
  <2> HIDE DEF h
  <2>8. Shared(l, h)'
    BY <2>3, <2>4, <2>7 DEF Shared
  <2> QED
    BY <1>1, <2>3, <2>8
<1>4. CASE twice /\ corrupted
  <2>1. corrupted'
    BY <1>4 DEF Does, Alloc, Insert, Fill, Store, NextGive, Check, Erase, Free, GiveDone, Load, Arrive, Spin,
                Clock, AddTime, checks
  <2> QED
    BY <2>1
<1>5. ASSUME NEW l \in Spot, NEW m \in Spot, Shared(l, m)
      PROVE  corrupted' \/ (\E y, z \in Spot' : Shared(y, z)') \/ (\E z \in Spot' : Lost(z)')
  <2>1. CASE Check(k) /\ l = Front(k)
    BY <1>2, <1>5, <2>1, SharedChecked
  <2>2. CASE Check(k) /\ m = Front(k)
    <3>1. Shared(m, l)
      BY <1>5 DEF Shared
    <3> QED
      BY <1>2, <2>2, <3>1, SharedChecked
  <2>3. CASE ~(Check(k) /\ l = Front(k)) /\ ~(Check(k) /\ m = Front(k))
    BY <1>2, <1>5, <2>3, SharedStays
  <2> QED
    BY <2>1, <2>2, <2>3
<1>6. ASSUME NEW l \in Spot, Lost(l)
      PROVE  corrupted' \/ \E z \in Spot' : Lost(z)'
  BY <1>6, LostStays
<1>7. twice => corrupted \/ (\E l, m \in Spot : Shared(l, m)) \/ (\E l \in Spot : Lost(l))
  BY DEF Caught
<1> QED
  BY <1>3, <1>4, <1>5, <1>6, <1>7

LEMMA SeenStep ==
    ASSUME Types, Hands, InStep, Order, Counted, Seen, NEW k \in Worker, Does(k)
    PROVE  Seen'
<1>1. cfg' = cfg /\ Worker' = Worker /\ Spot' = Spot
  BY SameConfig DEF Worker, Spot, Slots
<1> SUFFICES ASSUME cfg.program = "boundary"
             PROVE  /\ \A l \in Spot : Live(l)' /\ ~Fresh(l)' => At(l)'.p \in registry'
                    /\ twice' => duplicate' \/ \E m \in Worker : pc'[m] = "insert" /\ hand'[m].p \in registry'
  BY <1>1 DEF Seen
<1>2. /\ \A l \in Spot : Live(l) /\ ~Fresh(l) => At(l).p \in registry
      /\ twice => duplicate \/ \E m \in Worker : pc[m] = "insert" /\ hand[m].p \in registry
  BY DEF Seen
<1>3. /\ registry \subseteq registry'
      /\ Insert(k) => hand[k].p \in registry' /\ duplicate' = (duplicate \/ hand[k].p \in registry)
      /\ ~Insert(k) => duplicate' = duplicate
  BY Config DEF Does, Alloc, Insert, Fill, Store, NextGive, Check, Erase, Free, GiveDone, Load, Arrive, Spin,
         Clock, AddTime, checks
<1>4. \A m \in Worker : m = k
  <2>1. cfg.nworks = 1
    BY Config DEF Types
  <2> QED
    BY <2>1 DEF Worker
<1>5. pc \in [Worker -> Pc]
  BY DEF Types
<1> DEFINE h == <<k, Hand>>
<1>6. ASSUME NEW l \in Spot, Live(l)', ~Fresh(l)'
      PROVE  At(l)'.p \in registry'
  <2>1. CASE Alloc(k)
    <3>1. PICK b \in Block : hand' = [hand EXCEPT ![k] = b]
      BY <2>1, AllocBlock
    <3>2. l # h
      <4>1. pc'[k] = "insert"
        BY <1>5, <2>1 DEF Alloc, Goto
      <4> QED
        BY <1>6, <4>1 DEF Fresh
    <3>3. Live(l) /\ At(l)' = At(l)
      BY <1>6, <2>1, <3>1, <3>2, AllocSpots
    <3>4. ~Fresh(l)
      <4>1. pc[k] = "alloc"
        BY <2>1 DEF Alloc
      <4> QED
        BY <1>4, <4>1 DEF Fresh, Spot
    <3> QED
      BY <1>2, <1>3, <3>3, <3>4
  <2>2. CASE Store(k)
    <3>0. PICK x : x = Pos(k)
      OBVIOUS
    <3> DEFINE y == <<k, x>>
    <3>1. /\ h \in Spot /\ y \in Spot /\ h # y
          /\ Live(h) /\ ~Live(h)' /\ ~Live(y) /\ Live(y)' /\ At(h) = hand[k] /\ At(y)' = hand[k]
          /\ \A m \in Spot : m # h /\ m # y => Live(m)' = Live(m) /\ At(m)' = At(m)
      BY <2>2, <3>0, StoreSpots
    <3>2. \A m \in Spot : ~Fresh(m)
      <4>1. pc[k] = "store"
        BY <2>2 DEF Store
      <4> QED
        BY <1>4, <4>1 DEF Fresh, Spot
    <3> HIDE DEF h, y
    <3>3. CASE l = y
      BY <1>2, <1>3, <3>1, <3>2, <3>3
    <3>4. CASE l # y
      BY <1>2, <1>3, <1>6, <3>1, <3>2, <3>4
    <3> QED
      BY <3>3, <3>4
  <2>3. CASE Free(k)
    <3>0. PICK f : f = Front(k)
      OBVIOUS
    <3>1. Live(l) /\ At(l)' = At(l)
      BY <1>6, <2>3, <3>0, FreeSpots
    <3>2. ~Fresh(l)
      <4>1. pc[k] = "free"
        BY <2>3 DEF Free
      <4> QED
        BY <1>4, <4>1 DEF Fresh, Spot
    <3> QED
      BY <1>2, <1>3, <3>1, <3>2
  <2>4. CASE GiveDone(k)
    <3>1. Live(l) /\ At(l)' = At(l)
      BY <1>6, <2>4, GiveDoneSpots
    <3>2. ~Fresh(l)
      <4>1. pc[k] = "given"
        BY <2>4 DEF GiveDone
      <4> QED
        BY <1>4, <4>1 DEF Fresh, Spot
    <3> QED
      BY <1>2, <1>3, <3>1, <3>2
  <2>5. CASE ~Moves(k)
    <3>1. Live(l) /\ At(l)' = At(l)
      BY <1>6, <2>5, Quiet, SameSpots
    <3>2. CASE Insert(k) /\ l = h
      <4>1. At(l) = hand[k]
        BY <3>2, HandFresh
      <4> QED
        BY <1>3, <3>1, <3>2, <4>1
    <3>3. CASE Insert(k) /\ l # h
      <4>1. ~Fresh(l)
        BY <1>4, <3>3 DEF Fresh, Spot
      <4> QED
        BY <1>2, <1>3, <3>1, <4>1
    <3>4. CASE ~Insert(k)
      <4>1. pc[k] # "insert"
        BY <2>5, <3>4 DEF Does, Moves, Fill, NextGive, Check, Erase, Load, Arrive, Spin, Clock, AddTime
      <4>2. ~Fresh(l)
        BY <1>4, <4>1 DEF Fresh, Spot
      <4> QED
        BY <1>2, <1>3, <3>1, <4>2
    <3> QED
      BY <3>2, <3>3, <3>4
  <2> QED
    BY <2>1, <2>2, <2>3, <2>4, <2>5 DEF Moves
<1>7. ASSUME twice'
      PROVE  duplicate' \/ \E m \in Worker : pc'[m] = "insert" /\ hand'[m].p \in registry'
  <2>1. CASE Alloc(k)
    <3>1. PICK b \in Block :
             /\ hand' = [hand EXCEPT ![k] = b] /\ b.p \in Cell
             /\ twice' = (twice \/ heap[b.p] > 0)
      BY <2>1, AllocBlock
    <3>2. /\ pc[k] = "alloc" /\ pc'[k] = "insert" /\ hand'[k] = b
          /\ registry' = registry /\ duplicate' = duplicate
      BY <1>5, <2>1, <3>1 DEF Alloc, Goto, checks, Types
    <3>3. CASE twice
      BY <1>2, <1>4, <3>2, <3>3
    <3>4. CASE ~twice
      <4>1. PICK l \in Spot : Live(l) /\ At(l).p = b.p
        BY <1>7, <3>1, <3>4, OutSomewhere
      <4>2. ~Fresh(l)
        BY <1>4, <3>2 DEF Fresh, Spot
      <4> QED
        BY <1>2, <3>2, <4>1, <4>2
    <3> QED
      BY <3>3, <3>4
  <2>2. CASE ~Alloc(k)
    <3>1. twice
      <4>1. Store(k) \/ Free(k) \/ GiveDone(k) \/ ~Moves(k)
        BY <2>2 DEF Moves
      <4> QED
        BY <1>7, <4>1, Quiet DEF Store, Free, GiveDone, allocator
    <3>2. CASE duplicate
      BY <1>3, <3>2
    <3>3. CASE ~duplicate
      <4>1. pc[k] = "insert" /\ hand[k].p \in registry
        BY <1>2, <1>4, <3>1, <3>3
      <4>2. Insert(k)
        BY <4>1, <2>2 DEF Does, Fill, Store, NextGive, Check, Erase, Free, GiveDone, Load, Arrive, Spin, Clock, AddTime
      <4> QED
        BY <1>3, <4>1, <4>2
    <3> QED
      BY <3>2, <3>3
  <2> QED
    BY <2>1, <2>2
<1> QED
  BY <1>6, <1>7

\* When all are done no place is left in which a lost stamp could hide.
LEMMA Detecting ==
    ASSUME Types, Hands, Order, Caught, Seen, Once,
           cfg.broken => cfg.program = "boundary" \/ (cfg.program = "check" /\ cfg.pattern = "cross")
    PROVE  Detected
<1> SUFFICES ASSUME Done, twice
             PROVE  corrupted \/ duplicate
  BY DEF Detected
<1>1. \A k \in Worker : pc[k] = "done" /\ hand[k] = Null /\ Empty(k)
  BY DEF Done, Hands, HandsOK, Taking, Giving, Order, Vacant, VacantOK
<1>2. \A l \in Spot : ~Live(l)
  BY <1>1 DEF Live, Spot, At, Empty
<1>3. CASE cfg.program = "boundary"
  BY <1>1, <1>3 DEF Seen
<1>4. CASE cfg.program = "check" /\ cfg.pattern = "cross"
  BY <1>2, <1>4 DEF Once, Stamping, Caught, Shared, Lost
<1> QED
  BY <1>3, <1>4 DEF Once

-----------------------------------------------------------------------------
(* The inductive invariant holds.                                            *)

Turns == Types /\ Hands /\ InStep /\ Order
Places == Counted /\ Once /\ Registered /\ Stamped /\ NoFalseAlarm
Control == Tagged /\ Caught /\ Seen
Measures == Sampling /\ Counts

\* Types and order; where each block is and what is known of it; what the
\* negative control is caught by; what RunOnce measures.
IInv == Turns /\ Places /\ Control /\ Measures

LEMMA InitIInv ==
    ASSUME Init
    PROVE  IInv
<1>1. Turns /\ Places
  BY InitTypes, InitInStep, InitRest DEF Turns, Places
<1>2. \A l \in Spot : At(l) = Null
  BY DEF Init, Spot, At
<1>3. Control
  BY <1>2 DEF Control, Tagged, Caught, Seen, Live, Init
<1>4. Measures
  BY InitSampling, InitCounts DEF Measures
<1> QED
  BY <1>1, <1>3, <1>4 DEF IInv

LEMMA NextIInv ==
    ASSUME IInv, Next
    PROVE  IInv'
<1> USE DEF IInv, Turns, Places, Control, Measures
<1>1. PICK k \in Worker : Does(k)
  BY Steps
<1>2. Types' /\ Hands'
  BY <1>1, TypesStep
<1>3. InStep'
  BY <1>1, InStepStep
<1>4. Order'
  BY <1>1, OrderStep
<1>5. Counted' /\ Once'
  BY <1>1, CountedStep
<1>6. Registered' /\ Stamped'
  BY <1>1, RegisteredStep, StampedStep
<1>7. NoFalseAlarm'
  BY <1>1, AlarmStep
<1>8. Tagged' /\ Caught' /\ Seen'
  BY <1>1, TaggedStep, CaughtStep, SeenStep
<1>9. cfg \in Configs
  BY DEF Types
<1>10. Sampling'
  BY <1>1, <1>9, SamplingStep
<1>11. Counts'
  BY <1>1, CountsStep
<1> QED
  BY <1>2, <1>3, <1>4, <1>5, <1>6, <1>7, <1>8, <1>10, <1>11

LEMMA StutterIInv ==
    ASSUME IInv, UNCHANGED vars
    PROVE  IInv'
<1>1. Types' /\ Hands'
  BY TypesStutter DEF IInv, Turns
<1>2. /\ UNCHANGED <<cfg, pc, round, i, half, hand, store, gen, barrier, heap, cursor, twice>>
      /\ UNCHANGED <<mem, registry, duplicate, corrupted, ctr, due, ms, cur, total>>
  BY DEF vars, loops, waits, allocator, checks, timing
<1>a. /\ Worker' = Worker /\ Slots' = Slots /\ Cell' = Cell
      /\ \A k : /\ Taking(k)' = Taking(k) /\ Giving(k)' = Giving(k) /\ Waiting(k)' = Waiting(k)
                /\ Victim(k)' = Victim(k) /\ CheckedAll(k)' = CheckedAll(k) /\ Empty(k)' = Empty(k)
  BY <1>2 DEF Worker, Slots, Cell, Taking, Giving, Waiting, Victim, CheckedAll, Empty
<1>b. /\ Now' = Now /\ \A k : Pos(k)' = Pos(k) /\ Passed(k)' = Passed(k)
  BY <1>2, <1>a DEF Now, Pos, Passed
<1>c. \A k : Given(k)' = Given(k) /\ Front(k)' = Front(k) /\ Emptying(k)' = Emptying(k)
  BY <1>2, <1>a, <1>b DEF Given, Front, Emptying
<1>3. InStep'
  <2>1. Arrived' = Arrived
    BY <1>2, <1>a, <1>b DEF Arrived
  <2> QED
    BY <1>2, <1>a, <1>b, <2>1 DEF IInv, Turns, InStep
<1>4. Order'
  <2>1. \A k \in Worker : HalvesOK(k)' /\ VacantOK(k)' /\ PresentOK(k)'
    BY <1>2, <1>a, <1>b, <1>c DEF IInv, Turns, Order, Halves, Vacant, Present, HalvesOK, VacantOK, PresentOK, Busy
  <2> QED
    BY <1>a, <2>1 DEF Order, Halves, Vacant, Present
<1>5. /\ Spot' = Spot
      /\ \A l : /\ At(l)' = At(l) /\ Stale(l)' = Stale(l) /\ Fresh(l)' = Fresh(l)
                /\ Erased(l)' = Erased(l) /\ Blank(l)' = Blank(l)
                /\ Checked(l)' = Checked(l) /\ Place(l)' = Place(l)
  BY <1>2, <1>a, <1>c DEF Spot, At, Stale, Fresh, Erased, Blank, Checked, Place
<1>6. (\A l : Live(l)' = Live(l)) /\ \A p : Spots(p)' = Spots(p)
  BY <1>5 DEF Live, Spots
<1>7. Places'
  <2>1. Counted' /\ Registered' /\ Stamped'
    BY <1>2, <1>a, <1>5, <1>6 DEF IInv, Places, Counted, Registered, Stamped
  <2> QED
    BY <1>2, <2>1 DEF IInv, Places, Once, NoFalseAlarm
<1>8. Control'
  <2>1. Tagged'
    BY <1>2, <1>5 DEF IInv, Control, Tagged
  <2>2. AllTaken' = AllTaken
    BY <1>b DEF AllTaken
  <2>3. \A l : Lost(l)' = Lost(l) /\ \A m : Shared(l, m)' = Shared(l, m)
    BY <1>2, <1>5, <1>6, <2>2 DEF Lost, Shared
  <2>4. Caught'
    BY <1>2, <1>5, <2>3 DEF IInv, Control, Caught, Stamping
  <2>5. Seen'
    BY <1>2, <1>a, <1>5, <1>6 DEF IInv, Control, Seen
  <2> QED
    BY <2>1, <2>4, <2>5 DEF Control
<1>9. Measures'
  <2>1. Sampling'
    BY <1>2, <1>a DEF IInv, Measures, Sampling, SamplesGoOn, Counters
  <2>2. Added' = Added
    BY <1>2, <1>a DEF Added
  <2>3. Counts'
    BY <1>2, <2>2, SumNext DEF IInv, Measures, Counts
  <2> QED
    BY <2>1, <2>3 DEF Measures
<1> QED
  BY <1>1, <1>3, <1>4, <1>7, <1>8, <1>9 DEF IInv, Turns

-----------------------------------------------------------------------------
(* The theorems.                                                             *)

\* What holds at every moment of every run: the order of the steps and of the
\* barriers, the place each block is in, the stamp and the register entry it has
\* there, and what the counters of RunOnce say (verify.cpp:163-388, main.cpp:206-347).
THEOREM Invariance == Spec => []IInv
<1>1. Init => IInv
  BY InitIInv
<1>2. IInv /\ [Next]_vars => IInv'
  BY NextIInv, StutterIInv
<1> QED
  BY <1>1, <1>2, PTL DEF Spec

\* RunCheck and RunBoundaryCheck never accuse a correct allocator, in whatever order
\* the workers register, stamp, check, unregister and free (verify.cpp:231-271, 359-388).
THEOREM Acquittal == Spec => []NoFalseAlarm
<1>1. IInv => NoFalseAlarm
  BY DEF IInv, Places
<1> QED
  BY <1>1, Invariance, PTL

\* Over a correct allocator no worker frees, or looks into, a block that is not out or
\* that another worker is giving back (main.cpp:320-325).
THEOREM Freeing == Spec => []FreesLive
<1>1. IInv => FreesLive
  BY LiveFrees DEF IInv, Turns, Places
<1> QED
  BY <1>1, Invariance, PTL

\* When the threads are joined every block has gone back, once, and none is registered
\* any more (verify.cpp:257-321, 511-520).
THEOREM Return == Spec => []AllReturned
<1>1. IInv => AllReturned
  BY Returned DEF IInv, Turns, Places
<1> QED
  BY <1>1, Invariance, PTL

\* One counter serves both barriers of every round, and still no worker gives blocks back
\* while another takes some (main.cpp:206-223, 320-336; verify.cpp:214-223, 300-317).
THEOREM Separation == Spec => []PhasesApart
<1>1. IInv => PhasesApart
  BY Separate DEF IInv, Turns
<1> QED
  BY <1>1, Invariance, PTL

\* A block that BrokenAlloc hands out while it is live is reported by the end of the run:
\* by the boundary check, which has seen it, and by the stamps alone when every block is
\* taken before one is checked, as between the barriers of "cross".  In the patterns
\* without a barrier a worker may check and free its block before the other that has
\* it writes its stamp (verify.cpp:19-23, 71-93, 300-317, 359-388).
THEOREM Detection ==
    ASSUME \A c \in Configs : c.broken => \/ c.program = "boundary"
                                          \/ c.program = "check" /\ c.pattern = "cross"
    PROVE  Spec => []Detected
<1>1. IInv => Detected
  BY Detecting DEF IInv, Turns, Places, Control, Types
<1> QED
  BY <1>1, Invariance, PTL

\* Whoever adds at the same moment, and however often the compare-exchange fails for no
\* reason, threadMsTotal ends as the sum of the workers' times (main.cpp:343-345).
THEOREM Total == Spec => []TotalIsSum
<1>1. IInv => TotalIsSum
  BY TotalSum DEF IInv, Turns, Measures
<1> QED
  BY <1>1, Invariance, PTL

\* The next call that is timed is never behind the count, whatever the random gaps
\* (main.cpp:248-284).
THEOREM Sampled == Spec => []SamplesGoOn
<1>1. IInv => SamplesGoOn
  BY DEF IInv, Measures, Sampling
<1> QED
  BY <1>1, Invariance, PTL

-----------------------------------------------------------------------------
(* Workers finish.                                                           *)

\* The loop that takes blocks, where a full place of the ring may be given back
\* on the way; the loops that only give back; and what follows the last round.
Looping(k) == Taking(k) \/ (Giving(k) /\ hand[k] # Null)
Draining(k) == Giving(k) /\ hand[k] = Null
Finishing(k) == pc[k] \in {"clock", "add", "done"}

WithinOK(k) ==
    /\ IF Finishing(k) THEN round[k] = cfg.rounds /\ half[k] = 1 ELSE round[k] < cfg.rounds
    /\ Looping(k) => i[k] < cfg.ntimes
    /\ Draining(k) => i[k] <= Cardinality(Slots)
    /\ \A x \in Slots : x >= cfg.ntimes => store[k][x] = Null
Within == \A k \in Worker : WithinOK(k)

\* What a worker still has to do, outermost first: rounds, halves of the round,
\* loops of the half, places of the loop, steps at the place.
Loop(k) == IF Looping(k) THEN 2 ELSE IF Draining(k) THEN 1 ELSE 0
Ahead(k) == IF Looping(k) THEN cfg.ntimes - i[k]
            ELSE IF Draining(k) THEN Cardinality(Slots) - i[k] ELSE 0
Rank == [alloc |-> 9, insert |-> 8, fill |-> 7, next |-> 7, check |-> 6, erase |-> 5, free |-> 4,
         given |-> 3, store |-> 2, load |-> 3, arrive |-> 2, spin |-> 1,
         clock |-> 3, add |-> 1, done |-> 0]
StepsLeft(k) == IF pc[k] = "add" /\ cur[k] # total THEN 2 ELSE Rank[pc[k]]
Left(k) == <<cfg.rounds - round[k], 2 - half[k], Loop(k), Ahead(k), StepsLeft(k)>>
LeftOK == \A k \in Worker : Left(k) \in Nat \X Nat \X Nat \X Nat \X Nat

\* a comes before b in the order of such tuples, which has no infinite descent.
Before(a, b) == \E n \in 1 .. 5 : a[n] < b[n] /\ \A m \in 1 .. n - 1 : a[m] = b[m]

RunsShorten ==
    [][\E k \in Worker :
          /\ Before(Left(k)', Left(k))
          /\ \A m \in Worker \ {k} :
                \/ Left(m)' = Left(m)
                \/ pc[k] = "add" /\ pc'[k] = "done" /\ pc[m] = "add"]_vars

LEMMA Earlier ==
    ASSUME NEW a, NEW b,
           \/ a[1] < b[1]
           \/ a[1] = b[1] /\ a[2] < b[2]
           \/ a[1] = b[1] /\ a[2] = b[2] /\ a[3] < b[3]
           \/ a[1] = b[1] /\ a[2] = b[2] /\ a[3] = b[3] /\ a[4] < b[4]
           \/ a[1] = b[1] /\ a[2] = b[2] /\ a[3] = b[3] /\ a[4] = b[4] /\ a[5] < b[5]
    PROVE  Before(a, b)
<1>1. /\ 1 .. 1 - 1 = {} /\ 1 .. 2 - 1 = {1} /\ 1 .. 3 - 1 = {1, 2}
      /\ 1 .. 4 - 1 = {1, 2, 3} /\ 1 .. 5 - 1 = {1, 2, 3, 4} /\ 1 .. 5 = {1, 2, 3, 4, 5}
  OBVIOUS
<1> QED
  BY <1>1 DEF Before

\* The number of places, and what a worker's variables are.
LEMMA Bounds ==
    ASSUME Types, NEW k \in Worker
    PROVE  /\ cfg.rounds \in Nat \ {0} /\ cfg.ntimes \in Nat \ {0}
           /\ Cardinality(Slots) \in Nat \ {0} /\ Slots = 0 .. Cardinality(Slots) - 1
           /\ round[k] \in Nat /\ i[k] \in Nat /\ half[k] \in {1, 2} /\ pc[k] \in Pc
<1> DEFINE size == IF cfg.pattern = "interleaved" THEN cfg.window ELSE cfg.ntimes
<1>1. size \in Nat \ {0}
  BY Config DEF Types
<1>2. Slots = 0 .. size - 1
  BY DEF Slots
<1>3. Cardinality(Slots) = size
  BY <1>1, <1>2, FS_Interval
<1> HIDE DEF size
<1> QED
  BY <1>1, <1>2, <1>3, Config DEF Types

\* A step at a place.
LEMMA Nearer ==
    ASSUME Types, NEW k \in Worker, cfg' = cfg,
           round'[k] = round[k] /\ i'[k] = i[k] /\ half'[k] = half[k],
           Looping(k)' <=> Looping(k), Draining(k)' <=> Draining(k),
           StepsLeft(k)' < StepsLeft(k)
    PROVE  Before(Left(k)', Left(k))
<1>1. Slots' = Slots
  BY DEF Slots
<1>2. Loop(k)' = Loop(k) /\ Ahead(k)' = Ahead(k)
  BY <1>1 DEF Loop, Ahead
<1> QED
  BY <1>2, Earlier DEF Left

\* A place further.
LEMMA Further ==
    ASSUME Types, NEW k \in Worker, cfg' = cfg,
           round'[k] = round[k] /\ half'[k] = half[k] /\ i'[k] = i[k] + 1,
           Looping(k)' <=> Looping(k), Draining(k)' <=> Draining(k), Looping(k) \/ Draining(k)
    PROVE  Before(Left(k)', Left(k))
<1>1. Slots' = Slots
  BY DEF Slots
<1>2. cfg.ntimes \in Nat /\ Cardinality(Slots) \in Nat /\ i[k] \in Nat
  BY Bounds
<1>3. Loop(k)' = Loop(k) /\ Ahead(k)' < Ahead(k)
  BY <1>1, <1>2 DEF Loop, Ahead
<1> QED
  BY <1>3, Earlier DEF Left

\* Another loop of the half, another half or another round.
LEMMA Onward ==
    ASSUME Types, NEW k \in Worker, cfg' = cfg,
           \/ round'[k] = round[k] + 1
           \/ round'[k] = round[k] /\ half[k] = 1 /\ half'[k] = 2
           \/ round'[k] = round[k] /\ half'[k] = half[k] /\ Looping(k) /\ ~Looping(k)'
           \/ /\ round'[k] = round[k] /\ half'[k] = half[k]
              /\ Draining(k) /\ ~Looping(k)' /\ ~Draining(k)'
    PROVE  Before(Left(k)', Left(k))
<1>1. cfg.rounds \in Nat /\ round[k] \in Nat /\ half[k] \in {1, 2}
  BY Bounds
<1>2. Looping(k) => ~Draining(k)
  BY DEF Looping, Draining, Taking, Giving
<1>3. \/ cfg'.rounds - round'[k] < cfg.rounds - round[k]
      \/ cfg'.rounds - round'[k] = cfg.rounds - round[k] /\ 2 - half'[k] < 2 - half[k]
      \/ /\ cfg'.rounds - round'[k] = cfg.rounds - round[k] /\ 2 - half'[k] = 2 - half[k]
         /\ Loop(k)' < Loop(k)
  BY <1>1, <1>2 DEF Loop
<1> QED
  BY <1>3, Earlier DEF Left

\* Where a worker's step leads.
Ways == {<<"alloc", "insert">>, <<"alloc", "store">>, <<"alloc", "check">>, <<"alloc", "free">>,
         <<"insert", "fill">>, <<"fill", "store">>, <<"fill", "check">>, <<"fill", "free">>,
         <<"next", "check">>, <<"next", "free">>, <<"check", "erase">>, <<"check", "given">>,
         <<"erase", "free">>, <<"free", "given">>, <<"given", "store">>,
         <<"load", "arrive">>, <<"arrive", "spin">>, <<"clock", "add">>, <<"add", "done">>}
Straight(k) ==
    /\ <<pc[k], pc'[k]>> \in Ways
    /\ round'[k] = round[k] /\ i'[k] = i[k] /\ half'[k] = half[k]
    /\ IF pc[k] = "alloc" THEN hand[k] = Null /\ hand'[k] # Null ELSE hand'[k] = hand[k]
    /\ pc[k] = "next" => i[k] \in Slots
    /\ pc[k] = "given" => hand[k] # Null
Retry(k) ==
    /\ pc[k] = "add" /\ cur[k] # total /\ cur' = [cur EXCEPT ![k] = total]
    /\ UNCHANGED <<pc, round, i, half, hand, total>>
NextPlace(k) ==
    /\ round'[k] = round[k] /\ half'[k] = half[k] /\ i'[k] = i[k] + 1 /\ hand'[k] = Null
    /\ \/ pc[k] = "store" /\ pc'[k] = "alloc" /\ i[k] + 1 < cfg.ntimes
       \/ pc[k] = "given" /\ pc'[k] = "next" /\ hand[k] = Null
       \/ pc[k] = "next" /\ pc'[k] = "next" /\ i[k] \in Slots /\ hand[k] = Null
AllStored(k) ==
    /\ round'[k] = round[k] /\ half'[k] = half[k] /\ i'[k] = 0 /\ hand'[k] = Null
    /\ pc[k] = "store" /\ pc'[k] \in {"next", "load"}
AllGiven(k) ==
    /\ pc[k] = "next" /\ hand[k] = Null /\ hand' = hand
    /\ \/ /\ round'[k] = round[k] /\ half'[k] = half[k] /\ pc'[k] = "load"
       \/ /\ round'[k] = round[k] /\ half[k] = 1 /\ half'[k] = 2 /\ i'[k] = 0 /\ pc' = pc
       \/ EndRound(k)

LEMMA Course ==
    ASSUME Types, Hands, NEW k \in Worker, Does(k), ~UNCHANGED vars
    PROVE  \/ Straight(k) \/ Retry(k) \/ NextPlace(k) \/ AllStored(k) \/ AllGiven(k)
           \/ pc[k] \in {"arrive", "spin"} /\ hand' = hand /\ Leave(k)
<1>0. /\ cfg' = cfg /\ pc[k] \in Pc /\ i[k] \in Nat
      /\ \A where : Goto(k, where) => pc'[k] = where
      /\ FirstGive(k) \in {"check", "free"} /\ Taken(k) \in {"store", "check", "free"}
  BY SameConfig, Bounds DEF Types, Goto, FirstGive, Taken
<1>h. pc[k] = "next" => hand[k] = Null
  BY DEF Hands, HandsOK
<1> USE DEF Straight, Ways, loops
<1>1. ASSUME Alloc(k) PROVE Straight(k)
  <2>1. hand[k] = Null /\ hand'[k] # Null
    <3>1. PICK b \in Block : b # Null /\ hand' = [hand EXCEPT ![k] = b]
      BY <1>1, AllocBlock
    <3> QED
      BY <1>1, <3>1 DEF Alloc, Hands, HandsOK, Types
  <2>2. pc[k] = "alloc" /\ pc'[k] \in {"insert", "store", "check", "free"} /\ UNCHANGED loops
    BY <1>0, <1>1 DEF Alloc
  <2> QED
    BY <2>1, <2>2
<1>2. ASSUME Insert(k) \/ Fill(k) \/ Check(k) \/ Erase(k) PROVE Straight(k)
  <2>1. UNCHANGED <<loops, hand>>
    BY <1>2 DEF Insert, Fill, Check, Erase
  <2>2. \/ pc[k] = "insert" /\ pc'[k] = "fill"
        \/ pc[k] = "fill" /\ pc'[k] \in {"store", "check", "free"}
        \/ pc[k] = "check" /\ pc'[k] \in {"erase", "given"}
        \/ pc[k] = "erase" /\ pc'[k] = "free"
    BY <1>0, <1>2 DEF Insert, Fill, Check, Erase, Afterwards
  <2> QED
    BY <2>1, <2>2
<1>3. ASSUME Store(k) PROVE NextPlace(k) \/ AllStored(k)
  <2>1. pc[k] = "store" /\ hand'[k] = Null /\ UNCHANGED <<round, half>>
    BY <1>3 DEF Store, Types
  <2>2. CASE i[k] + 1 < cfg.ntimes
    <3>1. i'[k] = i[k] + 1 /\ pc'[k] = "alloc"
      BY <1>0, <1>3, <2>2 DEF Store, Types
    <3> QED
      BY <2>1, <2>2, <3>1 DEF NextPlace
  <2>3. CASE ~(i[k] + 1 < cfg.ntimes)
    <3>1. i'[k] = 0 /\ pc'[k] = AfterTaking
      BY <1>0, <1>3, <2>3 DEF Store, Types
    <3> QED
      BY <2>1, <3>1 DEF AllStored, AfterTaking
  <2> QED
    BY <2>2, <2>3
<1>4. ASSUME NextGive(k) PROVE Straight(k) \/ NextPlace(k) \/ AllGiven(k)
  <2>1. pc[k] = "next" /\ hand[k] = Null /\ hand' = hand
    BY <1>h, <1>4 DEF NextGive
  <2>2. CASE i[k] \in Slots /\ Given(k) = Null
    <3>1. i'[k] = i[k] + 1 /\ pc' = pc /\ UNCHANGED <<round, half>>
      BY <1>4, <2>2 DEF NextGive, Types
    <3> QED
      BY <2>1, <2>2, <3>1 DEF NextPlace
  <2>3. CASE i[k] \in Slots /\ Given(k) # Null
    <3>1. pc'[k] \in {"check", "free"} /\ UNCHANGED <<i, round, half>>
      BY <1>0, <1>4, <2>3 DEF NextGive
    <3> QED
      BY <2>1, <2>3, <3>1
  <2>4. CASE i[k] \notin Slots
    <3>1. \/ pc'[k] = "load" /\ UNCHANGED loops
          \/ CheckedAll(k) /\ half' = [half EXCEPT ![k] = 2] /\ i' = [i EXCEPT ![k] = 0]
                           /\ UNCHANGED <<pc, round>>
          \/ EndRound(k)
      BY <1>0, <1>4, <2>4 DEF NextGive
    <3>2. i' = [i EXCEPT ![k] = 0] => i'[k] = 0
      BY DEF Types
    <3>3. half' = [half EXCEPT ![k] = 2] => half'[k] = 2
      BY DEF Types
    <3> QED
      BY <2>1, <3>1, <3>2, <3>3 DEF AllGiven, CheckedAll
  <2> QED
    BY <2>2, <2>3, <2>4
<1>5. ASSUME Free(k) PROVE Straight(k)
  <2>1. UNCHANGED <<loops, hand>> /\ pc[k] = "free" /\ pc'[k] = "given"
    BY <1>0, <1>5 DEF Free, Afterwards
  <2> QED
    BY <2>1
<1>6. ASSUME GiveDone(k) PROVE Straight(k) \/ NextPlace(k)
  <2>1. pc[k] = "given" /\ UNCHANGED <<round, half, hand>>
    BY <1>6 DEF GiveDone
  <2>2. \/ hand[k] # Null /\ pc'[k] = "store" /\ i' = i
        \/ hand[k] = Null /\ pc'[k] = "next" /\ i'[k] = i[k] + 1
    BY <1>0, <1>6 DEF GiveDone, Types
  <2> QED
    BY <2>1, <2>2 DEF NextPlace
<1>7. ASSUME Load(k) \/ Clock(k) PROVE Straight(k)
  <2>1. UNCHANGED <<loops, hand>>
    BY <1>7 DEF Load, Clock
  <2>2. \/ pc[k] = "load" /\ pc'[k] = "arrive"
        \/ pc[k] = "clock" /\ pc'[k] = "add"
    BY <1>0, <1>7 DEF Load, Clock
  <2> QED
    BY <2>1, <2>2
<1>8. ASSUME Arrive(k) PROVE Straight(k) \/ (pc[k] = "arrive" /\ hand' = hand /\ Leave(k))
  BY <1>0, <1>8 DEF Arrive
<1>9. ASSUME Spin(k) PROVE pc[k] = "spin" /\ hand' = hand /\ Leave(k)
  BY <1>9 DEF Spin
<1>10. ASSUME AddTime(k) PROVE Straight(k) \/ Retry(k)
  <2>1. pc[k] = "add" /\ UNCHANGED <<loops, hand>>
    BY <1>10 DEF AddTime
  <2>2. CASE Exchange(k) /\ Goto(k, "done")
    BY <1>0, <2>1, <2>2
  <2>3. CASE cur' = [cur EXCEPT ![k] = total] /\ UNCHANGED <<pc, total>>
    <3>1. ASSUME cur[k] = total PROVE FALSE
      <4>1. cur' = cur
        BY <2>3, <3>1 DEF Types
      <4>2. UNCHANGED vars
        BY <1>10, <2>3, <4>1 DEF AddTime, vars, timing
      <4> QED
        BY <4>2
    <3> QED
      BY <2>1, <2>3, <3>1 DEF Retry
  <2> QED
    BY <1>10, <2>2, <2>3 DEF AddTime
<1> QED
  BY <1>1, <1>2, <1>3, <1>4, <1>5, <1>6, <1>7, <1>8, <1>9, <1>10 DEF Does

LEMMA EndsRound ==
    ASSUME Types, NEW k \in Worker, EndRound(k)
    PROVE  round'[k] = round[k] + 1
BY DEF Types, EndRound

LEMMA LeavesOn ==
    ASSUME Types, NEW k \in Worker, cfg' = cfg, Leave(k)
    PROVE  Before(Left(k)', Left(k))
<1>1. CASE half[k] = 1 /\ half' = [half EXCEPT ![k] = 2] /\ UNCHANGED round
  BY <1>1, Onward DEF Types
<1>2. CASE EndRound(k)
  BY <1>2, EndsRound, Onward
<1> QED
  BY <1>1, <1>2 DEF Leave

LEMMA StraightOn ==
    ASSUME Hands, NEW k \in Worker, Straight(k)
    PROVE  /\ Looping(k)' <=> Looping(k)
           /\ Draining(k)' <=> Draining(k)
           /\ Finishing(k)' <=> Finishing(k)
<1> USE DEF Straight, Ways, Looping, Draining, Finishing, Taking, Giving
<1>1. CASE pc[k] = "alloc"
  <2>1. pc'[k] \in {"insert", "store", "check", "free"} /\ hand'[k] # Null
    BY <1>1
  <2> QED
    BY <1>1, <2>1
<1>2. CASE pc[k] \in {"insert", "fill"}
  <2>1. pc'[k] \in {"fill", "store", "check", "free"} /\ hand'[k] # Null
    BY <1>2 DEF Hands, HandsOK
  <2> QED
    BY <1>2, <2>1
<1>3. CASE pc[k] \in {"next", "check", "erase", "free"}
  <2>1. pc'[k] \in {"check", "erase", "free", "given"} /\ hand'[k] = hand[k]
    BY <1>3
  <2> QED
    BY <1>3, <2>1
<1>4. CASE pc[k] = "given"
  <2>1. pc'[k] = "store" /\ hand[k] # Null
    BY <1>4
  <2> QED
    BY <1>4, <2>1
<1>5. CASE pc[k] \in {"load", "arrive"}
  <2>1. pc'[k] \in {"arrive", "spin"}
    BY <1>5
  <2> QED
    BY <1>5, <2>1
<1>6. CASE pc[k] \in {"clock", "add"}
  <2>1. pc'[k] \in {"add", "done"}
    BY <1>6
  <2> QED
    BY <1>6, <2>1
<1> QED
  BY <1>1, <1>2, <1>3, <1>4, <1>5, <1>6

\* Every step of a worker brings it nearer its end, but for the attempt to add its
\* time that changes nothing.
LEMMA Shortens ==
    ASSUME Types, Hands, NEW k \in Worker, Does(k), ~UNCHANGED vars
    PROVE  Before(Left(k)', Left(k))
<1>0. cfg' = cfg
  BY SameConfig
<1>1. CASE Straight(k)
  <2>1. (Looping(k)' <=> Looping(k)) /\ (Draining(k)' <=> Draining(k))
    BY <1>1, StraightOn
  <2>2. Rank[pc'[k]] \in Nat /\ Rank[pc[k]] \in Nat /\ Rank[pc'[k]] < Rank[pc[k]]
    BY <1>1 DEF Straight, Ways, Rank
  <2>3. /\ pc'[k] = "add" => Rank[pc[k]] = 3
        /\ pc[k] = "add" => pc'[k] = "done" /\ Rank[pc[k]] = 1 /\ Rank[pc'[k]] = 0
    BY <1>1 DEF Straight, Ways, Rank
  <2> HIDE DEF Rank
  <2>4. StepsLeft(k)' < StepsLeft(k)
    BY <2>2, <2>3 DEF StepsLeft
  <2> QED
    BY <1>0, <1>1, <2>1, <2>4, Nearer DEF Straight
<1>2. CASE Retry(k)
  <2>1. (Looping(k)' <=> Looping(k)) /\ (Draining(k)' <=> Draining(k))
    BY <1>2 DEF Retry, Looping, Draining, Taking, Giving
  <2>2. StepsLeft(k)' = 1 /\ StepsLeft(k) = 2
    BY <1>2 DEF Retry, StepsLeft, Rank, Types
  <2> QED
    BY <1>0, <1>2, <2>1, <2>2, Nearer DEF Retry
<1>3. CASE NextPlace(k)
  <2>1. /\ Looping(k)' <=> Looping(k)
        /\ Draining(k)' <=> Draining(k)
        /\ Looping(k) \/ Draining(k)
    BY <1>3 DEF NextPlace, Looping, Draining, Taking, Giving
  <2> QED
    BY <1>0, <1>3, <2>1, Further DEF NextPlace
<1>4. CASE AllStored(k)
  <2>1. Looping(k) /\ ~Looping(k)'
    BY <1>4 DEF AllStored, Looping, Taking, Giving
  <2> QED
    BY <1>0, <1>4, <2>1, Onward DEF AllStored
<1>5. CASE AllGiven(k)
  <2>1. pc'[k] = "load" => Draining(k) /\ ~Looping(k)' /\ ~Draining(k)'
    BY <1>5 DEF AllGiven, Looping, Draining, Taking, Giving
  <2> QED
    BY <1>0, <1>5, <2>1, EndsRound, Onward DEF AllGiven
<1>6. CASE Leave(k)
  BY <1>0, <1>6, LeavesOn
<1> QED
  BY <1>1, <1>2, <1>3, <1>4, <1>5, <1>6, Course


LEMMA InitWithin ==
    ASSUME Init
    PROVE  Within
<1>1. /\ cfg.rounds \in Nat \ {0} /\ cfg.ntimes \in Nat \ {0}
  BY Config DEF Init
<1> QED
  BY <1>1 DEF Init, Within, WithinOK, Finishing, Looping, Draining, Taking, Giving

\* The places that no round comes to stay empty.
LEMMA EmptyBeyond ==
    ASSUME Types, Within, NEW k \in Worker, Does(k),
           NEW m \in Worker, NEW x \in Slots, x >= cfg.ntimes
    PROVE  store'[m][x] = Null
<1>0. store[m][x] = Null /\ Victim(k) \in Worker /\ Pos(k) \in Slots
  BY GivenType, Neighbour DEF Types, Within, WithinOK
<1>1. CASE store' = store
  BY <1>0, <1>1
<1>2. CASE Store(k)
  <2>1. Looping(k)
    BY <1>2 DEF Store, Looping, Taking
  <2>2. i[k] < cfg.ntimes
    BY <2>1 DEF Within, WithinOK
  <2>3. Pos(k) < cfg.ntimes
    BY <1>0, <2>2, GivenType, Bounds
  <2>4. Pos(k) # x /\ store' = [store EXCEPT ![k][Pos(k)] = hand[k]]
    BY <1>2, <2>3, Bounds DEF Store
  <2> QED
    BY <1>0, <2>4 DEF Types
<1>3. CASE GiveDone(k)
  <2>1. store' = store \/ store' = [store EXCEPT ![Victim(k)][Pos(k)] = Null]
    BY <1>3 DEF GiveDone
  <2> QED
    BY <1>0, <2>1 DEF Types
<1>4. Alloc(k) \/ NextGive(k) \/ Free(k) \/ Insert(k) \/ Fill(k) \/ Check(k) \/ Erase(k) => store' = store
  BY DEF Alloc, NextGive, Free, Insert, Fill, Check, Erase
<1>5. Load(k) \/ Arrive(k) \/ Spin(k) \/ Clock(k) \/ AddTime(k) => store' = store
  BY DEF Load, Arrive, Spin, Clock, AddTime
<1> QED
  BY <1>1, <1>2, <1>3, <1>4, <1>5 DEF Does

LEMMA NewRound ==
    ASSUME Types, NEW k \in Worker, cfg' = cfg, EndRound(k), round[k] < cfg.rounds
    PROVE  /\ IF Finishing(k)' THEN round'[k] = cfg.rounds /\ half'[k] = 1 ELSE round'[k] < cfg.rounds
           /\ Looping(k)' => i'[k] < cfg.ntimes
           /\ ~Draining(k)'
<1>1. cfg.rounds \in Nat \ {0} /\ cfg.ntimes \in Nat \ {0} /\ round[k] \in Nat
  BY Bounds
<1>2. round'[k] = round[k] + 1 /\ i'[k] = 0 /\ half'[k] = 1
  BY DEF Types, EndRound
<1>3. pc'[k] = IF round[k] + 1 < cfg.rounds THEN "alloc"
               ELSE IF cfg.program = "bench" THEN "clock" ELSE "done"
  BY DEF Types, EndRound, Goto
<1> QED
  BY <1>1, <1>2, <1>3 DEF Finishing, Looping, Draining, Taking, Giving

LEMMA WithinStep ==
    ASSUME Types, Hands, Order, Within, NEW k \in Worker, Does(k), ~UNCHANGED vars
    PROVE  Within'
<1> DEFINE OK(m) == /\ IF Finishing(m) THEN round[m] = cfg.rounds /\ half[m] = 1
                                       ELSE round[m] < cfg.rounds
                    /\ Looping(m) => i[m] < cfg.ntimes
                    /\ Draining(m) => i[m] <= Cardinality(Slots)
<1>0. cfg' = cfg /\ Slots' = Slots /\ Worker' = Worker
  BY SameConfig DEF Slots, Worker
<1>1. /\ cfg.rounds \in Nat \ {0} /\ cfg.ntimes \in Nat \ {0}
      /\ Cardinality(Slots) \in Nat \ {0} /\ Slots = 0 .. Cardinality(Slots) - 1
      /\ round[k] \in Nat /\ i[k] \in Nat
  BY Bounds
<1>2. OK(k)
  BY DEF Within, WithinOK
<1>3. ASSUME Straight(k) PROVE OK(k)'
  <2>1. round'[k] = round[k] /\ i'[k] = i[k] /\ half'[k] = half[k]
    BY <1>3 DEF Straight
  <2> QED
    BY <1>0, <1>2, <1>3, <2>1, StraightOn
<1> USE DEF Finishing, Looping, Draining, Taking, Giving
<1>4. ASSUME Retry(k) PROVE OK(k)'
  BY <1>0, <1>2, <1>4 DEF Retry
<1>5. ASSUME NextPlace(k) PROVE OK(k)'
  <2>1. pc[k] = "given" /\ hand[k] = Null => i[k] \in Slots
    BY DEF Order, Present, PresentOK, Busy
  <2> QED
    BY <1>0, <1>1, <1>2, <1>5, <2>1 DEF NextPlace
<1>6. ASSUME AllStored(k) PROVE OK(k)'
  BY <1>0, <1>1, <1>2, <1>6 DEF AllStored
<1>7. ASSUME EndRound(k), pc[k] \in {"next", "arrive", "spin"} PROVE OK(k)'
  BY <1>0, <1>2, <1>7, NewRound
<1>8. ASSUME AllGiven(k) PROVE OK(k)'
  BY <1>0, <1>1, <1>2, <1>7, <1>8 DEF AllGiven
<1>9. ASSUME pc[k] \in {"arrive", "spin"}, hand' = hand, Leave(k) PROVE OK(k)'
  <2>1. hand'[k] = Null
    BY <1>9 DEF Hands, HandsOK
  <2>2. CASE /\ half' = [half EXCEPT ![k] = 2] /\ i' = [i EXCEPT ![k] = 0]
             /\ Goto(k, "next") /\ UNCHANGED round
    <3>1. i'[k] = 0 /\ pc'[k] = "next" /\ round'[k] = round[k]
      BY <2>2 DEF Types, Goto
    <3> QED
      BY <1>0, <1>1, <1>2, <1>9, <2>1, <3>1
  <2> QED
    BY <1>7, <1>9, <2>2 DEF Leave
<1>10. OK(k)'
  BY <1>3, <1>4, <1>5, <1>6, <1>8, <1>9, Course
<1>11. \A m \in Worker \ {k} : OK(m)'
  BY <1>0, OnlyOne DEF Within, WithinOK, Untouched
<1>12. \A m \in Worker, x \in Slots : x >= cfg.ntimes => store'[m][x] = Null
  BY EmptyBeyond
<1> QED
  BY <1>0, <1>10, <1>11, <1>12 DEF Within, WithinOK

LEMMA WithinLeft ==
    ASSUME Types, Hands, Within
    PROVE  LeftOK
<1> SUFFICES ASSUME NEW k \in Worker PROVE Left(k) \in Nat \X Nat \X Nat \X Nat \X Nat
  BY DEF LeftOK
<1>1. /\ cfg.rounds \in Nat \ {0} /\ cfg.ntimes \in Nat \ {0} /\ Cardinality(Slots) \in Nat \ {0}
      /\ round[k] \in Nat /\ i[k] \in Nat /\ half[k] \in {1, 2} /\ pc[k] \in Pc
  BY Bounds
<1>2. cfg.rounds - round[k] \in Nat /\ Ahead(k) \in Nat
  BY <1>1 DEF Within, WithinOK, Ahead
<1>3. Rank[pc[k]] \in Nat
  BY <1>1 DEF Rank, Pc
<1>4. Loop(k) \in Nat /\ StepsLeft(k) \in Nat
  BY <1>3 DEF Loop, StepsLeft
<1>5. 2 - half[k] \in Nat
  BY <1>1
<1> QED
  BY <1>2, <1>4, <1>5 DEF Left

\* What is left to others stays as it was, unless they are about to add their time
\* to a total that has just changed.
LEMMA OthersLeft ==
    ASSUME Types, NEW k \in Worker, Does(k), NEW m \in Worker \ {k}
    PROVE  \/ Left(m)' = Left(m)
           \/ pc[k] = "add" /\ pc'[k] = "done" /\ pc[m] = "add"
<1>1. cfg' = cfg /\ Slots' = Slots /\ Untouched(m)
  BY SameConfig, OnlyOne DEF Slots
<1>2. Loop(m)' = Loop(m) /\ Ahead(m)' = Ahead(m)
  BY <1>1 DEF Loop, Ahead, Looping, Draining, Taking, Giving, Untouched
<1>3. /\ cur'[m] = cur[m]
      /\ total' = total \/ (pc[k] = "add" /\ pc'[k] = "done")
  <2>1. CASE UNCHANGED timing
    BY <2>1 DEF timing
  <2>2. CASE Alloc(k) \/ Free(k)
    BY <2>2 DEF Alloc, Free, Sample, timing
  <2>3. CASE Clock(k)
    BY <2>3 DEF Clock, Types
  <2>4. CASE AddTime(k)
    BY <2>4 DEF AddTime, Goto, Types
  <2>5. Store(k) \/ NextGive(k) \/ GiveDone(k) \/ Insert(k) \/ Fill(k) \/ Check(k) \/ Erase(k) =>
            UNCHANGED timing
    BY DEF Store, NextGive, GiveDone, Insert, Fill, Check, Erase
  <2>6. Load(k) \/ Arrive(k) \/ Spin(k) => UNCHANGED timing
    BY DEF Load, Arrive, Spin
  <2> QED
    BY <2>1, <2>2, <2>3, <2>4, <2>5, <2>6 DEF Does
<1>4. CASE StepsLeft(m)' = StepsLeft(m)
  BY <1>1, <1>2, <1>4 DEF Left, Untouched
<1>5. CASE StepsLeft(m)' # StepsLeft(m)
  BY <1>1, <1>3, <1>5 DEF StepsLeft, Untouched
<1> QED
  BY <1>4, <1>5

LEMMA WithinAlways == Spec => []Within
<1>1. Init => Within
  BY InitWithin
<1>2. IInv /\ Within /\ [Next]_vars => Within'
  <2> SUFFICES ASSUME IInv, Within, [Next]_vars PROVE Within'
    OBVIOUS
  <2>1. CASE UNCHANGED vars
    BY <2>1 DEF vars, loops, Within, WithinOK, Worker, Slots, Finishing, Looping, Draining, Taking, Giving
  <2>2. CASE Next /\ ~UNCHANGED vars
    BY <2>2, Steps, WithinStep DEF IInv, Turns
  <2> QED
    BY <2>1, <2>2
<1> QED
  BY <1>1, <1>2, Invariance, PTL DEF Spec

\* RunCheck, RunOnce and RunBoundaryCheck cannot go on for ever: every step of a worker
\* brings it nearer its end and sets no other back.  The one exception is the loop
\* that adds a worker's time to the total, where a worker starts over only because
\* another has just succeeded; an exchange that fails for no reason changes nothing
\* (verify.cpp:257-330, 359-388; main.cpp:286-347).
THEOREM RunsEnd == Spec => []LeftOK /\ RunsShorten
<1>1. Spec => []LeftOK
  <2>1. IInv /\ Within => LeftOK
    BY WithinLeft DEF IInv, Turns
  <2> QED
    BY <2>1, WithinAlways, Invariance, PTL
<1>2. IInv /\ [Next]_vars =>
        [\E k \in Worker :
          /\ Before(Left(k)', Left(k))
          /\ \A m \in Worker \ {k} :
                \/ Left(m)' = Left(m)
                \/ pc[k] = "add" /\ pc'[k] = "done" /\ pc[m] = "add"]_vars
  BY Steps, Shortens, OthersLeft DEF IInv, Turns
<1> QED
  BY <1>1, <1>2, Invariance, PTL DEF Spec, RunsShorten


-----------------------------------------------------------------------------
(* Nobody waits for ever.                                                    *)

\* What the next step of a worker needs: a block to be had, the barrier to open.
CanGo(k) ==
    /\ pc[k] # "done"
    /\ pc[k] = "alloc" => Answers # {}
    /\ pc[k] = "spin" => Advanced(barrier, gen[k], cfg.nworks)

\* A worker that is not done takes its next step, or it waits at a barrier for a
\* worker that can and that has no more barriers behind it.
NoDeadlock ==
    \A k \in Worker : pc[k] # "done" =>
        \/ CanGo(k)
        \/ pc[k] = "spin" /\ \E m \in Worker : CanGo(m) /\ Passed(m) <= Passed(k)

LEMMA PlacesAre ==
    ASSUME NEW n \in Nat \ {0}, NEW W, IsFiniteSet(W), Cardinality(W) = n,
           NEW t \in Nat, NEW k \in W, NEW R, R = (W \X (-1 .. t - 1)) \ {<<k, -1>>}
    PROVE  IsFiniteSet(R) /\ Cardinality(R) = n * (t + 1) - 1
<1> DEFINE T == -1 .. t - 1
           Used == W \X T
<1>1. IsFiniteSet(T) /\ Cardinality(T) = t + 1 /\ -1 \in T
  <2>1. -1 \in Int /\ t - 1 \in Int /\ ~(-1 > t - 1) /\ (t - 1) - (-1) + 1 = t + 1
    OBVIOUS
  <2>2. IsFiniteSet(T)
    BY ONLY <2>1, FS_Interval
  <2>3. Cardinality(T) = IF -1 > t - 1 THEN 0 ELSE (t - 1) - (-1) + 1
    BY ONLY <2>1, FS_Interval
  <2>4. -1 \in T
    BY <2>1
  <2> HIDE DEF T
  <2> QED
    BY ONLY <2>1, <2>2, <2>3, <2>4
<1> HIDE DEF T
<1>2. IsFiniteSet(Used) /\ Cardinality(Used) = n * (t + 1)
  <2>1. IsFiniteSet(W \X T) /\ Cardinality(W \X T) = Cardinality(W) * Cardinality(T)
    BY ONLY <1>1, IsFiniteSet(W), FS_Product
  <2> QED
    BY <1>1, <2>1
<1>3. <<k, -1>> \in Used
  BY <1>1
<1> HIDE DEF Used
<1>4. IsFiniteSet(Used \ {<<k, -1>>}) /\ Cardinality(Used \ {<<k, -1>>}) = Cardinality(Used) - 1
  BY ONLY <1>2, <1>3, FS_RemoveElement
<1> QED
  BY <1>2, <1>4 DEF Used, T

\* The blocks that are out fit into the places there are, which leaves one for
\* the worker that has nothing in its hand.
LEMMA NeverFull ==
    ASSUME Types, Hands, Within, Counted, NEW k \in Worker, pc[k] = "alloc"
    PROVE  Answers # {}
<1>0. /\ cfg.nworks \in Nat \ {0} /\ cfg.ntimes \in Nat \ {0} /\ cfg.cells \in Nat \ {0}
      /\ cfg.broken \/ cfg.cells >= cfg.nworks * (cfg.ntimes + 1)
  BY Config, ConfigsAssumption DEF Types
<1>1. CASE cfg.broken
  BY <1>1 DEF Answers
<1>2. CASE ~cfg.broken
  <2> SUFFICES ASSUME Answers = {} PROVE FALSE
    OBVIOUS
  <2> DEFINE Used == Worker \X (Hand .. cfg.ntimes - 1)
             Rest == Used \ {<<k, Hand>>}
  <2>1. IsFiniteSet(Worker) /\ Cardinality(Worker) = cfg.nworks
    BY Workers DEF Types
  <2>2. IsFiniteSet(Rest) /\ Cardinality(Rest) = cfg.nworks * (cfg.ntimes + 1) - 1
    <3>1. /\ cfg.ntimes \in Nat /\ cfg.nworks \in Nat \ {0} /\ k \in Worker
          /\ Rest = (Worker \X (-1 .. cfg.ntimes - 1)) \ {<<k, -1>>}
      BY <1>0 DEF Hand
    <3> HIDE DEF Rest, Worker
    <3> QED
      BY ONLY <2>1, <3>1, PlacesAre
  <2>3. \A p \in Cell : \E l \in Rest : l \in Spots(p)
    <3> TAKE p \in Cell
    <3>1. heap[p] # 0 /\ heap[p] = Cardinality(Spots(p))
      BY <1>2 DEF Answers, Counted
    <3>2. Spots(p) # {}
      BY <3>1, FS_EmptySet
    <3>3. PICK l : l \in Spots(p)
      BY <3>2
    <3>4. l \in Spot /\ At(l) # Null
      BY <3>3 DEF Spots, Live
    <3>5. CASE l[2] = Hand
      <4>1. hand[l[1]] # Null /\ hand[k] = Null
        BY <3>4, <3>5 DEF At, Hands, HandsOK
      <4>2. l[1] \in Worker /\ l = <<l[1], Hand>> /\ Hand \in Hand .. cfg.ntimes - 1
        BY <1>0, <3>4, <3>5 DEF Spot, Hand
      <4>3. l \in Rest
        BY <4>1, <4>2
      <4> QED
        BY <3>3, <4>3
    <3>6. CASE l[2] # Hand
      <4>1. l[1] \in Worker /\ l[2] \in Slots /\ l = <<l[1], l[2]>>
        BY <3>4, <3>6 DEF Spot
      <4>2. store[l[1]][l[2]] # Null
        BY <3>4, <3>6 DEF At
      <4>3. l[2] < cfg.ntimes
        BY <1>0, <4>1, <4>2, Bounds DEF Within, WithinOK
      <4>4. l[2] \in Hand .. cfg.ntimes - 1
        BY <1>0, <4>1, <4>3, Bounds DEF Hand
      <4>5. l \in Rest
        BY <3>6, <4>1, <4>4
      <4> QED
        BY <3>3, <4>5
    <3> QED
      BY <3>5, <3>6
  <2> DEFINE f == [p \in Cell |-> CHOOSE l \in Rest : l \in Spots(p)]
  <2>4. \A p \in Cell : f[p] \in Rest /\ f[p] \in Spots(p)
    BY <2>3
  <2>5. f \in [Cell -> Rest]
    BY <2>4
  <2>6. \A p, q \in Cell : f[p] = f[q] => p = q
    <3> SUFFICES ASSUME NEW p \in Cell, NEW q \in Cell, f[p] = f[q] PROVE p = q
      OBVIOUS
    <3>1. f[p] \in Spots(p) /\ f[p] \in Spots(q)
      BY <2>4
    <3> HIDE DEF f
    <3> QED
      BY <3>1 DEF Spots
  <2> HIDE DEF f, Rest, Used
  <2>7. f \in Injection(Cell, Rest)
    BY ONLY <2>5, <2>6 DEF Injection, IsInjective
  <2>8. Cardinality(Cell) <= Cardinality(Rest)
    BY <2>2, <2>7, FS_Injection
  <2>9. Cardinality(Cell) = cfg.cells
    BY <1>0, Interval DEF Cell
  <2>10. cfg.nworks * (cfg.ntimes + 1) \in Nat
    BY <1>0
  <2> QED
    BY <1>0, <1>2, <2>2, <2>8, <2>9, <2>10
<1> QED
  BY <1>1, <1>2

\* Somebody has yet to arrive while a barrier is closed.
LEMMA SomeoneComes ==
    ASSUME Types, Hands, InStep, Within, NEW k \in Worker, pc[k] = "spin", gen[k] = Now
    PROVE  \E m \in Worker : /\ pc[m] # "done" /\ (pc[m] = "spin" => gen[m] # Now)
                             /\ Passed(m) <= Passed(k)
<1> DEFINE n == cfg.nworks
           a == Cardinality(Arrived)
<1>0. cfg.pattern = "cross"
  BY DEF Hands, HandsOK, Waiting
<1>1. n \in Nat \ {0} /\ IsFiniteSet(Worker) /\ Cardinality(Worker) = n /\ barrier \in Nat
  BY Config, Workers DEF Types
<1>2. IsFiniteSet(Arrived) /\ a \in Nat
  BY <1>1, FS_Subset, FS_CardinalityType DEF Arrived
<1>3. a < n
  <2>1. barrier = n * Now + a
    BY <1>0 DEF InStep
  <2> QED
    BY <1>1, <1>2, <2>1, Generations DEF Now
<1>4. PICK m \in Worker : m \notin Arrived
  <2>1. Arrived # Worker
    BY <1>1, <1>3
  <2> QED
    BY <2>1 DEF Arrived
<1>5. pc[m] = "spin" => gen[m] # Now
  BY <1>4 DEF Arrived
<1>6. /\ Passed(k) = Now
      /\ Passed(m) = Now \/ (pc[m] = "spin" /\ Passed(m) + 1 = Now)
  BY <1>0 DEF InStep
<1>7. /\ round[k] \in Nat /\ half[k] \in {1, 2} /\ round[m] \in Nat /\ half[m] \in {1, 2}
      /\ cfg.rounds \in Nat
  BY Bounds
<1>8. pc[m] # "done"
  <2> SUFFICES ASSUME pc[m] = "done" PROVE FALSE
    OBVIOUS
  <2>1. round[m] = cfg.rounds /\ half[m] = 1
    BY DEF Within, WithinOK, Finishing
  <2>2. round[k] < cfg.rounds
    BY DEF Within, WithinOK, Finishing
  <2>3. Passed(m) = Passed(k)
    BY <1>6
  <2> QED
    BY <1>7, <2>1, <2>2, <2>3 DEF Passed
<1>9. Passed(m) \in Int /\ Passed(k) \in Int /\ Passed(m) <= Passed(k)
  BY <1>6, <1>7 DEF Passed
<1> QED
  BY <1>5, <1>8, <1>9

\* No barrier keeps anybody for ever and no worker is left without a block: the
\* generation a worker waits to leave still has a worker to come, which is not done
\* and can take its next step, be it out of the barrier before (main.cpp:206-217,
\* verify.cpp:214-223).
THEOREM BarriersOpen == Spec => []NoDeadlock
<1>1. IInv /\ Within => NoDeadlock
  <2> SUFFICES ASSUME IInv, Within, NEW k \in Worker, pc[k] # "done", ~CanGo(k)
               PROVE  pc[k] = "spin" /\ \E m \in Worker : CanGo(m) /\ Passed(m) <= Passed(k)
    BY DEF NoDeadlock
  <2>1. \A m \in Worker : pc[m] = "alloc" => Answers # {}
    BY NeverFull DEF IInv, Turns, Places
  <2>2. pc[k] = "spin" /\ gen[k] = Now
    BY <2>1 DEF CanGo, Advanced, Now
  <2>3. PICK m \in Worker : /\ pc[m] # "done" /\ (pc[m] = "spin" => gen[m] # Now)
                            /\ Passed(m) <= Passed(k)
    BY <2>2, SomeoneComes DEF IInv, Turns
  <2>4. CanGo(m)
    BY <2>1, <2>3 DEF CanGo, Advanced, Now
  <2> QED
    BY <2>2, <2>3, <2>4
<1> QED
  BY <1>1, WithinAlways, Invariance, PTL
=============================================================================
