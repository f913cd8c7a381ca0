------------------------------- MODULE Verify -------------------------------
(***************************************************************************)
(* The programs that drive an allocator.  RunCheck of verify.cpp: nworks   *)
(* threads that take blocks, stamp them, and check the stamps before they  *)
(* give them back, in one of three patterns.  RunOnce of main.cpp: the     *)
(* same patterns with no checks, measured.  RunBoundaryCheck of verify.cpp:*)
(* one thread that takes every block before it checks any.                 *)
(*                                                                         *)
(* The allocator is Malloc's contract, or BrokenAlloc.  A block is one     *)
(* cell of memory, a stamp the pair Mix is given: what happens to blocks   *)
(* of unequal sizes is left to SizeClass.                                  *)
(***************************************************************************)
EXTENDS Integers, FiniteSets, Functions, Barrier

CONSTANTS
    Configs,     \* the programs and their VConfigs or Configs
    LatStride,   \* cfg.latStride
    Times,       \* bound: how long a worker's rounds can take
    MaxWorks,    \* bound: their largest nworks
    Null

\* Cells is a bound, the number of blocks there are (for BrokenAlloc, kWrap / 64);
\* a correct allocator never runs out of them.
ASSUME ConfigsAssumption ==
    /\ MaxWorks \in Nat
    /\ LatStride \in Nat \ {0} /\ Times \subseteq Nat
    /\ \A c \in Configs :
          /\ {c.nworks, c.ntimes, c.rounds, c.window, c.cells} \subseteq Nat \ {0}
          /\ c.nworks <= MaxWorks
          /\ c.pattern \in {"bulk", "interleaved", "cross"}
          /\ {c.broken, c.registry, c.latency} \subseteq BOOLEAN
          /\ c.program \in {"check", "bench", "boundary"}
          /\ c.program = "boundary" => c.nworks = 1 /\ c.rounds = 1 /\ c.pattern = "bulk"
          /\ c.latency => c.program = "bench" /\ c.pattern # "cross"
          /\ c.broken \/ c.cells >= c.nworks * (c.ntimes + 1)

\* nullptr is no block.
ASSUME NullAssumption == Null \notin [p : Nat, tag : Nat \X Nat]

VARIABLES
    cfg,        \* program, pattern, sizes, allocator, --registry, --latency
    pc,         \* where each worker is
    round,      \* r
    i,          \* the loop variable i
    half,       \* which of the round's two barriers, or of the boundary
                \* check's two loops over its blocks, comes next
    hand,       \* the block Take is making
    store,      \* shared[k], local or ring: the blocks a worker has stored
    gen,        \* WaitAtBarrier's gen
    barrier,    \* its counter
    heap,       \* for each cell, how often it is handed out
    cursor,     \* BrokenAlloc's cursor
    mem,        \* the stamp each cell holds
    registry,   \* Registry::live, or the boundary check's seen
    duplicate,  \* f.duplicate # 0
    corrupted,  \* f.corrupted # 0
    twice,      \* history: a block was handed out while it was live
    ctr,        \* ctrA and ctrF: how many calls of each kind
    due,        \* nextA and nextF: which is timed next
    ms, cur,    \* a worker's time, and its copy of the total
    total       \* threadMsTotal

loops == <<round, i, half>>
waits == <<gen, barrier>>
allocator == <<heap, cursor, twice>>
checks == <<mem, registry, duplicate, corrupted>>
timing == <<ctr, due, ms, cur, total>>
vars == <<cfg, pc, loops, hand, store, waits, allocator, checks, timing>>

Worker == 0 .. cfg.nworks - 1
Cell == 0 .. cfg.cells - 1
Slots == 0 .. (IF cfg.pattern = "interleaved" THEN cfg.window ELSE cfg.ntimes) - 1

Gap == 0 .. (2 * LatStride - 1)
FirstDue == IF cfg.latency THEN Gap ELSE {0}

Init ==
    /\ cfg \in Configs
    /\ pc = [k \in Worker |-> "alloc"]
    /\ round = [k \in Worker |-> 0]
    /\ i = [k \in Worker |-> 0]
    /\ half = [k \in Worker |-> 1]
    /\ hand = [k \in Worker |-> Null]
    /\ store = [k \in Worker |-> [x \in Slots |-> Null]]
    /\ gen = [k \in Worker |-> 0]
    /\ barrier = 0
    /\ heap = [p \in Cell |-> 0]
    /\ cursor = 0
    /\ mem = [p \in Cell |-> Null]
    /\ registry = {}
    /\ duplicate = FALSE
    /\ corrupted = FALSE
    /\ twice = FALSE
    /\ ctr = [k \in Worker |-> [a |-> 0, f |-> 0]]
    /\ due \in [Worker -> [a : FirstDue, f : FirstDue]]
    /\ ms = [k \in Worker |-> 0]
    /\ cur = [k \in Worker |-> 0]
    /\ total = 0

Goto(k, where) == pc' = [pc EXCEPT ![k] = where]

\* The tag of a worker's next block: k << 48 | ++counter.
Tag_NoWorker(k, counter) == <<0, counter>>
Tag(k, counter) == <<k, counter>>
Counter(k) == round[k] * cfg.ntimes + i[k]

-----------------------------------------------------------------------------
(* Take: allocate, register, stamp.                                          *)

\* BrokenAlloc walks the slab and wraps; a correct one answers as Malloc says.
Answers == IF cfg.broken THEN {cursor % cfg.cells} ELSE {p \in Cell : heap[p] = 0}

\* Where the block in hand goes; the ring of "interleaved" wraps.
Pos(k) == i[k] % Cardinality(Slots)

\* Which step gives a block back first.
FirstGive(k) == IF cfg.program = "check" \/ (cfg.program = "boundary" /\ half[k] = 1)
                THEN "check" ELSE "free"

\* A taken block goes to its place; a full place in the ring is given back
\* before it is used again.
Taken(k) == IF store[k][Pos(k)] = Null THEN "store" ELSE FirstGive(k)

\* The gap to the next call that is timed is random, and starts at the one
\* after this.
Bump_NoGap(k, kind) == {ctr[k][kind] + x : x \in Gap}
Bump(k, kind) == {ctr[k][kind] + 1 + x : x \in Gap}

\* TimedAlloc and TimedFree count their calls, and time one when it is due.
Sample(k, kind) ==
    IF ~cfg.latency THEN UNCHANGED timing
    ELSE /\ ctr' = [ctr EXCEPT ![k][kind] = @ + 1]
         /\ IF ctr[k][kind] = due[k][kind]
              THEN \E x \in Bump(k, kind) : due' = [due EXCEPT ![k][kind] = x]
              ELSE UNCHANGED due
         /\ UNCHANGED <<ms, cur, total>>

Alloc(k) ==
    /\ pc[k] = "alloc"
    /\ \E p \in Answers :
          /\ hand' = [hand EXCEPT ![k] = [p |-> p, tag |-> Tag(k, Counter(k))]]
          /\ heap' = [heap EXCEPT ![p] = @ + 1]
          /\ twice' = (twice \/ heap[p] > 0)
    /\ cursor' = IF cfg.broken THEN (cursor + 1) % cfg.cells ELSE cursor
    /\ Goto(k, IF cfg.program = "bench" THEN Taken(k) ELSE "insert")
    /\ Sample(k, "a")
    /\ UNCHANGED <<cfg, loops, store, waits, checks>>

Insert(k) ==
    /\ pc[k] = "insert"
    /\ IF cfg.registry \/ cfg.program = "boundary"
         THEN /\ duplicate' = (duplicate \/ hand[k].p \in registry)
              /\ registry' = registry \cup {hand[k].p}
         ELSE UNCHANGED <<duplicate, registry>>
    /\ Goto(k, "fill")
    /\ UNCHANGED <<cfg, loops, hand, store, waits, allocator, mem, corrupted, timing>>

\* FillBlock.
Fill(k) ==
    /\ pc[k] = "fill"
    /\ mem' = [mem EXCEPT ![hand[k].p] = hand[k].tag]
    /\ Goto(k, Taken(k))
    /\ UNCHANGED <<cfg, loops, hand, store, waits, allocator, registry, duplicate, corrupted, timing>>

AfterTaking_NoDrain == IF cfg.pattern = "cross" THEN "load" ELSE "done"
AfterTaking == IF cfg.pattern = "cross" THEN "load" ELSE "next"

Store(k) ==
    /\ pc[k] = "store"
    /\ store' = [store EXCEPT ![k][Pos(k)] = hand[k]]
    /\ hand' = [hand EXCEPT ![k] = Null]
    /\ IF i[k] + 1 < cfg.ntimes
         THEN i' = [i EXCEPT ![k] = @ + 1] /\ Goto(k, "alloc")
         ELSE i' = [i EXCEPT ![k] = 0] /\ Goto(k, AfterTaking)
    /\ UNCHANGED <<cfg, round, half, waits, allocator, checks, timing>>

-----------------------------------------------------------------------------
(* Give: check the stamp, unregister, free.                                  *)

\* Whose blocks a worker gives back: its own, or its neighbour's.
Victim(k) == IF cfg.pattern = "cross" THEN (k + 1) % cfg.nworks ELSE k
Given(k) == store[Victim(k)][Pos(k)]
GivenCell(k) == IF Given(k) = Null THEN {} ELSE {Given(k).p}

\* A round is over.
EndRound(k) ==
    /\ round' = [round EXCEPT ![k] = @ + 1]
    /\ i' = [i EXCEPT ![k] = 0]
    /\ half' = [half EXCEPT ![k] = 1]
    /\ Goto(k, IF round[k] + 1 < cfg.rounds THEN "alloc"
               ELSE IF cfg.program = "bench" THEN "clock" ELSE "done")

SecondBarrier_Missing == FALSE
SecondBarrier == cfg.pattern = "cross"

\* The boundary check looks at all its blocks before it frees one.
CheckedAll(k) == cfg.program = "boundary" /\ half[k] = 1

\* The loop that gives every stored block back.
NextGive(k) ==
    /\ pc[k] = "next"
    /\ IF i[k] \in Slots
         THEN /\ IF Given(k) = Null
                   THEN i' = [i EXCEPT ![k] = @ + 1] /\ UNCHANGED pc
                   ELSE Goto(k, FirstGive(k)) /\ UNCHANGED i
              /\ UNCHANGED <<cfg, round, half>>
         ELSE \/ SecondBarrier /\ Goto(k, "load") /\ UNCHANGED loops
              \/ CheckedAll(k) /\ half' = [half EXCEPT ![k] = 2] /\ i' = [i EXCEPT ![k] = 0]
                               /\ UNCHANGED <<pc, round>>
              \/ ~SecondBarrier /\ ~CheckedAll(k) /\ EndRound(k)
    /\ UNCHANGED <<cfg, hand, store, waits, allocator, checks, timing>>

\* What follows the check, and what follows that.
Afterwards_FreeFirst == [check |-> "free", free |-> "erase", erase |-> "given"]
Afterwards == [check |-> "erase", erase |-> "free", free |-> "given"]

Check(k) ==
    /\ pc[k] = "check"
    /\ corrupted' = (corrupted \/ \E p \in GivenCell(k) : mem[p] # Given(k).tag)
    /\ Goto(k, IF CheckedAll(k) THEN "given" ELSE Afterwards.check)
    /\ UNCHANGED <<cfg, loops, hand, store, waits, allocator, mem, registry, duplicate, timing>>

Erase(k) ==
    /\ pc[k] = "erase"
    /\ registry' = registry \ GivenCell(k)
    /\ Goto(k, Afterwards.erase)
    /\ UNCHANGED <<cfg, loops, hand, store, waits, allocator, mem, duplicate, corrupted, timing>>

\* A freed block's first word becomes a link of a free list; BrokenFree does nothing.
Free(k) ==
    /\ pc[k] = "free"
    /\ heap' = [p \in Cell |-> IF p \in GivenCell(k) THEN heap[p] - 1 ELSE heap[p]]
    /\ mem' = [p \in Cell |-> IF p \in GivenCell(k) /\ ~cfg.broken THEN Null ELSE mem[p]]
    /\ Goto(k, IF cfg.program = "check" THEN Afterwards.free ELSE "given")
    /\ Sample(k, "f")
    /\ UNCHANGED <<cfg, loops, hand, store, waits, cursor, twice, registry, duplicate, corrupted>>

\* The place is empty again: Take goes on, or the loop does.
GiveDone(k) ==
    /\ pc[k] = "given"
    /\ IF CheckedAll(k) THEN UNCHANGED store
                        ELSE store' = [store EXCEPT ![Victim(k)][Pos(k)] = Null]
    /\ IF hand[k] # Null
         THEN Goto(k, "store") /\ UNCHANGED i
         ELSE Goto(k, "next") /\ i' = [i EXCEPT ![k] = @ + 1]
    /\ UNCHANGED <<cfg, round, half, hand, waits, allocator, checks, timing>>

-----------------------------------------------------------------------------
(* WaitAtBarrier: the generation is read, then the counter goes up.          *)

Load(k) ==
    /\ pc[k] = "load"
    /\ gen' = [gen EXCEPT ![k] = Generation(barrier, cfg.nworks)]
    /\ Goto(k, "arrive")
    /\ UNCHANGED <<cfg, loops, hand, store, barrier, allocator, checks, timing>>

Leave(k) ==
    \/ half[k] = 1 /\ half' = [half EXCEPT ![k] = 2] /\ i' = [i EXCEPT ![k] = 0]
                   /\ Goto(k, "next") /\ UNCHANGED round
    \/ half[k] = 2 /\ EndRound(k)

Arrive(k) ==
    /\ pc[k] = "arrive"
    /\ barrier' = barrier + 1
    /\ IF LastThrough(barrier, gen[k], cfg.nworks)
         THEN Leave(k)
         ELSE Goto(k, "spin") /\ UNCHANGED loops
    /\ UNCHANGED <<cfg, hand, store, gen, allocator, checks, timing>>

\* The loop of yields ends when the generation has advanced.
Spin(k) ==
    /\ pc[k] = "spin"
    /\ Advanced(barrier, gen[k], cfg.nworks)
    /\ Leave(k)
    /\ UNCHANGED <<cfg, hand, store, waits, allocator, checks, timing>>

-----------------------------------------------------------------------------
(* RunOnce's end: a worker adds its time to the total.                       *)

Clock(k) ==
    /\ pc[k] = "clock"
    /\ \E x \in Times : ms' = [ms EXCEPT ![k] = x]
    /\ cur' = [cur EXCEPT ![k] = total]
    /\ Goto(k, "add")
    /\ UNCHANGED <<cfg, loops, hand, store, waits, allocator, checks, ctr, due, total>>

\* compare_exchange_weak, in a loop: it may fail for no reason, too.
Exchange_Blind(k) == total' = cur[k] + ms[k]
Exchange(k) == total = cur[k] /\ total' = cur[k] + ms[k]

AddTime(k) ==
    /\ pc[k] = "add"
    /\ \/ Exchange(k) /\ Goto(k, "done") /\ UNCHANGED cur
       \/ cur' = [cur EXCEPT ![k] = total] /\ UNCHANGED <<pc, total>>
    /\ UNCHANGED <<cfg, loops, hand, store, waits, allocator, checks, ctr, due, ms>>

-----------------------------------------------------------------------------
Barriers(k) == Load(k) \/ Arrive(k) \/ Spin(k)

RunCheck(k) ==
    /\ cfg.program = "check"
    /\ \/ Alloc(k) \/ Insert(k) \/ Fill(k) \/ Store(k)
       \/ NextGive(k) \/ Check(k) \/ Erase(k) \/ Free(k) \/ GiveDone(k)
       \/ Barriers(k)

RunOnce(k) ==
    /\ cfg.program = "bench"
    /\ \/ Alloc(k) \/ Store(k)
       \/ NextGive(k) \/ Free(k) \/ GiveDone(k)
       \/ Barriers(k)
       \/ Clock(k) \/ AddTime(k)

RunBoundaryCheck(k) ==
    /\ cfg.program = "boundary"
    /\ \/ Alloc(k) \/ Insert(k) \/ Fill(k) \/ Store(k)
       \/ NextGive(k) \/ Check(k) \/ Free(k) \/ GiveDone(k)

Step(k) == RunCheck(k) \/ RunOnce(k) \/ RunBoundaryCheck(k)

Next == \E k \in Worker : Step(k)

Spec == Init /\ [][Next]_vars

\* Every worker is a thread the scheduler runs.
FairSpec == Spec /\ \A k \in 0 .. MaxWorks - 1 : WF_vars(k \in Worker /\ Step(k))

-----------------------------------------------------------------------------
(* Properties.                                                               *)

Done == \A k \in Worker : pc[k] = "done"

\* A correct allocator is never accused: no stamp is found changed and no live
\* pointer found registered, whatever the interleaving (verify.cpp:231-271).
NoFalseAlarm == ~cfg.broken => ~duplicate /\ ~corrupted

\* Over a correct allocator a worker only frees a block that is out, that no
\* other worker is freeing, and that sits in one place (main.cpp:320-325, "a
\* use-after-free").
FreesLive ==
    ~cfg.broken => \A k \in Worker : pc[k] \in {"check", "erase", "free"} =>
        /\ Given(k) # Null
        /\ \A p \in GivenCell(k) : heap[p] > 0
        /\ \A m \in Worker \ {k} :
              pc[m] \in {"check", "erase", "free"} => GivenCell(m) \cap GivenCell(k) = {}

\* When the threads are joined every block has gone back, and none is still
\* registered (verify.cpp:257-321, 511-520).
AllReturned ==
    Done => /\ \A p \in Cell : heap[p] = 0
            /\ cfg.program = "check" => registry = {}

\* No worker gives blocks back in a round some worker still takes blocks in, nor
\* the other way round (main.cpp:320-325).
Taking(k) == pc[k] \in {"alloc", "insert", "fill", "store"}
Giving(k) == pc[k] \in {"next", "check", "erase", "free", "given"}
PhasesApart == cfg.pattern = "cross" => \A k, m \in Worker : ~(Taking(k) /\ Giving(m))

\* All workers finish: nobody waits at a barrier for ever.
Finishes == <>Done

\* A block handed out while it was live is reported by the end of the run
\* (verify.cpp:19-23, "all show up as a corrupted stamp").
Detected == Done /\ twice => corrupted \/ duplicate

\* No worker's time is lost or counted twice, whoever adds at the same moment
\* (main.cpp:343-345).
TotalIsSum ==
    Done /\ cfg.program = "bench" =>
        total = FoldFunction(LAMBDA x, y : x + y, 0, ms)

\* The next call to time is never behind the count, where equality would never
\* come again, and never 2 * latStride calls away (main.cpp:248-284).
SamplesGoOn ==
    cfg.latency => \A k \in Worker : \A kind \in {"a", "f"} : due[k][kind] - ctr[k][kind] \in Gap
=============================================================================
