# A verification of the thread-caching allocator

TLA+ models of the allocator in this repository, model-checked with TLC, with
theorems checked by TLAPS. The allocator answers `ConcurrentAlloc` and
`ConcurrentFree` (`ConcurrentAlloc.h`) from three layers: a `ThreadCache` per
thread, one `CentralCache` with a mutex per size class, and one `PageCache` with
a mutex of its own. `main.cpp` measures it and `verify.cpp` checks its contract
at run time.

## 1. The system

| Part | State it keeps | Operations | Talks to |
|---|---|---|---|
| `ConcurrentAlloc/Free` | the thread-local pointer `pTLSThreadCache` | allocate, free | `ThreadCache` for sizes up to 256 KB, `PageCache` above |
| `ThreadCache` | a free list and a cap `_maxSize` per class | `Allocate`, `Deallocate`, `FetchFromCentralCache`, `ListTooLong` | `CentralCache` when a list is empty or too long |
| `CentralCache` | per class: a mutex and a list of spans; per span `_freeList`, `_useCount` | `FetchRangeObj`, `GetOneSpan`, `ReleaseListToSpans` | `PageCache` for spans, with the bucket's mutex let go |
| `PageCache` | free spans by length, the map from page to `Span`, a pool of `Span` objects, one mutex its callers lock | `NewSpan`, `ReleaseSpanToPageCache`, `MapObjectToSpan` (no mutex) | `SystemAlloc`, `SystemFree` |
| `SizeClass` | none | `RoundUp`, `Index`, `NumMoveSize`, `NumMovePage` | used everywhere |
| `ObjectPool` | a bump pointer, a count of bytes, a free list, a mutex | `New`, `Delete` | `SystemAlloc` |
| `TCMalloc_PageMapRadix64` | a tree of nodes that only grows | `get` (no mutex), `set` | `SystemAlloc` |
| `main.cpp` | a barrier counter, arrays of blocks the threads share | patterns bulk, interleaved, cross-thread | the allocator |
| `verify.cpp` | the same, a registry of live pointers, stamps in the blocks | `RunCheck`, `RunBoundaryCheck` | the allocator, or `BrokenAlloc` |
| `AllocStats` | atomic counters | increments | nothing |

What is hard in it:

* `GetOneSpan` unlocks its bucket in the middle, and `ReleaseListToSpans`
  unlocks it around each span it returns; both lock the `PageCache` by hand.
* `ConcurrentFree` reads the page map and the span's class with no mutex.
* The page map is exact for spans in use and only right at the ends of free
  ones; merging trusts it.
* The size-class map is two if-chains that have to agree, one branch of which a
  build knob moves.
* `NewSpan`, the pool and the radix tree can throw in the middle of an update.
* The radix tree is read with no mutex while it grows.
* Free objects are linked through their own first words, spans through rings
  that other threads change whenever the bucket's mutex is let go.
* Page numbers are addresses shifted right; `mmap` may answer with addresses that
  lose bits in the shift.
* A thread's cache outlives the thread.
* The harness reuses one barrier counter, twice a round.

What makes each part correct: a page run belongs to one span, a bucket to one
length, no page is lost (PageCache); an object is in one place, counted, and a
span goes back only when nobody holds an object of it (CentralCache); lists stay
under their cap (ThreadCache); blocks handed out never overlap, and calls return
(the whole); rounding and indexing agree (SizeClass); `get` answers like an
atomic map (radix tree); spans lie in memory that is mapped, and so do a pool's
objects until a `SystemAlloc` throws in it (system memory); rings and chains are the sequences they stand for (lists);
phases stay apart and a correct allocator is never accused (checker).

## 2. The modules

| Module | Models | Uses |
|---|---|---|
| `PageHeap` | what the page layer promises: page runs handed out do not overlap, and only a run that is out comes back | |
| `PageCache` | `PageCache.cpp`, one action per step of its loops | `PageHeap` (refined) |
| `SizeClass` | the arithmetic of `Common.h:186-296` and of the carving loop | |
| `Malloc` | the contract: blocks that are out never overlap, each goes back once | |
| `Allocator` | `ConcurrentAlloc.h`, `ThreadCache.cpp`, `CentralCache.cpp`, the end of a thread | `Malloc` (refined) |
| `Lists` | one class as sequences: spans in the bucket and in the page layer, free objects of each span and thread | |
| `Links` | the same class over `_next`, `_prev` and the objects' first words, with the loops that walk, cut and splice | `Lists` (refined) |
| `PageMap` | the page map as one atomic function | |
| `Radix64` | `PageMap.h:142-222`: nodes, stores in flight, readers | `PageMap` (refined) |
| `SystemMemory` | `SystemAlloc` and `SystemFree`, address by address | |
| `ObjectPool` | `ObjectPool.h`: `New`, `Delete`, a throw in `New` | `SystemMemory` |
| `MappedSpans` | who maps memory: chunks, large blocks, the two pools | `ObjectPool` |
| `Barrier` | the arithmetic of `WaitAtBarrier` | |
| `Verify` | `RunCheck` and `RunBoundaryCheck` of `verify.cpp`, `RunOnce` of `main.cpp` | `Barrier` |
| `Arithmetic` | facts about quotients, and induction over numbers, used by proofs | |
| `PageCacheProofs`, `SizeClassProofs`, `AllocatorProofs`, `Radix64Proofs`, `MappedSpansProofs`, `VerifyProofs`, `LinksProofs` | theorems about the module of the name | that module |

`MC*` modules hold the symmetry sets and the small sets of the instances, `.cfg`
files their values. Definitions with an underscore in their name, such as
`Erase_Skipped`, are variants with a plausible bug in them: no specification
uses them, they show that a property can fail.

### PageCache

The mutex is held by the callers, so one operation runs at a time and `pc` says
where in it: `idle` (mutex free), `new`/`again` (in `NewSpan` and in its
recursive call), `left`/`right` (the two merge loops), `thrown`. `idSpanMap`,
`pageId`, `n`, `isUse`, `spanList` are the fields of the same names; `live` the
`Span` objects taken from the pool; `held` the spans callers have; `os` what
`mmap` has mapped. A dead `Span` keeps its fields, except that the pool's link
overwrites `_pageId`. The callers' assignment to `_isUse` in the same critical
section is part of the step. Buckets are sets, so `PopFront` takes any of their
spans.

`SystemAlloc` places a request wherever the configuration offers room, so that
chunks become neighbours or not; it throws when there is none left, and the
mutex its callers locked by hand then stays locked: `MutexHeldForever`. A throw
out of the pool or the radix tree in mid-update is in `MappedSpans` and `Radix64`.

### Allocator

Each thread has a `pc` over the points at which a mutex is taken, waited for or
held; `cache`, `maxSize`, `bucket`, `spanFree`, `useCount`, `objSize` are the
fields of the code, `chain` what `ReleaseListToSpans` still has to give back,
`span` a span in a thread's own hands. What happens in one critical section up
to the next unlock is one step where no other thread could see between, except
that a chain is given back object by object. Carving happens with no mutex, as
in the code. The page layer is a set of slots of which `NewSpan` picks one
nobody has: what `PageHeap` says, and `PageCacheProofs!Refinement` proves for
`PageCache`. Free lists are sets (which object comes first is open), lengths are
exact. A freed block's class is looked up through `objSize`, never taken from
the block. A thread that ends leaves its cache behind (`stranded`), since no code
gives it back. `out` is a history variable: it counts blocks, so that handing one
out twice is not a stutter for `Malloc`.

### Links and Lists

`Links` keeps what `Allocator` abstracts: the order in lists and the pointers
that make it. `links` is `_next` and `_prev` of every `Span` and of the two ring
heads, `word` the first word of every object, which is a link while the object
is free and the user's `Data` while it is not. The operations follow the
pointers as the code does, with its counters as loop bounds, so a wrong count
walks past `Null`. `ReleaseListToSpans` takes one step per object and lets go of
the bucket where the code does. The refinement mapping reads the sequences of
`Lists` off the pointers: `RingOf`, `FreeOf`, `ListOf`, and `GoingOf` for what is on
its way back to the spans. The page layer is a second ring that spans of this length
go to and come from; `PageCache` has its splits and merges.

### Radix64 and PageMap

`mem` is what other threads see, `own` what the holder of the `PageCache`'s mutex
sees, `pending` the stores in between. A store becomes visible at any later
moment, not before an older store to the same place, and a release store not
before anything older. Readers take one acquire load per step. `SetMid` and
`SetLeaf` make a node, clear it and publish it where it is missing, `SetValue`
stores; `SetThrows` is `SystemAlloc` failing before either node. `latest` is a history variable, the function `PageMap` is about; `get`
answers with a value the map had at one moment of the call.

### SystemMemory, ObjectPool and MappedSpans

`owner` maps every address to the start of the mapping it belongs to. `Granule`
is what `mmap` aligns to, `PAGE` the allocator's page, both in units of the
smallest system page, and page numbers are `\div` and `*` as the shifts are. An
`ObjectPool` has `_memory`, `_remainBytes` and its free list; `given` and `threw`
are history. `NewThrows` leaves `_remainBytes` set, as the code does.
`MappedSpans` has the calls that map: large blocks and chunks with their `Span`
object, a thread's first `ThreadCache`, and what is left when one throws. A chunk
stays one span there: cutting it is `PageCache`'s subject.

### SizeClass

A behaviour picks one of the two alignments the build offers and walks the
request sizes; every function is applied to each. `size_t` is taken modulo
`SizeMax`, 2^20 in the run and any number in the proofs.

### Verify and Barrier

`cfg` is chosen at the start: one of the programs `check` (`RunCheck`), `bench`
(`RunOnce`), `boundary` (`RunBoundaryCheck`) and its options. Each worker has a
position, its loop variables, the block `Take` is making and the array it stores
blocks in. The allocator is any that meets `Malloc`, or `BrokenAlloc`'s cursor. A
block is one cell, a stamp the pair that is mixed into the tag. `Free` of the
correct allocator overwrites the cell, as the free list's link does. A worker
reads its generation in one step and arrives in another. Sampled calls count up
to `due`, which lies at most `2 * latStride - 1` calls ahead; the total is read in one step
and compare-exchanged in another, which may fail for no reason.

## 3. The runs

| Run | Instance | Shows |
|---|---|---|
| `pages` | `NPAGES` 4, chunks at pages 3 and 6, large requests of 4 and 5 pages at page 1, 6 `Span` objects, symmetric; 436,000 states | the invariant that is proved; merges take neighbours only, and all they can; every step of an operation brings a measure down; `PageHeap` is implemented |
| `pages_stale_map` | a chunk may be mapped right after a freed large span's first page | violation, section 6 |
| `sizes` | every size up to 272 KB, both alignments; 557,000 states | covering, idempotence, agreement of the if-chains, bounds, spans that fit, carving inside the span |
| `alloc` | 3 threads, 3 slots, 2 objects to a span, 1 class and large blocks, batches to 2, one thread may end, threads that free first; symmetric; 735,000 states | one place per object, exact counts, caps, whole-list flushes, spans go back unused, what an end strands is bounded, `Malloc` is implemented; no deadlock, of all threads or of some |
| `alloc_calls` | 2 threads, 4 calls each, 2 classes, 2 slots; 208,000 states | a class looked up with no mutex is right while spans change class; each call returns |
| `alloc_foreign_free` | | violation, section 6 |
| `verify_runs` | eight configurations: the gate with 3 workers over the barriers, with a ring, and as negative control; the boundary check of both allocators; the benchmark across threads and with sampling in both other patterns; 611,000 states | phases apart, no false alarm, all returned, times add up, sampling goes on, all finish; the negative controls are caught |
| `radix` | one reader, page ids 0, 1, 2, 4 (a shared `Leaf`, a shared `Mid`, none shared) and 8 (past the end), 2 entries to a node, 2 `Mid`s, 2 `Leaf`s, 2 calls of `set` to a critical section; 538,000 states | `set` arrives, published pointers stay, `PageMap` is implemented |
| `memory` | a page of 2 units, a chunk of 2 pages, large blocks of 2 and 3, 19 addresses, 2 threads, `mmap` aligned to pages; 674,000 states | spans lie in mapped memory of their own, and pool objects until a throw; `munmap` takes its own block, nothing leaks |
| `chunk_align` | the same, `mmap` aligned to half a page | violation, section 6 |
| `pool_throw` | the same as `memory` | violation, section 6 |
| `links` | 2 threads, 3 spans of 2 objects, batches to 2; symmetric; 53,000 states | rings stay closed both ways, counters match chains, `Lists` is implemented |

**Bounds.** Four-page buckets contain every shape of split and merge: exact fit,
a remainder of each length, a merge that fits and one that is one page too long,
on both sides, inside a chunk and across two. Two objects a span give full,
half-used and empty spans; two slots for two classes force every span to change
its class; a third slot lets two spans of a bucket exist while a third is on its
way; batches of two reach the cap, one above it and the flush. `RoomLeft` starts
a call that may need a span only when a slot is left for it: running out of
memory is `PageCache`'s subject. Two entries a node make page ids that share
both nodes, one, and none; one reader is enough because readers change nothing.
19 addresses hold a chunk of each pool, a span and a large block at once, and
fewer than all that is asked for, so that `SystemAlloc` throws. Three workers are
what it takes for one to be a generation ahead while another still spins.
`SizeMax` is above every sum the walk forms.

**Deadlock** is checked in `pages`, `alloc`, `memory` and `links`. It is not where
the system stops rightly: the walk ends (`sizes`), the threads are joined
(`verify_runs`), the calls are used up (`alloc_calls`), the nodes run out while
the mutex stays locked (`radix`).

**Fairness.** `Allocator`: weak fairness of every thread inside a call; nobody has
to begin a call. Calls are bounded in `alloc_calls`, because `std::mutex` is not
fair: with calls without end a waiting thread may starve, and a strong fairness
assumption would hide it. `Verify`: weak fairness of every worker, which is
`join` on running threads; the spin loops yield. `PageCache` assumes none: that
its operations end is stated as a measure each of their steps brings down
(`OperationsEnd`), which with a running holder of the mutex is termination.

## 4. The proofs

Every theorem is for all values of the constants that meet the modules'
assumptions, with the extra one named here.

**`PageCacheProofs`**, assuming `Isolated`: no chunk is ever placed so that it
touches a large span's first page. Without it the theorems are false, which
`pages_stale_map` shows; a program whose requests stay under 129 pages meets it.

* `Safety`: `Spec => []Inv`. `Inv` is inductive: disjoint spans, pages mapped,
  none lost, buckets, both halves of the map (`HeldFound`, `FreeEndsFound`),
  `GrowsOnce`, and `MapKnows`, which the others need: the map knows pages of
  chunks and first pages of large spans only, so that what a merge finds next
  to a span is a live one. `BesideCur` and `NeighbourLemma` turn a map entry
  beside the span into a span that adjoins it; there is a lemma per action.
* `MergesAreWithNeighbours`: what a merge loop swallows is free, listed and adjoins.
* `ReleaseCoalesces`: when a release ends, nothing that could have been merged is left.
* `EveryOperationEnds`, for finitely many `Span` objects: the measure
  (`StepsLeft`) counts the live spans a merge loop may still swallow, and the one
  recursive call of `NewSpan`.
* `Refinement`: every step is an `Alloc` or a `Free` of `PageHeap`, or a stutter.

**`AllocatorProofs`**, with nothing beyond `Allocator`'s own assumption. The
inductive invariant says where everything is: `Types`; `Phases`, what a thread has
in its hands at each position of its call; `Classes`, that lists are of one class
each; `HeldOK`, that an object that is out belongs to a span in its class's
bucket and is not on the span's free list; `Disjoint`, that caches, chains,
callers' blocks and what ended threads left are apart; `Slots`, that a span is
with the page layer, in one bucket, in one thread's hands or a large block, and
that `_useCount` is the number of its objects that are out; `Counts`, the caps.
None of it is inductive alone: that a count is exact needs the objects to be
apart, that the class read with no mutex is right needs the span to stay in its
bucket while an object of it is out, and that needs the count. From
it: `TypeCorrectness`, `Exclusion`, `Conservation`, `Idleness`, `ClassLookup`,
`Hoarding`, `Stranding`, `WholeLists`, and `Refinement` of `Malloc`. Three further
arguments stand on it:

* `CallsEnd`: every step begins a call or lowers `CallLeft` of one thread, which counts
  the objects still to go back and the steps from where the thread is, and changes that
  of no other.
* `MutualExclusion` (a mutex is held by the one thread inside its sections),
  `LockDiscipline` (what a mutex guards changes in the hands of its holder only) and
  `DeadlockFreedom` (a call that cannot step is about to lock a mutex whose holder
  can: nobody asks for one mutex while it holds another), which is the run's
  `NoDeadlock`. TLC's own deadlock check sees only the state where nobody can step;
  `NoDeadlock` also sees two threads that wait for each other while a third goes on.
  It needs `Room`: a thread that has asked for a slot finds one, which `RoomLeft` sees
  to when it starts. `CanGo` spells out what the guards ask for, since `ENABLED` is out
  of the prover's reach.
* `PageCalls`: wherever the slots lie, as long as their runs of pages are fixed and do
  not overlap, what the allocator asks of the page layer is a behaviour of `PageHeap`,
  the contract `PageCacheProofs!Refinement` shows `PageCache` to implement. It is what
  the composition of the two layers rests on in place of a run over their product.

**`SizeClassProofs`**, assuming `NoWrap`: the largest request walked is two
alignment steps, 16382 bytes, below the largest `size_t`. `RoundUp` and `Index`
are put in closed form for each of the six groups (`Group8` to `Group8192`);
`Block`, `LastClass` and `OneStep` compare the forms in a group and across its
border. From them `Covers`, `Idempotence`, `InRange`, `Agreement`; `Batch` and
`Pages` bound the product in `NumMovePage` for `Fits` and `Carving`. The run walks
to 272 KB; the theorems go to the end of `size_t`. `Boundary` does without `NoWrap` and
says where that end is for a large request: pages enough up to the last size with a page
above it, and zero bytes, hence zero pages, beyond.

**`Radix64Proofs`**, with nothing extra. The inductive invariant: a node is fresh,
then cleared, then published by one parent, then filled, in that order of stores;
what is pending keeps to the release order; a value lies where its page id leads
(page ids are their three indices, by `Arithmetic`). From it `Arrival` (also after a
`set` that threw), `Publication`, and `Refinement` of `PageMap`.

**`MappedSpansProofs`**, assuming `Aligned`: `mmap`'s granularity is a multiple of
the allocator's page, which `chunk_align` shows to be needed. The invariant: spans,
chunks of pools, and what a throw left are whole mappings and apart. From it
`Writable` (of spans only), `Distinctness` (of pool objects, until a throw in a pool,
after which it is false, as `pool_throw` shows), `Frugality`, `Munmap`.

**`VerifyProofs`**, for any number of workers, rounds, blocks and places, any set of
configurations, and with nothing beyond `Verify`'s own assumptions (one of which says
that `Null` is not a block). The inductive invariant has four parts. `Turns` is the
order of things: types, what a worker has in hand at each position (`Hands`), where in
a round it is (`Order`), and the barrier (`InStep`): the counter is the number of
workers times the generations that are over, plus those that have arrived in this one,
and every worker has passed as many barriers as there are generations, or one less
while it still spins. That a counter used twice a round keeps taking and giving apart
rests on it. `Places` counts: in a correct allocator a cell is out as often as workers
hold it or have it stored, which is at most once (`Counted`, `Once`), and a block that
is out has the stamp and the register entry its worker expects (`Stamped`,
`Registered`). `Control` is the broken allocator: tags do not repeat (`Tagged`), and two
live blocks in one cell have been caught or are still to be checked (`Caught`,
`Seen`). `Measures` is what `RunOnce` measures. From it:

* `Acquittal`, `Freeing`, `Return`, `Separation`, `Sampled`: a correct allocator is
  never accused, only live blocks are freed, all go back, phases stay apart, the
  sampled call is never behind the count.
* `Detection`, for configurations whose broken runs are the boundary check or `check`
  across threads, as those of `verify_runs` are. In the patterns with no barrier it is
  false: section 6, last observation.
* `Total`: the sum built with compare-exchange is the fold of the workers' times. The
  fold is recursive, so this is an induction, over the set of the numbers of workers
  for which the statement holds (`Arithmetic!Induction`, `SetInduction`).
* `RunsEnd`: every step of a worker lowers `Left`, what it has still to do (rounds, half a
  round, the loop, the calls to the next sample, steps), in the order of the first entry
  that differs, and leaves that of the others, but that a compare-exchange that succeeds
  may set back those that are about to try theirs. One that fails for no reason changes
  nothing.
* `BarriersOpen`: a worker that cannot step waits for a generation to end, and one that
  has still to arrive there can step. It uses that no worker runs out of places or of
  blocks (`NeverFull`), by counting, and that a worker which is done has passed every
  barrier of the run.

**`LinksProofs`**, for any number of threads, spans, objects to a span and objects to
a batch, with nothing beyond `LinksAssumption`. The inductive invariant `IInv` says
that there are sequences the pointers lead through (`F` from the spans' free lists, `L`
from the threads' lists, `G` from what is going back, `R` around the rings) and a place
for each object and each span, such that: every chain leads to null and meets nothing
twice (`Chains`); an object has one place, so chains and users are apart (`Apart`); the
rings close and `_prev` is `_next` turned around (`Rings`); a span is where its ring
says, and in the bucket while an object of it is out (`Whereabouts`); counters count
(`Counts`); a span between two locks is in one thread's hands (`Hands`). `RingsClosed`
and `Counted` need all of it: a store into an object leaves the other chains as they
are only because chains are apart; cutting a batch off by count ends where it should
only if the count is exact; that `_useCount` at zero means a span is whole needs the
number of its objects on its chain, hence that none is there twice. `Walk` joins the
sequences to the model: where a pointer leads through a sequence, `Path` is that
sequence, by induction over the length walked (`Arithmetic!Induction`; `Pigeons`
bounds it). Each action has a lemma that it keeps `IInv`, with the new sequences as
witnesses, and one that it is a step of `Lists`. From it:

* `Invariance`; `Closure` and `Counting`: the run's `RingsClosed` and `Counted`.
* `Refinement`: every step is one of `Lists` on the sequences read off the pointers.
* `Disjointness`: an object is with a user or on one chain, once.
* `NoWrap`: the `size_t` counters never pass below zero.
* `Contracting`: `Malloc` is implemented with no account of the objects but the pointers;
  what is popped or fetched is the first of a chain, and nobody's.

**Only model-checked.** Liveness: `CallsReturn`, `Finishes`; the prover has neither
fairness nor `ENABLED`. Their safety halves are theorems: a measure that goes down
(`CallsEnd`, `RunsEnd`) and somebody who can always step (`DeadlockFreedom`,
`BarriersOpen`). What is left to TLC is that with weak fairness these make a call return
and a run finish; in `alloc_calls` the number of calls is bounded, for with calls without
end a waiting thread may starve. Every other property that a passing run checks is a
theorem.

## 5. Not modelled

* `AllocStats`: counters nothing depends on.
* `PageMap1` (32-bit builds), `PageMap2` and `PageMap3` (used by no build).
* `main.cpp`: repetitions and statistics over them, size distributions, options
  and printing. They compute with what was measured and drive nothing.
* `verify.cpp`: sizes and alignment of the blocks, messages, options.
* The Windows branches of `SystemAlloc` and `SystemFree`.
* One composition of all layers. `Allocator` stands on slots, justified by
  `PageCacheProofs!Refinement` and `AllocatorProofs!PageCalls`; `Links` on rings of one length; `MappedSpans` on
  uncut chunks. Their product is beyond TLC at any size where the cases happen.
* The order of free lists in `Allocator`; `Links` has it, for one class.

## 6. What the checks found

* `pages_stale_map` (`PageCache.cpp:99`): unmapping a span of 129 pages or more
  leaves its page in the map. A chunk mapped after that page merges with a
  `Span` that is no longer there, and memory that is not mapped is handed out.
* `chunk_align` (`PageCache.cpp:35`): page numbers are addresses shifted by 13,
  `mmap` aligns to 4 KB. At an odd 4 KB address a span begins below its mapping.
* `pool_throw` (`ObjectPool.h:30`): a `SystemAlloc` that throws leaves
  `_remainBytes` set; the next `New` returns memory the pool never mapped.
* `alloc_foreign_free` (`ConcurrentAlloc.h:47`): a thread that frees before it
  allocated a small block hits an assertion, though cross-thread free is part of
  `verify.cpp`'s contract.

Observations without a run:

* `SystemAlloc` throws under a mutex that is locked and unlocked by hand
  (`CentralCache.cpp:22-26`, `ConcurrentAlloc.h:17-21`), and nothing unlocks it.
  `PageCache` ends in `MutexHeldForever` there; no document says otherwise.
* `_RoundUp` (`Common.h:190`) wraps for requests within 8191 bytes of 2^64 and
  then answers with a size of zero (`Boundary`); `NoWrap` keeps the other theorems
  away from it.
* `README.md:154` and `:487` say spans of 128 pages go back to `munmap`; it takes
  129, which is `NPAGES`.
* A block handed out twice between a check and the free can go unreported outside
  of the cross-thread pattern (`verify.cpp:260-270`): `Detected` is checked where
  all blocks are out at once, across threads and in the boundary check.

## 7. Plan

Done: every component but the ones of section 5, each with its refinement where
it has an abstract specification, and the proofs of section 4.

Left, in this order:

1. `Allocator` over `PageCache` in one module, with slots whose runs change from one use
   to the next and the page mutex shared. `PageCalls` covers slots that stay where they
   are; the sharing of the mutex is not checked across the two modules.
2. `SystemAlloc`'s throw in `Allocator`, should the code come to release its mutexes then.
3. `SizeClass`, should the code come to guard against requests beyond `Boundary`.
