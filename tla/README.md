# Models and proofs for the malloc lab

The repository is a solution of the CS:APP malloc lab: two dynamic storage
allocators behind one interface (`mm.h`), a simulated memory system under them,
and a driver that replays trace files against whichever allocator was built in
and judges it. Everything lives in `src/malloclab-handout` and is one sequential
C program. This directory holds TLA+ models of it, the TLC configurations that
check them and TLAPS proofs about both allocators, the size classes of the
segregated one, the driver and the timing code.

## 1. Inventory

| Part | State it keeps | Operations | Used by |
|---|---|---|---|
| `memlib.c` | region, `mem_brk` | `mem_init`, `mem_sbrk`, `mem_reset_brk`, `mem_clear` | allocators (`mem_sbrk`), driver (reset, clear) |
| boundary tags (macros of both allocators, `utils.h`) | header and footer words in the region | pack, read, next, previous, write | both allocators |
| `segregate.c` (default build) | tags, table of list heads and the list pointers, all in the region | `segregate_mm_init/malloc/free/realloc`, `coalesce`, `freelist_*`, `extend_heap`, `flt_index` | `mm.c` |
| `implicit.c` | tags in the region; `heap_curp` for next fit | `implicit_mm_init/malloc/free/realloc`, `first_fit`, `next_fit`, `best_fit`, `place`, `coalesce`, `do_malloc`, `extend_heap` | `mm.c` |
| `mm.c` | none | forwards each call at compile time | driver |
| `mdriver.c` | trace, `blocks`, `block_sizes`, range list, statistics, `errors` | `eval_mm_valid`, `eval_mm_util`, `eval_mm_speed`, `add_range`, `remove_range`, `clean_up`, report | - |
| `fsecs.c`, `ftimer.c` | the timing method, chosen at compile time | repeat a function and time it: `ftimer_gettod` (default), `ftimer_itimer` | driver |
| `fcyc.c` | the `kbest` smallest samples, parameters, the buffer that fills the cache | `fcyc`, `add_sample`, `has_converged`, `clear`, `set_fcyc_*` | `fsecs.c` (not in the default build) |
| `clock.c` | the counter at the start (two words), what a timer tick costs, tick count at the start | `start_counter`, `get_counter`, `callibrate`, `start_comp_counter`, `get_comp_counter` | `fcyc.c` |

The parts interact by calls and through one piece of shared state, the region:
the allocators keep their whole data structure in it, between payloads that the
client writes; the driver resets and clears it behind the allocator's back
between two runs over a trace. Nothing is persisted and nothing is sent. The one
thing that runs beside the program is the timer interrupt, which `clock.c`
measures and takes off the cycles it counts. What is hard is

* long sequences of legal calls: split, coalesce, shrink and grow each rewrite
  tags and pointers that only a much later call reads;
* the limits: a full region, a remainder too small for a block, exact fits;
* state left by one run (break, words, list heads, cursor) and met by the next;
* searches without a bound of their own, which end only if the lists are sound;
* an order of calls in `main`: with `-l`, the simulated memory is cleaned before
  it is set up;
* a timer interrupt between the reading of the cycle counter and that of the tick
  count, and a low word that starts again every 2^32 cycles;
* `callibrate` and the sampling loop, which end only if ticks come and samples
  are counted;
* branches of `implicit_mm_realloc` whose correctness depends on a word nobody
  wrote (see `TailGrowsInPlace` below).

What makes the parts correct: payloads are aligned, inside the heap and
disjoint; data survives every call on another block and a realloc of its own;
blocks tile the heap and their marks agree with what the client holds; free
lists hold exactly the free blocks; a call fails or extends the heap only if it
must; a failing call returns; searches end. For the driver: its range list is
what the trace holds, its verdicts are right, its space measure is that of the
trace, every run starts from a clean heap. For the timing: the counter gives the
cycles that passed, the cost of a tick is right within its stated precision, a
compensated sample never exceeds what the function took, the result is the best
of all samples, and a call returns.

`PROJECT.json` lists the components, the hazards by source line, and which
property covers which hazard.

## 2. Modules

| Module | Models | Extends |
|---|---|---|
| `Memlib` | `memlib.c`; word memory, break, libc's `memset` and `memcpy` (external) | |
| `BoundaryTag` | tag macros; what it is for a set of blocks to tile a heap | `Memlib` |
| `TraceClient` | the caller: ids, pointers, fills, `clean_up`, an abandoned trace; the properties both allocators owe it | `BoundaryTag` |
| `MallocContract` | abstract specification of `mm.h` | |
| `FltIndex` | `flt_index` | |
| `Segregate` | `segregate.c` | `TraceClient`, `FltIndex` |
| `Implicit` | `implicit.c` | `TraceClient` |
| `Driver` | `mdriver.c` (with and without `-l`) and the repetitions of `ftimer.c`, against an arbitrary allocator | `BoundaryTag` |
| `CycleCounter` | `start_counter`, `get_counter` of the machines `clock.c` knows, on words of W values | |
| `FCyc` | `fcyc.c` and the rest of the counters of `clock.c`, with the timer interrupt | `CycleCounter` |
| `MCSegregate`, `MCImplicit`, `MCDriver`, `MCFCyc` | instances for TLC | |
| `TraceClientProofs` | lemmas for both allocators: tilings, the walk over a heap, the client's view | `TraceClient` |
| `SegregateHeapProofs`, `ImplicitHeapProofs` | lemmas: what the operators of an allocator do to a well-formed heap | `TraceClientProofs` |
| `SegregateProofs`, `ImplicitProofs` | theorems about the allocators | the above |
| `FltIndexProofs` | theorems about the size classes | `FltIndex` |
| `DriverProofs` | theorems about the driver | `Driver` |
| `FCycProofs` | theorems about the cycle counter, `callibrate` and `fcyc` | `FCyc` |

### How state and actions correspond to the code

**Memory.** `mem` is a function from 4-byte word addresses to words: a tag, an
address, or the id of the client whose byte pattern the word holds. It has one
word below the region because `implicit_mm_init` lets `extend_heap` write an
epilogue there. A store outside the region enlarges the function's domain, so
that `TypeOK` says that there was none. Ids are model values: an allocator that
took client data for a tag or a pointer would stop TLC.
Sizes and addresses are small integers; sums stay far below 2^31 for the 20 MB
of `config.h`, so that no width is lost. `flt_index` and `get_counter`, where
the width matters, are proved right for every `int` and every word size.

**Allocator calls.** A call without a loop is one action; `malloc` is an entry
action, one action per turn of its search loop, and one for the end. Between
calls `pc = "client"`. `"returned"` is the moment between the return of a call
and the client's `memset` of the block, at which the driver checks the data.
`"undefined"` is entered where the code performs an access C gives no meaning to
(a store outside the region, a copy to `NULL`, a load through `NULL`).
Each way `implicit_mm_realloc` can end is an action of its own:
`ReallocInPlace`, `GrowIntoNext`, `GrowTail`, `GrowIntoPrev`, `Move`.
The three strategies are chosen at compile time; `FIT` is fixed in `Init`, so
that one run covers the three builds.

**Client.** Any client that allocates an id it does not hold and frees or
reallocs one it does. It may go on after a failed call; the driver gives the
trace up, which is `StartTrace` in the specifications `SpecTraces` and
`FairSpecTraces`: the break is reset, memory is not cleared.
`mm_realloc(ptr, 0)` is taken as a free, although `implicit.c` returns the freed
pointer for it and `segregate.c` returns `NULL`.

**memcpy.** Where `implicit.c` copies between overlapping regions the result is
undefined; `MemcpyDescends` selects whether the library copies upwards or
downwards.

**Driver.** The allocator is the environment: it returns any pointer of `Ptrs`
or `NULL`, moves the break up to any of `Breaks`, and a realloc carries data
over or not. One action per request and function, plus start and end of each
run. `phase` is the function the driver is in. An invalid trace is given up with
one error; `eval_mm_util` and `eval_mm_speed` end the program on a failure.
Traces may realloc an id to 0 bytes, as `corners.rep` does, and do not use the id
again; the driver keeps the returned pointer as a range of no bytes.
Whether `-l` is given, and which timing package was compiled, is chosen in
`Init`. With `-l` the driver first evaluates libc's malloc: of its blocks only
whether an id has one, and whether that one was freed, is kept. Method
`"ITIMER"` stands for both packages that do not clean up between repetitions
(`ftimer_itimer` and `fcyc`). `"undefined"` is entered where `mem_clear` writes
through the null pointer of a memory not yet set up, and where a freed block
of libc is handed to realloc.

**Timing.** `tsc` is the processor's counter. Cycles pass in `f`, in the loop of
`callibrate` and in the interrupt; the other steps take none, which is what makes
the true cost of `f` (`work`) and of the stretch measured (`elapsed`) definite. The
interrupt is due `Period` cycles after the last one and can come between any two
steps: between `times()` and `start_counter`, and between `get_counter` and
`times()`, in particular. `ticks` is `tms_utime` less the value last stored in
`oldc` or `start_tick`. `elapsed`, `work` and `samples` are histories, not state
of the code. Doubles are integers: cycles are whole, `epsilon` is a fraction with
denominator `EpsDen`. `set_fcyc_*` come between two calls, in any order.

## 3. Runs

| Run | Shows | Bounds |
|---|---|---|
| `seg_safety` | disjoint payloads, data, tiling, exact lists, full coalescing, no needless growth or failure, and the contract | 3 ids, requests 16 and 32, 3 classes, 136 bytes: room for the table, the prologue and less than three blocks of the bigger size, so that splits, merges on both sides and failures all happen |
| `seg_traces` | lists exact and searches end on the memory of abandoned traces | 2 ids, 112 bytes |
| `imp_safety` | disjoint payloads, data, tiling, cursor, no needless growth or failure of malloc, fit as the strategy promises, tail never moves, and the contract | 3 strategies, 2 ids, sizes 0, 4, 12 (unaligned requests), 72 bytes: the least in which realloc also moves a block to the end of the heap and into the previous block, and a free merges on both sides |
| `imp_search` | the three searches end | 3 strategies, 2 ids, sizes 12 and 24, 80 bytes |
| `driver` | range list, verdicts, space measure, clean starts, report | 2 ids, 2 sizes and 0, all legal traces of up to 3 requests (allocate twice and realloc one, or allocate, free and allocate again), 2 traces in a row, 2 timed runs, both timing methods, with and without `-l`; pointers: three aligned in the region, of which one payload can enclose another, one not aligned, one outside; two break positions |
| `fcyc` | counter, calibration, compensation, K-best, result, buffer, and that calls return | 3 machines; words of 32 values, started 7 below the end of the low word, so that it starts again, on some paths inside f and on others inside callibrate; an interrupt of 4 cycles every 3 cycles of the program; up to 3 cycles of f, so that 0 to 2 interrupts fall into a sample or on its edges; calls of 1 or 3 samples, 3 in all; 2 best; calibration by 2 ticks |

Six more runs show a disagreement of the code with what a comment or the driver
says of it:

| Run | Property violated | What happens |
|---|---|---|
| `seg_tiny` | `PayloadsDisjoint` | A 16-byte block is never unlinked (`segregate.c:79`); malloc of 8 bytes, free, malloc, malloc gives the same block twice. |
| `seg_realloc_null` | `FailuresReturn` | realloc without memory copies to `NULL` (`segregate.c:418`). |
| `imp_realloc_full` | `ReallocFailsOnlyWhenFull` | `do_malloc` asks for `size - pasize`, 0 or less if the free tail is big enough (`implicit.c:337`): realloc fails with a fitting free block at hand. |
| `imp_tail_full` | `FailuresReturn` | The result of `extend_heap` is ignored (`implicit.c:527`); the footer is written past the region. |
| `imp_stale` | `ListEnds` | On the memory of an abandoned trace the epilogue that nobody writes (`implicit.c:312`) is an old word. |
| `driver_libc` | `LibcRunsAsWell` | With `-l` in the default build, the clean-up after the first timed run of libc's malloc (`mdriver.c:279`, `ftimer.c`) clears a memory that `mem_init` has not set up. |

Because of the first, `seg_safety` and `seg_traces` use requests above 8 bytes:
there class 0 is written but never searched, and the other classes are exact.
The remainder of a split can still be a 16-byte block, which stays linked in
class 0 after it is merged; `FreeListsExact` therefore speaks of the classes
above 0.

`Undefined` is a stuttering step at `"undefined"`, so that deadlock checking
stays on for the allocators. The driver and a program that calls `fcyc` a bounded
number of times really end.

**Symmetry.** Ids are interchangeable in all actions and properties; it is used
in runs without liveness properties only.

**Fairness.** For the allocators, weak fairness of the search loops
(`WF_vars(Search)`, `WF_vars(FindFit)`): the program is sequential, so a loop
once entered goes on until it ends. Nothing is assumed about the client. For
`FCyc`, weak fairness of the program, for the same reason (`f`, which is
bounded by `MaxWork`, returns), and of the interrupt, which the hardware raises
whatever the program does; `callibrate` waits for it. Nothing makes anyone call
a setter.

**Mutants.** The definitions marked `Mutant:` are plausible slips in the code (a
dropped unlink, a wrong bound, a missing reset). No specification uses them.
`PROJECT.json` pairs each property with one that breaks it.

## 4. What the properties are about

* `HeapConsistent`: the tags are a list walkable in both directions, and the
  blocks marked allocated are exactly the prologue and the client's.
* `FreeListsExact`, `Coalesced` (segregate): each free block is on the list of
  the class the comments document for its size and no other, prev inverts next, no two neighbours are free.
  `implicit.c` does not keep the second: cutting a block in realloc leaves a free
  remainder uncoalesced.
* `CursorValid` (implicit): `heap_curp` is a block or `NULL`, whatever was merged
  since; this is what lets next fit's circular search meet its start again.
* `FitAsPromised`, `NoNeedlessGrowth`, `MallocFailsOnlyWhenFull`: the search loop
  finds what its strategy says, and gives up only with nothing to find.
* `TailGrowsInPlace` (implicit): the last block never moves. `extend_heap` writes
  an epilogue at the *old* end of the heap (where the next block's header goes
  and overwrites it) and none at the new end. The zero found there reads as a
  *free* block of size 0. So realloc of the last block always takes the branch
  `NEXT_BLK_ALLOC(ptr) == BLK_FREE` and then `EB(NEXT_BLKP(ptr))`, and the branch
  `ptr == TAIL_BLK()`, which would return the old break as the block and leave
  the data behind, is dead. Writing the epilogue where it belongs breaks realloc;
  that is the property's mutant.
* `Fulfils`: every step changes the client's view as `MallocContract` allows: a
  fresh disjoint aligned block with the old contents, or nothing.
* `DataPreserved`: checked for a `memcpy` that copies upwards, as the library in
  use does. With `MemcpyDescends = TRUE`, which C also allows, the copy onto an
  overlapping region (`implicit.c:539`) loses data and the property fails.
* `RangesExact`, `NoFalseAlarm`, `MissesOnlyEnclosing` (driver): the list is the
  trace's blocks; an error report means that the allocator is at fault; what
  passes overlaps only where a new payload strictly encloses an earlier one,
  which the test of its two ends (`mdriver.c:423`) cannot see.
* `UtilIsHighWater`: the high water mark is that of the requests alone.
* `RunsStartClean`: the space run and each timed run start with an empty, zeroed
  heap and no pointers. The run of `eval_mm_valid` does not, see `imp_stale`, and
  with `ftimer_itimer` or `fcyc`, which do not take a clean-up function, only the
  first timed run does.
* `LibcRunsAsWell`: with `-l` the program gets as far as mm. In the default build
  it never does; with the other timing packages it does unless a trace reallocs
  an id before allocating it and frees it later, so that the next repetition
  hands the freed pointer to realloc. None of the repository's traces does.
* `CountsElapsed`: `get_counter` is the cycles since `start_counter` although it is
  computed word by word. On an Alpha, whose counter is one word, the borrow that
  is right for two makes the result W^2 - W too big once the word has started
  again; the property says so, and that it is right until then.
* `CallibratedRight`: the least quotient of cycles by ticks, of those above
  `RECORDTHRESH`, is the cost of a tick up to `THRESHOLD` cycles. A tick that falls
  between the two readings gives a quotient too small, which the threshold keeps
  out; without it (the mutant) the cost of a tick comes out as nearly nothing.
* `NeverOver`: the ticks are counted over a stretch that includes the one the
  cycles are counted over, so compensation takes off too much rather than too
  little. A sample may fall below zero. That is why `ResultEarned` is worth
  stating: a negative best never passes the convergence test unless `epsilon`
  is 0 and the samples agree.
* `KBest`, `ResultEarned`: the values are the smallest of all samples, each a sample
  of its own and in order, although only one insertion is made at a time; an early
  end is a converged one.
* `BufferFits`: clear walks a buffer of the size it goes by, however sizes are set
  between two calls.
* `Returns`: a call of `fcyc` comes back or ends the program, callibration included.

## 5. Proofs

### The segregated allocator

`SegregateProofs` proves, for every region size, every set of ids, every number of
classes up to the code's 11, and every set of requests that `Served` describes:

* `TypeCorrect`: `[]TypeOK`, so no store outside the region ever happens;
* `Disjoint`: `[]PayloadsDisjoint`;
* `DataKept`: `[]DataPreserved`, also over the copy of a realloc that moves;
* `Consistent`: `[]HeapConsistent`, tags walkable both ways, marks as the client has it;
* `ListsExact`: `[]FreeListsExact`;
* `NeighboursJoined`: `[]Coalesced`;
* `GrowthNeeded`: `NoNeedlessGrowth`, the heap is extended only if no free block fits;
* `FailsFull`: `[]FailsOnlyWhenFull`;
* `Implements`: `Fulfils`, the refinement of `MallocContract`: initial states map to
  initial states, each step to a step or a stutter of the contract;
* `Invariance`: `[]IInv`, on which they rest.

All are theorems of `SpecTraces`, in which any trace may be abandoned and the
next one starts on memory that is not cleared; every behaviour of `Spec` is one of
`SpecTraces`.

Assumptions: those of the modules, and `Served`: each request is of more than 8 bytes, and the
region and each request with its rounding are values of an `int`. The first
is the finding of `seg_tiny`: with a request of at most 8 bytes disjointness is
false. The second is the width of the sizes in the code, 20 MB being far below it.

**The inductive invariant.** `IInv` says that there is a set `B` of payload
pointers such that

* `HeapOK`: `B` tiles the heap from the prologue to the break, and the epilogue is
  an allocated block of size 0; `Apart`: no two neighbours are free;
* `Lists`: in each class above 0 the free blocks of the class are doubly linked
  from the table's entry, and along the links a rank falls, so that a list has
  no cycle. `Loose(m, brk, B, x)` says this of all free blocks but `x`: it is what holds
  inside a call, between the unlinking of a block and its being linked again;
* `Owned`: the client's blocks are allocated members of `B`, one id each, and every
  allocated member except the prologue is one of them;
* `Searching`: the part of the list ahead of the search and the classes above
  it hold every block that fits; `Ended`: what that comes to when the search ends;

and that the call under way is about what the client holds (`Asking`,
`Handing`), ids without a block have size 0 (`Empty`) and the data is intact
(`DataPreserved`).

**Walks.** `Chain` and the lists are recursive functions, and induction over data
with an operator parameter is out of the provers' reach. The proofs use
induction in set form instead: a set of naturals with a least element
that is not there. `ChainTiling` shows that the walk over a heap that `B` tiles meets
exactly `B`; `ListsExact` that the walk along a list ends within the number
of its blocks (a pigeon hole argument on finite sets) and meets exactly the free
blocks of the class.

**Refinement.** `ClientInv` (`TraceClientProofs`) is what the mapping needs of a
state: the client's blocks are aligned, disjoint, big enough and intact.
`ViewReset`, `ViewDropped`, `ViewFilled`, `ViewGranted` and `ViewStays` say which step of the
contract a step of the client or the allocator maps to, for both
allocators alike.

### The implicit-list allocator

`ImplicitProofs` proves, for every region size, every set of ids and of request
sizes, the three strategies and both directions of `memcpy`:

* `TypeCorrect`: `Spec => []TypeOK`, in particular no store outside the region
  before an undefined state;
* `Disjoint`: `Spec => []PayloadsDisjoint`;
* `Consistent`: `Spec => []HeapConsistent`;
* `CursorNeverDangles`: `Spec => []CursorValid`;
* `TailStays`: `Spec => TailGrowsInPlace`;
* `MallocFailsFull`: `Spec => []MallocFailsOnlyWhenFull`;
* `GrowthNeeded`: `Spec => NoNeedlessGrowth`;
* `FitsBest`: `Spec => FitAsPromised`;
* `Invariance`: `Spec => [](IInv /\ Asking)`, on which they rest;

and, for a `memcpy` that copies upwards (`~MemcpyDescends`),

* `DataKept`: `Spec => []DataPreserved`;
* `Implements`: `Spec => Fulfils`, the refinement of `MallocContract`.

The assumption of the last two is needed: when realloc grows a block into its free
predecessor, source and destination of the copy (`implicit.c:539`) may overlap, and
a copy from the upper end down loses what it overwrites.

Assumptions: `RegionAssumption` (the region is 8-byte aligned, as libc returns
it, a multiple of 8 long, and not at address 0), `ClientAssumption` (sizes are naturals; a
client's pattern is not a number, the abstraction that separates data from
tags), `ImplicitAssumption` (the region holds at least what `mm_init` takes).
TLC evaluates them on every instance.

**The inductive invariant.** `PayloadsDisjoint` is far from inductive: whether a
call hands out free memory depends on every tag. `IInv` says that there is a set
`B` of payload pointers such that

* `HeapOK(mem, mem_brk, B)`: `B` tiles the heap from the prologue to the break
  (blocks follow each other without gap, each footer repeats its header, each
  block is the predecessor of its successor), the prologue is an allocated block of 8 bytes,
  the word below the break is a header of size 0, **0 itself as soon as the heap
  has grown**, and all memory above the break is zero;
* `Owned(B)`: the client's blocks are allocated members of `B`, not the prologue,
  big enough, one id each;
* `Cursors(B)`: the cursor and the pointers of a search are members of `B` or the
  end of the list;

and that the region is zero before `mm_init` (`Booting`), a block being handed
over is the caller's (`Handing`), no best block outlives its search
(`Quiet`), ids without a block have size 0 (`Empty`), and the data is intact
unless `MemcpyDescends` (`Data`). The zero above the break is what carries the argument through
`GrowTail` and makes the dead branch dead (`TailHasRoom`). `TailStays` also needs
that a malloc under way is for an id without a block (`Asking`).

**The searches.** `SearchInv` adds what a search under way has passed: for first and
best fit, no block below `p` fits, or `bestp` is the least that does; for next fit, no
block from `oldp` to `p`, going round the end of the list, fits. That the
cursor is a block is what closes the circle: the walk comes back to `oldp`.
When the search gives up (`GivenUp`) the passed blocks are all blocks.

**The layers.** `TraceClientProofs` is about tilings: writing tags inside a block
replaces it by the blocks the tags describe and leaves the others
(`TilingReplace`, `TilingGrow`, `TilingFrame`, `TilingPrev`). `ImplicitHeapProofs`
is about the operators of `implicit.c`: what `Cut`, `place`, `coalesce`,
`extend_heap`, `do_malloc` and the copies do to a well-formed heap.
`ImplicitProofs` has one lemma per action.

### The size classes

`FltIndexProofs` proves for every positive `int` that `flt_index` gives the class
the comment of `segregate_mm_init` documents for it (`ClassAsDocumented`), and
that a bigger size never has a lower class (`ClassesMonotone`), which is what
makes a search from the class of the request upwards complete; the segregated
allocator's proofs use both. Each of the five
turns of the loop halves the number of bits the value can have, and keeps
`HighestBit * rest <= v < HighestBit * (rest + 1)`; at the end the rest is 1. The
sum of the shifts and the product of their powers then name the same class end.
Assumption: `SlotAssumption` (1 to 11 classes; the code has 11).

### The driver

`DriverProofs` proves, for every region, every set of ids, sizes, pointers and break
positions, every length and number of traces, every number of repetitions, both
timing methods, with and without `-l`, and whatever the allocator answers:

* `TypeCorrect`: `Spec => []TypeOK`, so the fill patterns stay in the region;
* `ListExact`: `Spec => []RangesExact`;
* `OverlapsFound`: `Spec => []MissesOnlyEnclosing`;
* `AlarmsEarned`: `Spec => NoFalseAlarm`;
* `UtilRight`: `Spec => []UtilIsHighWater`. What a trace needs is the number of elements
  of the set of bytes it holds (`BytesAt`), which a request takes some from and adds some to
  (`BytesStep`);
* `StartsClean`: `Spec => []RunsStartClean`;
* `IndexEarned`: `Spec => []IndexOnlyIfAllValid`;
* `Invariance`: `Spec => []IInv`, on which they rest.

Assumptions: `RegionAssumption` and `DriverAssumption` (sizes and pointers are positive
naturals, breaks lie in the region, there is at least one timed run, and the region is not empty: `config.h` gives it 20 MB,
and `mm_init` writes its first word).

**The inductive invariant.** `RangesExact` is not inductive: `remove_range` takes the
first record whose low end is the pointer it is given, and nothing in the list says that
this is the record of the block. Two records can share a low end, if one is of a block
of no bytes, and a newer payload may enclose an older one. `IInv` says

* `Listed`: there is a one-to-one assignment of the records to the ids the trace holds (`Owned`), each record
  being the place and size kept for its id; of two records, the newer one (first in the list) passed
  `add_range`'s test against the older (`Tested`); all are aligned and in
  the heap (`Placed`). `Tested` makes the first record with a low end the right one:
  of two that are not empty, the newer would have failed the test, and the block of no
  bytes is never freed (`RemoveOwned`);
* `Held`: `block_sizes` has for each id the size of its last request, and an id not
  used yet has the null pointer, whatever the runs before left (`Kept`);
* `Memory`: nothing is stored in the word below the region, which `mem_clear` does not
  reach; `RunsStartClean` needs it;
* `Measured`: the bytes held are finitely many and counted right, and the high water mark
  is reached by one of the requests so far and exceeded by none;
* `Judged`: until the program gives up, `errors` is the number of traces found invalid;
* `Control`: the position is inside the trace, the repetition inside its bound.

TLC has checked this invariant on the instance of the run `driver`.

### The timing code

`FCycProofs` proves, for every word size, period and cost of a tick, threshold and
number of events of `callibrate`, and every sequence of calls and parameters:

* `CounterExact`: for every value of the counter at the start and every time below
  W^2 cycles, `get_counter` is the time, on a machine with a two-word counter. The
  time and both readings are split into quotient and remainder by W; the low words
  differ by a carry exactly if the low word of the reading is below that of the start,
  which is the code's test; uniqueness of quotient and remainder gives the rest;
* `CountsRight`: `Spec => []CountsElapsed`, also what an Alpha makes of it;
* `TickCostRight`: `Spec => []CallibratedRight`;
* `SampleNeverOver`: `Spec => []NeverOver`;
* `KeepsTheBest`: `Spec => []KBest`; `ResultRight`: `Spec => []ResultEarned`;
* `BufferRight`: `Spec => []BufferFits`; `TypeCorrect`: `Spec => []TypeOK`;
* `Invariance`: `Spec => []IInv`, on which they rest.

Assumptions: `CounterAssumption`, `FCycAssumption` (a look at `tms_utime` sees at most one
tick, `RECORDTHRESH` tells a tick from a stretch without one, and `callibrate` is done
before a word overflows, as with the code's constants and a timer of some
milliseconds) and, for the theorems of `Spec`, `ShortRuns`: one run of `f` with the interrupts that can fall into
it fits the counter (one word on an Alpha, two on a Pentium). Without it no
reading of the counter can be right.

**The inductive invariant.** `Sampling`: while `f` runs there is an n, at most the
ticks counted, with `elapsed = work + n * TickCost`, and the n interrupts are `Period` cycles
of `f` apart, which bounds `elapsed`. `Read` carries this over the reading of the
counter, until the ticks are read. `Calibrating`: the ticks seen bound the time `callibrate` has taken
(`Paced`), and `Window` says for each place in its loop what the cycles since the last look
are made of: no tick; one that is pending; one that came before the first
reading; or one that came between the reading of the counter and that of `tms_utime`, which was
counted at the last look although its cycles were not. Only the second makes a
quotient above `RECORDTHRESH`, and this one is a tick and at most `THRESHOLD` cycles.
`Keeping`: an injection gives for each value set the sample it is, and what it
leaves out is no better than the last value (`InsertBest`: what `insert` does to it).
`Stopping`: why the loop ended. That kbest samples are near the result is then a
count over the injection (`FS_Injection`).

TLC has checked this invariant on the instance of the run `fcyc`.

### Only model-checked

* Liveness (`SearchEnds`, `Returns`): fairness and `ENABLED` are out of the prover's reach.
* The six runs that expect a violation: each is a behaviour TLC found.

## 6. Not modelled

* Command line, printing of results, reading of trace files (`read_trace` is the
  choice of any legal trace): input and output.
* Floating-point results (utilisation, throughput, performance index), and the
  rounding of the doubles in `fcyc.c` and `clock.c`.
* `mhz`, `mhz_full`, `ovhd` of `clock.c`, `init_etime` and `get_etime` of
  `ftimer.c`: one quotient or difference of readings of the operating system's
  clocks each.
* `set_fcyc_cache_block` with less than the size of an `int`: the stride of the
  walk in `clear` would be 0 and the walk would not move. `FCycAssumption`
  excludes it; nothing in the repository passes such a value.
* The value of `mm_init` on failure: both allocators return 1 and the driver
  tests `< 0`. The region always holds the initial heap.
* A trace that uses an id again after a realloc to 0 bytes. In `TraceClient`,
  `mm_realloc(ptr, 0)` is a free.
* The byte pattern is `index & 0xFF`; ids 256 apart share one. The models use
  distinct patterns.
* Heap dumpers and what is compiled with `-DDEBUG` only: printing.
* The comment at `implicit.c:507` lists the case of a free tail that is too small;
  for a free tail *block* the code does nothing of the kind, for the test `EB`
  is only true of the end of the list. It costs space, not correctness.

## 7. Plan

All of the plan is done: the modules of section 2, their runs, and the proofs of
section 5. Every invariant, action property and refinement that a passing run checks
is also a theorem; the liveness properties are not.
