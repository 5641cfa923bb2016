------------------------------- MODULE Driver -------------------------------
(***************************************************************************)
(* mdriver.c with the repetitions of ftimer.c: each trace is run once to   *)
(* check the allocator, once to measure its use of space and, if valid,    *)
(* Runs times for its speed; with -l, first of all, libc's malloc runs     *)
(* each trace once to see that it can and Runs times for its speed.        *)
(*                                                                         *)
(* The allocator behind mm.h is any allocator, sound or not: a call moves  *)
(* the break up or leaves it, and returns any pointer of Ptrs or NULL;     *)
(* realloc carries the data over or does not.  What is studied is whether  *)
(* the driver judges it rightly.                                           *)
(***************************************************************************)
EXTENDS BoundaryTag, SequencesExt, FiniteSetsExt

CONSTANTS
  Ids,         \* block ids of the traces
  Sizes,       \* request sizes
  Ptrs,        \* pointers an allocator may return
  Breaks,      \* where it may move the break
  Tag,         \* a word of the allocator's own
  MaxOps,      \* bound: requests of a trace
  NumTraces,   \* bound: num_tracefiles
  Runs,        \* bound: n of ftimer_gettod and ftimer_itimer (10 in fsecs.c)
  Methods,     \* timing packages config.h can choose
  LibcOptions  \* whether -l may be given

ASSUME DriverAssumption ==
  /\ Sizes \subseteq Nat \ {0} /\ Ptrs \subseteq Nat \ {0}
  /\ MAX_HEAP > 0 /\ \A b \in Breaks : b \in mem_start_brk..mem_max_addr
  /\ MaxOps \in Nat \ {0} /\ NumTraces \in Nat /\ Runs \in Nat \ {0}
  /\ Methods \subseteq {"GETTOD", "ITIMER"} /\ LibcOptions \subseteq BOOLEAN

VARIABLES
  method,           \* the timing package
  phase,            \* the function the driver is in, or about to start
  libc,             \* traces evaluated with libc
  trace,            \* trace->ops: the requests
  i,                \* the request to be run next
  blocks,           \* trace->blocks
  block_sizes,      \* trace->block_sizes
  ranges,           \* extents of the blocks held, the newest first
  p,                \* eval_mm_valid: what the allocator returned
  total_size,       \* eval_mm_util: bytes now allocated
  max_total_size,   \* eval_mm_util: the most there were
  runs,             \* timed runs done
  valid,            \* mm_stats[..].valid of the traces judged so far
  errors            \* reports of malloc_error

memVars == <<mem, mem_brk>>
heldVars == <<blocks, block_sizes>>
libcVars == <<method, libc>>
vars == <<mem, mem_brk, method, phase, libc, trace, i, blocks, block_sizes, ranges, p,
          total_size, max_total_size, runs, valid, errors>>

(***************************************************************************)
(* Traces.  The trace files of the repository allocate an id that holds no *)
(* block, free and realloc one that does, and realloc ids never used; an   *)
(* id reallocated to 0 bytes (corners.rep) is not used again.              *)
(***************************************************************************)
Ops == [type : {"ALLOC", "REALLOC"}, index : Ids, size : Sizes]
       \cup [type : {"REALLOC", "FREE"}, index : Ids, size : {0}]

\* The requests for id before request k, and the last of them.
Uses(t, id, k) == {j \in 1..(k - 1) : t[j].index = id}
LastUse(t, id, k) == t[Max(Uses(t, id, k))]

HoldsAt(t, id, k) == Uses(t, id, k) # {} /\ LastUse(t, id, k).type # "FREE"
HeldAt(t, k) == {id \in Ids : HoldsAt(t, id, k)}

Filled(t, id, k) == HoldsAt(t, id, k) /\ LastUse(t, id, k).size > 0

Legal(t) ==
  \A k \in 1..Len(t) :
    LET id == t[k].index
    IN  CASE t[k].type = "ALLOC"   -> ~HoldsAt(t, id, k)
          [] t[k].type = "REALLOC" -> Filled(t, id, k) \/ (Uses(t, id, k) = {} /\ t[k].size > 0)
          [] t[k].type = "FREE"    -> Filled(t, id, k)

Traces == {t \in UNION {[1..n -> Ops] : n \in 1..MaxOps} : Legal(t)}

type  == trace[i].type
index == trace[i].index
size  == trace[i].size
More  == i <= Len(trace)

-----------------------------------------------------------------------------
(***************************************************************************)
(* The range list.                                                         *)
(***************************************************************************)

\* Mutant: only the low end of the new payload is looked at.
OverlapsLow(lo, hi, r) == lo >= r.lo /\ lo <= r.hi

\* add_range's test of the payload lo..hi against the record r.
Overlaps(lo, hi, r) == (lo >= r.lo /\ lo <= r.hi) \/ (hi >= r.lo /\ hi <= r.hi)

Within(brk, lo, hi) ==
  /\ lo >= mem_start_brk /\ lo <= brk - 1
  /\ hi >= mem_start_brk /\ hi <= brk - 1

\* Mutant: a payload that ends at the last byte of the heap is refused.
add_range_okStrict(rs, brk, lo, n) ==
  /\ lo % ALIGNMENT = 0
  /\ Within(brk - 1, lo, lo + n - 1)
  /\ \A k \in 1..Len(rs) : ~Overlaps(lo, lo + n - 1, rs[k])

\* add_range returns 1.
add_range_ok(rs, brk, lo, n) ==
  /\ lo % ALIGNMENT = 0
  /\ Within(brk, lo, lo + n - 1)
  /\ \A k \in 1..Len(rs) : ~Overlaps(lo, lo + n - 1, rs[k])

add_range(rs, lo, n) == <<[lo |-> lo, hi |-> lo + n - 1]>> \o rs

\* Mutant: the newest record goes, whichever it is.
remove_rangeHead(rs, lo) == IF rs = <<>> THEN rs ELSE Tail(rs)

remove_range(rs, lo) == RemoveFirstMatch(rs, LAMBDA r : r.lo = lo)

-----------------------------------------------------------------------------
(***************************************************************************)
(* The main loop over the traces.                                          *)
(***************************************************************************)

\* Mutant: the sizes of the last run stay.
clean_upKeepsSizes ==
  /\ mem_clear
  /\ blocks' = [id \in Ids |-> NULL]
  /\ UNCHANGED block_sizes

\* clean_up: an empty, zeroed heap, and no blocks.
clean_up ==
  /\ mem_clear
  /\ blocks' = [id \in Ids |-> NULL]
  /\ block_sizes' = [id \in Ids |-> 0]

read_trace ==
  /\ \/ phase = "read" /\ Len(valid) < NumTraces /\ phase' = "start_valid"
     \/ phase = "libc_read" /\ libc < NumTraces /\ phase' = "libc_valid"
  /\ trace' \in Traces
  /\ blocks' = [id \in Ids |-> NULL]
  /\ block_sizes' = [id \in Ids |-> 0]
  /\ UNCHANGED <<memVars, libcVars, i, ranges, p, total_size, max_total_size, runs, valid, errors>>

\* Mutant: the verdict is given without a word.
RejectSilently ==
  /\ valid' = Append(valid, FALSE)
  /\ phase' = "read" /\ trace' = <<>> /\ i' = 1
  /\ UNCHANGED <<heldVars, total_size, max_total_size, runs, errors>>

\* malloc_error, eval_mm_valid returns 0, free_trace; on to the next trace.
Reject ==
  /\ errors' = errors + 1
  /\ valid' = Append(valid, FALSE)
  /\ phase' = "read" /\ trace' = <<>> /\ i' = 1
  /\ UNCHANGED <<heldVars, total_size, max_total_size, runs>>

-----------------------------------------------------------------------------
(***************************************************************************)
(* eval_mm_valid.  initialized: mm_init returned nothing negative, which   *)
(* is all the driver tests.                                                *)
(***************************************************************************)

StartValid(initialized, brk) ==
  /\ phase = "start_valid"
  /\ ranges' = <<>> /\ p' = NULL /\ UNCHANGED libcVars
  /\ IF initialized
     THEN /\ mem' = SET(mem, mem_start_brk, Tag) /\ mem_brk' = brk
          /\ phase' = "valid" /\ i' = 1
          /\ UNCHANGED <<trace, heldVars, total_size, max_total_size, runs, valid, errors>>
     ELSE mem_reset_brk /\ UNCHANGED mem /\ Reject

\* The block ptr, in memory m, is accepted: filled and remembered.
Accept(rs, m, ptr) ==
  /\ ranges' = add_range(rs, ptr, size)
  /\ mem' = memset(m, ptr, index, size)
  /\ blocks' = [blocks EXCEPT ![index] = ptr]
  /\ block_sizes' = [block_sizes EXCEPT ![index] = size]
  /\ i' = i + 1
  /\ UNCHANGED <<phase, trace, total_size, max_total_size, runs, valid, errors>>

ValidAlloc(ptr, brk) ==
  /\ phase = "valid" /\ More /\ type = "ALLOC"
  /\ brk >= mem_brk /\ mem_brk' = brk /\ p' = ptr /\ UNCHANGED libcVars
  /\ IF ptr # NULL /\ add_range_ok(ranges, brk, ptr, size)
     THEN Accept(ranges, mem, ptr)
     ELSE Reject /\ UNCHANGED <<mem, ranges>>

Smaller(a, b) == IF a < b THEN a ELSE b

\* The bytes a realloc has to keep, and whether memory m has them at ptr.
oldsize == Smaller(block_sizes[index], size)
KeepsData(m, ptr) == \A a \in Addr : (ptr <= a /\ a < ptr + oldsize) => m[a] = index

\* copied is whether the allocator carries the old contents over.
ValidRealloc(ptr, brk, copied) ==
  LET oldp == blocks[index]
      rest == remove_range(ranges, oldp)
      m    == IF copied /\ oldp # NULL THEN memcpy(mem, ptr, oldp, oldsize) ELSE mem
  IN  /\ phase = "valid" /\ More /\ type = "REALLOC"
      /\ brk >= mem_brk /\ mem_brk' = brk /\ p' = ptr /\ UNCHANGED libcVars
      /\ IF ptr # NULL /\ add_range_ok(rest, brk, ptr, size)
         THEN IF KeepsData(m, ptr)
              THEN Accept(rest, m, ptr)
              ELSE /\ Reject /\ mem' = m
                   /\ ranges' = add_range(rest, ptr, size)
         ELSE /\ Reject /\ mem' = mem
              /\ ranges' = IF ptr = NULL THEN ranges ELSE rest

ValidFree ==
  /\ phase = "valid" /\ More /\ type = "FREE"
  /\ ranges' = remove_range(ranges, blocks[index])
  /\ p' = blocks[index] /\ i' = i + 1
  /\ UNCHANGED <<memVars, libcVars, phase, trace, heldVars, total_size, max_total_size, runs,
                 valid, errors>>

\* eval_mm_valid returns 1.
EndValid ==
  /\ phase = "valid" /\ ~More
  /\ valid' = Append(valid, TRUE)
  /\ clean_up
  /\ phase' = "start_util"
  /\ UNCHANGED <<libcVars, trace, i, ranges, p, total_size, max_total_size, runs, errors>>

-----------------------------------------------------------------------------
(***************************************************************************)
(* eval_mm_util and eval_mm_speed: they give the program up on a failure.  *)
(***************************************************************************)

Start(now, next, initialized, brk) ==
  /\ phase = now
  /\ IF initialized
     THEN /\ brk >= mem_brk /\ mem' = SET(mem, mem_start_brk, Tag) /\ mem_brk' = brk
          /\ phase' = next /\ i' = 1
     ELSE phase' = "exit" /\ UNCHANGED <<memVars, i>>
  /\ p' = NULL /\ total_size' = 0 /\ max_total_size' = 0
  /\ UNCHANGED <<libcVars, trace, heldVars, ranges, runs, valid, errors>>

\* malloc fails: app_error.  realloc fails: realloc_error, which counts it first.
GiveUp ==
  /\ errors' = errors + (IF type = "REALLOC" THEN 1 ELSE 0)
  /\ phase' = "exit"
  /\ UNCHANGED <<i, heldVars, total_size, max_total_size>>

\* The bytes allocated change, and with them the most there were.
Count(change) ==
  /\ total_size' = total_size + change
  /\ max_total_size' = IF total_size' > max_total_size THEN total_size' ELSE max_total_size

UtilRequest(ptr, brk) ==
  /\ phase = "util" /\ More /\ type # "FREE"
  /\ brk >= mem_brk /\ mem_brk' = brk
  /\ IF ptr = NULL THEN GiveUp
     ELSE /\ blocks' = [blocks EXCEPT ![index] = ptr]
          /\ block_sizes' = [block_sizes EXCEPT ![index] = size]
          /\ Count(IF type = "ALLOC" THEN size ELSE size - block_sizes[index])
          /\ i' = i + 1
          /\ UNCHANGED <<phase, errors>>
  /\ UNCHANGED <<mem, libcVars, trace, ranges, p, runs, valid>>

UtilFree ==
  /\ phase = "util" /\ More /\ type = "FREE"
  /\ total_size' = total_size - block_sizes[index]
  /\ i' = i + 1
  /\ UNCHANGED <<memVars, libcVars, phase, trace, heldVars, ranges, p, max_total_size, runs,
                 valid, errors>>

EndUtil ==
  /\ phase = "util" /\ ~More
  /\ clean_up
  /\ phase' = "start_speed" /\ runs' = 0
  /\ UNCHANGED <<libcVars, trace, i, ranges, p, total_size, max_total_size, valid, errors>>

SpeedRequest(ptr, brk) ==
  /\ phase = "speed" /\ More /\ type # "FREE"
  /\ brk >= mem_brk /\ mem_brk' = brk
  /\ IF ptr = NULL THEN GiveUp
     ELSE /\ blocks' = [blocks EXCEPT ![index] = ptr]
          /\ i' = i + 1
          /\ UNCHANGED <<phase, errors, block_sizes, total_size, max_total_size>>
  /\ UNCHANGED <<mem, libcVars, trace, ranges, p, runs, valid>>

SpeedFree ==
  /\ phase = "speed" /\ More /\ type = "FREE"
  /\ i' = i + 1
  /\ UNCHANGED <<memVars, libcVars, phase, trace, heldVars, ranges, p, total_size,
                 max_total_size, runs, valid, errors>>

\* A timed run is over: there is another, or the trace is done with (free_trace).
Repeat(now, next) ==
  /\ runs' = runs + 1
  /\ IF runs' < Runs THEN phase' = now /\ UNCHANGED trace
     ELSE phase' = next /\ trace' = <<>>
  /\ i' = 1

\* Mutant: nothing is cleaned up before the next run.
CleanAfterRunNever == UNCHANGED <<memVars, heldVars>>

\* ftimer_gettod cleans up after each run, the last one too; ftimer_itimer and fcyc
\* have no such parameter.
CleanAfterRun ==
  IF method = "GETTOD" THEN clean_up ELSE UNCHANGED <<memVars, heldVars>>

\* Mutant: one run more than asked for.
EndSpeedOnceMore ==
  /\ phase = "speed" /\ ~More
  /\ CleanAfterRun
  /\ runs' = runs + 1
  /\ IF runs < Runs THEN phase' = "start_speed" /\ UNCHANGED <<trace, i>>
     ELSE phase' = "read" /\ trace' = <<>> /\ i' = 1
  /\ UNCHANGED <<libcVars, ranges, p, total_size, max_total_size, valid, errors>>

EndSpeed ==
  /\ phase = "speed" /\ ~More
  /\ CleanAfterRun
  /\ Repeat("start_speed", "read")
  /\ UNCHANGED <<libcVars, ranges, p, total_size, max_total_size, valid, errors>>

-----------------------------------------------------------------------------
(***************************************************************************)
(* With -l: eval_libc_valid, which ends the program on a failed call, and  *)
(* eval_libc_speed.  Nothing is cleaned up between the two.                *)
(***************************************************************************)

\* Some block of libc's; where it lies does not matter here.
LibcBlock == 1

mmVars == <<memVars, block_sizes, ranges, p, total_size, max_total_size, valid>>

\* The pointer kept for the id is that of a run before, which freed it.
Dangling ==
  /\ type = "REALLOC" /\ Uses(trace, index, i) = {} /\ blocks[index] # NULL
  /\ ~HoldsAt(trace, index, Len(trace) + 1)

LibcRequest(ptr) ==
  /\ phase \in {"libc_valid", "libc_speed"} /\ More /\ type # "FREE"
  /\ IF Dangling THEN phase' = "undefined" /\ UNCHANGED <<i, blocks, errors>>
     ELSE IF ptr = NULL
     THEN /\ errors' = errors + (IF phase = "libc_valid" THEN 1 ELSE 0)
          /\ phase' = "exit" /\ UNCHANGED <<i, blocks>>
     ELSE /\ blocks' = [blocks EXCEPT ![index] = ptr]
          /\ i' = i + 1 /\ UNCHANGED <<phase, errors>>
  /\ UNCHANGED <<mmVars, libcVars, trace, runs>>

LibcFree ==
  /\ phase \in {"libc_valid", "libc_speed"} /\ More /\ type = "FREE"
  /\ i' = i + 1
  /\ UNCHANGED <<mmVars, libcVars, phase, trace, blocks, runs, errors>>

EndLibcValid ==
  /\ phase = "libc_valid" /\ ~More
  /\ phase' = "libc_speed" /\ i' = 1 /\ runs' = 0
  /\ UNCHANGED <<mmVars, libcVars, trace, blocks, errors>>

\* ftimer_gettod's clean-up calls mem_clear, which zeroes MAX_HEAP bytes from
\* mem_start_brk on; before mem_init that is a null pointer.
EndLibcSpeed ==
  /\ phase = "libc_speed" /\ ~More
  /\ IF method = "GETTOD"
     THEN phase' = "undefined" /\ UNCHANGED <<runs, trace, i, libc>>
     ELSE /\ Repeat("libc_speed", "libc_read")
          /\ libc' = IF runs' < Runs THEN libc ELSE libc + 1
  /\ UNCHANGED <<mmVars, method, blocks, errors>>

\* On to mm: the simulated memory is set up.
MemInit ==
  /\ phase = "libc_read" /\ libc = NumTraces
  /\ mem' = [a \in Addr |-> 0] /\ mem_brk' = mem_start_brk
  /\ phase' = "read" /\ libc' = 0
  /\ UNCHANGED <<method, trace, i, heldVars, ranges, p, total_size, max_total_size, runs,
                 valid, errors>>

-----------------------------------------------------------------------------

\* The end of main: a performance index without errors, their number with.
Report ==
  /\ phase = "read" /\ Len(valid) = NumTraces
  /\ phase' = IF errors = 0 THEN "index" ELSE "errors"
  /\ UNCHANGED <<memVars, libcVars, trace, i, heldVars, ranges, p, total_size,
                 max_total_size, runs, valid, errors>>

-----------------------------------------------------------------------------

Init ==
  /\ mem_init /\ method \in Methods /\ libc = 0
  /\ phase \in {IF run_libc THEN "libc_read" ELSE "read" : run_libc \in LibcOptions}
  /\ trace = <<>> /\ i = 1
  /\ blocks = [id \in Ids |-> NULL] /\ block_sizes = [id \in Ids |-> 0]
  /\ ranges = <<>> /\ p = NULL
  /\ total_size = 0 /\ max_total_size = 0
  /\ runs = 0 /\ valid = <<>> /\ errors = 0

Next ==
  \/ read_trace \/ ValidFree \/ EndValid \/ UtilFree \/ EndUtil \/ SpeedFree \/ EndSpeed
  \/ Report
  \/ LibcFree \/ EndLibcValid \/ EndLibcSpeed \/ MemInit
  \/ \E ptr \in {LibcBlock, NULL} : LibcRequest(ptr)
  \/ \E initialized \in BOOLEAN, brk \in Breaks :
        \/ StartValid(initialized, brk)
        \/ Start("start_util", "util", initialized, brk)
        \/ Start("start_speed", "speed", initialized, brk)
  \/ \E ptr \in Ptrs \cup {NULL}, brk \in Breaks :
        \/ ValidAlloc(ptr, brk)
        \/ \E copied \in BOOLEAN : ValidRealloc(ptr, brk, copied)
        \/ UtilRequest(ptr, brk) \/ SpeedRequest(ptr, brk)

Spec == Init /\ [][Next]_vars

-----------------------------------------------------------------------------

TypeOK ==
  /\ mem \in [Addr -> {0, Tag} \cup Ids]
  /\ mem_brk \in mem_start_brk..mem_max_addr
  /\ phase \in {"read", "start_valid", "valid", "start_util", "util", "start_speed", "speed",
                "libc_read", "libc_valid", "libc_speed", "exit", "index", "errors", "undefined"}
  /\ i \in 1..(MaxOps + 1)
  /\ blocks \in [Ids -> Nat] /\ block_sizes \in [Ids -> Nat]
  /\ total_size \in Int /\ max_total_size \in Nat
  /\ errors \in Nat /\ runs \in 0..Runs

Extent(id) == [lo |-> blocks[id], hi |-> blocks[id] + block_sizes[id] - 1]

\* The range list holds one record for each block the trace holds, with its
\* present place and size, and nothing else, whatever was freed or moved before
\* and whatever an earlier trace left behind.
RangesExact ==
  phase = "valid" =>
    /\ {ranges[k] : k \in 1..Len(ranges)} = {Extent(id) : id \in HeldAt(trace, i)}
    /\ Len(ranges) = Cardinality(HeldAt(trace, i))

Bytes(lo, n) == lo..(lo + n - 1)

\* What add_range lets pass: every accepted block lies in the heap, and two
\* accepted blocks share a byte only where the later one has the earlier one
\* strictly inside.  Overlaps looks at the ends of the new payload alone, so
\* that case, and no other, escapes the test.
MissesOnlyEnclosing ==
  phase = "valid" =>
    /\ \A k \in 1..Len(ranges) : ranges[k].lo..ranges[k].hi \subseteq mem_start_brk..(mem_brk - 1)
    /\ \A k, l \in 1..Len(ranges) :
         (k < l /\ (ranges[k].lo..ranges[k].hi) \cap (ranges[l].lo..ranges[l].hi) # {})
           => ranges[k].lo < ranges[l].lo /\ ranges[l].hi < ranges[k].hi

\* A request is reported as an error only if the allocator is at fault: it
\* returned nothing, or a block that is not aligned, leaves the heap or shares a
\* byte with a block held, or it lost data.
NoFalseAlarm ==
  [][(phase = "valid" /\ errors' # errors /\ size > 0) =>
       \/ p' = NULL
       \/ p' % ALIGNMENT # 0
       \/ ~(Bytes(p', size) \subseteq mem_start_brk..(mem_brk' - 1))
       \/ \E id \in HeldAt(trace, i) \ {index} :
            Bytes(p', size) \cap Bytes(blocks[id], block_sizes[id]) # {}
       \/ type = "REALLOC" /\ \E a \in Addr \cap Bytes(p', oldsize) : mem'[a] # index]_vars

\* The payload bytes held after k - 1 requests, numbered within each block, and how
\* many they are: what a perfect allocator would need.
BytesAt(t, k) == UNION {{id} \X (1..LastUse(t, id, k).size) : id \in HeldAt(t, k)}
Needed(t, k) == Cardinality(BytesAt(t, k))

\* eval_mm_util measures the high water mark of the trace itself: what it adds up
\* from its own bookkeeping is what the requests alone determine.
UtilIsHighWater ==
  phase = "util" =>
    total_size = Needed(trace, i) /\ max_total_size = Max({Needed(trace, k) : k \in 1..i})

\* Every run of a trace starts mm_init on an empty heap, and every run but that
\* of eval_mm_valid on memory that is all zero, as implicit.c needs it.  With
\* ftimer_itimer and fcyc that is so for the first timed run only.
RunsStartClean ==
  (phase = "start_util" \/ (phase = "start_speed" /\ (method = "GETTOD" \/ runs = 0))) =>
    /\ mem_brk = mem_start_brk
    /\ mem = [a \in Addr |-> 0]
    /\ blocks = [id \in Ids |-> NULL]

\* The driver prints an index only if all traces were valid; otherwise its number
\* of errors is the number of traces that were not.
IndexOnlyIfAllValid ==
  /\ phase = "index" => \A k \in 1..Len(valid) : valid[k]
  /\ phase = "errors" => errors = Cardinality({k \in 1..Len(valid) : ~valid[k]})

\* "-l: Run libc malloc as well": the evaluation of libc's malloc comes to its end
\* and leaves the program in a state in which mm can be evaluated.
LibcRunsAsWell == phase # "undefined"
=============================================================================
