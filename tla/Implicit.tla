------------------------------ MODULE Implicit ------------------------------
(***************************************************************************)
(* implicit.c: all blocks, free or not, form one list by their sizes from  *)
(* the prologue to the epilogue.  FIT is the strategy the Makefile selects *)
(* (USE_FIRST_FIT, USE_NEXT_FIT, USE_BEST_FIT); it never changes.          *)
(*                                                                         *)
(* extend_heap rewrites the epilogue the heap had before it grew and never *)
(* writes the new one: the code lives on the memory above the break being  *)
(* zero, which reads as a free block of size 0.                            *)
(***************************************************************************)
EXTENDS TraceClient

CONSTANTS
  Strategies,       \* the strategies of the builds under study
  MemcpyDescends    \* whether libc's memcpy copies from the last word down

ASSUME ImplicitAssumption ==
  /\ Strategies \subseteq {"first", "next", "best"}
  /\ MemcpyDescends \in BOOLEAN
  /\ MAX_HEAP >= 16

VARIABLES
  FIT,         \* find_fit: the strategy built in
  heap_curp,   \* next_fit: the block last touched
  p,           \* find_fit: the block being looked at
  oldp,        \* next_fit: where the search began
  bestp        \* best_fit: the best block so far

searchVars == <<FIT, heap_curp, p, oldp, bestp>>
vars == <<mem, mem_brk, clientVars, searchVars>>

MIN_BLK_SIZE == 2 * WSIZE
heap_listp   == mem_start_brk + 2 * WSIZE

\* Block b has size 0: the end of the list.
EB(m, b) == BLK_SIZE(m, b) = 0

TAIL_BLK(m, brk) == PREV_BLKP(m, brk)

\* memcpy when source and target may overlap, the target being the lower one.
\* Copying upwards moves the data; copying downwards overwrites source words
\* before they are read, so that each word arrives from the last stretch.
memcpyDown(m, dst, src, n) ==
  LET d == src - dst
      turns(a) == (dst + n - 1 - a) \div d
  IN  [a \in DOMAIN m |->
         IF dst <= a /\ a < dst + n THEN m[a + d + d * turns(a)] ELSE m[a]]

MoveDown(m, dst, src, n) ==
  IF MemcpyDescends THEN memcpyDown(m, dst, src, n) ELSE memcpy(m, dst, src, n)

\* Mutant: a block taken whole is not marked allocated.
placeUnmarked(m, bp, size) ==
  LET nsize == ALIGN(size) + 2 * WSIZE
      rsize == BLK_SIZE(m, bp) - nsize
  IN  IF BLK_STATE(m, bp) = BLK_ALLOC \/ rsize < 0 THEN [mem |-> m, p |-> NULL]
      ELSE IF rsize < MIN_BLK_SIZE THEN [mem |-> m, p |-> bp]
      ELSE [mem |-> SET_BLK(SET_BLK(m, bp, nsize, BLK_ALLOC), bp + nsize, rsize, BLK_FREE),
            p |-> bp]

\* Takes size bytes of the free block bp, leaving the rest of it free; NULL if
\* bp is allocated or too small.
place(m, bp, size) ==
  LET nsize == ALIGN(size) + 2 * WSIZE
      osize == BLK_SIZE(m, bp)
      rsize == osize - nsize
  IN  IF BLK_STATE(m, bp) = BLK_ALLOC \/ nsize > osize THEN [mem |-> m, p |-> NULL]
      ELSE IF rsize < MIN_BLK_SIZE THEN [mem |-> SET_BLK(m, bp, osize, BLK_ALLOC), p |-> bp]
      ELSE [mem |-> SET_BLK(SET_BLK(m, bp, nsize, BLK_ALLOC), bp + nsize, rsize, BLK_FREE),
            p |-> bp]

\* Mutant: the block keeps its allocated mark.
coalesceMarks(m, bp) ==
  [mem |-> SET_BLK(m, bp, BLK_SIZE(m, bp), BLK_ALLOC), p |-> bp]

coalesce(m, bp) ==
  LET next == IF NEXT_BLK_ALLOC(m, bp) = BLK_FREE THEN NEXT_BLK_SIZE(m, bp) ELSE 0
      prev == IF PREV_BLK_ALLOC(m, bp) = BLK_FREE THEN PREV_BLK_SIZE(m, bp) ELSE 0
      size == BLK_SIZE(m, bp) + next + prev
  IN  [mem |-> SET_BLK(m, bp - prev, size, BLK_FREE), p |-> bp - prev]

\* Mutant: the epilogue is written where the heap now ends.
extend_heapNewEpilogue(m, brk, size) ==
  IF size = 0 \/ ~SbrkSucceeds(brk, size)
  THEN [mem |-> m, brk |-> brk, p |-> NULL]
  ELSE [mem |-> SET_EB(m, brk + size), brk |-> brk + size, p |-> brk]

extend_heap(m, brk, size) ==
  IF size = 0 \/ ~SbrkSucceeds(brk, size)
  THEN [mem |-> m, brk |-> brk, p |-> NULL]
  ELSE [mem |-> SET_EB(m, NEXT_BLKP(m, brk)), brk |-> brk + size, p |-> brk]

\* A block of size bytes at the end of the heap, using the free block there if
\* there is one.
do_malloc(m, brk, size) ==
  LET tailp == TAIL_BLK(m, brk)
      reuse == BLK_STATE(m, tailp) = BLK_FREE
      tsize == IF reuse THEN ALIGN(size) - BLK_AVAL_SIZE(m, tailp)
               ELSE ALIGN(size) + 2 * WSIZE
      e     == extend_heap(m, brk, tsize)
      curp  == IF reuse THEN tailp ELSE e.p
  IN  IF e.p = NULL THEN e
      ELSE [mem |-> SET_BLK(e.mem, curp, ALIGN(size) + 2 * WSIZE, BLK_ALLOC),
            brk |-> e.brk, p |-> curp]

implicit_mm_free(m, ptr) == coalesce(SET_BLK(m, ptr, BLK_SIZE(m, ptr), BLK_FREE), ptr)

\* #ifdef USE_NEXT_FIT: heap_curp = b
SetCursor(b) == heap_curp' = (IF FIT = "next" THEN b ELSE heap_curp) /\ UNCHANGED FIT

EndSearch == p' = NULL /\ oldp' = NULL /\ bestp' = NULL

-----------------------------------------------------------------------------

implicit_mm_init ==
  LET e  == extend_heap(mem, mem_brk, 4 * WSIZE)
      m1 == SET(e.mem, mem_start_brk, 48879)                 \* padding, ..BEEF
      m2 == SET_BLK(m1, heap_listp, 2 * WSIZE, BLK_ALLOC)    \* prologue
  IN  /\ pc = "boot"
      /\ mem' = SET_EB(m2, heap_listp + 2 * WSIZE)
      /\ mem_brk' = e.brk
      /\ SetCursor(heap_listp)
      /\ pc' = "client"
      /\ UNCHANGED <<blocks, block_sizes, call, p, oldp, bestp>>

MallocZero(id) ==
  /\ Idle /\ ~Live(id) /\ 0 \in Sizes
  /\ Deliver(CallArgs(id, 0), NULL)
  /\ UNCHANGED <<mem, mem_brk, searchVars>>

\* implicit_mm_malloc, or implicit_mm_realloc of NULL, up to the loop of find_fit.
MallocCall(id, size) ==
  /\ Idle /\ ~Live(id) /\ size > 0
  /\ ~(FIT = "next" /\ heap_curp = NULL)
  /\ call' = CallArgs(id, size)
  /\ p' = IF FIT = "next" THEN NEXT_BLKP(mem, heap_curp) ELSE heap_listp
  /\ oldp' = IF FIT = "next" THEN NEXT_BLKP(mem, heap_curp) ELSE NULL
  /\ pc' = "search"
  /\ UNCHANGED <<mem, mem_brk, blocks, block_sizes, FIT, heap_curp, bestp>>

\* next_fit starts from NEXT_BLKP(NULL): a load from just below address 0.
MallocFromNull(id, size) ==
  /\ Idle /\ ~Live(id) /\ size > 0
  /\ FIT = "next" /\ heap_curp = NULL
  /\ Wild
  /\ UNCHANGED searchVars

\* implicit_mm_malloc returns curp.
Return(m, brk, curp) ==
  /\ mem' = m /\ mem_brk' = brk
  /\ Deliver(call, curp)
  /\ SetCursor(curp)
  /\ EndSearch

\* find_fit returns NULL, or the block b it placed the request in.
NotFound ==
  /\ pc' = "extend"
  /\ EndSearch
  /\ UNCHANGED <<mem, mem_brk, blocks, block_sizes, call, FIT, heap_curp>>

PlaceIn(b) ==
  LET r == place(mem, b, ALIGN(call.size))
  IN  IF r.p = NULL THEN NotFound ELSE Return(r.mem, mem_brk, r.p)

Fits(b) == BLK_STATE(mem, b) = BLK_FREE /\ BLK_AVAL_SIZE(mem, b) >= ALIGN(call.size)

SearchHit ==
  /\ pc = "search" /\ FIT \in {"first", "next"}
  /\ ~EB(mem, p) /\ Fits(p)
  /\ PlaceIn(p)

FirstFitNext ==
  /\ pc = "search" /\ FIT = "first"
  /\ ~EB(mem, p) /\ ~Fits(p)
  /\ p' = NEXT_BLKP(mem, p)
  /\ UNCHANGED <<mem, mem_brk, clientVars, FIT, heap_curp, oldp, bestp>>

FirstFitMiss ==
  /\ pc = "search" /\ FIT = "first"
  /\ EB(mem, p)
  /\ NotFound

\* Mutant: the search stops at the end of the list instead of going round.
NextFitNoWrap ==
  /\ pc = "search" /\ FIT = "next"
  /\ EB(mem, p) \/ ~Fits(p)
  /\ IF EB(mem, p)
     THEN NotFound
     ELSE /\ p' = NEXT_BLKP(mem, p)
          /\ UNCHANGED <<mem, mem_brk, clientVars, FIT, heap_curp, oldp, bestp>>

\* Mutant: the test for the starting point is missing.
NextFitForever ==
  /\ pc = "search" /\ FIT = "next"
  /\ EB(mem, p) \/ ~Fits(p)
  /\ p' = IF EB(mem, p) THEN heap_listp ELSE NEXT_BLKP(mem, p)
  /\ UNCHANGED <<mem, mem_brk, clientVars, FIT, heap_curp, oldp, bestp>>

\* One turn of next_fit's loop that does not find a block: on to the next one,
\* from the end of the list to its head; back where it began, it gives up.
NextFitNext ==
  LET next == IF EB(mem, p) THEN heap_listp ELSE NEXT_BLKP(mem, p)
  IN  /\ pc = "search" /\ FIT = "next"
      /\ EB(mem, p) \/ ~Fits(p)
      /\ IF next = oldp
         THEN NotFound
         ELSE /\ p' = next
              /\ UNCHANGED <<mem, mem_brk, clientVars, FIT, heap_curp, oldp, bestp>>

best == IF bestp = NULL THEN MAX_HEAP ELSE BLK_AVAL_SIZE(mem, bestp)

\* Mutant: the last block that fits wins.
BestFitLast ==
  /\ pc = "search" /\ FIT = "best"
  /\ ~EB(mem, p)
  /\ bestp' = IF Fits(p) THEN p ELSE bestp
  /\ p' = NEXT_BLKP(mem, p)
  /\ UNCHANGED <<mem, mem_brk, clientVars, FIT, heap_curp, oldp>>

\* Mutant: a block of just the size wanted is passed over.
BestFitBigger ==
  /\ pc = "search" /\ FIT = "best"
  /\ ~EB(mem, p)
  /\ bestp' = IF /\ Fits(p) /\ BLK_AVAL_SIZE(mem, p) > ALIGN(call.size)
                /\ BLK_AVAL_SIZE(mem, p) < best
             THEN p ELSE bestp
  /\ p' = NEXT_BLKP(mem, p)
  /\ UNCHANGED <<mem, mem_brk, clientVars, FIT, heap_curp, oldp>>

BestFitNext ==
  /\ pc = "search" /\ FIT = "best"
  /\ ~EB(mem, p)
  /\ bestp' = IF Fits(p) /\ BLK_AVAL_SIZE(mem, p) < best THEN p ELSE bestp
  /\ p' = NEXT_BLKP(mem, p)
  /\ UNCHANGED <<mem, mem_brk, clientVars, FIT, heap_curp, oldp>>

BestFitEnd ==
  /\ pc = "search" /\ FIT = "best"
  /\ EB(mem, p)
  /\ IF best = MAX_HEAP THEN NotFound ELSE PlaceIn(bestp)

\* implicit_mm_malloc without a fit.
Extend ==
  LET d == do_malloc(mem, mem_brk, ALIGN(call.size))
  IN  pc = "extend" /\ Return(d.mem, d.brk, d.p)

\* Mutant: free leaves next_fit's cursor where it was.
FreeKeepsCursor(id) ==
  /\ Idle /\ Live(id)
  /\ mem' = implicit_mm_free(mem, blocks[id]).mem
  /\ Drop(id)
  /\ UNCHANGED <<mem_brk, searchVars>>

\* mm_free(ptr); for a client that takes mm_realloc(ptr, 0) as a free, that too.
FreeCall(id) ==
  LET f == implicit_mm_free(mem, blocks[id])
  IN  /\ Idle /\ Live(id)
      /\ mem' = f.mem
      /\ SetCursor(f.p)
      /\ Drop(id)
      /\ UNCHANGED <<mem_brk, p, oldp, bestp>>

-----------------------------------------------------------------------------
(***************************************************************************)
(* implicit_mm_realloc of a live block to a size above 0, one action for   *)
(* each way it ends.  It refuses a block whose tags are not sane, changing *)
(* nothing.                                                                *)
(***************************************************************************)

Legal(ptr) ==
  /\ BLK_STATE(mem, ptr) = BLK_ALLOC
  /\ BLK_SIZE(mem, ptr) > MIN_BLK_SIZE
  /\ BLK_SIZE(mem, ptr) % ALIGNMENT = 0
  /\ mem[BLK_HDRP(ptr)] = mem[BLK_FTRP(mem, ptr)]

NSize(size) == ALIGN(size) + 2 * WSIZE

ReallocCall(id, size) == Idle /\ Live(id) /\ size > 0 /\ Legal(blocks[id])

\* goto realloc with the block b, memory m and break brk.
Resized(id, size, m, brk, b) ==
  /\ mem' = m /\ mem_brk' = brk
  /\ Deliver(CallArgs(id, size), b)
  /\ SetCursor(b)
  /\ UNCHANGED <<p, oldp, bestp>>

\* Cuts a block of total bytes at b down to size bytes; a remainder that makes a
\* block is left free.
Cut(m, b, total, size) ==
  LET m1 == SET_BLK(m, b, size, BLK_ALLOC)
  IN  IF total - size >= MIN_BLK_SIZE
      THEN SET_BLK(m1, b + size, total - size, BLK_FREE)
      ELSE m1

ReallocInPlace(id, size) ==
  LET ptr == blocks[id]
      bsize == BLK_SIZE(mem, ptr)
  IN  /\ ReallocCall(id, size)
      /\ NSize(size) <= bsize
      /\ Resized(id, size,
                 IF bsize - NSize(size) >= MIN_BLK_SIZE THEN Cut(mem, ptr, bsize, NSize(size)) ELSE mem,
                 mem_brk, ptr)

\* The block needs to grow, and with the bytes of the next block, if that one is
\* free (as the unwritten epilogue is), it would have room.
Grows(id, size) == ReallocCall(id, size) /\ NSize(size) > BLK_SIZE(mem, blocks[id])

NextFree(id) == NEXT_BLK_ALLOC(mem, blocks[id]) = BLK_FREE

WithNext(id) == BLK_SIZE(mem, blocks[id]) + NEXT_BLK_SIZE(mem, blocks[id])

GrowIntoNext(id, size) ==
  /\ Grows(id, size)
  /\ NextFree(id) /\ NSize(size) <= WithNext(id)
  /\ Resized(id, size, Cut(mem, blocks[id], WithNext(id), NSize(size)), mem_brk, blocks[id])

AtEnd(id, size) ==
  NextFree(id) /\ NSize(size) > WithNext(id) /\ EB(mem, NEXT_BLKP(mem, blocks[id]))

\* The last block grows with the heap.  The result of extend_heap is not looked
\* at: without memory the new footer lands beyond the region.
GrowTail(id, size) ==
  LET e == extend_heap(mem, mem_brk, NSize(size) - WithNext(id))
      m == SET_BLK(e.mem, blocks[id], NSize(size), BLK_ALLOC)
  IN  /\ Grows(id, size) /\ AtEnd(id, size)
      /\ IF DOMAIN m = DOMAIN mem
         THEN Resized(id, size, m, e.brk, blocks[id])
         ELSE Wild /\ UNCHANGED searchVars

PastNext(id, size) ==
  /\ Grows(id, size)
  /\ ~(NextFree(id) /\ NSize(size) <= WithNext(id))
  /\ ~AtEnd(id, size)

RoomBefore(id, size) ==
  /\ PREV_BLK_ALLOC(mem, blocks[id]) = BLK_FREE
  /\ NSize(size) <= BLK_SIZE(mem, blocks[id]) + PREV_BLK_SIZE(mem, blocks[id])

GrowIntoPrev(id, size) ==
  LET ptr  == blocks[id]
      prep == PREV_BLKP(mem, ptr)
      m    == MoveDown(mem, prep, ptr, BLK_AVAL_SIZE(mem, ptr))
  IN  /\ PastNext(id, size) /\ RoomBefore(id, size)
      /\ Resized(id, size,
                 Cut(m, prep, BLK_SIZE(mem, ptr) + PREV_BLK_SIZE(mem, ptr), NSize(size)),
                 mem_brk, prep)

\* No neighbour helps.  A block at the tail is to be extended, any other moves to
\* a new block at the end of the heap, without a search for a free one.
Move(id, size) ==
  LET ptr == blocks[id]
      e == extend_heap(mem, mem_brk, NSize(size) - BLK_SIZE(mem, ptr))
      d == do_malloc(mem, mem_brk, ALIGN(size))
      f == implicit_mm_free(memcpy(d.mem, d.p, ptr, BLK_AVAL_SIZE(mem, ptr)), ptr)
  IN  /\ PastNext(id, size) /\ ~RoomBefore(id, size)
      /\ IF ptr = TAIL_BLK(mem, mem_brk)
         THEN IF e.p = NULL THEN Wild /\ UNCHANGED searchVars
              ELSE Resized(id, size, SET_BLK(e.mem, e.p, NSize(size), BLK_ALLOC), e.brk, e.p)
         ELSE IF d.p = NULL
         THEN /\ Deliver(CallArgs(id, size), NULL)
              /\ UNCHANGED <<mem, mem_brk, searchVars>>
         ELSE Resized(id, size, SET_BLK(f.mem, d.p, NSize(size), BLK_ALLOC), d.brk, d.p)

-----------------------------------------------------------------------------

Init == InitClient /\ FIT \in Strategies /\ heap_curp = NULL /\ p = NULL /\ oldp = NULL /\ bestp = NULL

Undefined == pc = "undefined" /\ UNCHANGED vars

FindFit ==
  \/ SearchHit
  \/ FirstFitNext \/ FirstFitMiss
  \/ NextFitNext
  \/ BestFitNext \/ BestFitEnd

Next ==
  \/ implicit_mm_init
  \/ \E id \in Ids : MallocZero(id) \/ FreeCall(id)
  \/ \E id \in Ids, size \in Sizes :
        \/ MallocCall(id, size) \/ MallocFromNull(id, size)
        \/ ReallocInPlace(id, size) \/ GrowIntoNext(id, size) \/ GrowTail(id, size)
        \/ GrowIntoPrev(id, size) \/ Move(id, size)
  \/ FindFit
  \/ Extend
  \/ Fill /\ UNCHANGED searchVars
  \/ clean_up /\ UNCHANGED searchVars
  \/ Undefined

Spec == Init /\ [][Next]_vars

\* Traces one after the other, without a clean_up between them.
SpecTraces == Init /\ [][Next \/ (StartTrace /\ UNCHANGED searchVars)]_vars

\* The allocator is sequential code: a loop once entered goes on turning.
FairSpec == Spec /\ WF_vars(FindFit)

-----------------------------------------------------------------------------

\* Values have their types; for mem: no store has left the region.
TypeOK ==
  /\ TypeOKClient
  /\ FIT \in Strategies
  /\ heap_curp \in Nat /\ p \in Nat /\ oldp \in Nat /\ bestp \in Nat

Ready == pc \notin {"boot", "undefined"}

Blks == Chain(mem, heap_listp, mem_brk)

IsFree(b) == BLK_STATE(mem, b) = BLK_FREE

\* After every call the blocks tile the heap from the prologue to the epilogue,
\* headers and footers agree, and the blocks marked allocated are exactly those
\* the client holds: nothing is lost and nothing is handed out twice.
HeapConsistent ==
  Ready =>
    /\ Tiling(mem, heap_listp, mem_brk, Blks)
    /\ EB(mem, mem_brk)
    /\ {b \in Blks : ~IsFree(b)} = {heap_listp} \cup {blocks[id] : id \in {x \in Ids : Live(x)}}
    /\ \A id \in Ids : Live(id) => block_sizes[id] <= BLK_AVAL_SIZE(mem, blocks[id])

\* The list ends at the break, in a word that reads as a block of size 0.
ListEnds == Ready => mem[mem_brk - WSIZE] \in {PACK(0, BLK_FREE), PACK(0, BLK_ALLOC)}

\* next_fit's cursor never dangles: whatever has been split, joined or moved
\* since it was set, it is the payload of a block, or NULL after a failed malloc.
CursorValid == (FIT = "next" /\ Ready) => heap_curp \in Blks \cup {NULL}

\* A block at the end of the heap never moves: realloc grows it in place.  This
\* is what keeps the branch of realloc for ptr == TAIL_BLK(), which would return
\* the old break as the block, out of reach.
TailGrowsInPlace ==
  [][\A id \in Ids :
        (Live(id) /\ blocks'[id] # NULL /\ NEXT_BLKP(mem, blocks[id]) = mem_brk)
          => blocks'[id] = blocks[id]]_vars

\* implicit_mm_malloc moves the break only when no block of the whole list could
\* have served the request, wherever the search began.
NoNeedlessGrowth ==
  [][(pc = "extend" /\ mem_brk' # mem_brk) => \A b \in Blks : ~Fits(b)]_vars

\* implicit_mm_malloc returns NULL only when no free block could have served the
\* request.
MallocFailsOnlyWhenFull ==
  (pc = "failed" /\ call.ptr = NULL /\ call.size > 0) => \A b \in Blks : ~Fits(b)

\* The same for implicit_mm_realloc, which says of the point where it moves the
\* block that "we have no free block to reuse".
ReallocFailsOnlyWhenFull ==
  (pc = "failed" /\ call.ptr # NULL) => \A b \in Blks : ~Fits(b)

\* The block a search ends with is the one its strategy promises: for first_fit
\* the lowest block that fits, for best_fit the smallest.
FitAsPromised ==
  [][(pc = "search" /\ pc' = "returned") =>
       \A b \in Blks : Fits(b) =>
         /\ FIT = "first" => blocks'[call.id] <= b
         /\ FIT = "best" => BLK_SIZE(mem, blocks'[call.id]) <= BLK_SIZE(mem, b)]_vars

\* A search ends: the walk over the list never runs in a circle.
SearchEnds == (pc = "search") ~> (pc # "search")
=============================================================================
