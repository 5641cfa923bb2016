----------------------------- MODULE Segregate ------------------------------
(***************************************************************************)
(* segregate.c, the allocator the Makefile builds by default: free blocks  *)
(* are kept in FLT_SLOT_NUM size classes.  The table of list heads sits at *)
(* the bottom of the heap, before the prologue.  A free block keeps the    *)
(* next pointer in the first 8 bytes of its payload and the prev pointer   *)
(* in the second 8, except that a block of the smallest size has no room   *)
(* for a prev pointer.                                                     *)
(***************************************************************************)
EXTENDS TraceClient, FltIndex

VARIABLES
  i,   \* segregate_mm_malloc: the class being searched
  p    \* freelist_alloc: the block being looked at

vars == <<mem, mem_brk, clientVars, i, p>>

BLK_MIN_SIZE   == 2 * WSIZE + ALIGNMENT
FLT_SIZE       == 8 * FLT_SLOT_NUM
freelist_table == mem_start_brk
Slot(k)        == freelist_table + 8 * k
heap_listp     == freelist_table + FLT_SIZE + 2 * WSIZE

ASSUME SegregateAssumption ==
  FLT_SLOT_NUM \in Nat /\ FLT_SLOT_NUM >= 2 /\ MAX_HEAP >= FLT_SIZE + 4 * WSIZE

\* A pointer is 8 bytes: the address, and an upper half that is zero.
SetPtr(m, a, v)              == SET(SET(m, a, v), a + 4, 0)
NEXT_FREE_BLKP(m, b)         == m[b]
PREV_FREE_BLKP(m, b)         == m[b + 8]
SET_NEXT_FREE_BLK(m, b, nxt) == SetPtr(m, b, nxt)
SET_PREV_FREE_BLK(m, b, prv) == SetPtr(m, b + 8, prv)

\* Unlinks b, unless b is of the smallest size: that one stays linked.
FREELIST_DEL_BLK(m, b) ==
  IF BLK_SIZE(m, b) > BLK_MIN_SIZE
  THEN LET prevp == PREV_FREE_BLKP(m, b)
           nextp == NEXT_FREE_BLKP(m, b)
           m1    == SET_NEXT_FREE_BLK(m, prevp, nextp)
       IN  IF nextp # NULL THEN SET_PREV_FREE_BLK(m1, nextp, prevp) ELSE m1
  ELSE m

\* Mutant: the block that was first does not learn of its new predecessor.
freelist_insert2OneWay(m, freelistp, b) ==
  LET m1 == SET_NEXT_FREE_BLK(m, b, NEXT_FREE_BLKP(m, freelistp))
  IN  SET_NEXT_FREE_BLK(SET_PREV_FREE_BLK(m1, b, freelistp), freelistp, b)

\* Pushes b at the front of the list with head freelistp.
freelist_insert2(m, freelistp, b) ==
  LET nextp == NEXT_FREE_BLKP(m, freelistp)
      m1    == SET_NEXT_FREE_BLK(m, b, nextp)
      m2    == SET_PREV_FREE_BLK(m1, b, freelistp)
      m3    == SET_NEXT_FREE_BLK(m2, freelistp, b)
  IN  IF BLK_SIZE(m, b) = BLK_MIN_SIZE THEN SET_NEXT_FREE_BLK(m1, freelistp, b)
      ELSE IF nextp # NULL THEN SET_PREV_FREE_BLK(m3, nextp, b) ELSE m3

\* Mutant: the previous block is not looked at.
coalesceNextOnly(m, bp) ==
  LET nextFree == NEXT_BLK_ALLOC(m, bp) = BLK_FREE
      m1   == IF nextFree THEN FREELIST_DEL_BLK(m, NEXT_BLKP(m, bp)) ELSE m
      size == BLK_SIZE(m, bp) + (IF nextFree THEN NEXT_BLK_SIZE(m1, bp) ELSE 0)
  IN  [mem |-> SET_BLK(m1, bp, size, BLK_FREE), p |-> bp]

\* Mutant: a block without free neighbours keeps its allocated mark.
coalesceKeepsMark(m, bp) ==
  IF NEXT_BLK_ALLOC(m, bp) = BLK_ALLOC /\ PREV_BLK_ALLOC(m, bp) = BLK_ALLOC
  THEN [mem |-> m, p |-> bp]
  ELSE coalesceNextOnly(m, bp)

\* Joins bp with its free neighbours, which leave their lists.
coalesce(m, bp) ==
  LET nextFree == NEXT_BLK_ALLOC(m, bp) = BLK_FREE
      m1    == IF nextFree THEN FREELIST_DEL_BLK(m, NEXT_BLKP(m, bp)) ELSE m
      size1 == BLK_SIZE(m, bp) + (IF nextFree THEN NEXT_BLK_SIZE(m1, bp) ELSE 0)
      prevFree == PREV_BLK_ALLOC(m1, bp) = BLK_FREE
      m2    == IF prevFree THEN FREELIST_DEL_BLK(m1, PREV_BLKP(m1, bp)) ELSE m1
      size2 == size1 + (IF prevFree THEN PREV_BLK_SIZE(m2, bp) ELSE 0)
      b     == IF prevFree THEN PREV_BLKP(m2, bp) ELSE bp
  IN  [mem |-> SET_BLK(m2, b, size2, BLK_FREE), p |-> b]

freelist_insert(m, bp) ==
  LET c == coalesce(m, bp)
  IN  freelist_insert2(c.mem, Slot(flt_index(BLK_AVAL_SIZE(c.mem, c.p))), c.p)

segregate_mm_free(m, ptr) == freelist_insert(m, ptr)

\* Mutant: the block is not unlinked.
TakeLinked(m, b, nsize) ==
  LET rsize == BLK_SIZE(m, b) - nsize
      m2    == SET_BLK(SET_BLK(m, b, nsize, BLK_ALLOC), b + nsize, rsize, BLK_FREE)
  IN  IF rsize >= BLK_MIN_SIZE THEN freelist_insert(m2, b + nsize)
      ELSE SET_BLK(m, b, BLK_SIZE(m, b), BLK_ALLOC)

\* freelist_alloc once it has found the block b: unlink it and split it if the
\* remainder makes a block, which goes to the list of its class.
Take(m, b, nsize) ==
  LET m1    == FREELIST_DEL_BLK(m, b)
      rsize == BLK_SIZE(m, b) - nsize
      m2    == SET_BLK(SET_BLK(m1, b, nsize, BLK_ALLOC), b + nsize, rsize, BLK_FREE)
  IN  IF rsize >= BLK_MIN_SIZE THEN freelist_insert(m2, b + nsize)
      ELSE SET_BLK(m1, b, BLK_SIZE(m1, b), BLK_ALLOC)

\* Moves the break and writes the epilogue header under the new one.
extend_heap(m, brk, size) ==
  IF size = 0 \/ size % ALIGNMENT # 0 \/ ~SbrkSucceeds(brk, size)
  THEN [mem |-> m, brk |-> brk, p |-> NULL]
  ELSE [mem |-> SET_EB(m, brk + size), brk |-> brk + size, p |-> brk]

-----------------------------------------------------------------------------

\* Mutant: the table of list heads is not cleared.
initKeepsTable ==
  LET e  == extend_heap(mem, mem_brk, FLT_SIZE + 4 * WSIZE)
      m2 == SET(e.mem, heap_listp - 2 * WSIZE, 48879)
      m3 == SET_BLK(m2, heap_listp, 2 * WSIZE, BLK_ALLOC)
  IN  /\ pc = "boot"
      /\ mem' = SET_EB(m3, heap_listp + 2 * WSIZE)
      /\ mem_brk' = e.brk
      /\ pc' = "client"
      /\ UNCHANGED <<blocks, block_sizes, call, i, p>>

segregate_mm_init ==
  LET e  == extend_heap(mem, mem_brk, FLT_SIZE + 4 * WSIZE)
      m1 == memset(e.mem, freelist_table, 0, FLT_SIZE)
      m2 == SET(m1, heap_listp - 2 * WSIZE, 48879)          \* padding, ..BEEF
      m3 == SET_BLK(m2, heap_listp, 2 * WSIZE, BLK_ALLOC)   \* prologue
  IN  /\ pc = "boot"
      /\ mem' = SET_EB(m3, heap_listp + 2 * WSIZE)
      /\ mem_brk' = e.brk
      /\ pc' = "client"
      /\ UNCHANGED <<blocks, block_sizes, call, i, p>>

\* Where freelist_alloc starts in class k.
EnterSlot(k) == i' = k /\ p' = NEXT_FREE_BLKP(mem, Slot(k))

\* mm_malloc, or mm_realloc with NULL, enters the search of segregate_mm_malloc.
MallocCall(id, size) ==
  /\ Idle /\ ~Live(id)
  /\ call' = CallArgs(id, size)
  /\ EnterSlot(flt_index(size))
  /\ pc' = "search"
  /\ UNCHANGED <<mem, mem_brk, blocks, block_sizes>>

\* Mutant: the old block is freed before it is copied.
FinishFreesFirst(m, brk, bp) ==
  /\ i' = 0 /\ p' = NULL
  /\ IF call.ptr # NULL /\ bp = NULL
     THEN Wild
     ELSE /\ mem_brk' = brk
          /\ mem' = IF call.ptr = NULL THEN m
                    ELSE memcpy(segregate_mm_free(m, call.ptr), bp, call.ptr,
                                BLK_AVAL_SIZE(m, call.ptr))
          /\ Deliver(call, bp)

\* segregate_mm_malloc returns bp with memory m and break brk.  A realloc that
\* asked for a bigger block copies the old one and frees it, without looking at
\* the result: for NULL the copy goes to address 0.
Finish(m, brk, bp) ==
  /\ i' = 0 /\ p' = NULL
  /\ IF call.ptr # NULL /\ bp = NULL
     THEN Wild
     ELSE /\ mem_brk' = brk
          /\ mem' = IF call.ptr = NULL THEN m
                    ELSE segregate_mm_free(
                           memcpy(m, bp, call.ptr, BLK_AVAL_SIZE(m, call.ptr)), call.ptr)
          /\ Deliver(call, bp)

\* The argument segregate_mm_malloc was called with, and the block it needs.
Wanted == IF call.ptr = NULL THEN call.size ELSE ALIGN(call.size)
nsize  == ALIGN(Wanted) + 2 * WSIZE

\* Mutant: a block of just the size wanted is passed over.
FoundBigger == p # NULL /\ BLK_SIZE(mem, p) > nsize

Found == p # NULL /\ BLK_SIZE(mem, p) >= nsize

SearchHit ==
  /\ pc = "search" /\ Found
  /\ pc' = "found"
  /\ UNCHANGED <<mem, mem_brk, blocks, block_sizes, call, i, p>>

\* Mutant: only the first block of each list is looked at.
SearchFirstOnly ==
  /\ pc = "search" /\ p # NULL /\ ~Found
  /\ p' = NULL
  /\ UNCHANGED <<mem, mem_brk, clientVars, i>>

\* Mutant: the search goes back to the head of the list.
SearchRestarts ==
  /\ pc = "search" /\ p # NULL /\ ~Found
  /\ p' = NEXT_FREE_BLKP(mem, Slot(i))
  /\ UNCHANGED <<mem, mem_brk, clientVars, i>>

SearchNext ==
  /\ pc = "search" /\ p # NULL /\ ~Found
  /\ p' = NEXT_FREE_BLKP(mem, p)
  /\ UNCHANGED <<mem, mem_brk, clientVars, i>>

SearchNextSlot ==
  /\ pc = "search" /\ p = NULL /\ i < FLT_SLOT_NUM - 1
  /\ EnterSlot(i + 1)
  /\ UNCHANGED <<mem, mem_brk, clientVars>>

SearchMiss ==
  /\ pc = "search" /\ p = NULL /\ i = FLT_SLOT_NUM - 1
  /\ pc' = "extend"
  /\ UNCHANGED <<mem, mem_brk, blocks, block_sizes, call, i, p>>

\* The search has stopped at p.
TakeFound == pc = "found" /\ Finish(Take(mem, p, nsize), mem_brk, p)

\* No room in any list.
Extend ==
  LET e == extend_heap(mem, mem_brk, nsize)
  IN  /\ pc = "extend"
      /\ Finish(IF e.p = NULL THEN e.mem ELSE SET_BLK(e.mem, e.p, nsize, BLK_ALLOC), e.brk, e.p)

\* mm_free(ptr), or mm_realloc(ptr, 0), whose NULL says nothing to the client.
FreeCall(id) ==
  /\ Idle /\ Live(id)
  /\ mem' = segregate_mm_free(mem, blocks[id])
  /\ Drop(id)
  /\ UNCHANGED <<mem_brk, i, p>>

\* mm_realloc that needs more space: a search for the new block comes first.
ReallocGrow(id, size) ==
  /\ Idle /\ Live(id) /\ size > 0
  /\ ALIGN(size) > BLK_AVAL_SIZE(mem, blocks[id])
  /\ call' = CallArgs(id, size)
  /\ EnterSlot(flt_index(ALIGN(size)))
  /\ pc' = "search"
  /\ UNCHANGED <<mem, mem_brk, blocks, block_sizes>>

\* mm_realloc that fits where it is: a remainder that makes a block is freed.
ReallocShrink(id, size) ==
  LET ptr  == blocks[id]
      rest == BLK_AVAL_SIZE(mem, ptr) - ALIGN(size)
      m1   == SET_BLK(mem, ptr, ALIGN(size) + 2 * WSIZE, BLK_ALLOC)
      m2   == SET_BLK(m1, NEXT_BLKP(m1, ptr), rest, BLK_FREE)
  IN  /\ Idle /\ Live(id) /\ size > 0
      /\ rest >= 0
      /\ mem' = IF rest >= BLK_MIN_SIZE THEN segregate_mm_free(m2, NEXT_BLKP(m2, ptr)) ELSE mem
      /\ Deliver(CallArgs(id, size), ptr)
      /\ UNCHANGED <<mem_brk, i, p>>

Init == InitClient /\ i = 0 /\ p = NULL

Undefined == pc = "undefined" /\ UNCHANGED vars

Search == SearchHit \/ SearchNext \/ SearchNextSlot \/ SearchMiss

Next ==
  \/ segregate_mm_init
  \/ \E id \in Ids, size \in Sizes :
        MallocCall(id, size) \/ ReallocGrow(id, size) \/ ReallocShrink(id, size)
  \/ \E id \in Ids : FreeCall(id)
  \/ Search
  \/ TakeFound \/ Extend
  \/ Fill /\ UNCHANGED <<i, p>>
  \/ clean_up /\ UNCHANGED <<i, p>>
  \/ Undefined

Spec == Init /\ [][Next]_vars

\* Traces one after the other, without a clean_up between them.
SpecTraces == Init /\ [][Next \/ (StartTrace /\ UNCHANGED <<i, p>>)]_vars

\* The allocator is sequential code: a loop once entered goes on turning.
FairSpecTraces == SpecTraces /\ WF_vars(Search)

-----------------------------------------------------------------------------

\* Values have their types; for mem: no store has left the region.
TypeOK ==
  /\ TypeOKClient
  /\ i \in 0..(FLT_SLOT_NUM - 1)
  /\ p \in Nat

Ready == pc \notin {"boot", "undefined"}

Blks == Chain(mem, heap_listp, mem_brk)

IsFree(b) == BLK_STATE(mem, b) = BLK_FREE

\* After every call the blocks tile the heap from the prologue to the epilogue,
\* headers and footers agree, and the blocks marked allocated are exactly those
\* the client holds: nothing is lost and nothing is handed out twice.
HeapConsistent ==
  Ready =>
    /\ Tiling(mem, heap_listp, mem_brk, Blks)
    /\ mem[mem_brk - WSIZE] = PACK(0, BLK_ALLOC)
    /\ {b \in Blks : ~IsFree(b)} = {heap_listp} \cup {blocks[id] : id \in {x \in Ids : Live(x)}}
    /\ \A id \in Ids : Live(id) => block_sizes[id] <= BLK_AVAL_SIZE(mem, blocks[id])

\* A walk along the list of class k, from its head; the bound only stops the walk of
\* a cyclic list.
FollowList(b) == IF b = NULL THEN NULL ELSE NEXT_FREE_BLKP(mem, b)

ListWalk(k) ==
  LET nth[n \in 0..(MAX_HEAP \div BLK_MIN_SIZE)] ==
        IF n = 0 THEN NEXT_FREE_BLKP(mem, Slot(k)) ELSE FollowList(nth[n - 1])
  IN  nth

\* The blocks met on it.
Listed(k) == LET nth == ListWalk(k) IN {nth[n] : n \in DOMAIN nth} \ {NULL}

\* Every free block that has a prev pointer is on the list of its class, as
\* segregate_mm_init documents the classes, and on no other, the lists hold
\* nothing else, and each prev pointer is the inverse of a next pointer (class 0 is
\* left out: blocks of the smallest size are never unlinked, so its list also holds
\* pointers to blocks long gone).
FreeListsExact ==
  Ready =>
    \A k \in 1..(FLT_SLOT_NUM - 1) :
      /\ Listed(k) = {b \in Blks : /\ IsFree(b) /\ BLK_SIZE(mem, b) > BLK_MIN_SIZE
                                   /\ InClass(BLK_AVAL_SIZE(mem, b), k)}
      /\ \A b \in Listed(k) : NEXT_FREE_BLKP(mem, PREV_FREE_BLKP(mem, b)) = b

\* No two neighbouring blocks are both free: coalesce joins them on every free,
\* split and shrink.
Coalesced ==
  Ready => \A b \in Blks : IsFree(b) => NEXT_BLK_ALLOC(mem, b) = BLK_ALLOC

\* segregate_mm_malloc moves the break only when no free block, in any class,
\* could have served the request.
NoNeedlessGrowth ==
  [][(pc = "extend" /\ mem_brk' # mem_brk) =>
        \A b \in Blks : IsFree(b) => BLK_SIZE(mem, b) < nsize]_vars

\* segregate_mm_malloc returns NULL only when no free block could have served
\* the request and the break cannot move that far.
FailsOnlyWhenFull ==
  pc = "failed" =>
    /\ \A b \in Blks : IsFree(b) => BLK_AVAL_SIZE(mem, b) < call.size
    /\ mem_brk + ALIGN(call.size) + 2 * WSIZE > mem_max_addr

\* A search ends: the walk over the lists never runs in a circle.
SearchEnds == (pc = "search") ~> (pc # "search")
=============================================================================
