--------------------------- MODULE SegregateProofs --------------------------
(***************************************************************************)
(* The allocator of segregate.c, for every size of the region, every       *)
(* number of size classes and every client whose requests are of more than *)
(* 8 bytes: no store leaves the region, the blocks handed out never        *)
(* overlap and keep what the client wrote, the heap is in order after      *)
(* every call, and no free block that could serve a request is passed      *)
(* over.                                                                   *)
(***************************************************************************)
EXTENDS SegregateHeapProofs, FiniteSetTheorems

\* What the theorems ask of the constants: the requests are of more than 8 bytes
\* (a request of at most 8 makes blocks that are never unlinked again), and sizes
\* are values of an int.
Served == MAX_HEAP <= MAX_INT /\ \A size \in Sizes : 8 < size /\ size + 7 <= MAX_INT

\* The blocks the client holds are allocated blocks of the heap, big enough, and
\* no two ids share one; the other blocks, but for the prologue, are free.
Owned(B) ==
  /\ \A id \in Ids : Live(id) =>
        /\ blocks[id] \in B /\ blocks[id] # heap_listp
        /\ BLK_STATE(mem, blocks[id]) = BLK_ALLOC
        /\ block_sizes[id] <= BLK_AVAL_SIZE(mem, blocks[id])
        /\ \A other \in Ids : blocks[other] = blocks[id] => other = id
  /\ \A b \in B : BLK_STATE(mem, b) = BLK_ALLOC =>
        b = heap_listp \/ \E id \in Ids : blocks[id] = b

\* V is the part of the list of class k that a search which stands at b has still
\* to look at: it goes on from b to the end.
Ahead(m, F, k, b, V) ==
  /\ V \subseteq F
  /\ \A c \in V : Class(m, c) = k /\ (c # b => PREV_FREE_BLKP(m, c) \in V)

\* Blocks of at least s bytes are in V or in the classes above k.
FitsAhead(m, F, k, s, V) == \A c \in F : BLK_SIZE(m, c) >= s => Class(m, c) > k \/ c \in V

\* Where the search stands, and what it has not missed.
Searching(F) ==
  pc = "search" =>
    /\ i \in 1..(FLT_SLOT_NUM - 1) /\ p \in F \cup {NULL}
    /\ \E V : Ahead(mem, F, i, p, V) /\ FitsAhead(mem, F, i, nsize, V)

\* What a search has ended with.
Ended(F) ==
  /\ pc = "found" => p \in F /\ nsize <= BLK_SIZE(mem, p)
  /\ pc = "extend" => \A c \in F : BLK_SIZE(mem, c) < nsize
  /\ pc = "failed" => /\ \A c \in F : BLK_SIZE(mem, c) < ALIGN(call.size) + 8
                      /\ mem_brk + ALIGN(call.size) + 8 > mem_max_addr

HeapInv ==
  \E B : /\ Loose(mem, mem_brk, B, NULL) /\ Owned(B)
         /\ Searching(Frees(mem, B)) /\ Ended(Frees(mem, B))

\* Before mm_init the region may hold anything.
Booting == mem_brk = mem_start_brk /\ blocks = [id \in Ids |-> NULL]

\* A call under way is about what the client holds; a realloc searches only for
\* more room than its block has.
Asking ==
  /\ pc \in {"search", "found", "extend"} =>
       /\ call.ptr = blocks[call.id] /\ call.old = block_sizes[call.id]
       /\ call.ptr # NULL => ALIGN(call.size) > BLK_AVAL_SIZE(mem, call.ptr)
  /\ pc \in {"search", "found", "extend", "failed"} => call.size \in Sizes

Handing == pc = "returned" => Live(call.id) /\ block_sizes[call.id] = call.size

Empty == \A id \in Ids : ~Live(id) => block_sizes[id] = 0

\* The inductive invariant.
IInv ==
  /\ TypeOK
  /\ pc = "boot" => Booting
  /\ pc # "boot" => HeapInv
  /\ Asking
  /\ Handing
  /\ Empty
  /\ DataPreserved

-----------------------------------------------------------------------------
\* What the type invariant says of memory follows from a well-formed heap.
LEMMA HeapTypes ==
  ASSUME NEW m, NEW brk, NEW B, HeapOK(m, brk, B)
  PROVE  /\ m \in [Addr -> Word]
         /\ brk \in mem_start_brk..mem_max_addr /\ brk % 8 = 0
         /\ B \subseteq Nat /\ NULL \notin B
<1>1. /\ m \in Memory /\ brk \in Nat /\ brk % 8 = 0 /\ heap_listp + 8 <= brk
      /\ brk <= mem_max_addr
  BY BreakFacts
<1>2. brk \in mem_start_brk..mem_max_addr
  BY <1>1, Layout
<1>3. \A b \in B : b \in Nat
  BY Block
<1>. QED  BY <1>1, <1>2, <1>3, NotNull DEF Memory

\* A record of arguments is not NoCall.
LEMMA CallTypes ==
  ASSUME NEW c \in Calls
  PROVE  c # NoCall /\ c.id \in Ids /\ c.size \in Nat /\ c.ptr \in Nat /\ c.old \in Nat
<1>1. c.id \in Ids /\ c.size \in Nat /\ c.ptr \in Nat /\ c.old \in Nat
  BY DEF Calls
<1>2. 0 \notin Ids
  BY ClientAssumption
<1>. QED  BY <1>1, <1>2 DEF NoCall, NULL

\* The absence of a call is not taken for one.
LEMMA NoCallTypes == NoCall \notin Calls
BY CallTypes

\* The arguments of a call by the client.
LEMMA ArgsTypes ==
  ASSUME TypeOK, NEW id \in Ids, NEW size \in Nat
  PROVE  /\ CallArgs(id, size) \in Calls
         /\ CallArgs(id, size).id = id /\ CallArgs(id, size).size = size
         /\ CallArgs(id, size).ptr = blocks[id] /\ CallArgs(id, size).old = block_sizes[id]
BY DEF TypeOK, TypeOKClient, CallArgs, Calls

\* Rounding up twice is rounding up once.
LEMMA AlignTwice ==
  ASSUME NEW n \in Nat
  PROVE  ALIGN(ALIGN(n)) = ALIGN(n)
<1>1. /\ ALIGN(n) \in Nat /\ ALIGN(n) % 8 = 0
  BY AlignFacts
<1>. DEFINE a == ALIGN(n)
<1>2. a \in Nat /\ a % 8 = 0
  BY <1>1
<1>. HIDE DEF a
<1>3. ALIGN(a) = a
  BY <1>2 DEF ALIGN
<1>. QED  BY <1>3 DEF a

\* The sizes of requests.
LEMMA RequestFacts ==
  ASSUME Served, NEW size \in Sizes
  PROVE  /\ size \in Nat /\ size > 8
         /\ ALIGN(size) \in Nat /\ ALIGN(size) % 8 = 0 /\ ALIGN(size) >= 16
         /\ size <= ALIGN(size) /\ ALIGN(size) < size + 8
         /\ size <= MAX_INT /\ ALIGN(size) <= MAX_INT
<1>1. size \in Nat /\ 8 < size /\ size + 7 <= MAX_INT
  BY ClientAssumption DEF Served
<1>2. /\ ALIGN(size) \in Nat /\ ALIGN(size) % 8 = 0 /\ size <= ALIGN(size)
      /\ ALIGN(size) < size + 8
  BY <1>1, AlignFacts
<1>3. MAX_INT \in Int
  BY SMT DEF MAX_INT
<1>. DEFINE a == ALIGN(size)
<1>4. a \in Nat /\ a % 8 = 0 /\ size <= a /\ a < size + 8
  BY <1>2
<1>. HIDE DEF a
<1>5. a >= 16 /\ a <= MAX_INT /\ size <= MAX_INT
  BY <1>1, <1>3, <1>4
<1>. QED  BY <1>1, <1>2, <1>5 DEF a

\* The block a call looks for.
LEMMA NsizeFacts ==
  ASSUME Served, IInv, pc \in {"search", "found", "extend"}
  PROVE  /\ call \in Calls /\ call.size \in Sizes
         /\ nsize = ALIGN(call.size) + 8
         /\ nsize \in Nat /\ nsize % 8 = 0 /\ nsize >= 24
<1>1. call \in Calls /\ call.size \in Sizes
  BY DEF IInv, TypeOK, TypeOKClient, Asking
<1>2. /\ call.size \in Nat /\ ALIGN(call.size) \in Nat /\ ALIGN(call.size) % 8 = 0
      /\ ALIGN(call.size) >= 16
  BY <1>1, RequestFacts
<1>3. ALIGN(Wanted) = ALIGN(call.size)
  BY <1>2, AlignTwice DEF Wanted
<1>. DEFINE a == ALIGN(call.size)
<1>4. nsize = a + 8
  BY <1>3 DEF nsize, WSIZE
<1>5. a \in Nat /\ a % 8 = 0 /\ a >= 16
  BY <1>2
<1>. HIDE DEF a
<1>6. a + 8 \in Nat /\ (a + 8) % 8 = 0 /\ a + 8 >= 24
  BY <1>5
<1>7. nsize \in Nat /\ nsize % 8 = 0 /\ nsize >= 24
  BY <1>4, <1>6
<1>. QED  BY <1>1, <1>4, <1>7 DEF a

\* What is kept of a block that is not the operation's own.
LEMMA HeldFacts ==
  ASSUME NEW m, NEW n, NEW brk, NEW B, NEW C, NEW own, NEW new,
         HeapOK(m, brk, B), Kept(m, n, B, C, own, new),
         NEW b \in B, BLK_STATE(m, b) = BLK_ALLOC, b # own,
         NEW z \in Nat, z <= BLK_AVAL_SIZE(m, b)
  PROVE  /\ b \in C /\ BLK_STATE(n, b) = BLK_ALLOC /\ z <= BLK_AVAL_SIZE(n, b)
         /\ BLK_AVAL_SIZE(n, b) = BLK_AVAL_SIZE(m, b)
         /\ \A w \in Addr : b <= w /\ w < b + z => n[w] = m[w]
<1>1. /\ b \in C /\ n[b - 4] = m[b - 4]
      /\ \A w \in Addr : InPayload(m, b, w) => n[w] = m[w]
  BY DEF Kept
<1>2. BLK_STATE(n, b) = BLK_ALLOC /\ BLK_AVAL_SIZE(n, b) = BLK_AVAL_SIZE(m, b)
  BY <1>1, HeaderFacts
<1>3. b \in Nat /\ BLK_SIZE(m, b) \in Nat
  BY Block
<1>4. ASSUME NEW w \in Addr, b <= w, w < b + z
      PROVE  n[w] = m[w]
  <2>1. w \in Int /\ z <= BLK_SIZE(m, b) - 8
    BY DEF Addr, BLK_AVAL_SIZE, WSIZE
  <2>2. InPayload(m, b, w)
    BY <1>3, <1>4, <2>1 DEF InPayload
  <2>. QED  BY <1>1, <2>2
<1>. QED  BY <1>1, <1>2, <1>4

\* The block of one id is replaced or given up: the blocks of the others stay
\* theirs, with what they hold.
LEMMA OwnedStep ==
  ASSUME TypeOK, NEW B, HeapOK(mem, mem_brk, B), Owned(B), NEW id \in Ids,
         NEW C, HeapOK(mem', mem_brk', C), NEW b \in Nat, NEW z \in Nat,
         Kept(mem, mem', B, C, blocks[id], b),
         b # NULL => /\ b \in C /\ b # heap_listp /\ BLK_STATE(mem', b) = BLK_ALLOC
                     /\ z <= BLK_AVAL_SIZE(mem', b)
                     /\ b \in B => BLK_STATE(mem, b) = BLK_FREE \/ b = blocks[id],
         blocks' = [blocks EXCEPT ![id] = b], block_sizes' = [block_sizes EXCEPT ![id] = z]
  PROVE  /\ Owned(C)'
         /\ blocks' \in [Ids -> Nat] /\ block_sizes' \in [Ids -> Nat]
         /\ blocks'[id] = b /\ block_sizes'[id] = z
         /\ \A x \in Ids : x # id =>
              /\ blocks'[x] = blocks[x] /\ block_sizes'[x] = block_sizes[x]
              /\ Live(x) => \A w \in Addr : blocks[x] <= w /\ w < blocks[x] + block_sizes[x] =>
                                              mem'[w] = mem[w]
<1>1. blocks \in [Ids -> Nat] /\ block_sizes \in [Ids -> Nat]
  BY DEF TypeOK, TypeOKClient
<1>2. /\ blocks' \in [Ids -> Nat] /\ block_sizes' \in [Ids -> Nat]
      /\ blocks'[id] = b /\ block_sizes'[id] = z
      /\ \A x \in Ids : x # id => blocks'[x] = blocks[x] /\ block_sizes'[x] = block_sizes[x]
  BY <1>1
<1>3. ASSUME NEW x \in Ids, x # id, blocks[x] # NULL
      PROVE  /\ blocks[x] \in C /\ blocks[x] # heap_listp /\ blocks[x] # b
             /\ BLK_STATE(mem', blocks[x]) = BLK_ALLOC
             /\ block_sizes[x] <= BLK_AVAL_SIZE(mem', blocks[x])
             /\ \A other \in Ids : blocks[other] = blocks[x] => other = x
             /\ \A w \in Addr : blocks[x] <= w /\ w < blocks[x] + block_sizes[x] => mem'[w] = mem[w]
  <2>1. /\ blocks[x] \in B /\ blocks[x] # heap_listp
        /\ BLK_STATE(mem, blocks[x]) = BLK_ALLOC
        /\ block_sizes[x] <= BLK_AVAL_SIZE(mem, blocks[x])
        /\ \A other \in Ids : blocks[other] = blocks[x] => other = x
    BY <1>3 DEF Owned, Live
  <2>2. blocks[x] # blocks[id]
    BY <1>3, <2>1
  <2>3. blocks[x] # b
    BY <1>3, <2>1, <2>2 DEF BLK_ALLOC, BLK_FREE
  <2>4. block_sizes[x] \in Nat
    BY <1>1
  <2>5. /\ blocks[x] \in C /\ BLK_STATE(mem', blocks[x]) = BLK_ALLOC
        /\ block_sizes[x] <= BLK_AVAL_SIZE(mem', blocks[x])
        /\ \A w \in Addr : blocks[x] <= w /\ w < blocks[x] + block_sizes[x] => mem'[w] = mem[w]
    BY <2>1, <2>2, <2>4, HeldFacts
  <2>. QED  BY <2>1, <2>3, <2>5
<1>4. Owned(C)'
  <2>1. ASSUME NEW x \in Ids, blocks'[x] # NULL
        PROVE  /\ blocks'[x] \in C /\ blocks'[x] # heap_listp
               /\ BLK_STATE(mem', blocks'[x]) = BLK_ALLOC
               /\ block_sizes'[x] <= BLK_AVAL_SIZE(mem', blocks'[x])
               /\ \A other \in Ids : blocks'[other] = blocks'[x] => other = x
    <3>1. CASE x = id
      <4>1. ASSUME NEW other \in Ids, blocks'[other] = blocks'[x]
            PROVE  other = x
        <5>. SUFFICES ASSUME other # id
                      PROVE  FALSE
          BY <3>1
        <5>1. blocks[other] = b /\ blocks[other] # NULL
          BY <1>2, <2>1, <3>1, <4>1
        <5>. QED  BY <1>3, <5>1
      <4>. QED  BY <1>2, <2>1, <3>1, <4>1
    <3>2. CASE x # id
      <4>1. blocks'[x] = blocks[x] /\ block_sizes'[x] = block_sizes[x] /\ blocks[x] # NULL
        BY <1>2, <2>1, <3>2
      <4>2. ASSUME NEW other \in Ids, blocks'[other] = blocks'[x]
            PROVE  other = x
        <5>1. CASE other = id
          BY <1>2, <1>3, <3>2, <4>1, <4>2, <5>1
        <5>2. CASE other # id
          BY <1>2, <1>3, <3>2, <4>1, <4>2, <5>2
        <5>. QED  BY <5>1, <5>2
      <4>. QED  BY <1>3, <3>2, <4>1, <4>2
    <3>. QED  BY <3>1, <3>2
  <2>2. ASSUME NEW d \in C, BLK_STATE(mem', d) = BLK_ALLOC, d # heap_listp
        PROVE  \E x \in Ids : blocks'[x] = d
    <3>1. CASE d = b
      BY <1>2, <3>1
    <3>2. CASE d # b
      <4>1. d \in B /\ BLK_STATE(mem, d) = BLK_ALLOC /\ d # blocks[id]
        BY <2>2, <3>2 DEF Kept
      <4>2. PICK x \in Ids : blocks[x] = d
        BY <2>2, <4>1 DEF Owned
      <4>. QED  BY <1>2, <4>1, <4>2
    <3>. QED  BY <3>1, <3>2
  <2>. QED  BY <2>1, <2>2 DEF Owned, Live
<1>. QED  BY <1>2, <1>3, <1>4 DEF Live

\* A step that hands out a block to the client keeps the invariant.
LEMMA DeliverStep ==
  ASSUME IInv, pc \notin {"boot", "returned", "undefined"}, NEW B, Loose(mem, mem_brk, B, NULL), Owned(B),
         NEW c \in Calls, c.ptr = blocks[c.id], c.old = block_sizes[c.id], NEW b,
         NEW len \in Nat, c.old <= len \/ c.size <= len,
         Handed(mem, mem', mem_brk', B, c.ptr, b, c.size, len),
         Deliver(c, b), i' \in 0..(FLT_SLOT_NUM - 1), p' \in Nat
  PROVE  IInv'
<1>. DEFINE id == c.id
<1>1. PICK C :
        /\ Loose(mem', mem_brk', C, NULL) /\ Kept(mem, mem', B, C, c.ptr, b)
        /\ b \in C /\ b # heap_listp
        /\ BLK_STATE(mem', b) = BLK_ALLOC /\ c.size <= BLK_AVAL_SIZE(mem', b)
  BY DEF Handed
<1>2. HeapOK(mem, mem_brk, B) /\ HeapOK(mem', mem_brk', C) /\ TypeOK
  BY <1>1 DEF Loose, IInv
<1>3. /\ mem' \in [Addr -> Word]
      /\ mem_brk' \in mem_start_brk..mem_max_addr /\ mem_brk' % 8 = 0
      /\ C \subseteq Nat /\ NULL \notin C
  BY <1>2, HeapTypes
<1>4. b \in Nat /\ b # NULL
  BY <1>1, <1>3
<1>5. id \in Ids /\ c.size \in Nat /\ c.ptr \in Nat /\ c.old \in Nat
  BY CallTypes
<1>6. /\ call' = c /\ pc' = "returned"
      /\ blocks' = [blocks EXCEPT ![id] = b]
      /\ block_sizes' = [block_sizes EXCEPT ![id] = c.size]
  BY <1>4 DEF Deliver
<1>7. b \in B => BLK_STATE(mem, b) = BLK_FREE \/ b = blocks[id]
  BY DEF Handed
<1>8. /\ Owned(C)'
      /\ blocks' \in [Ids -> Nat] /\ block_sizes' \in [Ids -> Nat]
      /\ blocks'[id] = b /\ block_sizes'[id] = c.size
      /\ \A x \in Ids : x # id =>
           /\ blocks'[x] = blocks[x] /\ block_sizes'[x] = block_sizes[x]
           /\ Live(x) => \A w \in Addr : blocks[x] <= w /\ w < blocks[x] + block_sizes[x] =>
                                           mem'[w] = mem[w]
  BY <1>1, <1>2, <1>4, <1>5, <1>6, <1>7, OwnedStep
<1>9. TypeOK'
  BY <1>3, <1>6, <1>8 DEF TypeOK, TypeOKClient, PC
<1>10. HeapInv'
  <2>1. Searching(Frees(mem, C))' /\ Ended(Frees(mem, C))'
    BY <1>6 DEF Searching, Ended
  <2>. QED  BY <1>1, <1>8, <2>1 DEF HeapInv
<1>11. Asking' /\ Handing' /\ Empty'
  <2>1. Asking' /\ Handing'
    BY <1>4, <1>6, <1>8 DEF Asking, Handing, Live
  <2>2. Empty'
    <3>. SUFFICES ASSUME NEW x \in Ids, blocks'[x] = NULL
                  PROVE  block_sizes'[x] = 0
      BY DEF Empty, Live
    <3>1. x # id
      BY <1>4, <1>8
    <3>. QED  BY <1>8, <3>1 DEF IInv, Empty, Live
  <2>. QED  BY <2>1, <2>2
<1>12. \A x \in Ids : Live(x) => Intact(x, block_sizes[x])
  BY DEF IInv, DataPreserved
<1>13. DataPreserved'
  <2>1. ASSUME NEW x \in Ids, x # id, blocks'[x] # NULL, NEW a \in Addr,
               blocks'[x] <= a, a < blocks'[x] + block_sizes'[x]
        PROVE  mem'[a] = x
    <3>1. blocks'[x] = blocks[x] /\ block_sizes'[x] = block_sizes[x] /\ Live(x)
      BY <1>8, <2>1 DEF Live
    <3>2. mem'[a] = mem[a]
      BY <1>8, <2>1, <3>1
    <3>3. mem[a] = x
      BY <1>12, <2>1, <3>1 DEF Intact
    <3>. QED  BY <3>2, <3>3
  <2>. DEFINE l == IF c.old < c.size THEN c.old ELSE c.size
  <2>2. l \in Nat /\ l <= c.old /\ l <= len
    BY <1>5
  <2>. HIDE DEF l
  <2>3. ASSUME NEW a \in Addr, b <= a, a < b + l
        PROVE  mem'[a] = id
    <3>. DEFINE y == a - b + c.ptr
    <3>0. a \in Int /\ a % 4 = 0
      BY DEF Addr
    <3>1. a < b + len
      BY <1>4, <2>2, <2>3, <3>0
    <3>2. mem'[a] = mem[y]
      BY <2>3, <3>1 DEF Handed
    <3>3. c.old > 0
      BY <1>4, <1>5, <2>2, <2>3, <3>0
    <3>4. Live(id) /\ c.ptr # NULL
      BY <1>5, <3>3 DEF IInv, Empty, Live
    <3>5. /\ c.ptr \in B /\ c.old <= BLK_AVAL_SIZE(mem, c.ptr)
      BY <1>5, <3>4 DEF Owned
    <3>6. /\ c.ptr % 8 = 0 /\ mem_start_brk + 8 <= c.ptr /\ BLK_SIZE(mem, c.ptr) \in Nat
          /\ c.ptr + BLK_SIZE(mem, c.ptr) <= mem_brk
      BY <1>2, <3>5, Block
    <3>7. mem_brk \in Nat /\ mem_brk <= mem_max_addr /\ b % 8 = 0
      BY <1>1, <1>2, Block, BreakFacts
    <3>8. /\ y \in Int /\ y % 4 = 0 /\ c.ptr <= y /\ y < c.ptr + c.old
      BY <1>4, <1>5, <2>2, <2>3, <3>0, <3>6, <3>7
    <3>9. c.ptr + c.old <= mem_brk - 8
      <4>. DEFINE t == BLK_SIZE(mem, c.ptr)
      <4>1. t \in Nat /\ c.ptr + t <= mem_brk /\ c.old <= t - 8
        BY <3>5, <3>6 DEF BLK_AVAL_SIZE, WSIZE
      <4>. HIDE DEF t
      <4>. QED  BY <1>5, <3>7, <4>1
    <3>10. y \in Addr
      <4>. HIDE DEF y
      <4>. QED  BY <1>5, <3>6, <3>7, <3>8, <3>9, Layout DEF Addr
    <3>11. mem[y] = id
      <4>. HIDE DEF y
      <4>. QED  BY <1>5, <1>12, <3>4, <3>8, <3>10 DEF Intact
    <3>. QED  BY <3>2, <3>11
  <2>4. \A x \in Ids : Live(x)' =>
          IF pc' = "returned" /\ call'.id = x
          THEN Intact(x, IF call.old < call.size THEN call.old ELSE call.size)'
          ELSE Intact(x, block_sizes[x])'
    <3>. SUFFICES ASSUME NEW x \in Ids, blocks'[x] # NULL
                  PROVE  IF pc' = "returned" /\ call'.id = x
                         THEN Intact(x, IF call.old < call.size THEN call.old ELSE call.size)'
                         ELSE Intact(x, block_sizes[x])'
      BY DEF Live
    <3>1. CASE x = id
      <4>1. Intact(x, IF call.old < call.size THEN call.old ELSE call.size)'
        BY <1>6, <1>8, <2>3, <3>1 DEF Intact, l
      <4>. QED  BY <1>6, <3>1, <4>1
    <3>2. CASE x # id
      <4>1. Intact(x, block_sizes[x])'
        BY <2>1, <3>2 DEF Intact
      <4>. QED  BY <1>6, <3>2, <4>1
    <3>. QED  BY <3>1, <3>2
  <2>. QED  BY <2>4 DEF DataPreserved
<1>. QED  BY <1>6, <1>9, <1>10, <1>11, <1>13 DEF IInv

\* The class of a free block grows with its size.
LEMMA ClassFacts ==
  ASSUME Served, NEW m, NEW brk, NEW B, HeapOK(m, brk, B), NEW b \in Frees(m, B)
  PROVE  /\ Class(m, b) \in 1..(FLT_SLOT_NUM - 1)
         /\ \A v \in Nat : 1 <= v /\ v + 8 <= BLK_SIZE(m, b) => flt_index(v) <= Class(m, b)
<1>. DEFINE s == BLK_SIZE(m, b)
<1>1. b \in B /\ b # heap_listp /\ s >= 24
  BY FreesFacts
<1>2. /\ b \in Nat /\ s \in Nat /\ s % 8 = 0 /\ mem_start_brk + 8 <= b /\ heap_listp <= b
      /\ b + s <= brk /\ brk \in Nat /\ brk <= mem_max_addr
  BY <1>1, Block, BreakFacts
<1>3. MAX_INT \in Int /\ MAX_HEAP <= MAX_INT
  BY SMT DEF MAX_INT, Served
<1>4. Class(m, b) = flt_index(s - 8)
  BY <1>2, Layout DEF Class, BLK_AVAL_SIZE, WSIZE
<1>. HIDE DEF s
<1>5. s <= MAX_INT /\ s >= 16 /\ s # 16
  <2>1. s <= MAX_HEAP
    BY <1>2, Layout, RegionAssumption
  <2>. QED  BY <1>1, <1>2, <1>3, <2>1, RegionAssumption
<1>6. flt_index(s - 8) \in 0..(FLT_SLOT_NUM - 1) /\ (flt_index(s - 8) = 0 <=> s = 16)
  BY <1>2, <1>5, ClassOfSize
<1>. DEFINE j == flt_index(s - 8)
<1>7. j \in 1..(FLT_SLOT_NUM - 1)
  <2>1. j \in 0..(FLT_SLOT_NUM - 1) /\ j # 0
    BY <1>5, <1>6
  <2>. HIDE DEF j
  <2>. QED  BY <2>1, Layout
<1>8. ASSUME NEW v \in Nat, 1 <= v, v + 8 <= s
      PROVE  flt_index(v) <= flt_index(s - 8)
  <2>1. s - 8 \in Int /\ v \in Int /\ v <= s - 8 /\ s - 8 <= MAX_INT
    BY <1>2, <1>3, <1>5, <1>8
  <2>. QED  BY <1>8, <2>1, ClassesMonotone
<1>. QED  BY <1>4, <1>7, <1>8 DEF s

\* A search that enters class k has all of its blocks ahead.
LEMMA EnterFacts ==
  ASSUME NEW m, NEW brk, NEW B, HeapOK(m, brk, B), Lists(m, Frees(m, B)),
         NEW k \in 1..(FLT_SLOT_NUM - 1)
  PROVE  /\ NEXT_FREE_BLKP(m, Slot(k)) \in Frees(m, B) \cup {NULL}
         /\ Ahead(m, Frees(m, B), k, NEXT_FREE_BLKP(m, Slot(k)), {c \in Frees(m, B) : Class(m, c) = k})
<1>. DEFINE F == Frees(m, B)
            h == Slot(k)
            V == {c \in F : Class(m, c) = k}
<1>1. /\ \A x \in Nodes(F) : NextOK(m, F, x)
      /\ \A c \in F : PrevOK(m, F, c)
  BY DEF Lists, Linked
<1>2. h \in Heads /\ h \in Nodes(F)
  BY DEF Heads, Nodes
<1>3. NEXT_FREE_BLKP(m, h) \in F \cup {NULL}
  BY <1>1, <1>2 DEF NextOK
<1>4. ASSUME NEW c \in F, Class(m, c) = k, c # NEXT_FREE_BLKP(m, h)
      PROVE  PREV_FREE_BLKP(m, c) \in V
  <2>. DEFINE q == PREV_FREE_BLKP(m, c)
  <2>1. q \in Nodes(F) /\ NEXT_FREE_BLKP(m, q) = c
    BY <1>1 DEF PrevOK
  <2>2. c # NULL
    BY FreesFacts
  <2>3. Class(m, q) = k
    BY <1>1, <1>4, <2>1, <2>2 DEF NextOK
  <2>4. q \notin Heads
    <3>. SUFFICES ASSUME q \in Heads
                  PROVE  FALSE
      OBVIOUS
    <3>1. PICK j \in 1..(FLT_SLOT_NUM - 1) : q = Slot(j)
      BY DEF Heads
    <3>. HIDE DEF q
    <3>2. j \in 0..(FLT_SLOT_NUM - 1)
      BY Layout
    <3>3. q \in Nat /\ q + 16 <= heap_listp /\ (q - freelist_table) \div 8 = j
      BY <3>1, <3>2, SlotFacts
    <3>4. Class(m, q) = j
      BY <3>3, Layout DEF Class
    <3>. QED  BY <1>4, <2>1, <2>3, <3>1, <3>4
  <2>5. q \in F
    BY <2>1, <2>4 DEF Nodes
  <2>. QED  BY <2>3, <2>5
<1>5. V \subseteq F /\ \A c \in V : c \in F /\ Class(m, c) = k
  OBVIOUS
<1>6. Ahead(m, F, k, NEXT_FREE_BLKP(m, h), V)
  <2>. HIDE DEF V, F, h
  <2>. QED  BY <1>4, <1>5 DEF Ahead
<1>. QED  BY <1>3, <1>6

\* A search that goes on from b leaves only b behind.
LEMMA AdvanceFacts ==
  ASSUME NEW m, NEW brk, NEW B, HeapOK(m, brk, B), Lists(m, Frees(m, B)),
         NEW k, NEW b \in Frees(m, B), NEW V, Ahead(m, Frees(m, B), k, b, V)
  PROVE  /\ NEXT_FREE_BLKP(m, b) \in Frees(m, B) \cup {NULL}
         /\ Ahead(m, Frees(m, B), k, NEXT_FREE_BLKP(m, b), V \ {b})
<1>. DEFINE F == Frees(m, B)
<1>1. /\ \A x \in Nodes(F) : NextOK(m, F, x)
      /\ \A c \in F : PrevOK(m, F, c)
  BY DEF Lists, Linked
<1>2. NEXT_FREE_BLKP(m, b) \in F \cup {NULL}
  BY <1>1 DEF NextOK, Nodes
<1>3. V \subseteq F /\ \A c \in V : Class(m, c) = k /\ (c # b => PREV_FREE_BLKP(m, c) \in V)
  BY DEF Ahead
<1>. HIDE DEF F
<1>4. ASSUME NEW c \in V \ {b}, c # NEXT_FREE_BLKP(m, b)
      PROVE  PREV_FREE_BLKP(m, c) \in V \ {b}
  <2>1. PREV_FREE_BLKP(m, c) \in V /\ NEXT_FREE_BLKP(m, PREV_FREE_BLKP(m, c)) = c
    BY <1>1, <1>3 DEF PrevOK
  <2>. QED  BY <1>4, <2>1
<1>5. Ahead(m, F, k, NEXT_FREE_BLKP(m, b), V \ {b})
  BY <1>3, <1>4 DEF Ahead
<1>. QED  BY <1>2, <1>5 DEF F

\* At the end of a list nothing of it is ahead: the block of V that is first on
\* the list would have one of V before it.
LEMMA EndFacts ==
  ASSUME NEW m, NEW brk, NEW B, HeapOK(m, brk, B), Lists(m, Frees(m, B)),
         NEW k, NEW V, Ahead(m, Frees(m, B), k, NULL, V)
  PROVE  V = {}
<1>. DEFINE F == Frees(m, B)
<1>1. PICK rank \in [F -> Nat] : Ranked(m, F, rank)
  BY DEF Lists
<1>2. /\ V \subseteq F /\ NULL \notin F
      /\ \A c \in V : c # NULL => PREV_FREE_BLKP(m, c) \in V
      /\ \A c \in F : NEXT_FREE_BLKP(m, PREV_FREE_BLKP(m, c)) = c
  BY FreesFacts DEF Ahead, Lists, Linked, PrevOK
<1>. HIDE DEF F
<1>. SUFFICES ASSUME V # {}
              PROVE  FALSE
  OBVIOUS
<1>. DEFINE T == {rank[c] : c \in V}
<1>3. T \in SUBSET Nat /\ T # {}
  BY <1>1, <1>2
<1>4. PICK x \in T : \A y \in T : x <= y
  BY <1>3, LeastElement
<1>5. PICK c \in V : x = rank[c]
  OBVIOUS
<1>. DEFINE d == PREV_FREE_BLKP(m, c)
<1>6. d \in V /\ d \in F /\ c \in F /\ NEXT_FREE_BLKP(m, d) = c /\ c # NULL
  BY <1>2
<1>7. rank[d] < rank[c]
  BY <1>1, <1>6 DEF Ranked
<1>8. rank[d] \in T
  BY <1>6
<1>9. rank[c] <= rank[d] /\ rank[c] \in Nat /\ rank[d] \in Nat
  BY <1>1, <1>4, <1>5, <1>6, <1>8
<1>. QED  BY <1>7, <1>9

\* A heap between calls, taken apart.
LEMMA LooseFacts ==
  ASSUME NEW m, NEW brk, NEW B, Loose(m, brk, B, NULL)
  PROVE  HeapOK(m, brk, B) /\ Lists(m, Frees(m, B)) /\ Apart(m, B, NULL)
<1>1. HeapOK(m, brk, B) /\ Lists(m, Frees(m, B) \ {NULL}) /\ Apart(m, B, NULL)
  BY DEF Loose
<1>2. Frees(m, B) \ {NULL} = Frees(m, B)
  BY <1>1, FreesFacts
<1>. QED  BY <1>1, <1>2

\* No request is looked for in class 0.
LEMMA RequestClass ==
  ASSUME NEW v \in Nat, 8 < v, v <= MAX_INT
  PROVE  flt_index(v) \in 1..(FLT_SLOT_NUM - 1)
<1>. DEFINE k == flt_index(v)
<1>1. InClass(v, k)
  BY ClassAsDocumented
<1>. HIDE DEF k
<1>2. k \in 0..(FLT_SLOT_NUM - 1) /\ FLT_SLOT_NUM \in 2..11
  BY <1>1, Layout DEF InClass
<1>3. k # 0
  <2>. SUFFICES ASSUME k = 0
                PROVE  FALSE
    OBVIOUS
  <2>1. v <= ClassEnd[1]
    BY <1>1, <1>2 DEF InClass
  <2>. QED  BY <2>1 DEF ClassEnd
<1>. QED  BY <1>2, <1>3 DEF k

\* While memory and what the client holds stay as they are, so does the heap.
LEMMA SameHeap ==
  ASSUME IInv, pc \notin {"boot", "returned", "undefined"},
         UNCHANGED <<mem, mem_brk, blocks, block_sizes>>,
         pc' \notin {"boot", "returned"}
  PROVE  /\ Empty' /\ Handing' /\ DataPreserved'
         /\ \A B : Loose(mem, mem_brk, B, NULL) /\ Owned(B) =>
               Loose(mem', mem_brk', B, NULL) /\ Owned(B)'
<1>1. Empty' /\ Handing'
  BY DEF IInv, Empty, Live, Handing
<1>2. \A x \in Ids : Live(x) => Intact(x, block_sizes[x])
  BY DEF IInv, DataPreserved
<1>3. \A x \in Ids : Live(x)' => Intact(x, block_sizes[x])'
  BY <1>2 DEF Live, Intact
<1>4. DataPreserved'
  BY <1>3 DEF DataPreserved
<1>5. ASSUME NEW B, Owned(B)
      PROVE  Owned(B)'
  BY <1>5 DEF Owned, Live
<1>. QED  BY <1>1, <1>4, <1>5

\* A search begins, for a block of v bytes.
LEMMA CallStep ==
  ASSUME Served, IInv, Idle, NEW id \in Ids, NEW size \in Sizes,
         NEW v, v = (IF blocks[id] = NULL THEN size ELSE ALIGN(size)),
         blocks[id] # NULL => ALIGN(size) > BLK_AVAL_SIZE(mem, blocks[id]),
         call' = CallArgs(id, size), EnterSlot(flt_index(v)), pc' = "search",
         UNCHANGED <<mem, mem_brk, blocks, block_sizes>>
  PROVE  IInv'
<1>. DEFINE k == flt_index(v)
<1>1. /\ size \in Nat /\ size > 8 /\ ALIGN(size) \in Nat /\ ALIGN(size) >= 16
      /\ size <= ALIGN(size) /\ size <= MAX_INT /\ ALIGN(size) <= MAX_INT
  BY RequestFacts
<1>2. TypeOK /\ pc \in {"client", "failed"}
  BY DEF IInv, Idle
<1>3. /\ call' \in Calls /\ call'.id = id /\ call'.size = size
      /\ call'.ptr = blocks[id] /\ call'.old = block_sizes[id]
  BY <1>1, <1>2, ArgsTypes
<1>4. v \in Nat /\ 8 < v /\ v <= ALIGN(size) /\ v <= MAX_INT
  BY <1>1
<1>5. k \in 1..(FLT_SLOT_NUM - 1)
  BY <1>4, RequestClass
<1>6. i' = k /\ p' = NEXT_FREE_BLKP(mem, Slot(k))
  BY DEF EnterSlot
<1>. HIDE DEF k
<1>7. nsize' = ALIGN(size) + 8
  <2>1. Wanted' = v
    BY <1>3 DEF Wanted
  <2>2. ALIGN(v) = ALIGN(size)
    BY <1>1, AlignTwice
  <2>3. nsize' = ALIGN(Wanted') + 2 * WSIZE
    BY DEF nsize, ALIGN, WSIZE
  <2>. QED  BY <2>1, <2>2, <2>3 DEF WSIZE
<1>8. PICK B : Loose(mem, mem_brk, B, NULL) /\ Owned(B)
  BY <1>2 DEF IInv, HeapInv
<1>9. HeapOK(mem, mem_brk, B) /\ Lists(mem, Frees(mem, B))
  BY <1>8, LooseFacts
<1>. DEFINE F == Frees(mem, B)
            V == {c \in F : Class(mem, c) = k}
<1>10. p' \in F \cup {NULL} /\ Ahead(mem, F, k, p', V)
  BY <1>5, <1>6, <1>9, EnterFacts
<1>11. FitsAhead(mem, F, k, ALIGN(size) + 8, V)
  <2>. SUFFICES ASSUME NEW c \in F, BLK_SIZE(mem, c) >= ALIGN(size) + 8
                PROVE  Class(mem, c) > k \/ c \in V
    BY DEF FitsAhead
  <2>1. c \in B
    BY <1>9, FreesFacts
  <2>2. BLK_SIZE(mem, c) \in Nat
    BY <1>9, <2>1, Block
  <2>3. 1 <= v /\ v + 8 <= BLK_SIZE(mem, c)
    BY <1>1, <1>4, <2>2
  <2>4. k <= Class(mem, c) /\ Class(mem, c) \in 1..(FLT_SLOT_NUM - 1)
    BY <1>4, <1>9, <2>3, ClassFacts DEF k
  <2>. QED  BY <1>5, <2>4, Layout
<1>. HIDE DEF V
<1>12. F' = F
  OBVIOUS
<1>13. p' \in Nat /\ i' \in 0..(FLT_SLOT_NUM - 1) /\ i' \in 1..(FLT_SLOT_NUM - 1)
  <2>1. \A c \in F : c \in Nat
    <3>. SUFFICES ASSUME NEW c \in F
                  PROVE  c \in Nat
      OBVIOUS
    <3>1. c \in B
      BY <1>9, FreesFacts
    <3>. QED  BY <1>9, <3>1, Block
  <2>. HIDE DEF F
  <2>. QED  BY <1>5, <1>6, <1>10, <2>1, Layout DEF NULL
<1>14. Searching(F)' /\ Ended(F)'
  <2>1. Ahead(mem', F', i', p', V) /\ FitsAhead(mem', F', i', nsize', V)
    BY <1>6, <1>7, <1>10, <1>11, <1>12
  <2>2. p' \in F' \cup {NULL}
    BY <1>10, <1>12
  <2>. HIDE DEF F
  <2>. QED  BY <1>13, <2>1, <2>2 DEF Searching, Ended
<1>15. /\ Empty' /\ Handing' /\ DataPreserved'
       /\ Loose(mem', mem_brk', B, NULL) /\ Owned(B)'
  BY <1>2, <1>8, SameHeap
<1>16. HeapInv'
  BY <1>14, <1>15 DEF HeapInv
<1>17. Asking'
  BY <1>3 DEF Asking
<1>18. TypeOK'
  BY <1>2, <1>3, <1>13 DEF TypeOK, TypeOKClient, PC
<1>. QED  BY <1>15, <1>16, <1>17, <1>18 DEF IInv

\* The search goes on, or ends.
LEMMA SearchStep ==
  ASSUME Served, IInv, Search
  PROVE  IInv'
<1>1. pc = "search" /\ UNCHANGED <<mem, mem_brk, blocks, block_sizes, call>>
  BY DEF Search, SearchHit, SearchNext, SearchNextSlot, SearchMiss, clientVars
<1>2. /\ TypeOK /\ Asking /\ pc' \in {"search", "found", "extend"} /\ call' \in Calls
  <2>1. TypeOK /\ Asking /\ call \in Calls
    BY <1>1 DEF IInv, TypeOK, TypeOKClient
  <2>2. pc' \in {"search", "found", "extend"}
    BY <1>1 DEF Search, SearchHit, SearchNext, SearchNextSlot, SearchMiss, clientVars
  <2>. QED  BY <1>1, <2>1, <2>2
<1>3. PICK B : Loose(mem, mem_brk, B, NULL) /\ Owned(B) /\ Searching(Frees(mem, B))
  BY <1>1 DEF IInv, HeapInv
<1>4. HeapOK(mem, mem_brk, B) /\ Lists(mem, Frees(mem, B))
  BY <1>3, LooseFacts
<1>. DEFINE F == Frees(mem, B)
<1>5. PICK V : Ahead(mem, F, i, p, V) /\ FitsAhead(mem, F, i, nsize, V)
  BY <1>1, <1>3 DEF Searching
<1>6. i \in 1..(FLT_SLOT_NUM - 1) /\ p \in F \cup {NULL} /\ NULL \notin F
  BY <1>1, <1>3, <1>4, FreesFacts DEF Searching
<1>7. F' = F /\ nsize' = nsize /\ nsize \in Nat
  <2>1. nsize' = nsize
    BY <1>1 DEF nsize, Wanted, ALIGN
  <2>2. nsize \in Nat
    BY <1>1, NsizeFacts
  <2>. QED  BY <1>1, <2>1, <2>2
<1>8. ASSUME NEW c \in F
      PROVE  c \in Nat /\ BLK_SIZE(mem, c) \in Nat /\ Class(mem, c) \in 1..(FLT_SLOT_NUM - 1)
  <2>1. c \in B
    BY <1>4, FreesFacts
  <2>. QED  BY <1>4, <2>1, Block, ClassFacts
<1>9. Asking'
  BY <1>1, <1>2 DEF Asking
<1>10. /\ Empty' /\ Handing' /\ DataPreserved'
       /\ Loose(mem', mem_brk', B, NULL) /\ Owned(B)'
  BY <1>1, <1>2, <1>3, SameHeap
<1>. HIDE DEF F
<1>. SUFFICES i' \in 1..(FLT_SLOT_NUM - 1) /\ p' \in F \cup {NULL} /\ Searching(F)' /\ Ended(F)'
  <2>1. i' \in 0..(FLT_SLOT_NUM - 1) /\ p' \in Nat
    BY <1>8, Layout DEF NULL
  <2>2. TypeOK'
    BY <1>1, <1>2, <2>1 DEF TypeOK, TypeOKClient, PC
  <2>3. HeapInv'
    BY <1>10 DEF HeapInv, F
  <2>. QED  BY <1>2, <1>9, <1>10, <2>2, <2>3 DEF IInv
<1>11. CASE SearchHit
  <2>1. /\ pc' = "found" /\ p # NULL /\ BLK_SIZE(mem, p) >= nsize /\ UNCHANGED <<i, p>>
    BY <1>11 DEF SearchHit, Found
  <2>2. p \in F /\ nsize <= BLK_SIZE(mem, p)
    BY <1>6, <1>7, <1>8, <2>1
  <2>3. Ended(F)'
    BY <1>1, <1>7, <2>1, <2>2 DEF Ended
  <2>4. Searching(F)'
    BY <2>1 DEF Searching
  <2>. QED  BY <1>6, <2>1, <2>3, <2>4
<1>12. CASE SearchNext
  <2>1. /\ pc' = "search" /\ p # NULL /\ ~(BLK_SIZE(mem, p) >= nsize)
        /\ p' = NEXT_FREE_BLKP(mem, p) /\ i' = i
    BY <1>12 DEF SearchNext, Found, clientVars
  <2>2. p \in F
    BY <1>6, <2>1
  <2>3. p' \in F \cup {NULL} /\ Ahead(mem, F, i, p', V \ {p})
    BY <1>4, <1>5, <2>1, <2>2, AdvanceFacts DEF F
  <2>4. FitsAhead(mem, F, i, nsize, V \ {p})
    BY <1>5, <2>1 DEF FitsAhead
  <2>5. Searching(F)'
    <3>1. Ahead(mem', F', i', p', V \ {p}) /\ FitsAhead(mem', F', i', nsize', V \ {p})
      BY <1>1, <1>7, <2>1, <2>3, <2>4
    <3>. QED  BY <1>6, <1>7, <2>1, <2>3, <3>1 DEF Searching
  <2>6. Ended(F)'
    BY <2>1 DEF Ended
  <2>. QED  BY <1>6, <2>1, <2>3, <2>5, <2>6
<1>13. ASSUME p = NULL
       PROVE  \A c \in F : BLK_SIZE(mem, c) >= nsize => Class(mem, c) > i
  <2>1. V = {}
    BY <1>4, <1>5, <1>13, EndFacts DEF F
  <2>. QED  BY <1>5, <2>1 DEF FitsAhead
<1>14. CASE SearchNextSlot
  <2>1. /\ pc' = "search" /\ p = NULL /\ i < FLT_SLOT_NUM - 1
        /\ p' = NEXT_FREE_BLKP(mem, Slot(i + 1)) /\ i' = i + 1
    BY <1>1, <1>14 DEF SearchNextSlot, EnterSlot, clientVars
  <2>2. i + 1 \in 1..(FLT_SLOT_NUM - 1)
    BY <1>6, <2>1, Layout
  <2>. DEFINE j == i + 1
              W == {c \in F : Class(mem, c) = j}
  <2>. HIDE DEF j
  <2>3. p' \in F \cup {NULL} /\ Ahead(mem, F, j, p', W)
    BY <1>4, <2>1, <2>2, EnterFacts DEF F, j
  <2>4. FitsAhead(mem, F, j, nsize, W)
    <3>. SUFFICES ASSUME NEW c \in F, BLK_SIZE(mem, c) >= nsize
                  PROVE  Class(mem, c) > j \/ c \in W
      BY DEF FitsAhead
    <3>1. Class(mem, c) > i /\ Class(mem, c) \in 1..(FLT_SLOT_NUM - 1)
      BY <1>8, <1>13, <2>1
    <3>. QED  BY <1>6, <3>1, Layout DEF j
  <2>. HIDE DEF W
  <2>5. Searching(F)'
    <3>1. i' = j /\ j \in 1..(FLT_SLOT_NUM - 1)
      BY <2>1, <2>2 DEF j
    <3>2. Ahead(mem', F', i', p', W) /\ FitsAhead(mem', F', i', nsize', W)
      BY <1>1, <1>7, <2>3, <2>4, <3>1
    <3>. QED  BY <1>7, <2>1, <2>3, <3>1, <3>2 DEF Searching
  <2>6. Ended(F)'
    BY <2>1 DEF Ended
  <2>. QED  BY <2>1, <2>2, <2>3, <2>5, <2>6
<1>15. CASE SearchMiss
  <2>1. pc' = "extend" /\ p = NULL /\ i = FLT_SLOT_NUM - 1 /\ UNCHANGED <<i, p>>
    BY <1>15 DEF SearchMiss
  <2>2. \A c \in F : BLK_SIZE(mem, c) < nsize
    <3>. SUFFICES ASSUME NEW c \in F, BLK_SIZE(mem, c) >= nsize
                  PROVE  FALSE
      BY <1>7, <1>8
    <3>. QED  BY <1>8, <1>13, <2>1, Layout
  <2>3. Ended(F)'
    BY <1>1, <1>7, <2>1, <2>2 DEF Ended
  <2>4. Searching(F)'
    BY <2>1 DEF Searching
  <2>. QED  BY <1>6, <2>1, <2>3, <2>4
<1>. QED  BY <1>11, <1>12, <1>14, <1>15 DEF Search

\* mm_init lays out the heap, whatever an earlier trace has left in the region.
LEMMA InitStep ==
  ASSUME IInv, segregate_mm_init
  PROVE  IInv'
<1>. DEFINE s  == FLT_SIZE + 4 * WSIZE
            e  == extend_heap(mem, mem_brk, s)
            m1 == memset(e.mem, freelist_table, 0, FLT_SIZE)
            m2 == SET(m1, heap_listp - 2 * WSIZE, 48879)
            m3 == SET_BLK(m2, heap_listp, 2 * WSIZE, BLK_ALLOC)
<1>1. /\ pc = "boot" /\ pc' = "client" /\ TypeOK /\ Booting /\ Empty
      /\ mem' = SET_EB(m3, heap_listp + 2 * WSIZE) /\ mem_brk' = e.brk
      /\ UNCHANGED <<blocks, block_sizes, call, i, p>>
  BY DEF IInv, segregate_mm_init
<1>2. mem \in Memory /\ mem_brk = mem_start_brk /\ blocks = [id \in Ids |-> NULL]
  BY <1>1 DEF Booting, TypeOK, TypeOKClient, Memory
<1>3. s = 8 * FLT_SLOT_NUM + 16 /\ s \in Nat /\ s # 0 /\ s % 8 = 0 /\ s <= MAX_HEAP
  BY Layout, SegregateAssumption DEF FLT_SIZE, WSIZE
<1>. HIDE DEF s
<1>4. SbrkSucceeds(mem_brk, s) /\ mem_start_brk + s = heap_listp + 8
  BY <1>2, <1>3, Layout, RegionAssumption DEF SbrkSucceeds
<1>5. e.mem = SET_EB(mem, mem_start_brk + s) /\ e.brk = heap_listp + 8
  BY <1>2, <1>3, <1>4 DEF extend_heap, ALIGNMENT
<1>6. e.mem \in Memory
  <2>1. heap_listp + 4 \in Addr
    BY Layout, AddrFacts DEF Addr
  <2>2. SET_EB(mem, mem_start_brk + s) = SET(mem, heap_listp + 4, 1)
    BY <1>4, Layout DEF SET_EB, PACK, BLK_ALLOC, WSIZE
  <2>3. 1 \in Word
    BY Layout
  <2>. QED  BY <1>2, <1>5, <2>1, <2>2, <2>3 DEF SET, Memory
<1>. HIDE DEF e
<1>7. Loose(mem', heap_listp + 2 * WSIZE, {heap_listp}, NULL)
  BY <1>1, <1>6, LayOutFacts
<1>8. Loose(mem', mem_brk', {heap_listp}, NULL)
  BY <1>1, <1>5, <1>7 DEF WSIZE
<1>9. HeapOK(mem', mem_brk', {heap_listp})
  BY <1>8 DEF Loose
<1>10. /\ mem' \in [Addr -> Word]
       /\ mem_brk' \in mem_start_brk..mem_max_addr /\ mem_brk' % 8 = 0
  BY <1>9, HeapTypes
<1>11. TypeOK'
  BY <1>1, <1>10 DEF TypeOK, TypeOKClient, PC
<1>12. \A id \in Ids : blocks'[id] = NULL
  BY <1>1, <1>2
<1>13. Owned({heap_listp})' /\ DataPreserved' /\ Empty' /\ Handing' /\ Asking'
  <2>1. Owned({heap_listp})' /\ DataPreserved'
    BY <1>12 DEF Owned, Live, DataPreserved
  <2>. QED  BY <1>1, <2>1 DEF Empty, Live, Handing, Asking
<1>14. HeapInv'
  <2>1. Searching(Frees(mem, {heap_listp}))' /\ Ended(Frees(mem, {heap_listp}))'
    BY <1>1 DEF Searching, Ended
  <2>. QED  BY <1>8, <1>13, <2>1 DEF HeapInv
<1>. QED  BY <1>1, <1>11, <1>13, <1>14 DEF IInv

\* mm_malloc begins its search.
LEMMA MallocCallStep ==
  ASSUME Served, IInv, NEW id \in Ids, NEW size \in Sizes, MallocCall(id, size)
  PROVE  IInv'
<1>1. /\ Idle /\ blocks[id] = NULL /\ call' = CallArgs(id, size) /\ EnterSlot(flt_index(size))
      /\ pc' = "search" /\ UNCHANGED <<mem, mem_brk, blocks, block_sizes>>
  BY DEF MallocCall, Live
<1>2. size = (IF blocks[id] = NULL THEN size ELSE ALIGN(size))
  BY <1>1
<1>. QED  BY <1>1, <1>2, CallStep

\* mm_realloc that needs more room begins its search.
LEMMA ReallocGrowStep ==
  ASSUME Served, IInv, NEW id \in Ids, NEW size \in Sizes, ReallocGrow(id, size)
  PROVE  IInv'
<1>1. /\ Idle /\ blocks[id] # NULL /\ ALIGN(size) > BLK_AVAL_SIZE(mem, blocks[id])
      /\ call' = CallArgs(id, size) /\ EnterSlot(flt_index(ALIGN(size)))
      /\ pc' = "search" /\ UNCHANGED <<mem, mem_brk, blocks, block_sizes>>
  BY DEF ReallocGrow, Live
<1>2. ALIGN(size) = (IF blocks[id] = NULL THEN size ELSE ALIGN(size))
  BY <1>1
<1>. QED  BY <1>1, <1>2, CallStep

\* The copy of a realloc that was not served goes to address 0; the heap is as it
\* was.
LEMMA WildStep ==
  ASSUME IInv, pc \in {"found", "extend"}, Wild, i' = 0, p' = NULL
  PROVE  IInv'
<1>1. /\ UNCHANGED <<mem, mem_brk, blocks, block_sizes>> /\ pc' = "undefined" /\ call' = NoCall
  BY DEF Wild
<1>2. TypeOK
  BY DEF IInv
<1>3. TypeOK'
  BY <1>1, <1>2, NoCallTypes, Layout DEF TypeOK, TypeOKClient, PC, NULL
<1>4. PICK B : Loose(mem, mem_brk, B, NULL) /\ Owned(B)
  BY DEF IInv, HeapInv
<1>5. /\ Empty' /\ Handing' /\ DataPreserved'
      /\ Loose(mem', mem_brk', B, NULL) /\ Owned(B)'
  BY <1>1, <1>4, SameHeap
<1>6. Searching(Frees(mem, B))' /\ Ended(Frees(mem, B))'
  BY <1>1 DEF Searching, Ended
<1>7. HeapInv'
  BY <1>5, <1>6 DEF HeapInv
<1>8. Asking'
  BY <1>1 DEF Asking
<1>. QED  BY <1>1, <1>3, <1>5, <1>7, <1>8 DEF IInv

\* A call that got a block hands it out.
LEMMA FinishStep ==
  ASSUME Served, IInv, pc \in {"found", "extend"},
         NEW B, Loose(mem, mem_brk, B, NULL), Owned(B),
         NEW n, NEW brk, NEW b, b # NULL, Obtained(mem, n, brk, B, b, nsize), Finish(n, brk, b)
  PROVE  IInv'
<1>1. /\ call \in Calls /\ call.size \in Sizes /\ nsize = ALIGN(call.size) + 8
      /\ nsize \in Nat
  BY NsizeFacts
<1>2. /\ call.size \in Nat /\ ALIGN(call.size) \in Nat /\ call.size <= ALIGN(call.size)
  BY <1>1, RequestFacts
<1>3. call.size + 8 <= nsize
  BY <1>1, <1>2
<1>4. /\ i' \in 0..(FLT_SLOT_NUM - 1) /\ p' \in Nat
      /\ mem_brk' = brk /\ Deliver(call, b)
      /\ mem' = IF call.ptr = NULL THEN n
                ELSE segregate_mm_free(
                       memcpy(n, b, call.ptr, BLK_AVAL_SIZE(n, call.ptr)), call.ptr)
  BY Layout DEF Finish, NULL
<1>5. /\ call.ptr = blocks[call.id] /\ call.old = block_sizes[call.id]
      /\ call.ptr # NULL => ALIGN(call.size) > BLK_AVAL_SIZE(mem, call.ptr)
  BY DEF IInv, Asking
<1>6. call.id \in Ids /\ call.old \in Nat /\ call.ptr \in Nat
  BY <1>1, CallTypes
<1>7. CASE call.ptr = NULL
  <2>1. call.old <= 0 /\ 0 \in Nat
    <3>1. Empty
      BY DEF IInv
    <3>2. block_sizes[call.id] = 0
      BY <1>5, <1>6, <1>7, <3>1 DEF Empty, Live
    <3>. QED  BY <1>5, <3>2
  <2>2. Handed(mem, n, brk, B, NULL, b, call.size, 0)
    BY <1>1, <1>2, <1>3, HandFacts
  <2>3. Handed(mem, mem', mem_brk', B, call.ptr, b, call.size, 0)
    BY <1>4, <1>7, <2>2
  <2>. QED  BY <1>1, <1>4, <1>5, <2>1, <2>3, DeliverStep
<1>8. CASE call.ptr # NULL
  <2>. DEFINE ptr == call.ptr
              len == BLK_AVAL_SIZE(mem, ptr)
  <2>1. /\ ptr \in B /\ ptr # heap_listp /\ BLK_STATE(mem, ptr) = BLK_ALLOC
        /\ call.old <= BLK_AVAL_SIZE(mem, ptr)
    BY <1>5, <1>6, <1>8 DEF Owned, Live
  <2>2. BLK_SIZE(mem, ptr) \in Nat /\ BLK_SIZE(mem, ptr) >= 8
    BY <2>1, LooseFacts, Block
  <2>3. len = BLK_SIZE(mem, ptr) - 8 /\ len \in Nat
    BY <2>2 DEF BLK_AVAL_SIZE, WSIZE
  <2>4. BLK_SIZE(mem, ptr) <= nsize
    BY <1>1, <1>2, <1>5, <1>8, <2>2, <2>3
  <2>5. Handed(mem, segregate_mm_free(memcpy(n, b, ptr, BLK_AVAL_SIZE(n, ptr)), ptr),
               brk, B, ptr, b, call.size, len)
    BY <1>1, <1>2, <1>3, <2>1, <2>4, MoveFacts DEF Served
  <2>6. Handed(mem, mem', mem_brk', B, call.ptr, b, call.size, len)
    BY <1>4, <1>8, <2>5
  <2>7. call.old <= len
    BY <2>1
  <2>. HIDE DEF len
  <2>. QED  BY <1>1, <1>4, <1>5, <2>3, <2>6, <2>7, DeliverStep
<1>. QED  BY <1>7, <1>8

\* The block found is taken off its list, split and handed out.
LEMMA TakeFoundStep ==
  ASSUME Served, IInv, TakeFound
  PROVE  IInv'
<1>1. pc = "found" /\ Finish(Take(mem, p, nsize), mem_brk, p)
  BY DEF TakeFound
<1>2. PICK B : Loose(mem, mem_brk, B, NULL) /\ Owned(B) /\ Ended(Frees(mem, B))
  BY <1>1 DEF IInv, HeapInv
<1>3. p \in Frees(mem, B) /\ nsize <= BLK_SIZE(mem, p)
  BY <1>1, <1>2 DEF Ended
<1>4. p # NULL
  BY <1>2, <1>3, LooseFacts, FreesFacts
<1>5. nsize \in Nat /\ nsize % 8 = 0 /\ nsize >= 24
  BY <1>1, NsizeFacts
<1>6. nsize >= 16
  BY <1>5
<1>7. Obtained(mem, Take(mem, p, nsize), mem_brk, B, p, nsize)
  BY <1>2, <1>3, <1>5, <1>6, TakeFacts DEF Served
<1>. QED  BY <1>1, <1>2, <1>4, <1>7, FinishStep

\* No block was found: the heap grows, or the call fails.
LEMMA ExtendStep ==
  ASSUME Served, IInv, Extend
  PROVE  IInv'
<1>. DEFINE e == extend_heap(mem, mem_brk, nsize)
            n == IF e.p = NULL THEN e.mem ELSE SET_BLK(e.mem, e.p, nsize, BLK_ALLOC)
<1>1. pc = "extend" /\ Finish(n, e.brk, e.p)
  BY DEF Extend
<1>2. PICK B : Loose(mem, mem_brk, B, NULL) /\ Owned(B) /\ Ended(Frees(mem, B))
  BY <1>1 DEF IInv, HeapInv
<1>3. mem_brk \in Nat /\ mem_brk % 8 = 0 /\ heap_listp + 8 <= mem_brk
  BY <1>2, LooseFacts, BreakFacts
<1>4. /\ nsize \in Nat /\ nsize % 8 = 0 /\ nsize >= 24 /\ nsize = ALIGN(call.size) + 8
      /\ call \in Calls /\ call.size \in Sizes
  BY <1>1, NsizeFacts
<1>5. SbrkSucceeds(mem_brk, nsize) <=> mem_brk + nsize <= mem_max_addr
  BY <1>4 DEF SbrkSucceeds
<1>6. CASE mem_brk + nsize <= mem_max_addr
  <2>1. /\ e.mem = SET_EB(mem, mem_brk + nsize) /\ e.brk = mem_brk + nsize /\ e.p = mem_brk
    BY <1>4, <1>5, <1>6 DEF extend_heap, ALIGNMENT
  <2>2. e.p # NULL
    BY <1>3, <2>1, Layout DEF NULL
  <2>3. n = SET_BLK(SET_EB(mem, mem_brk + nsize), mem_brk, nsize, BLK_ALLOC)
    BY <2>1, <2>2
  <2>4. nsize >= 16
    BY <1>4
  <2>5. Obtained(mem, n, e.brk, B, e.p, nsize)
    BY <1>2, <1>4, <1>6, <2>1, <2>3, <2>4, ExtendFacts
  <2>. HIDE DEF n, e
  <2>. QED  BY <1>1, <1>2, <2>2, <2>5, FinishStep
<1>7. CASE ~(mem_brk + nsize <= mem_max_addr)
  <2>1. e.mem = mem /\ e.brk = mem_brk /\ e.p = NULL /\ n = mem
    BY <1>5, <1>7 DEF extend_heap
  <2>. HIDE DEF n, e
  <2>2. i' = 0 /\ p' = NULL
    BY <1>1 DEF Finish
  <2>3. CASE call.ptr # NULL
    <3>1. Wild
      BY <1>1, <2>1, <2>3 DEF Finish
    <3>. QED  BY <1>1, <2>2, <3>1, WildStep
  <2>4. CASE call.ptr = NULL
    <3>1. UNCHANGED <<mem, mem_brk, blocks, block_sizes, call>> /\ pc' = "failed"
      BY <1>1, <2>1, <2>4 DEF Finish, Deliver
    <3>2. TypeOK
      BY DEF IInv
    <3>3. TypeOK'
      BY <1>4, <2>2, <3>1, <3>2, Layout DEF TypeOK, TypeOKClient, PC, NULL
    <3>4. /\ Empty' /\ Handing' /\ DataPreserved'
          /\ Loose(mem', mem_brk', B, NULL) /\ Owned(B)'
      BY <1>1, <1>2, <3>1, SameHeap
    <3>. DEFINE F == Frees(mem, B)
    <3>5. F' = F
      BY <3>1
    <3>6. \A c \in F : BLK_SIZE(mem, c) < ALIGN(call.size) + 8
      BY <1>1, <1>2, <1>4 DEF Ended
    <3>. HIDE DEF F
    <3>7. mem_brk + ALIGN(call.size) + 8 > mem_max_addr
      <4>1. ALIGN(call.size) \in Nat
        BY <1>4, RequestFacts
      <4>. QED  BY <1>3, <1>4, <1>7, <4>1, Layout
    <3>8. ALIGN(call.size)' = ALIGN(call.size)
      BY <3>1 DEF ALIGN
    <3>9. Searching(F)' /\ Ended(F)'
      BY <3>1, <3>5, <3>6, <3>7, <3>8 DEF Searching, Ended
    <3>10. HeapInv'
      BY <3>4, <3>9 DEF HeapInv, F
    <3>11. Asking'
      BY <1>4, <3>1 DEF Asking
    <3>. QED  BY <3>1, <3>3, <3>4, <3>10, <3>11 DEF IInv
  <2>. QED  BY <2>3, <2>4
<1>. QED  BY <1>6, <1>7

\* The client gives a block back.
LEMMA FreeStep ==
  ASSUME Served, IInv, NEW id \in Ids, FreeCall(id)
  PROVE  IInv'
<1>. DEFINE ptr == blocks[id]
<1>1. /\ pc \in {"client", "failed"} /\ ptr # NULL /\ mem' = segregate_mm_free(mem, ptr)
      /\ blocks' = [blocks EXCEPT ![id] = NULL]
      /\ block_sizes' = [block_sizes EXCEPT ![id] = 0]
      /\ pc' = "client" /\ call' = NoCall /\ UNCHANGED <<mem_brk, i, p>>
  BY DEF FreeCall, Idle, Live, Drop
<1>2. TypeOK /\ Empty /\ DataPreserved
  BY DEF IInv
<1>3. PICK B : Loose(mem, mem_brk, B, NULL) /\ Owned(B)
  BY <1>1 DEF IInv, HeapInv
<1>4. ptr \in B /\ ptr # heap_listp /\ BLK_STATE(mem, ptr) = BLK_ALLOC
  BY <1>1, <1>3 DEF Owned, Live
<1>5. Settled(mem, segregate_mm_free(mem, ptr), mem_brk, B, ptr, NULL)
  BY <1>3, <1>4, FreeFacts DEF Served
<1>6. Settled(mem, mem', mem_brk', B, ptr, NULL)
  BY <1>1, <1>5
<1>7. PICK C : Loose(mem', mem_brk', C, NULL) /\ Kept(mem, mem', B, C, ptr, NULL)
  BY <1>6 DEF Settled
<1>8. HeapOK(mem, mem_brk, B) /\ HeapOK(mem', mem_brk', C)
  BY <1>3, <1>7 DEF Loose
<1>9. /\ mem' \in [Addr -> Word]
      /\ mem_brk' \in mem_start_brk..mem_max_addr /\ mem_brk' % 8 = 0
  BY <1>8, HeapTypes
<1>10. /\ Owned(C)'
       /\ blocks' \in [Ids -> Nat] /\ block_sizes' \in [Ids -> Nat]
       /\ blocks'[id] = NULL /\ block_sizes'[id] = 0
       /\ \A x \in Ids : x # id =>
            /\ blocks'[x] = blocks[x] /\ block_sizes'[x] = block_sizes[x]
            /\ Live(x) => \A w \in Addr : blocks[x] <= w /\ w < blocks[x] + block_sizes[x] =>
                                            mem'[w] = mem[w]
  <2>1. NULL \in Nat /\ 0 \in Nat
    BY DEF NULL
  <2>. QED  BY <1>1, <1>2, <1>3, <1>7, <1>8, <2>1, OwnedStep
<1>11. TypeOK'
  BY <1>1, <1>2, <1>9, <1>10, NoCallTypes DEF TypeOK, TypeOKClient, PC
<1>12. HeapInv'
  <2>1. Searching(Frees(mem, C))' /\ Ended(Frees(mem, C))'
    BY <1>1 DEF Searching, Ended
  <2>. QED  BY <1>7, <1>10, <2>1 DEF HeapInv
<1>13. Asking' /\ Handing'
  BY <1>1 DEF Asking, Handing
<1>14. Empty'
  BY <1>2, <1>10 DEF Empty, Live
<1>15. DataPreserved'
  <2>1. ASSUME NEW x \in Ids, blocks'[x] # NULL, NEW a \in Addr,
               blocks'[x] <= a, a < blocks'[x] + block_sizes'[x]
        PROVE  mem'[a] = x
    <3>1. x # id
      BY <1>10, <2>1
    <3>2. blocks'[x] = blocks[x] /\ block_sizes'[x] = block_sizes[x] /\ Live(x)
      BY <1>10, <2>1, <3>1 DEF Live
    <3>3. Intact(x, block_sizes[x])
      BY <1>1, <1>2, <3>2 DEF DataPreserved
    <3>4. mem'[a] = mem[a]
      BY <1>10, <2>1, <3>1, <3>2
    <3>5. mem[a] = x
      BY <2>1, <3>2, <3>3 DEF Intact
    <3>. QED  BY <3>4, <3>5
  <2>. QED  BY <1>1, <2>1 DEF DataPreserved, Live, Intact
<1>. QED  BY <1>1, <1>11, <1>12, <1>13, <1>14, <1>15 DEF IInv

\* mm_realloc that fits where it is.
LEMMA ShrinkStep ==
  ASSUME Served, IInv, NEW id \in Ids, NEW size \in Sizes, ReallocShrink(id, size)
  PROVE  IInv'
<1>. DEFINE ptr  == blocks[id]
            rest == BLK_AVAL_SIZE(mem, ptr) - ALIGN(size)
            m1   == SET_BLK(mem, ptr, ALIGN(size) + 2 * WSIZE, BLK_ALLOC)
            m2   == SET_BLK(m1, NEXT_BLKP(m1, ptr), rest, BLK_FREE)
            n    == IF rest >= BLK_MIN_SIZE THEN segregate_mm_free(m2, NEXT_BLKP(m2, ptr)) ELSE mem
            c    == CallArgs(id, size)
<1>1. /\ pc \in {"client", "failed"} /\ ptr # NULL /\ rest >= 0 /\ mem' = n
      /\ Deliver(c, ptr) /\ UNCHANGED <<mem_brk, i, p>>
  BY DEF ReallocShrink, Idle, Live
<1>2. TypeOK
  BY DEF IInv
<1>3. /\ size \in Nat /\ size > 0 /\ ALIGN(size) \in Nat /\ size <= ALIGN(size)
  BY RequestFacts
<1>4. PICK B : Loose(mem, mem_brk, B, NULL) /\ Owned(B)
  BY <1>1 DEF IInv, HeapInv
<1>5. ptr \in B /\ ptr # heap_listp /\ BLK_STATE(mem, ptr) = BLK_ALLOC
  BY <1>1, <1>4 DEF Owned, Live
<1>6. BLK_SIZE(mem, ptr) \in Nat
  BY <1>4, <1>5, LooseFacts, Block
<1>7. ALIGN(size) <= BLK_AVAL_SIZE(mem, ptr)
  <2>. DEFINE t == BLK_SIZE(mem, ptr)
              a == ALIGN(size)
  <2>1. BLK_AVAL_SIZE(mem, ptr) = t - 8 /\ t \in Nat /\ a \in Nat /\ (t - 8) - a >= 0
    BY <1>1, <1>3, <1>6 DEF BLK_AVAL_SIZE, WSIZE
  <2>. HIDE DEF t, a
  <2>2. a <= t - 8
    BY <2>1
  <2>. QED  BY <2>1, <2>2 DEF t, a
<1>8. Handed(mem, n, mem_brk, B, ptr, ptr, size, ALIGN(size))
  BY <1>3, <1>4, <1>5, <1>7, ShrinkFacts DEF Served
<1>9. Handed(mem, mem', mem_brk', B, ptr, ptr, size, ALIGN(size))
  BY <1>1, <1>8
<1>10. c \in Calls /\ c.id = id /\ c.size = size /\ c.ptr = ptr /\ c.old = block_sizes[id]
  BY <1>2, <1>3, ArgsTypes
<1>11. i' \in 0..(FLT_SLOT_NUM - 1) /\ p' \in Nat
  BY <1>1, <1>2 DEF TypeOK
<1>. HIDE DEF c, n
<1>12. pc \notin {"boot", "returned", "undefined"}
  BY <1>1
<1>13. Handed(mem, mem', mem_brk', B, c.ptr, ptr, c.size, ALIGN(size)) /\ c.size <= ALIGN(size)
  BY <1>3, <1>9, <1>10
<1>. QED  BY <1>1, <1>3, <1>4, <1>10, <1>11, <1>12, <1>13, DeliverStep

\* The client fills the block it was given.
LEMMA FillStep ==
  ASSUME IInv, Fill, UNCHANGED <<i, p>>
  PROVE  IInv'
<1>. DEFINE id == call.id
            b  == blocks[id]
            z  == call.size
<1>1. /\ pc = "returned" /\ mem' = memset(mem, b, id, z) /\ pc' = "client" /\ call' = NoCall
      /\ UNCHANGED <<mem_brk, blocks, block_sizes, i, p>>
  BY DEF Fill
<1>2. TypeOK /\ Empty /\ DataPreserved /\ Handing /\ call \in Calls
  BY <1>1 DEF IInv, TypeOK, TypeOKClient
<1>3. id \in Ids /\ z \in Nat /\ id \in Word
  BY <1>2, CallTypes DEF Word
<1>4. b # NULL /\ block_sizes[id] = z
  BY <1>1, <1>2 DEF Handing, Live
<1>5. PICK B : Loose(mem, mem_brk, B, NULL) /\ Owned(B)
  BY <1>1 DEF IInv, HeapInv
<1>6. b \in B /\ b # heap_listp /\ BLK_STATE(mem, b) = BLK_ALLOC /\ z <= BLK_AVAL_SIZE(mem, b)
  BY <1>3, <1>4, <1>5 DEF Owned, Live
<1>7. /\ Loose(mem', mem_brk', B, NULL) /\ Kept(mem, mem', B, B, b, b)
      /\ mem'[b - 4] = mem[b - 4]
      /\ \A w \in Addr : b <= w /\ w < b + z => mem'[w] = id
  BY <1>1, <1>3, <1>5, <1>6, FillFacts
<1>8. HeapOK(mem, mem_brk, B) /\ HeapOK(mem', mem_brk', B)
  BY <1>5, <1>7 DEF Loose
<1>9. /\ mem' \in [Addr -> Word]
      /\ mem_brk' \in mem_start_brk..mem_max_addr /\ mem_brk' % 8 = 0
      /\ b \in Nat
  BY <1>6, <1>8, HeapTypes
<1>10. BLK_STATE(mem', b) = BLK_ALLOC /\ z <= BLK_AVAL_SIZE(mem', b)
  BY <1>6, <1>7, HeaderFacts
<1>11. blocks' = [blocks EXCEPT ![id] = b] /\ block_sizes' = [block_sizes EXCEPT ![id] = z]
  BY <1>1, <1>2, <1>4 DEF TypeOK, TypeOKClient
<1>12. /\ Owned(B)'
       /\ \A x \in Ids : x # id /\ Live(x) =>
            \A w \in Addr : blocks[x] <= w /\ w < blocks[x] + block_sizes[x] => mem'[w] = mem[w]
  BY <1>2, <1>3, <1>5, <1>6, <1>7, <1>8, <1>9, <1>10, <1>11, OwnedStep, ZenonT(40)
<1>13. TypeOK'
  BY <1>1, <1>2, <1>9, NoCallTypes DEF TypeOK, TypeOKClient, PC
<1>14. HeapInv'
  <2>1. Searching(Frees(mem, B))' /\ Ended(Frees(mem, B))'
    BY <1>1 DEF Searching, Ended
  <2>. QED  BY <1>7, <1>12, <2>1 DEF HeapInv
<1>15. Asking' /\ Handing' /\ Empty'
  BY <1>1, <1>2 DEF Asking, Handing, Empty, Live
<1>16. DataPreserved'
  <2>1. ASSUME NEW x \in Ids, blocks[x] # NULL, NEW a \in Addr,
               blocks[x] <= a, a < blocks[x] + block_sizes[x]
        PROVE  mem'[a] = x
    <3>1. CASE x = id
      BY <1>4, <1>7, <2>1, <3>1
    <3>2. CASE x # id
      <4>1. Intact(x, block_sizes[x])
        BY <1>1, <1>2, <2>1, <3>2 DEF DataPreserved, Live
      <4>2. mem[a] = x
        BY <2>1, <4>1 DEF Intact
      <4>. QED  BY <1>12, <2>1, <3>2, <4>2 DEF Live
    <3>. QED  BY <3>1, <3>2
  <2>. QED  BY <1>1, <2>1 DEF DataPreserved, Live, Intact
<1>. QED  BY <1>1, <1>13, <1>14, <1>15, <1>16 DEF IInv

\* The trace ends, with the region cleared or left as it is.
LEMMA RestartStep ==
  ASSUME IInv, mem' \in [Addr -> Word], mem_brk' = mem_start_brk,
         blocks' = [id \in Ids |-> NULL], block_sizes' = [id \in Ids |-> 0],
         pc' = "boot", call' = NoCall, UNCHANGED <<i, p>>
  PROVE  IInv'
<1>1. TypeOK /\ mem_start_brk \in mem_start_brk..mem_max_addr /\ mem_start_brk % 8 = 0
  BY Layout DEF IInv
<1>2. blocks' \in [Ids -> Nat] /\ block_sizes' \in [Ids -> Nat]
  BY DEF NULL
<1>3. TypeOK'
  BY <1>1, <1>2, NoCallTypes DEF TypeOK, TypeOKClient, PC
<1>4. Booting' /\ Asking' /\ Handing' /\ Empty' /\ DataPreserved'
  BY DEF Booting, Asking, Handing, Empty, DataPreserved, Live
<1>. QED  BY <1>3, <1>4 DEF IInv

\* clean_up.
LEMMA CleanUpStep ==
  ASSUME IInv, clean_up, UNCHANGED <<i, p>>
  PROVE  IInv'
<1>1. /\ pc = "client" /\ mem' = memset(mem, mem_start_brk, 0, MAX_HEAP)
      /\ mem_brk' = mem_start_brk /\ pc' = "boot" /\ call' = call
      /\ blocks' = [id \in Ids |-> NULL] /\ block_sizes' = [id \in Ids |-> 0]
  BY DEF clean_up, mem_clear, mem_reset_brk, Zeroed
<1>2. mem \in [Addr -> Word] /\ call = NoCall
  BY <1>1 DEF IInv, TypeOK, TypeOKClient
<1>3. mem' \in [Addr -> Word]
  BY <1>1, <1>2 DEF memset, Word
<1>. QED  BY <1>1, <1>2, <1>3, RestartStep

\* The next trace after one given up on a failed call.
LEMMA StartTraceStep ==
  ASSUME IInv, StartTrace, UNCHANGED <<i, p>>
  PROVE  IInv'
<1>1. /\ mem' = mem /\ mem_brk' = mem_start_brk /\ pc' = "boot" /\ call' = NoCall
      /\ blocks' = [id \in Ids |-> NULL] /\ block_sizes' = [id \in Ids |-> 0]
  BY DEF StartTrace, mem_reset_brk
<1>2. mem' \in [Addr -> Word]
  BY <1>1 DEF IInv, TypeOK, TypeOKClient
<1>. QED  BY <1>1, <1>2, RestartStep

\* A step that changes nothing.
LEMMA StutterStep ==
  ASSUME IInv, UNCHANGED vars
  PROVE  IInv'
<1>1. UNCHANGED <<mem, mem_brk, blocks, block_sizes, pc, call, i, p>>
  BY DEF vars, clientVars
<1>2. TypeOK'
  BY <1>1 DEF IInv, TypeOK, TypeOKClient
<1>3. (pc' = "boot" => Booting') /\ Asking' /\ Handing' /\ Empty' /\ DataPreserved'
  <2>1. (pc' = "boot" => Booting') /\ Handing' /\ Empty'
    BY <1>1 DEF IInv, Booting, Handing, Empty, Live
  <2>2. Asking'
    BY <1>1 DEF IInv, Asking
  <2>3. DataPreserved'
    BY <1>1 DEF IInv, DataPreserved, Live, Intact
  <2>. QED  BY <2>1, <2>2, <2>3
<1>4. ASSUME pc # "boot"
      PROVE  HeapInv'
  <2>1. PICK B : /\ Loose(mem, mem_brk, B, NULL) /\ Owned(B)
                 /\ Searching(Frees(mem, B)) /\ Ended(Frees(mem, B))
    BY <1>4 DEF IInv, HeapInv
  <2>2. Loose(mem', mem_brk', B, NULL) /\ Owned(B)'
    BY <1>1, <2>1 DEF Owned, Live
  <2>3. Searching(Frees(mem, B))' /\ Ended(Frees(mem, B))'
    BY <1>1, <2>1 DEF Searching, Ended, nsize, Wanted, ALIGN
  <2>. QED  BY <2>2, <2>3 DEF HeapInv
<1>. QED  BY <1>1, <1>2, <1>3, <1>4 DEF IInv

\* The invariant holds at the start.
LEMMA InitInv == Init => IInv
<1>. SUFFICES ASSUME Init
              PROVE  IInv
  OBVIOUS
<1>1. /\ mem = [a \in Addr |-> 0] /\ mem_brk = mem_start_brk
      /\ blocks = [id \in Ids |-> NULL] /\ block_sizes = [id \in Ids |-> 0]
      /\ pc = "boot" /\ call = NoCall /\ i = 0 /\ p = NULL
  BY DEF Init, InitClient, mem_init
<1>2. mem \in [Addr -> Word]
  BY <1>1 DEF Word
<1>3. mem_brk \in mem_start_brk..mem_max_addr /\ mem_brk % 8 = 0
  BY <1>1, Layout
<1>4. TypeOK
  BY <1>1, <1>2, <1>3, NoCallTypes, Layout DEF TypeOK, TypeOKClient, PC, NULL
<1>5. Booting /\ Asking /\ Handing /\ Empty /\ DataPreserved
  BY <1>1 DEF Booting, Asking, Handing, Empty, DataPreserved, Live
<1>. QED  BY <1>1, <1>4, <1>5 DEF IInv

\* A step within a trace, or from one to the next.
NextTraces == Next \/ (StartTrace /\ UNCHANGED <<i, p>>)

\* Every step keeps the invariant.
LEMMA NextInv ==
  ASSUME Served, IInv, [NextTraces]_vars
  PROVE  IInv'
<1>1. CASE segregate_mm_init
  BY <1>1, InitStep
<1>2. ASSUME NEW id \in Ids, NEW size \in Sizes,
             MallocCall(id, size) \/ ReallocGrow(id, size) \/ ReallocShrink(id, size)
      PROVE  IInv'
  <2>1. CASE MallocCall(id, size)
    BY <2>1, MallocCallStep
  <2>2. CASE ReallocGrow(id, size)
    BY <2>2, ReallocGrowStep
  <2>3. CASE ReallocShrink(id, size)
    BY <2>3, ShrinkStep
  <2>. QED  BY <1>2, <2>1, <2>2, <2>3
<1>3. ASSUME NEW id \in Ids, FreeCall(id)
      PROVE  IInv'
  BY <1>3, FreeStep
<1>4. CASE Search
  BY <1>4, SearchStep
<1>5. CASE TakeFound
  BY <1>5, TakeFoundStep
<1>6. CASE Extend
  BY <1>6, ExtendStep
<1>7. CASE Fill /\ UNCHANGED <<i, p>>
  BY <1>7, FillStep
<1>8. CASE clean_up /\ UNCHANGED <<i, p>>
  BY <1>8, CleanUpStep
<1>9. CASE Undefined
  BY <1>9, StutterStep DEF Undefined
<1>10. CASE UNCHANGED vars
  BY <1>10, StutterStep
<1>11. CASE StartTrace /\ UNCHANGED <<i, p>>
  BY <1>11, StartTraceStep
<1>. QED  BY <1>1, <1>2, <1>3, <1>4, <1>5, <1>6, <1>7, <1>8, <1>9, <1>10, <1>11 DEF Next, NextTraces

\* The inductive invariant holds throughout, on traces one after the other.
THEOREM Invariance ==
  ASSUME Served
  PROVE  SpecTraces => []IInv
<1>1. IInv /\ [NextTraces]_vars => IInv'
  BY NextInv
<1>2. SpecTraces => Init /\ [][NextTraces]_vars
  BY DEF SpecTraces, NextTraces
<1>. QED  BY <1>1, <1>2, InitInv, PTL

\* No operation of segregate.c stores outside the memory memlib gave it: every
\* store to a tag, to a pointer of a free block or to a slot of the table lands on
\* a word of the region, however the traces before have left it.
THEOREM TypeCorrect ==
  ASSUME Served
  PROVE  SpecTraces => []TypeOK
<1>1. IInv => TypeOK
  BY DEF IInv
<1>. QED  BY <1>1, Invariance, PTL

\* What the client wrote into a block is there until it gives the block up, and a
\* reallocated block starts with the bytes of the old one: what eval_mm_valid
\* checks ("did not preserve the data from old block").
THEOREM DataKept ==
  ASSUME Served
  PROVE  SpecTraces => []DataPreserved
<1>1. IInv => DataPreserved
  BY DEF IInv
<1>. QED  BY <1>1, Invariance, PTL

\* Blocks the client holds are apart because the blocks of a tiled heap are.
LEMMA HeldApart ==
  ASSUME NEW B, HeapOK(mem, mem_brk, B), Owned(B), block_sizes \in [Ids -> Nat],
         NEW id \in Ids, Live(id)
  PROVE  /\ blocks[id] % 8 = 0 /\ mem_start_brk <= blocks[id]
         /\ blocks[id] + block_sizes[id] <= mem_brk
         /\ \A other \in Ids : Live(other) /\ blocks[id] < blocks[other]
              => blocks[id] + block_sizes[id] <= blocks[other]
<1>. DEFINE b == blocks[id]
            n == block_sizes[id]
<1>1. b \in B /\ n <= BLK_AVAL_SIZE(mem, b) /\ n \in Nat
  BY DEF Owned
<1>2. /\ b \in Nat /\ b % 8 = 0 /\ mem_start_brk + 8 <= b
      /\ BLK_SIZE(mem, b) \in Nat /\ b + BLK_SIZE(mem, b) <= mem_brk
      /\ \A c \in B : b < c => b + BLK_SIZE(mem, b) <= c
  BY <1>1, Block
<1>3. mem_start_brk <= b
  BY <1>2, Layout
<1>4. b + n <= b + BLK_SIZE(mem, b)
  BY <1>1, <1>2 DEF BLK_AVAL_SIZE, WSIZE
<1>5. mem_brk \in Nat
  BY DEF HeapOK
<1>6. b + n <= mem_brk
  BY <1>1, <1>2, <1>4, <1>5
<1>7. ASSUME NEW other \in Ids, Live(other), b < blocks[other]
      PROVE  b + n <= blocks[other]
  <2>1. blocks[other] \in B
    BY <1>7 DEF Owned
  <2>2. blocks[other] \in Nat
    BY <2>1, Block
  <2>. QED  BY <1>1, <1>2, <1>4, <1>7, <2>1, <2>2
<1>. QED  BY <1>2, <1>3, <1>6, <1>7

\* The inductive invariant implies that the client's blocks are apart.
LEMMA InvDisjoint == IInv => PayloadsDisjoint
<1>. SUFFICES ASSUME IInv, NEW id \in Ids, Live(id)
              PROVE  /\ blocks[id] % ALIGNMENT = 0
                     /\ mem_start_brk <= blocks[id] /\ blocks[id] + block_sizes[id] <= mem_brk
                     /\ \A other \in Ids \ {id} : Live(other) =>
                           \/ blocks[id] + block_sizes[id] <= blocks[other]
                           \/ blocks[other] + block_sizes[other] <= blocks[id]
  BY DEF PayloadsDisjoint
<1>1. pc # "boot"
  BY DEF IInv, Booting, Live
<1>2. PICK B : HeapOK(mem, mem_brk, B) /\ Owned(B)
  BY <1>1 DEF IInv, HeapInv, Loose
<1>3. block_sizes \in [Ids -> Nat] /\ blocks \in [Ids -> Nat]
  BY DEF IInv, TypeOK, TypeOKClient
<1>4. /\ blocks[id] % 8 = 0 /\ mem_start_brk <= blocks[id]
      /\ blocks[id] + block_sizes[id] <= mem_brk
  BY <1>2, <1>3, HeldApart
<1>5. ASSUME NEW other \in Ids \ {id}, Live(other)
      PROVE  \/ blocks[id] + block_sizes[id] <= blocks[other]
             \/ blocks[other] + block_sizes[other] <= blocks[id]
  <2>1. blocks[other] # blocks[id]
    BY <1>2, <1>5 DEF Owned
  <2>2. CASE blocks[id] < blocks[other]
    BY <1>2, <1>3, <1>5, <2>2, HeldApart
  <2>3. CASE blocks[other] < blocks[id]
    BY <1>2, <1>3, <1>5, <2>3, HeldApart
  <2>4. blocks[id] \in Nat /\ blocks[other] \in Nat
    BY <1>3
  <2>. QED  BY <2>1, <2>2, <2>3, <2>4
<1>. QED  BY <1>4, <1>5 DEF ALIGNMENT

\* Whatever sequence of malloc, realloc and free a client makes, every block it
\* holds is aligned, inside the heap and apart from all others: what the driver's
\* add_range looks for.
THEOREM Disjoint ==
  ASSUME Served
  PROVE  SpecTraces => []PayloadsDisjoint
BY Invariance, InvDisjoint, PTL

\* The blocks the walk from the prologue meets are those of the invariant.
LEMMA InvBlks ==
  ASSUME IInv, pc # "boot"
  PROVE  /\ Loose(mem, mem_brk, Blks, NULL) /\ Owned(Blks)
         /\ Searching(Frees(mem, Blks)) /\ Ended(Frees(mem, Blks))
<1>1. PICK B : /\ Loose(mem, mem_brk, B, NULL) /\ Owned(B)
               /\ Searching(Frees(mem, B)) /\ Ended(Frees(mem, B))
  BY DEF IInv, HeapInv
<1>2. Tiling(mem, heap_listp, mem_brk, B) /\ mem_brk \in Int /\ heap_listp \in Int
  BY <1>1, Layout DEF Loose, HeapOK
<1>3. Blks = B
  BY <1>2, ChainTiling DEF Blks
<1>. QED  BY <1>1, <1>3

\* The inductive invariant implies that the heap is consistent.
LEMMA InvConsistent == IInv => HeapConsistent
<1>. SUFFICES ASSUME IInv, Ready
              PROVE  /\ Tiling(mem, heap_listp, mem_brk, Blks)
                     /\ mem[mem_brk - WSIZE] = PACK(0, BLK_ALLOC)
                     /\ {b \in Blks : ~IsFree(b)}
                          = {heap_listp} \cup {blocks[id] : id \in {x \in Ids : Live(x)}}
                     /\ \A id \in Ids : Live(id) => block_sizes[id] <= BLK_AVAL_SIZE(mem, blocks[id])
  BY DEF HeapConsistent
<1>1. HeapOK(mem, mem_brk, Blks) /\ Owned(Blks)
  BY InvBlks DEF Ready, Loose
<1>2. Tiling(mem, heap_listp, mem_brk, Blks) /\ heap_listp \in Blks
  BY <1>1, Prologue DEF HeapOK
<1>3. mem[mem_brk - WSIZE] = PACK(0, BLK_ALLOC)
  BY <1>1 DEF HeapOK, WSIZE
<1>4. BLK_STATE(mem, heap_listp) = BLK_ALLOC
  BY <1>1 DEF HeapOK
<1>5. NULL \notin Blks
  BY <1>1, NotNull
<1>6. ASSUME NEW b \in Blks
      PROVE  ~IsFree(b) <=> BLK_STATE(mem, b) = BLK_ALLOC
  BY <1>1, Block DEF IsFree, BLK_FREE, BLK_ALLOC
<1>. DEFINE L == {blocks[id] : id \in {x \in Ids : Live(x)}}
<1>7. ASSUME NEW b \in Blks, BLK_STATE(mem, b) = BLK_ALLOC, b # heap_listp
      PROVE  b \in L
  <2>1. PICK id \in Ids : blocks[id] = b
    BY <1>1, <1>7 DEF Owned
  <2>. QED  BY <1>5, <2>1 DEF Live
<1>8. ASSUME NEW b \in L
      PROVE  b \in Blks /\ BLK_STATE(mem, b) = BLK_ALLOC
  BY <1>1 DEF Owned
<1>9. {b \in Blks : ~IsFree(b)} = {heap_listp} \cup L
  BY <1>2, <1>4, <1>6, <1>7, <1>8
<1>10. \A id \in Ids : Live(id) => block_sizes[id] <= BLK_AVAL_SIZE(mem, blocks[id])
  BY <1>1 DEF Owned
<1>. QED  BY <1>2, <1>3, <1>9, <1>10

\* After every call on segregate.c the blocks tile the heap from the prologue to
\* the epilogue, each footer repeats its header, and exactly the blocks the client
\* holds are marked allocated: no split, join or move loses a block or hands it
\* out twice.
THEOREM Consistent ==
  ASSUME Served
  PROVE  SpecTraces => []HeapConsistent
BY Invariance, InvConsistent, PTL

\* After every call no two neighbouring blocks are free: coalesce joins them on
\* every free, split and shrink, and on the free of a moved block.
THEOREM NeighboursJoined ==
  ASSUME Served
  PROVE  SpecTraces => []Coalesced
<1>1. IInv => Coalesced
  <2>. SUFFICES ASSUME IInv, Ready, NEW b \in Blks, IsFree(b)
                PROVE  NEXT_BLK_ALLOC(mem, b) = BLK_ALLOC
    BY DEF Coalesced
  <2>1. Loose(mem, mem_brk, Blks, NULL)
    BY InvBlks DEF Ready
  <2>2. HeapOK(mem, mem_brk, Blks) /\ Apart(mem, Blks, NULL)
    BY <2>1, LooseFacts
  <2>3. BLK_STATE(mem, b) = BLK_FREE /\ b # heap_listp
    BY <2>2 DEF IsFree, HeapOK, BLK_FREE, BLK_ALLOC
  <2>. QED  BY <2>2, <2>3, FreeAlone
<1>. QED  BY <1>1, Invariance, PTL

\* A free block of the smallest size serves no request.
LEMMA FreeBlocks ==
  ASSUME NEW m, NEW brk, NEW B, HeapOK(m, brk, B), NEW b \in B,
         BLK_STATE(m, b) = BLK_FREE, NEW s \in Nat, s >= 24,
         \A c \in Frees(m, B) : BLK_SIZE(m, c) < s
  PROVE  BLK_SIZE(m, b) < s
<1>1. BLK_SIZE(m, b) \in Nat
  BY Block
<1>2. CASE BLK_SIZE(m, b) > 16
  BY <1>2, Layout DEF Frees
<1>3. CASE BLK_SIZE(m, b) <= 16
  BY <1>1, <1>3
<1>. QED  BY <1>1, <1>2, <1>3

\* mm_malloc returns NULL only when no free block could have served the request
\* and the break cannot move that far.
THEOREM FailsFull ==
  ASSUME Served
  PROVE  SpecTraces => []FailsOnlyWhenFull
<1>1. IInv => FailsOnlyWhenFull
  <2>. SUFFICES ASSUME IInv, pc = "failed"
                PROVE  /\ \A b \in Blks : IsFree(b) => BLK_AVAL_SIZE(mem, b) < call.size
                       /\ mem_brk + ALIGN(call.size) + 2 * WSIZE > mem_max_addr
    BY DEF FailsOnlyWhenFull
  <2>1. HeapOK(mem, mem_brk, Blks) /\ Ended(Frees(mem, Blks))
    BY InvBlks DEF Loose
  <2>. DEFINE a == ALIGN(call.size)
  <2>2. call.size \in Sizes
    BY DEF IInv, Asking
  <2>3. /\ call.size \in Nat /\ a \in Nat /\ a % 8 = 0 /\ a >= 16 /\ a < call.size + 8
    BY <2>2, RequestFacts
  <2>4. /\ \A c \in Frees(mem, Blks) : BLK_SIZE(mem, c) < a + 8
        /\ mem_brk + a + 8 > mem_max_addr
    BY <2>1 DEF Ended
  <2>5. mem_brk + a + 2 * WSIZE > mem_max_addr
    BY <2>4 DEF WSIZE
  <2>. HIDE DEF a
  <2>6. ASSUME NEW b \in Blks, IsFree(b)
        PROVE  BLK_AVAL_SIZE(mem, b) < call.size
    <3>. DEFINE t == BLK_SIZE(mem, b)
    <3>1. t \in Nat /\ t % 8 = 0
      BY <2>1, Block
    <3>2. t < a + 8
      BY <2>1, <2>3, <2>4, <2>6, FreeBlocks DEF IsFree
    <3>3. BLK_AVAL_SIZE(mem, b) = t - 8
      BY <3>1 DEF BLK_AVAL_SIZE, WSIZE
    <3>. HIDE DEF t
    <3>4. t - 8 < call.size
      BY <2>3, <3>1, <3>2
    <3>. QED  BY <3>3, <3>4
  <2>. QED  BY <2>5, <2>6 DEF a
<1>. QED  BY <1>1, Invariance, PTL

\* The break moves only when no free block, in any class, could have served the
\* request: the search of segregate_mm_malloc starts in the right class and passes
\* over nothing on the way.
THEOREM GrowthNeeded ==
  ASSUME Served
  PROVE  SpecTraces => NoNeedlessGrowth
<1>1. ASSUME IInv, pc = "extend", NEW b \in Blks, IsFree(b)
      PROVE  BLK_SIZE(mem, b) < nsize
  <2>1. HeapOK(mem, mem_brk, Blks) /\ Ended(Frees(mem, Blks))
    BY <1>1, InvBlks DEF Loose
  <2>2. nsize \in Nat /\ nsize >= 24
    BY <1>1, NsizeFacts
  <2>3. \A c \in Frees(mem, Blks) : BLK_SIZE(mem, c) < nsize
    BY <1>1, <2>1 DEF Ended
  <2>. QED  BY <1>1, <2>1, <2>2, <2>3, FreeBlocks DEF IsFree
<1>2. IInv => [(pc = "extend" /\ mem_brk' # mem_brk) =>
                  \A b \in Blks : IsFree(b) => BLK_SIZE(mem, b) < nsize]_vars
  BY <1>1
<1>. QED  BY <1>2, Invariance, PTL DEF NoNeedlessGrowth

-----------------------------------------------------------------------------

\* The walk along a list, step by step.
LEMMA ListWalkDef ==
  ASSUME NEW k
  PROVE  LET K == MAX_HEAP \div 16
             w == ListWalk(k)
         IN  /\ K \in Nat /\ DOMAIN w = 0..K
             /\ w[0] = NEXT_FREE_BLKP(mem, Slot(k))
             /\ \A n \in 1..K : w[n] = FollowList(w[n - 1])
<1>. DEFINE K == MAX_HEAP \div 16
            a == NEXT_FREE_BLKP(mem, Slot(k))
            F(x) == FollowList(x)
            S == {j \in Nat : \E f : f = [n \in 0..j |-> IF n = 0 THEN a ELSE F(f[n - 1])]}
<1>1. K \in Nat
  BY RegionAssumption
<1>. HIDE DEF K, F, a
<1>2. 0 \in S
  <2>. DEFINE f == [n \in 0..0 |-> a]
  <2>1. f = [n \in 0..0 |-> IF n = 0 THEN a ELSE F(f[n - 1])]
    OBVIOUS
  <2>. QED  BY <2>1
<1>3. ASSUME NEW j \in S
      PROVE  j + 1 \in S
  <2>1. j \in Nat
    OBVIOUS
  <2>2. PICK f : f = [n \in 0..j |-> IF n = 0 THEN a ELSE F(f[n - 1])]
    OBVIOUS
  <2>. DEFINE g == [n \in 0..(j + 1) |-> IF n = j + 1 THEN F(f[j]) ELSE f[n]]
  <2>3. ASSUME NEW n \in 0..(j + 1)
        PROVE  g[n] = IF n = 0 THEN a ELSE F(g[n - 1])
    <3>1. CASE n = j + 1
      <4>1. n # 0 /\ n - 1 = j /\ j \in 0..(j + 1) /\ j # j + 1
        BY <2>1, <3>1
      <4>2. g[n] = F(f[j]) /\ g[n - 1] = f[j]
        BY <3>1, <4>1
      <4>. QED  BY <4>1, <4>2
    <3>2. CASE n = 0
      <4>1. f[0] = a
        BY <2>1, <2>2
      <4>. QED  BY <2>1, <3>2, <4>1
    <3>3. CASE n # j + 1 /\ n # 0
      <4>1. n \in 0..j /\ n - 1 \in 0..(j + 1) /\ n - 1 # j + 1
        BY <2>1, <3>3
      <4>2. g[n] = f[n] /\ g[n - 1] = f[n - 1]
        BY <3>3, <4>1
      <4>3. f[n] = F(f[n - 1])
        BY <2>2, <3>3, <4>1
      <4>. QED  BY <3>3, <4>2, <4>3
    <3>. QED  BY <3>1, <3>2, <3>3
  <2>4. g = [n \in 0..(j + 1) |-> IF n = 0 THEN a ELSE F(g[n - 1])]
    BY <2>3
  <2>. HIDE DEF g
  <2>. QED  BY <2>1, <2>4
<1>4. S = Nat
  BY <1>2, <1>3, Induction
<1>. DEFINE w == ListWalk(k)
<1>5. w = [n \in 0..K |-> IF n = 0 THEN a ELSE F(w[n - 1])]
  <2>1. \E f : f = [n \in 0..K |-> IF n = 0 THEN a ELSE F(f[n - 1])]
    BY <1>1, <1>4
  <2>2. BLK_MIN_SIZE = 16
    BY Layout
  <2>. QED  BY <2>1, <2>2, Zenon DEF ListWalk, F, K, a
<1>. HIDE DEF w
<1>6. DOMAIN w = 0..K /\ w[0] = a
  BY <1>1, <1>5
<1>7. \A n \in 1..K : w[n] = F(w[n - 1])
  BY <1>1, <1>5
<1>. QED  BY <1>1, <1>6, <1>7 DEF w, F, K, a

\* A walk along a list stays in its class, and goes up in rank until it ends.
LEMMA WalkStays ==
  ASSUME NEW B, HeapOK(mem, mem_brk, B), Lists(mem, Frees(mem, B)),
         NEW rank \in [Frees(mem, B) -> Nat], Ranked(mem, Frees(mem, B), rank),
         NEW k \in 1..(FLT_SLOT_NUM - 1),
         NEW n \in 0..(MAX_HEAP \div 16)
  PROVE  LET b == ListWalk(k)[n]
         IN  /\ b \in Frees(mem, B) \cup {NULL}
             /\ b # NULL => /\ Class(mem, b) = k
                            /\ \A j \in 0..(n - 1) : /\ ListWalk(k)[j] \in Frees(mem, B)
                                                     /\ rank[ListWalk(k)[j]] < rank[b]
<1>. DEFINE F == Frees(mem, B)
            K == MAX_HEAP \div 16
            w == ListWalk(k)
            P(x) == /\ w[x] \in F \cup {NULL}
                    /\ w[x] # NULL => /\ Class(mem, w[x]) = k
                                      /\ \A j \in 0..(x - 1) : w[j] \in F /\ rank[w[j]] < rank[w[x]]
            S == {x \in Nat : x <= K => P(x)}
<1>1. /\ K \in Nat /\ DOMAIN w = 0..K /\ w[0] = NEXT_FREE_BLKP(mem, Slot(k))
      /\ \A x \in 1..K : w[x] = FollowList(w[x - 1])
  BY ListWalkDef
<1>2. /\ \A x \in Nodes(F) : NextOK(mem, F, x)
      /\ NULL \notin F
  BY FreesFacts DEF Lists, Linked
<1>3. Slot(k) \in Nodes(F) /\ Class(mem, Slot(k)) = k
  <2>1. k \in 0..(FLT_SLOT_NUM - 1)
    BY Layout
  <2>2. Slot(k) \in Nat /\ Slot(k) + 16 <= heap_listp /\ (Slot(k) - freelist_table) \div 8 = k
    BY <2>1, SlotFacts
  <2>3. Slot(k) < heap_listp
    BY <2>2, Layout
  <2>. QED  BY <2>2, <2>3 DEF Nodes, Heads, Class
<1>. HIDE DEF K, w, F
<1>4. 0 \in S
  BY <1>1, <1>2, <1>3 DEF NextOK
<1>5. ASSUME NEW x \in S
      PROVE  x + 1 \in S
  <2>. SUFFICES ASSUME x + 1 <= K
                PROVE  P(x + 1)
    OBVIOUS
  <2>1. x \in Nat /\ x <= K /\ P(x)
    BY <1>1
  <2>2. x + 1 \in 1..K /\ (x + 1) - 1 = x
    BY <1>1, <2>1
  <2>3. w[x + 1] = FollowList(w[x])
    BY <1>1, <2>2
  <2>4. CASE w[x] = NULL
    BY <2>3, <2>4 DEF FollowList
  <2>5. CASE w[x] # NULL
    <3>1. w[x] \in F /\ Class(mem, w[x]) = k /\ w[x + 1] = NEXT_FREE_BLKP(mem, w[x])
      BY <2>1, <2>3, <2>5 DEF FollowList
    <3>2. w[x + 1] # NULL => w[x + 1] \in F /\ Class(mem, w[x + 1]) = k
      BY <1>2, <3>1 DEF NextOK, Nodes
    <3>3. w[x + 1] # NULL => rank[w[x]] < rank[w[x + 1]]
      BY <3>1 DEF Ranked, F
    <3>4. ASSUME w[x + 1] # NULL, NEW j \in 0..x
          PROVE  w[j] \in F /\ rank[w[j]] < rank[w[x + 1]]
      <4>1. CASE j = x
        BY <3>1, <3>3, <3>4, <4>1
      <4>2. CASE j # x
        <5>1. j \in 0..(x - 1)
          BY <2>1, <4>2
        <5>2. w[j] \in F /\ rank[w[j]] < rank[w[x]]
          BY <2>1, <2>5, <5>1
        <5>3. rank[w[j]] \in Nat /\ rank[w[x]] \in Nat /\ rank[w[x + 1]] \in Nat
          BY <3>1, <3>2, <3>4, <5>2 DEF F
        <5>. QED  BY <3>3, <3>4, <5>2, <5>3
      <4>. QED  BY <4>1, <4>2
    <3>. QED  BY <2>2, <3>1, <3>2, <3>4
  <2>. QED  BY <2>4, <2>5
<1>6. S = Nat
  <2>. HIDE DEF P
  <2>. QED  BY <1>4, <1>5, Induction
<1>7. n \in Nat /\ n <= K
  BY <1>1 DEF K
<1>8. n \in S
  <2>. HIDE DEF S
  <2>. QED  BY <1>6, <1>7
<1>9. P(n)
  BY <1>7, <1>8
<1>. QED  BY <1>9 DEF w, F

\* The walk has ended by its last step: there is no room for as many blocks.
LEMMA WalkEnds ==
  ASSUME NEW B, HeapOK(mem, mem_brk, B), Lists(mem, Frees(mem, B)),
         NEW k \in 1..(FLT_SLOT_NUM - 1)
  PROVE  ListWalk(k)[MAX_HEAP \div 16] = NULL
<1>. DEFINE F == Frees(mem, B)
            K == MAX_HEAP \div 16
            w == ListWalk(k)
<1>1. PICK rank \in [F -> Nat] : Ranked(mem, F, rank)
  BY DEF Lists
<1>2. K \in Nat /\ 16 * K <= MAX_HEAP /\ MAX_HEAP < 16 * K + 16
  BY RegionAssumption
<1>. SUFFICES ASSUME w[K] # NULL
              PROVE  FALSE
  OBVIOUS
<1>3. ASSUME NEW n \in 0..K
      PROVE  /\ w[n] \in F
             /\ \A j \in 0..(n - 1) : rank[w[j]] < rank[w[n]]
  <2>1. K \in 0..K
    BY <1>2
  <2>2. \A j \in 0..(K - 1) : w[j] \in F
    BY <1>1, <2>1, WalkStays
  <2>3. w[K] \in F
    BY <1>1, <2>1, WalkStays
  <2>4. w[n] \in F
    BY <1>2, <2>2, <2>3
  <2>5. w[n] # NULL
    BY <2>4, FreesFacts
  <2>6. \A j \in 0..(n - 1) : rank[w[j]] < rank[w[n]]
    BY <1>1, <2>5, WalkStays
  <2>. QED  BY <2>4, <2>6
<1>4. ASSUME NEW b \in F
      PROVE  b \in Nat /\ heap_listp <= b /\ b + 24 <= mem_start_brk + MAX_HEAP
             /\ \A c \in F : b < c => b + 24 <= c
  <2>1. Spread(F) /\ b \in B /\ b + 24 <= mem_brk
    BY FreesFacts
  <2>2. b \in Nat /\ heap_listp <= b /\ mem_brk \in Nat /\ mem_brk <= mem_start_brk + MAX_HEAP
    BY <2>1, Block, BreakFacts, Layout
  <2>3. \A c \in F : b < c => b + 24 <= c
    BY <2>1 DEF Spread
  <2>. QED  BY <2>2, <2>1, <2>3, RegionAssumption
<1>. HIDE DEF F, w, K
<1>. DEFINE at(b) == (b - heap_listp) \div 16
            f == [n \in 0..K |-> at(w[n])]
<1>5. ASSUME NEW b \in F
      PROVE  at(b) \in 0..(K - 1)
  <2>1. b \in Nat /\ heap_listp <= b /\ b + 24 <= mem_start_brk + MAX_HEAP
    BY <1>4
  <2>2. b - heap_listp \in Nat /\ b - heap_listp + 16 <= MAX_HEAP
    BY <2>1, Layout, RegionAssumption
  <2>. QED  BY <1>2, <2>2, RegionAssumption
<1>6. ASSUME NEW b \in F, NEW c \in F, b < c
      PROVE  at(b) # at(c)
  <2>1. b \in Nat /\ c \in Nat /\ heap_listp <= b /\ b + 24 <= c
    BY <1>4, <1>6
  <2>. QED  BY <2>1, Layout
<1>7. f \in [0..K -> 0..(K - 1)]
  BY <1>3, <1>5
<1>8. /\ IsFiniteSet(0..K) /\ IsFiniteSet(0..(K - 1))
      /\ Cardinality(0..(K - 1)) < Cardinality(0..K)
  <2>1. 0 \in Int /\ K \in Int /\ K - 1 \in Int
    BY <1>2
  <2>. DEFINE l == K - 1
  <2>. HIDE DEF l
  <2>2. IsFiniteSet(0..K) /\ Cardinality(0..K) = IF 0 > K THEN 0 ELSE K - 0 + 1
    BY <2>1, FS_Interval, Zenon
  <2>3. IsFiniteSet(0..l) /\ Cardinality(0..l) = IF 0 > l THEN 0 ELSE l - 0 + 1
    BY <2>1, FS_Interval, Zenon DEF l
  <2>. DEFINE c == Cardinality(0..K)
              d == Cardinality(0..l)
  <2>4. c = K + 1
    BY <1>2, <2>2
  <2>5. d = K
    BY <1>2, <2>3 DEF l
  <2>. HIDE DEF c, d
  <2>6. d < c
    BY <1>2, <2>4, <2>5
  <2>. QED  BY <2>2, <2>3, <2>6, Zenon DEF l, c, d
<1>9. PICK x, y \in 0..K : x # y /\ f[x] = f[y]
  <2>. HIDE DEF f
  <2>. QED  BY <1>7, <1>8, FS_PigeonHole, Zenon
<1>10. ASSUME NEW n \in 0..K, NEW j \in 0..K, j < n, f[j] = f[n]
       PROVE  FALSE
  <2>1. w[j] \in F /\ w[n] \in F /\ rank[w[j]] < rank[w[n]]
    BY <1>2, <1>3, <1>10
  <2>2. rank[w[j]] \in Nat /\ rank[w[n]] \in Nat /\ w[j] \in Nat /\ w[n] \in Nat
    BY <1>1, <1>4, <2>1 DEF F
  <2>3. w[j] # w[n]
    BY <2>1, <2>2
  <2>4. at(w[j]) = at(w[n])
    BY <1>10
  <2>. HIDE DEF at
  <2>. QED  BY <1>6, <2>1, <2>2, <2>3, <2>4
<1>11. x \in Int /\ y \in Int
  BY <1>2
<1>. HIDE DEF f
<1>. QED  BY <1>9, <1>10, <1>11

\* The walk along the list of class k meets the free blocks of that class.
LEMMA ListedExact ==
  ASSUME NEW B, HeapOK(mem, mem_brk, B), Lists(mem, Frees(mem, B)),
         NEW k \in 1..(FLT_SLOT_NUM - 1)
  PROVE  Listed(k) = {b \in Frees(mem, B) : Class(mem, b) = k}
<1>. DEFINE F == Frees(mem, B)
            K == MAX_HEAP \div 16
            w == ListWalk(k)
            A == {b \in F : Class(mem, b) = k}
            V == A \ Listed(k)
<1>1. PICK rank \in [F -> Nat] : Ranked(mem, F, rank)
  BY DEF Lists
<1>2. /\ K \in Nat /\ DOMAIN w = 0..K /\ w[0] = NEXT_FREE_BLKP(mem, Slot(k))
      /\ \A n \in 1..K : w[n] = FollowList(w[n - 1])
  BY ListWalkDef
<1>3. \A n \in 0..K : w[n] # NULL => w[n] \in A
  BY <1>1, WalkStays
<1>4. w[K] = NULL
  BY WalkEnds
<1>5. Listed(k) = {w[n] : n \in 0..K} \ {NULL}
  BY <1>2 DEF Listed
<1>6. Ahead(mem, F, k, NEXT_FREE_BLKP(mem, Slot(k)), A) /\ NULL \notin F
  BY EnterFacts, FreesFacts
<1>7. /\ A \subseteq F /\ \A c \in A : Class(mem, c) = k
      /\ \A c \in A : c # w[0] => PREV_FREE_BLKP(mem, c) \in A
  BY <1>2, <1>6 DEF Ahead
<1>8. \A c \in F : NEXT_FREE_BLKP(mem, PREV_FREE_BLKP(mem, c)) = c
  BY DEF Lists, Linked, PrevOK
<1>9. Listed(k) \subseteq A
  BY <1>3, <1>5
<1>. HIDE DEF F, K, w, A
<1>10. ASSUME NEW c \in V
       PROVE  PREV_FREE_BLKP(mem, c) \in V
  <2>1. c \in A /\ c \notin Listed(k) /\ c # NULL
    BY <1>6, <1>7
  <2>2. c # w[0]
    BY <1>2, <1>5, <2>1
  <2>. DEFINE d == PREV_FREE_BLKP(mem, c)
  <2>3. d \in A /\ NEXT_FREE_BLKP(mem, d) = c /\ d # NULL
    BY <1>6, <1>7, <1>8, <2>1, <2>2
  <2>. HIDE DEF d
  <2>4. d \notin Listed(k)
    <3>. SUFFICES ASSUME d \in Listed(k)
                  PROVE  FALSE
      OBVIOUS
    <3>1. PICK n \in 0..K : w[n] = d
      BY <1>5
    <3>2. n # K
      BY <1>4, <2>3, <3>1
    <3>3. n + 1 \in 1..K /\ (n + 1) - 1 = n /\ n + 1 \in 0..K
      BY <1>2, <3>2
    <3>4. w[n + 1] = FollowList(d)
      BY <1>2, <3>1, <3>3
    <3>5. w[n + 1] = c
      BY <2>3, <3>4 DEF FollowList
    <3>. QED  BY <1>5, <2>1, <3>3, <3>5
  <2>. QED  BY <2>3, <2>4 DEF d
<1>11. Ahead(mem, F, k, NULL, V)
  <2>1. V \subseteq F /\ \A c \in V : Class(mem, c) = k
    BY <1>7
  <2>. HIDE DEF V
  <2>. QED  BY <1>10, <2>1 DEF Ahead
<1>12. V = {}
  <2>. HIDE DEF V
  <2>. QED  BY <1>11, EndFacts DEF F
<1>13. Listed(k) = A
  BY <1>9, <1>12
<1>. QED  BY <1>13 DEF A, F

\* The inductive invariant implies that the lists are exact.
LEMMA InvListsExact ==
  ASSUME Served, IInv
  PROVE  FreeListsExact
<1>. SUFFICES ASSUME Ready, NEW k \in 1..(FLT_SLOT_NUM - 1)
              PROVE  /\ Listed(k) = {b \in Blks : /\ IsFree(b) /\ BLK_SIZE(mem, b) > BLK_MIN_SIZE
                                                  /\ InClass(BLK_AVAL_SIZE(mem, b), k)}
                     /\ \A b \in Listed(k) : NEXT_FREE_BLKP(mem, PREV_FREE_BLKP(mem, b)) = b
  BY DEF FreeListsExact
<1>. DEFINE F == Frees(mem, Blks)
<1>1. Loose(mem, mem_brk, Blks, NULL)
  BY InvBlks DEF Ready
<1>2. HeapOK(mem, mem_brk, Blks) /\ Lists(mem, F)
  BY <1>1, LooseFacts
<1>3. Listed(k) = {b \in F : Class(mem, b) = k}
  BY <1>2, ListedExact
<1>4. \A b \in F : NEXT_FREE_BLKP(mem, PREV_FREE_BLKP(mem, b)) = b
  BY <1>2 DEF Lists, Linked, PrevOK
<1>5. ASSUME NEW b \in F
      PROVE  Class(mem, b) = k <=> InClass(BLK_AVAL_SIZE(mem, b), k)
  <2>. DEFINE v == BLK_AVAL_SIZE(mem, b)
              l == flt_index(v)
  <2>1. b \in Blks /\ BLK_SIZE(mem, b) >= 24
    BY <1>2, FreesFacts
  <2>2. /\ BLK_SIZE(mem, b) \in Nat /\ b \in Nat /\ heap_listp <= b
        /\ b + BLK_SIZE(mem, b) <= mem_brk /\ mem_brk \in Nat /\ mem_brk <= mem_max_addr
    BY <1>2, <2>1, Block, BreakFacts
  <2>3. MAX_INT \in Int /\ MAX_HEAP <= MAX_INT
    BY SMT DEF MAX_INT, Served
  <2>4. v = BLK_SIZE(mem, b) - 8
    BY <2>2 DEF BLK_AVAL_SIZE, WSIZE
  <2>5. Class(mem, b) = l
    BY <2>2, Layout DEF Class
  <2>. HIDE DEF v
  <2>6. v \in Int /\ 1 <= v /\ v <= MAX_INT
    BY <2>1, <2>2, <2>3, <2>4, Layout, RegionAssumption
  <2>7. InClass(v, l)
    BY <2>6, ClassAsDocumented
  <2>. HIDE DEF l
  <2>8. ASSUME InClass(v, k)
        PROVE  l = k
    <3>1. ~(l < k) /\ ~(k < l)
      BY <2>6, <2>7, <2>8, ClassUnique
    <3>2. l \in Int /\ k \in Int
      BY <2>7, Layout DEF InClass
    <3>. QED  BY <3>1, <3>2
  <2>. QED  BY <2>5, <2>7, <2>8 DEF v
<1>6. F = {b \in Blks : IsFree(b) /\ BLK_SIZE(mem, b) > BLK_MIN_SIZE}
  BY DEF Frees, IsFree
<1>. HIDE DEF F
<1>7. {b \in F : Class(mem, b) = k}
        = {b \in Blks : /\ IsFree(b) /\ BLK_SIZE(mem, b) > BLK_MIN_SIZE
                        /\ InClass(BLK_AVAL_SIZE(mem, b), k)}
  BY <1>5, <1>6
<1>. QED  BY <1>3, <1>4, <1>7

\* After every call each free block that has a prev pointer is on the list of its
\* class, as segregate_mm_init documents the classes, and on no other, the lists hold
\* nothing else and end, and each prev pointer is the inverse of a next pointer.
THEOREM ListsExact ==
  ASSUME Served
  PROVE  SpecTraces => []FreeListsExact
<1>1. IInv => FreeListsExact
  BY InvListsExact
<1>. QED  BY <1>1, Invariance, PTL

-----------------------------------------------------------------------------
(***************************************************************************)
(* segregate.c implements the contract of mm.h.                            *)
(***************************************************************************)

\* The client's part of the invariant.
LEMMA InvClient == IInv => ClientInv /\ Seen
<1>1. IInv => ClientInv
  BY InvDisjoint DEF IInv, TypeOK, Handing, ClientInv
<1>. QED  BY <1>1, ClientSees

\* A call that ends, with a block or with NULL.
LEMMA FinishView ==
  ASSUME Served, IInv, TypeOKClient', PayloadsDisjoint', Seen, Seen', pc \in {"found", "extend"},
         NEW n, NEW brk, NEW b, Finish(n, brk, b)
  PROVE  Contract!Next \/ UNCHANGED Contract!vars
<1>1. /\ TypeOKClient /\ call \in Calls /\ call.size \in Sizes /\ call.ptr = blocks[call.id]
      /\ call.old = block_sizes[call.id]
  BY DEF IInv, TypeOK, TypeOKClient, Asking
<1>2. call.size > 0
  BY <1>1, RequestFacts
<1>3. CASE call.ptr # NULL /\ b = NULL
  <2>1. UNCHANGED <<mem, blocks, block_sizes>>
    BY <1>3 DEF Finish, Wild
  <2>. QED  BY <2>1, ViewStays
<1>4. CASE call.ptr = NULL /\ b = NULL
  <2>1. UNCHANGED <<blocks, block_sizes>> /\ pc' = "failed"
    BY <1>4 DEF Finish, Deliver
  <2>. QED  BY <2>1, ViewStays
<1>5. CASE b # NULL
  <2>1. Deliver(call, b)
    BY <1>5 DEF Finish
  <2>. QED  BY <1>1, <1>2, <1>5, <2>1, ViewGranted
<1>. QED  BY <1>3, <1>4, <1>5

\* Every step is one of the contract, or does not show.
LEMMA StepView ==
  ASSUME Served, IInv, TypeOKClient', PayloadsDisjoint', Seen, Seen', [NextTraces]_vars
  PROVE  Contract!Next \/ UNCHANGED Contract!vars
<1>0. TypeOKClient
  BY DEF IInv, TypeOK
<1>1. CASE segregate_mm_init
  <2>1. pc = "boot" /\ UNCHANGED <<blocks, block_sizes>> /\ blocks = [id \in Ids |-> NULL]
    BY <1>1 DEF segregate_mm_init, IInv, Booting
  <2>2. \A id \in Ids : ~Live(id) /\ ~Live(id)'
    BY <2>1 DEF Live
  <2>3. \A id \in Ids : ContentsOf(id)' = ContentsOf(id)
    BY <2>2 DEF ContentsOf
  <2>. QED  BY <2>1, <2>3 DEF Contract!vars
<1>2. ASSUME NEW id \in Ids, NEW size \in Sizes, MallocCall(id, size) \/ ReallocGrow(id, size)
      PROVE  UNCHANGED Contract!vars
  <2>1. UNCHANGED <<mem, blocks, block_sizes>>
    BY <1>2 DEF MallocCall, ReallocGrow
  <2>. QED  BY <2>1, ViewStays
<1>3. ASSUME NEW id \in Ids, NEW size \in Sizes, ReallocShrink(id, size)
      PROVE  Contract!Next
  <2>. DEFINE c == CallArgs(id, size)
  <2>1. Idle /\ blocks[id] # NULL /\ Deliver(c, blocks[id])
    BY <1>3 DEF ReallocShrink, Live
  <2>2. size \in Nat /\ size > 0
    BY RequestFacts
  <2>3. c \in Calls /\ c.id = id /\ c.size = size /\ c.ptr = blocks[id] /\ c.old = block_sizes[id]
    BY <2>2, ArgsTypes DEF IInv
  <2>. HIDE DEF c
  <2>. QED  BY <1>0, <2>1, <2>2, <2>3, ViewGranted DEF Idle
<1>4. ASSUME NEW id \in Ids, FreeCall(id)
      PROVE  Contract!Next
  BY <1>0, <1>4, ViewDropped DEF FreeCall, Idle
<1>5. CASE Search
  <2>1. UNCHANGED <<mem, blocks, block_sizes>>
    BY <1>5 DEF Search, SearchHit, SearchNext, SearchNextSlot, SearchMiss, clientVars
  <2>. QED  BY <2>1, ViewStays
<1>6. CASE TakeFound
  BY <1>6, FinishView DEF TakeFound
<1>7. CASE Extend
  BY <1>7, FinishView, Zenon DEF Extend
<1>8. CASE Fill
  <2>1. pc = "returned" /\ Live(call.id)
    BY <1>8 DEF Fill, IInv, Handing
  <2>. QED  BY <1>0, <1>8, <2>1, ViewFilled
<1>9. CASE clean_up \/ StartTrace
  BY <1>9, ViewReset DEF clean_up, StartTrace
<1>10. CASE Undefined \/ UNCHANGED vars
  <2>1. UNCHANGED <<mem, blocks, block_sizes>>
    BY <1>10 DEF Undefined, vars, clientVars
  <2>. QED  BY <2>1, ViewStays
<1>. QED  BY <1>1, <1>2, <1>3, <1>4, <1>5, <1>6, <1>7, <1>8, <1>9, <1>10 DEF Next, NextTraces

\* Every step of segregate.c is one the contract of mm.h allows, or does not show in
\* the client's view: a call fails or hands out an aligned block apart from all
\* others, a realloc carries the contents over, and no call changes what is in any
\* other block.
THEOREM Implements ==
  ASSUME Served
  PROVE  SpecTraces => Fulfils
<1>1. Init => Contract!Init
  BY ViewInit DEF Init
<1>2. IInv => TypeOKClient /\ PayloadsDisjoint /\ Seen
  BY InvClient DEF ClientInv
<1>3. /\ IInv /\ Seen /\ (TypeOKClient /\ PayloadsDisjoint /\ Seen)' /\ [NextTraces]_vars
      => [Contract!Next]_(Contract!vars)
  BY StepView
<1>4. SpecTraces => Init /\ [][NextTraces]_vars
  BY DEF SpecTraces, NextTraces
<1>. QED  BY <1>1, <1>2, <1>3, <1>4, Invariance, PTL DEF Fulfils, Contract!Spec

=============================================================================
