--------------------------- MODULE ImplicitProofs ---------------------------
(***************************************************************************)
(* The allocator of implicit.c, for every size of the region, every set of *)
(* requests and every fit strategy: it never stores outside its region,    *)
(* never hands out overlapping blocks, finds what its strategy promises,   *)
(* gives up or grows the heap only if nothing fits and, with a memcpy that *)
(* copies upwards, keeps the client's data and fulfils MallocContract.     *)
(***************************************************************************)
EXTENDS ImplicitHeapProofs

\* The blocks the client holds are allocated blocks of the heap, big enough, and
\* no two ids share one; the other blocks, but for the prologue, are free.
Owned(B) ==
  /\ \A id \in Ids : Live(id) =>
        /\ blocks[id] \in B /\ blocks[id] # heap_listp
        /\ BLK_STATE(mem, blocks[id]) = BLK_ALLOC
        /\ block_sizes[id] <= BLK_AVAL_SIZE(mem, blocks[id])
        /\ \A other \in Ids : blocks[other] = blocks[id] => other = id
  /\ \A b \in B : BLK_STATE(mem, b) = BLK_ALLOC =>
        b = heap_listp \/ \E id \in Ids : blocks[id] = b

\* The pointers a search works with are blocks, or the end of the list.
Cursors(B) ==
  /\ FIT = "next" => heap_curp \in B \cup {NULL}
  /\ pc = "search" => p \in B \cup {mem_brk} /\ bestp \in B \cup {NULL}

HeapInv == \E B : HeapOK(mem, mem_brk, B) /\ Owned(B) /\ Cursors(B)

\* Before mm_init: a cleared region, but for the word below it.
Booting ==
  /\ mem_brk = mem_start_brk
  /\ mem[mem_start_brk - 4] \in {0, 1}
  /\ \A w \in Addr : mem_start_brk <= w => mem[w] = 0
  /\ blocks = [id \in Ids |-> NULL]

Handing == pc = "returned" => Live(call.id) /\ block_sizes[call.id] = call.size

Quiet == pc # "search" => bestp = NULL

Empty == \A id \in Ids : ~Live(id) => block_sizes[id] = 0

\* What the client wrote is there, as long as memcpy moves data down unharmed.
Data == ~MemcpyDescends => DataPreserved

\* The inductive invariant.
IInv ==
  /\ TypeOK
  /\ pc = "boot" => Booting
  /\ pc # "boot" => HeapInv
  /\ Handing
  /\ Quiet
  /\ Empty
  /\ Data

\* A call that looks for a block is a malloc: its id holds none yet.
Asking ==
  pc \in {"search", "extend"} =>
    /\ ~Live(call.id)
    /\ call.ptr = NULL /\ call.old = 0 /\ call.size \in Sizes /\ call.size > 0

\* What the type invariant says of memory follows from a well-formed heap.
LEMMA HeapTypes ==
  ASSUME NEW m, NEW brk, NEW B, HeapOK(m, brk, B)
  PROVE  /\ m \in [Addr -> Word]
         /\ brk \in mem_start_brk..mem_max_addr /\ brk % 8 = 0
         /\ B \subseteq Nat /\ NULL \notin B
         /\ brk \in Nat /\ brk # NULL
<1>1. /\ m \in [Addr -> Word]
      /\ brk \in mem_start_brk..mem_max_addr /\ brk % 8 = 0
      /\ brk \in Nat /\ brk # 0
  BY Layout DEF HeapOK, Memory
<1>2. \A b \in B : b \in Nat /\ b # 0
  <2>. SUFFICES ASSUME NEW b \in B
                PROVE  b \in Nat /\ b # 0
    OBVIOUS
  <2>1. b \in Nat /\ mem_start_brk + 8 <= b
    BY Block
  <2>. QED  BY <2>1, Layout
<1>. QED  BY <1>1, <1>2 DEF NULL

\* A record of arguments is not NoCall.
LEMMA CallTypes ==
  ASSUME NEW c \in Calls
  PROVE  c # NoCall /\ c.id \in Ids /\ c.size \in Nat
<1>1. c.id \in Ids /\ c.size \in Nat
  BY DEF Calls
<1>2. 0 \notin Ids
  BY ClientAssumption
<1>. QED  BY <1>1, <1>2 DEF NoCall, NULL

\* The absence of a call is not taken for one.
LEMMA NoCallTypes == NoCall \notin Calls
BY CallTypes

\* A block whose payload is kept keeps the part of it that was asked for.
LEMMA PayloadStays ==
  ASSUME NEW m, NEW n, NEW brk, NEW B, HeapOK(m, brk, B), NEW b \in B, SamePayload(m, n, b),
         NEW z \in Nat, z <= BLK_AVAL_SIZE(m, b)
  PROVE  \A w \in Addr : b <= w /\ w < b + z => n[w] = m[w]
<1>. SUFFICES ASSUME NEW w \in Addr, b <= w, w < b + z
              PROVE  w < b + BLK_SIZE(m, b) - 8
  BY DEF SamePayload
<1>1. b \in Nat /\ BLK_SIZE(m, b) \in Nat
  BY Block
<1>2. w \in Int /\ z <= BLK_SIZE(m, b) - 8
  BY DEF Addr, BLK_AVAL_SIZE, WSIZE
<1>. QED  BY <1>1, <1>2

\* A word of a block that the client holds.
LEMMA HeldAddr ==
  ASSUME NEW B, HeapOK(mem, mem_brk, B), NEW b \in B, NEW o \in Nat, o % 4 = 0,
         o < BLK_AVAL_SIZE(mem, b)
  PROVE  b + o \in Addr
<1>1. /\ b \in Nat /\ b % 8 = 0 /\ mem_start_brk + 8 <= b /\ BLK_SIZE(mem, b) \in Nat
      /\ b + BLK_SIZE(mem, b) <= mem_brk
  BY Block
<1>2. mem_brk \in Nat /\ mem_brk <= mem_max_addr
  BY DEF HeapOK
<1>3. o < BLK_SIZE(mem, b) - 8
  BY DEF BLK_AVAL_SIZE, WSIZE
<1>. DEFINE s == BLK_SIZE(mem, b)
<1>4. s \in Nat /\ b + s <= mem_brk /\ o < s - 8
  BY <1>1, <1>3
<1>. HIDE DEF s
<1>5. b + o < mem_brk - 8 /\ (b + o) % 4 = 0
  BY <1>1, <1>2, <1>4
<1>. QED  BY <1>1, <1>2, <1>5, RegionAssumption DEF Addr, mem_max_addr

\* What the client wrote, once a call has handed out b.
LEMMA DeliverData ==
  ASSUME TypeOK, Empty, Data, pc \notin {"boot", "returned", "undefined"},
         NEW B, HeapOK(mem, mem_brk, B), Owned(B),
         NEW c \in Calls, c.old = block_sizes[c.id], NEW b, b # NULL,
         NEW C, HeapOK(mem', mem_brk', C), b \in C,
         Kept(mem, mem', B, C, blocks[c.id], b),
         Carried(mem, mem', blocks[c.id], b, c.size), Deliver(c, b)
  PROVE  Empty' /\ Data'
<1>. DEFINE id  == c.id
            own == blocks[id]
            l   == IF c.old < c.size THEN c.old ELSE c.size
<1>1. id \in Ids /\ c.size \in Nat /\ c.old \in Nat
  BY DEF Calls
<1>2. /\ call' = c /\ pc' = "returned"
      /\ blocks' = [blocks EXCEPT ![id] = b]
      /\ block_sizes' = [block_sizes EXCEPT ![id] = c.size]
  BY DEF Deliver
<1>3. blocks \in [Ids -> Nat] /\ block_sizes \in [Ids -> Nat]
  BY DEF TypeOK, TypeOKClient
<1>4. /\ blocks'[id] = b /\ block_sizes'[id] = c.size
      /\ \A x \in Ids : x # id => blocks'[x] = blocks[x] /\ block_sizes'[x] = block_sizes[x]
  BY <1>1, <1>2, <1>3
<1>. HIDE DEF id
<1>5. Empty'
  <2>. SUFFICES ASSUME NEW x \in Ids, blocks'[x] = NULL
                PROVE  block_sizes'[x] = 0
    BY DEF Empty, Live
  <2>1. x # id
    BY <1>4
  <2>. QED  BY <1>4, <2>1 DEF Empty, Live
<1>6. SUFFICES ASSUME ~MemcpyDescends
               PROVE  DataPreserved'
  BY <1>5 DEF Data
<1>7. \A x \in Ids : Live(x) => Intact(x, block_sizes[x])
  BY <1>6 DEF Data, DataPreserved
<1>8. ASSUME NEW x \in Ids, x # id, blocks'[x] # NULL, NEW a \in Addr,
             blocks'[x] <= a, a < blocks'[x] + block_sizes'[x]
      PROVE  mem'[a] = x
  <2>1. blocks'[x] = blocks[x] /\ block_sizes'[x] = block_sizes[x] /\ Live(x)
    BY <1>4, <1>8 DEF Live
  <2>2. /\ blocks[x] \in B /\ BLK_STATE(mem, blocks[x]) = BLK_ALLOC
        /\ block_sizes[x] <= BLK_AVAL_SIZE(mem, blocks[x])
        /\ \A other \in Ids : blocks[other] = blocks[x] => other = x
    BY <2>1 DEF Owned
  <2>3. blocks[x] # own
    BY <1>1, <1>8, <2>2
  <2>4. SamePayload(mem, mem', blocks[x])
    BY <2>2, <2>3 DEF Kept, id
  <2>5. block_sizes[x] \in Nat
    BY <1>3
  <2>6. mem'[a] = mem[a]
    BY <1>8, <2>1, <2>2, <2>4, <2>5, PayloadStays
  <2>. QED  BY <1>7, <1>8, <2>1, <2>6 DEF Intact
<1>9. l \in Nat /\ l <= c.old /\ l <= c.size
  BY <1>1
<1>. HIDE DEF l
<1>10. ASSUME NEW a \in Addr, b <= a, a < b + l
       PROVE  mem'[a] = id
  <2>. DEFINE o == a - b
  <2>1. b \in Nat /\ b % 8 = 0 /\ a \in Int /\ a % 4 = 0
    BY Block DEF Addr
  <2>2. o \in Nat /\ o % 4 = 0 /\ o < l /\ b + o = a
    BY <1>9, <1>10, <2>1
  <2>. HIDE DEF o
  <2>3. o < c.old /\ o < c.size /\ c.old > 0
    BY <1>1, <1>9, <2>2
  <2>4. Live(id) /\ own # NULL
    BY <1>1, <2>3 DEF Empty, Live, id
  <2>5. own \in B /\ c.old <= BLK_AVAL_SIZE(mem, own)
    BY <1>1, <2>4 DEF Owned, id
  <2>6. own \in Nat /\ BLK_AVAL_SIZE(mem, own) \in Int
    BY <2>5, Block DEF BLK_AVAL_SIZE, WSIZE
  <2>7. o < BLK_AVAL_SIZE(mem, own)
    BY <1>1, <2>2, <2>3, <2>5, <2>6
  <2>8. mem'[b + o] = mem[own + o]
    BY <1>6, <2>2, <2>3, <2>4, <2>7 DEF Carried, id
  <2>9. own + o \in Addr /\ own <= own + o /\ own + o < own + c.old
    BY <1>1, <2>2, <2>3, <2>5, <2>6, <2>7, HeldAddr
  <2>10. mem[own + o] = id
    BY <1>1, <1>7, <2>4, <2>9 DEF Intact, id
  <2>. QED  BY <2>2, <2>8, <2>10
<1>11. ASSUME NEW x \in Ids, blocks'[x] # NULL
       PROVE  IF pc' = "returned" /\ call'.id = x
              THEN Intact(x, IF call.old < call.size THEN call.old ELSE call.size)'
              ELSE Intact(x, block_sizes[x])'
  <2>1. CASE x = id
    <3>1. Intact(x, IF call.old < call.size THEN call.old ELSE call.size)'
      BY <1>2, <1>4, <1>10, <2>1 DEF Intact, l
    <3>. QED  BY <1>2, <2>1, <3>1 DEF id
  <2>2. CASE x # id
    <3>1. Intact(x, block_sizes[x])'
      BY <1>8, <1>11, <2>2 DEF Intact
    <3>. QED  BY <1>2, <2>2, <3>1 DEF id
  <2>. QED  BY <2>1, <2>2
<1>. QED  BY <1>11 DEF DataPreserved, Live

\* Nothing the client holds changes.
LEMMA StillData ==
  ASSUME Empty, Data, pc \notin {"boot", "returned", "undefined"},
         UNCHANGED <<mem, blocks, block_sizes>>, pc' # "returned"
  PROVE  Empty' /\ Data'
<1>1. Empty'
  BY DEF Empty, Live
<1>2. ASSUME DataPreserved
      PROVE  DataPreserved'
  <2>1. \A id \in Ids : Live(id) => Intact(id, block_sizes[id])
    BY <1>2 DEF DataPreserved
  <2>2. \A id \in Ids : Live(id)' => Intact(id, block_sizes[id])'
    BY <2>1 DEF Live, Intact
  <2>. QED  BY <2>2 DEF DataPreserved
<1>. QED  BY <1>1, <1>2 DEF Data

\* A step that hands out a block to the client keeps the invariant.
LEMMA DeliverStep ==
  ASSUME IInv, pc \notin {"boot", "returned", "undefined"},
         NEW B, HeapOK(mem, mem_brk, B), Owned(B),
         NEW c \in Calls, c.old = block_sizes[c.id], NEW own, own = blocks[c.id], NEW b,
         Handed(mem, B, mem', mem_brk', own, b, c.size),
         Deliver(c, b), SetCursor(b), p' \in Nat, oldp' \in Nat, bestp' = NULL
  PROVE  IInv'
<1>1. PICK C :
        /\ HeapOK(mem', mem_brk', C) /\ Kept(mem, mem', B, C, own, b)
        /\ b \in C /\ b # heap_listp
        /\ BLK_STATE(mem', b) = BLK_ALLOC /\ c.size <= BLK_AVAL_SIZE(mem', b)
        /\ \A d \in B : BLK_STATE(mem, d) = BLK_ALLOC /\ d # own => d # b
        /\ Carried(mem, mem', own, b, c.size)
  BY DEF Handed
<1>2. /\ mem' \in [Addr -> Word]
      /\ mem_brk' \in mem_start_brk..mem_max_addr /\ mem_brk' % 8 = 0
      /\ C \subseteq Nat /\ NULL \notin C
  BY <1>1, HeapTypes
<1>3. b \in Nat /\ b # NULL
  BY <1>1, <1>2
<1>4. c.id \in Ids /\ c.size \in Nat
  BY CallTypes
<1>5. /\ call' = c /\ pc' = "returned"
      /\ blocks' = [blocks EXCEPT ![c.id] = b]
      /\ block_sizes' = [block_sizes EXCEPT ![c.id] = c.size]
  BY <1>3 DEF Deliver
<1>6. /\ blocks \in [Ids -> Nat] /\ block_sizes \in [Ids -> Nat]
      /\ heap_curp \in Nat /\ FIT \in Strategies
  BY DEF IInv, TypeOK, TypeOKClient
<1>7. /\ blocks' \in [Ids -> Nat] /\ block_sizes' \in [Ids -> Nat]
      /\ blocks'[c.id] = b /\ block_sizes'[c.id] = c.size
      /\ \A id \in Ids : id # c.id => blocks'[id] = blocks[id] /\ block_sizes'[id] = block_sizes[id]
  BY <1>3, <1>4, <1>5, <1>6
<1>8. FIT' = FIT /\ heap_curp' \in Nat /\ (FIT' = "next" => heap_curp' = b)
  BY <1>3, <1>6 DEF SetCursor
<1>9. TypeOK'
  BY <1>2, <1>5, <1>6, <1>7, <1>8 DEF TypeOK, TypeOKClient, PC, NULL
<1>10. ASSUME NEW id \in Ids, id # c.id, blocks[id] # NULL
       PROVE  /\ blocks[id] # b /\ blocks[id] \in C /\ blocks[id] # heap_listp
              /\ BLK_STATE(mem', blocks[id]) = BLK_ALLOC
              /\ block_sizes[id] <= BLK_AVAL_SIZE(mem', blocks[id])
  <2>1. /\ blocks[id] \in B /\ blocks[id] # heap_listp
        /\ BLK_STATE(mem, blocks[id]) = BLK_ALLOC
        /\ block_sizes[id] <= BLK_AVAL_SIZE(mem, blocks[id])
        /\ blocks[id] # own
    BY <1>4, <1>10 DEF Owned, Live
  <2>2. /\ blocks[id] \in C /\ BLK_SIZE(mem', blocks[id]) = BLK_SIZE(mem, blocks[id])
        /\ BLK_STATE(mem', blocks[id]) = BLK_ALLOC
    BY <1>1, <2>1 DEF Kept
  <2>. QED  BY <1>1, <2>1, <2>2 DEF BLK_AVAL_SIZE
<1>11. Owned(C)'
  <2>1. ASSUME NEW id \in Ids, blocks'[id] # NULL
        PROVE  /\ blocks'[id] \in C /\ blocks'[id] # heap_listp
               /\ BLK_STATE(mem', blocks'[id]) = BLK_ALLOC
               /\ block_sizes'[id] <= BLK_AVAL_SIZE(mem', blocks'[id])
               /\ \A other \in Ids : blocks'[other] = blocks'[id] => other = id
    <3>1. CASE id = c.id
      BY <1>1, <1>3, <1>7, <1>10, <3>1
    <3>2. CASE id # c.id
      <4>1. /\ blocks'[id] \in C /\ blocks'[id] # heap_listp /\ blocks'[id] # b
            /\ BLK_STATE(mem', blocks'[id]) = BLK_ALLOC
            /\ block_sizes'[id] <= BLK_AVAL_SIZE(mem', blocks'[id])
        BY <1>7, <1>10, <2>1, <3>2
      <4>2. ASSUME NEW other \in Ids, blocks'[other] = blocks'[id]
            PROVE  other = id
        <5>1. other # c.id
          BY <1>7, <4>1, <4>2
        <5>2. blocks[other] = blocks[id] /\ blocks[id] # NULL
          BY <1>7, <2>1, <3>2, <4>2, <5>1
        <5>. QED  BY <5>2 DEF Owned, Live
      <4>. QED  BY <4>1, <4>2
    <3>. QED  BY <3>1, <3>2
  <2>2. ASSUME NEW d \in C, BLK_STATE(mem', d) = BLK_ALLOC, d # heap_listp
        PROVE  \E id \in Ids : blocks'[id] = d
    <3>1. CASE d = b
      BY <1>4, <1>7, <3>1
    <3>2. CASE d # b
      <4>1. d \in B /\ BLK_STATE(mem, d) = BLK_ALLOC /\ d # own
        BY <1>1, <2>2, <3>2 DEF Kept
      <4>2. PICK id \in Ids : blocks[id] = d
        BY <2>2, <4>1 DEF Owned
      <4>3. id # c.id
        BY <4>1, <4>2
      <4>. QED  BY <1>7, <4>2, <4>3
    <3>. QED  BY <3>1, <3>2
  <2>. QED  BY <2>1, <2>2 DEF Owned, Live
<1>12. Cursors(C)'
  BY <1>1, <1>5, <1>8 DEF Cursors
<1>13. HeapInv'
  BY <1>1, <1>11, <1>12 DEF HeapInv
<1>14. Handing'
  BY <1>3, <1>5, <1>7 DEF Handing, Live
<1>15. Empty' /\ Data'
  BY <1>1, <1>3, DeliverData DEF IInv
<1>. QED  BY <1>5, <1>9, <1>13, <1>14, <1>15 DEF IInv, Quiet

\* A step that leaves the heap and the client's blocks alone.
LEMMA StillStep ==
  ASSUME IInv, pc \notin {"boot", "returned", "undefined"},
         UNCHANGED <<mem, mem_brk, blocks, block_sizes, FIT>>,
         heap_curp' \in {heap_curp, NULL}, pc' \notin {"boot", "returned", "search"}, TypeOK',
         bestp' = NULL
  PROVE  IInv'
<1>1. PICK B : HeapOK(mem, mem_brk, B) /\ Owned(B) /\ Cursors(B)
  BY DEF IInv, HeapInv
<1>2. HeapOK(mem', mem_brk', B)
  BY <1>1
<1>3. Owned(B)'
  BY <1>1 DEF Owned, Live
<1>4. Cursors(B)'
  BY <1>1 DEF Cursors
<1>5. HeapInv'
  BY <1>2, <1>3, <1>4 DEF HeapInv
<1>6. Empty' /\ Data'
  BY StillData DEF IInv
<1>. QED  BY <1>5, <1>6 DEF IInv, Handing, Quiet

\* mm_init.
LEMMA InitStep ==
  ASSUME IInv, implicit_mm_init
  PROVE  IInv'
<1>1. pc = "boot" /\ pc' = "client" /\ Booting /\ TypeOK
  BY DEF IInv, implicit_mm_init
<1>2. mem \in Memory /\ mem_brk = mem_start_brk
  BY <1>1 DEF Booting, TypeOK, TypeOKClient, Memory
<1>. DEFINE e  == extend_heap(mem, mem_start_brk, 4 * WSIZE)
            m1 == SET(e.mem, mem_start_brk, 48879)
            m2 == SET_BLK(m1, heap_listp, 2 * WSIZE, BLK_ALLOC)
<1>3. /\ e.brk = mem_start_brk + 16
      /\ HeapOK(SET_EB(m2, heap_listp + 2 * WSIZE), mem_start_brk + 16, {heap_listp})
  BY <1>1, <1>2, InitFacts DEF Booting
<1>4. mem' = SET_EB(m2, heap_listp + 2 * WSIZE) /\ mem_brk' = e.brk
  BY <1>2 DEF implicit_mm_init
<1>5. HeapOK(mem', mem_brk', {heap_listp})
  BY <1>3, <1>4
<1>6. /\ UNCHANGED <<blocks, block_sizes, call, p, oldp, bestp, FIT>>
      /\ heap_curp' = IF FIT = "next" THEN heap_listp ELSE heap_curp
  BY DEF implicit_mm_init, SetCursor
<1>7. TypeOK'
  <2>1. /\ mem' \in [Addr -> Word]
        /\ mem_brk' \in mem_start_brk..mem_max_addr /\ mem_brk' % 8 = 0
    BY <1>5, HeapTypes
  <2>2. heap_curp' \in Nat
    BY <1>1, <1>6, Layout DEF TypeOK
  <2>. QED  BY <1>1, <1>6, <2>1, <2>2 DEF TypeOK, TypeOKClient, PC
<1>8. Owned({heap_listp})'
  BY <1>1, <1>6 DEF Booting, Owned, Live
<1>9. Cursors({heap_listp})'
  BY <1>1, <1>6 DEF Cursors
<1>10. HeapInv'
  BY <1>5, <1>8, <1>9 DEF HeapInv
<1>11. Empty' /\ Data'
  <2>1. Empty'
    BY <1>6 DEF IInv, Empty, Live
  <2>2. \A id \in Ids : ~Live(id)'
    BY <1>1, <1>6 DEF Booting, Live
  <2>. QED  BY <2>1, <2>2 DEF Data, DataPreserved
<1>. QED  BY <1>1, <1>6, <1>7, <1>10, <1>11 DEF IInv, Handing, Quiet

\* The arguments of a call by the client.
LEMMA ArgsTypes ==
  ASSUME TypeOK, NEW id \in Ids, NEW size \in Nat
  PROVE  /\ CallArgs(id, size) \in Calls
         /\ CallArgs(id, size).id = id /\ CallArgs(id, size).size = size
         /\ CallArgs(id, size).ptr = blocks[id] /\ CallArgs(id, size).old = block_sizes[id]
BY DEF TypeOK, TypeOKClient, CallArgs, Calls

\* A malloc of size 0.
LEMMA MallocZeroStep ==
  ASSUME IInv, NEW id \in Ids, MallocZero(id)
  PROVE  IInv'
<1>1. CallArgs(id, 0) \in Calls
  BY ArgsTypes DEF IInv
<1>2. /\ UNCHANGED <<mem, mem_brk, blocks, block_sizes, FIT, heap_curp, p, oldp, bestp>>
      /\ pc' = "failed" /\ call' \in Calls
  BY <1>1 DEF MallocZero, Deliver, NULL, searchVars
<1>3. pc \notin {"boot", "returned", "undefined"} /\ bestp = NULL
  BY DEF IInv, Quiet, MallocZero, Idle
<1>4. TypeOK'
  BY <1>2 DEF IInv, TypeOK, TypeOKClient, PC
<1>. QED  BY <1>2, <1>3, <1>4, StillStep

\* The call has run into undefined behaviour.
LEMMA WildStep ==
  ASSUME IInv, Idle, Wild, UNCHANGED searchVars
  PROVE  IInv'
<1>1. /\ UNCHANGED <<mem, mem_brk, blocks, block_sizes, FIT, heap_curp, p, oldp, bestp>>
      /\ pc' = "undefined" /\ call' = NoCall
  BY DEF Wild, searchVars
<1>2. TypeOK'
  BY <1>1, NoCallTypes DEF IInv, TypeOK, TypeOKClient, PC
<1>3. bestp = NULL /\ pc \notin {"boot", "returned", "undefined"}
  BY DEF IInv, Quiet, Idle
<1>. QED  BY <1>1, <1>2, <1>3, StillStep

\* The start of a search, at a block or at the end of the list.
LEMMA MallocCallStep ==
  ASSUME IInv, NEW id \in Ids, NEW size \in Nat, MallocCall(id, size)
  PROVE  IInv'
<1>1. /\ pc \notin {"boot", "returned", "undefined"} /\ bestp = NULL /\ pc' = "search"
      /\ UNCHANGED <<mem, mem_brk, blocks, block_sizes, FIT, heap_curp, bestp>>
      /\ ~(FIT = "next" /\ heap_curp = NULL)
      /\ p' = IF FIT = "next" THEN NEXT_BLKP(mem, heap_curp) ELSE heap_listp
      /\ oldp' = IF FIT = "next" THEN NEXT_BLKP(mem, heap_curp) ELSE NULL
      /\ call' \in Calls
  BY ArgsTypes DEF IInv, Quiet, MallocCall, Idle
<1>2. PICK B : HeapOK(mem, mem_brk, B) /\ Owned(B) /\ Cursors(B)
  BY <1>1 DEF IInv, HeapInv
<1>3. p' \in B \cup {mem_brk}
  <2>1. CASE FIT = "next"
    <3>1. heap_curp \in B
      BY <1>1, <1>2, <2>1 DEF Cursors
    <3>. QED  BY <1>1, <1>2, <2>1, <3>1, NextFacts
  <2>2. CASE FIT # "next"
    BY <1>1, <1>2, <2>2, Prologue
  <2>. QED  BY <2>1, <2>2
<1>4. p' \in Nat /\ oldp' \in Nat
  <2>1. p' \in Nat
    BY <1>2, <1>3, HeapTypes
  <2>. QED  BY <1>1, <2>1 DEF NULL
<1>5. TypeOK'
  BY <1>1, <1>4 DEF IInv, TypeOK, TypeOKClient, PC
<1>6. HeapOK(mem', mem_brk', B)
  BY <1>1, <1>2
<1>7. Owned(B)'
  BY <1>1, <1>2 DEF Owned, Live
<1>8. Cursors(B)'
  BY <1>1, <1>2, <1>3 DEF Cursors
<1>9. HeapInv'
  BY <1>6, <1>7, <1>8 DEF HeapInv
<1>10. Empty' /\ Data'
  BY <1>1, StillData DEF IInv
<1>. QED  BY <1>1, <1>5, <1>9, <1>10 DEF IInv, Handing, Quiet

\* A turn of the loop that goes on.
LEMMA TurnStep ==
  ASSUME IInv, pc = "search", NEW B, HeapOK(mem, mem_brk, B), Owned(B), Cursors(B),
         UNCHANGED <<mem, mem_brk, clientVars, FIT, heap_curp, oldp>>,
         p' \in B \cup {mem_brk}, bestp' \in B \cup {NULL}
  PROVE  IInv'
<1>1. UNCHANGED <<blocks, block_sizes, pc, call>>
  BY DEF clientVars
<1>2. p' \in Nat /\ bestp' \in Nat
  BY HeapTypes DEF NULL
<1>3. TypeOK'
  BY <1>1, <1>2 DEF IInv, TypeOK, TypeOKClient
<1>4. HeapOK(mem', mem_brk', B)
  OBVIOUS
<1>5. Owned(B)'
  BY <1>1 DEF Owned, Live
<1>6. Cursors(B)'
  BY <1>1 DEF Cursors
<1>7. HeapInv'
  BY <1>4, <1>5, <1>6 DEF HeapInv
<1>8. Empty' /\ Data'
  BY <1>1, StillData DEF IInv
<1>. QED  BY <1>1, <1>3, <1>7, <1>8 DEF IInv, Handing, Quiet

\* The loop ends without a block.
LEMMA NotFoundStep ==
  ASSUME IInv, pc = "search", NotFound
  PROVE  IInv'
<1>1. /\ UNCHANGED <<mem, mem_brk, blocks, block_sizes, call, FIT, heap_curp>>
      /\ pc' = "extend" /\ p' = NULL /\ oldp' = NULL /\ bestp' = NULL
  BY DEF NotFound, EndSearch
<1>2. TypeOK'
  BY <1>1 DEF IInv, TypeOK, TypeOKClient, PC, NULL
<1>. QED  BY <1>1, <1>2, StillStep

\* implicit_mm_malloc returns a block or NULL.
LEMMA ReturnStep ==
  ASSUME IInv, Asking, pc \in {"search", "extend"}, NEW B, HeapOK(mem, mem_brk, B), Owned(B),
         NEW m, NEW brk, NEW b, Return(m, brk, b),
         \/ b # NULL /\ Handed(mem, B, m, brk, NULL, b, call.size)
         \/ b = NULL /\ m = mem /\ brk = mem_brk
  PROVE  IInv'
<1>1. /\ mem' = m /\ mem_brk' = brk /\ Deliver(call, b) /\ SetCursor(b)
      /\ p' = NULL /\ oldp' = NULL /\ bestp' = NULL
  BY DEF Return, EndSearch
<1>2. call \in Calls /\ TypeOK
  BY DEF IInv, TypeOK, TypeOKClient
<1>3. CASE b # NULL
  <2>1. Handed(mem, B, mem', mem_brk', NULL, b, call.size)
    BY <1>1, <1>3
  <2>2. p' \in Nat /\ oldp' \in Nat /\ NULL = blocks[call.id]
    BY <1>1 DEF NULL, Asking, Live
  <2>3. call.id \in Ids
    BY <1>2, CallTypes
  <2>4. call.old = block_sizes[call.id]
    BY <2>3 DEF IInv, Empty, Asking
  <2>. QED  BY <1>1, <1>2, <2>1, <2>2, <2>4, DeliverStep
<1>4. CASE b = NULL
  <2>1. UNCHANGED <<mem, mem_brk, blocks, block_sizes, FIT>> /\ pc' = "failed" /\ call' = call
    BY <1>1, <1>4 DEF Deliver, SetCursor
  <2>2. heap_curp' \in {heap_curp, NULL}
    BY <1>1, <1>4 DEF SetCursor
  <2>3. TypeOK'
    BY <1>1, <1>2, <2>1, <2>2 DEF TypeOK, TypeOKClient, PC, NULL
  <2>. QED  BY <1>1, <2>1, <2>2, <2>3, StillStep
<1>. QED  BY <1>3, <1>4

\* The loop ends with the block b.
LEMMA PlaceInStep ==
  ASSUME IInv, Asking, pc = "search", NEW B, HeapOK(mem, mem_brk, B), Owned(B), NEW b \in B, PlaceIn(b)
  PROVE  IInv'
<1>. DEFINE r == place(mem, b, ALIGN(call.size))
<1>1. call.size \in Nat
  BY CallTypes DEF IInv, TypeOK, TypeOKClient
<1>2. CASE r.p = NULL
  BY <1>2, NotFoundStep DEF PlaceIn
<1>3. CASE r.p # NULL
  <2>1. r.p = b /\ Handed(mem, B, r.mem, mem_brk, NULL, b, call.size)
    BY <1>1, <1>3, PlaceHands
  <2>2. Return(r.mem, mem_brk, b)
    BY <1>3, <2>1 DEF PlaceIn
  <2>3. b # NULL
    BY <1>3, <2>1
  <2>. HIDE DEF r
  <2>. DEFINE m == r.mem
  <2>. HIDE DEF m
  <2>4. Return(m, mem_brk, b) /\ Handed(mem, B, m, mem_brk, NULL, b, call.size)
    BY <2>1, <2>2 DEF m
  <2>. QED  BY <2>3, <2>4, ReturnStep
<1>. QED  BY <1>2, <1>3

\* find_fit, whatever the strategy.
LEMMA FindFitStep ==
  ASSUME IInv, Asking, FindFit
  PROVE  IInv'
<1>1. pc = "search"
  BY DEF FindFit, SearchHit, FirstFitNext, FirstFitMiss, NextFitNext, BestFitNext, BestFitEnd
<1>2. PICK B : HeapOK(mem, mem_brk, B) /\ Owned(B) /\ Cursors(B)
  BY <1>1 DEF IInv, HeapInv
<1>3. p \in B \cup {mem_brk} /\ bestp \in B \cup {NULL}
  BY <1>1, <1>2 DEF Cursors
<1>4. ~EB(mem, p) => p \in B /\ NEXT_BLKP(mem, p) \in B \cup {mem_brk}
  <2>1. EB(mem, mem_brk) /\ heap_listp \in B
    BY <1>2, Prologue, NextFacts DEF EB
  <2>2. ~EB(mem, p) => p \in B
    BY <1>3, <2>1
  <2>. QED  BY <1>2, <2>2, NextFacts
<1>5. heap_listp \in B
  BY <1>2, Prologue
<1>6. CASE SearchHit
  BY <1>1, <1>2, <1>4, <1>6, PlaceInStep DEF SearchHit
<1>7. CASE FirstFitNext
  BY <1>1, <1>2, <1>3, <1>4, <1>7, TurnStep DEF FirstFitNext
<1>8. CASE FirstFitMiss
  BY <1>1, <1>8, NotFoundStep DEF FirstFitMiss
<1>9. CASE NextFitNext
  <2>. DEFINE next == IF EB(mem, p) THEN heap_listp ELSE NEXT_BLKP(mem, p)
  <2>1. next \in B \cup {mem_brk}
    BY <1>4, <1>5
  <2>2. CASE next = oldp
    BY <1>1, <1>9, <2>2, NotFoundStep DEF NextFitNext
  <2>3. CASE next # oldp
    <3>1. p' = next /\ UNCHANGED <<mem, mem_brk, clientVars, FIT, heap_curp, oldp, bestp>>
      BY <1>9, <2>3 DEF NextFitNext
    <3>. HIDE DEF next
    <3>. QED  BY <1>1, <1>2, <1>3, <2>1, <3>1, TurnStep
  <2>. QED  BY <2>2, <2>3
<1>10. CASE BestFitNext
  <2>1. /\ p' = NEXT_BLKP(mem, p) /\ bestp' \in {p, bestp} /\ ~EB(mem, p)
        /\ UNCHANGED <<mem, mem_brk, clientVars, FIT, heap_curp, oldp>>
    BY <1>10 DEF BestFitNext
  <2>2. p' \in B \cup {mem_brk} /\ bestp' \in B \cup {NULL}
    BY <1>3, <1>4, <2>1
  <2>. QED  BY <1>1, <1>2, <2>1, <2>2, TurnStep
<1>11. CASE BestFitEnd
  <2>1. CASE best = MAX_HEAP
    BY <1>1, <1>11, <2>1, NotFoundStep DEF BestFitEnd
  <2>2. CASE best # MAX_HEAP
    <3>1. bestp \in B
      BY <1>3, <2>2 DEF best
    <3>2. PlaceIn(bestp)
      BY <1>11, <2>2 DEF BestFitEnd
    <3>. QED  BY <1>1, <1>2, <3>1, <3>2, PlaceInStep
  <2>. QED  BY <2>1, <2>2
<1>. QED  BY <1>6, <1>7, <1>8, <1>9, <1>10, <1>11 DEF FindFit

\* do_malloc for a malloc that found nothing.
LEMMA ExtendStep ==
  ASSUME IInv, Asking, Extend
  PROVE  IInv'
<1>. DEFINE d == do_malloc(mem, mem_brk, ALIGN(call.size))
            m == d.mem
            brk == d.brk
            b == d.p
<1>1. pc = "extend" /\ Return(m, brk, b)
  BY DEF Extend
<1>2. PICK B : HeapOK(mem, mem_brk, B) /\ Owned(B) /\ Cursors(B)
  BY <1>1 DEF IInv, HeapInv
<1>3. call.size \in Nat
  BY <1>1, CallTypes DEF IInv, TypeOK, TypeOKClient
<1>4. \/ b = NULL /\ m = mem /\ brk = mem_brk
      \/ b # NULL /\ Handed(mem, B, m, brk, NULL, b, call.size)
  BY <1>2, <1>3, DoMallocHands
<1>. HIDE DEF m, brk, b
<1>. QED  BY <1>1, <1>2, <1>4, ReturnStep

\* The free of a block the client holds.
LEMMA FreeStep ==
  ASSUME IInv, NEW id \in Ids, FreeCall(id)
  PROVE  IInv'
<1>. DEFINE ptr == blocks[id]
            f == implicit_mm_free(mem, ptr)
<1>1. /\ pc \notin {"boot", "search", "returned", "undefined"}
      /\ ptr # NULL /\ mem' = f.mem /\ SetCursor(f.p)
      /\ blocks' = [blocks EXCEPT ![id] = NULL]
      /\ block_sizes' = [block_sizes EXCEPT ![id] = 0]
      /\ pc' = "client" /\ call' = NoCall
      /\ UNCHANGED <<mem_brk, p, oldp, bestp>>
  BY DEF FreeCall, Idle, Live, Drop
<1>2. TypeOK /\ bestp = NULL
  BY <1>1 DEF IInv, Quiet
<1>3. PICK B : HeapOK(mem, mem_brk, B) /\ Owned(B) /\ Cursors(B)
  BY <1>1 DEF IInv, HeapInv
<1>4. ptr \in B /\ ptr # heap_listp
  BY <1>1, <1>3 DEF Owned, Live
<1>5. PICK C : HeapOK(f.mem, mem_brk, C) /\ Kept(mem, f.mem, B, C, ptr, NULL) /\ f.p \in C
  BY <1>3, <1>4, FreeFacts
<1>6. HeapOK(mem', mem_brk', C) /\ Kept(mem, mem', B, C, ptr, NULL)
  BY <1>1, <1>5
<1>. HIDE DEF f
<1>7. /\ mem' \in [Addr -> Word]
      /\ mem_brk' \in mem_start_brk..mem_max_addr /\ mem_brk' % 8 = 0
      /\ f.p \in Nat
  BY <1>5, <1>6, HeapTypes
<1>8. blocks \in [Ids -> Nat] /\ block_sizes \in [Ids -> Nat]
  BY <1>2 DEF TypeOK, TypeOKClient
<1>9. /\ blocks' \in [Ids -> Nat] /\ block_sizes' \in [Ids -> Nat]
      /\ blocks'[id] = NULL /\ block_sizes'[id] = 0
      /\ \A x \in Ids : x # id => blocks'[x] = blocks[x] /\ block_sizes'[x] = block_sizes[x]
  BY <1>1, <1>8 DEF NULL
<1>10. FIT' = FIT /\ heap_curp' \in Nat /\ (FIT' = "next" => heap_curp' = f.p)
  BY <1>1, <1>2, <1>7 DEF SetCursor, TypeOK
<1>11. TypeOK'
  BY <1>1, <1>2, <1>7, <1>9, <1>10, NoCallTypes DEF TypeOK, TypeOKClient, PC
<1>12. Owned(C)'
  <2>1. ASSUME NEW x \in Ids, blocks'[x] # NULL
        PROVE  /\ blocks'[x] \in C /\ blocks'[x] # heap_listp
               /\ BLK_STATE(mem', blocks'[x]) = BLK_ALLOC
               /\ block_sizes'[x] <= BLK_AVAL_SIZE(mem', blocks'[x])
               /\ \A other \in Ids : blocks'[other] = blocks'[x] => other = x
    <3>1. x # id /\ blocks'[x] = blocks[x] /\ block_sizes'[x] = block_sizes[x] /\ blocks[x] # NULL
      BY <1>9, <2>1
    <3>2. /\ blocks[x] \in B /\ blocks[x] # heap_listp
          /\ BLK_STATE(mem, blocks[x]) = BLK_ALLOC
          /\ block_sizes[x] <= BLK_AVAL_SIZE(mem, blocks[x])
          /\ \A other \in Ids : blocks[other] = blocks[x] => other = x
      BY <1>3, <3>1 DEF Owned, Live
    <3>3. blocks[x] # ptr
      BY <3>1, <3>2
    <3>4. /\ blocks[x] \in C /\ BLK_SIZE(mem', blocks[x]) = BLK_SIZE(mem, blocks[x])
          /\ BLK_STATE(mem', blocks[x]) = BLK_ALLOC
      BY <1>6, <3>2, <3>3 DEF Kept
    <3>5. ASSUME NEW other \in Ids, blocks'[other] = blocks'[x]
          PROVE  other = x
      BY <1>9, <3>1, <3>2, <3>5
    <3>. QED  BY <3>1, <3>2, <3>4, <3>5 DEF BLK_AVAL_SIZE
  <2>2. ASSUME NEW d \in C, BLK_STATE(mem', d) = BLK_ALLOC, d # heap_listp
        PROVE  \E x \in Ids : blocks'[x] = d
    <3>1. d # NULL
      BY <1>6, NotNull
    <3>2. d \in B /\ BLK_STATE(mem, d) = BLK_ALLOC /\ d # ptr
      BY <1>6, <2>2, <3>1 DEF Kept
    <3>3. PICK x \in Ids : blocks[x] = d
      BY <1>3, <2>2, <3>2 DEF Owned
    <3>. QED  BY <1>9, <3>2, <3>3
  <2>. QED  BY <2>1, <2>2 DEF Owned, Live
<1>13. Cursors(C)'
  BY <1>1, <1>5, <1>10 DEF Cursors
<1>14. HeapInv'
  BY <1>6, <1>12, <1>13 DEF HeapInv
<1>15. Empty'
  BY <1>9 DEF IInv, Empty, Live
<1>16. ASSUME DataPreserved
       PROVE  DataPreserved'
  <2>1. ASSUME NEW x \in Ids, blocks'[x] # NULL, NEW a \in Addr,
               blocks'[x] <= a, a < blocks'[x] + block_sizes'[x]
        PROVE  mem'[a] = x
    <3>1. x # id /\ blocks'[x] = blocks[x] /\ block_sizes'[x] = block_sizes[x] /\ Live(x)
      BY <1>9, <2>1 DEF Live
    <3>2. /\ blocks[x] \in B /\ BLK_STATE(mem, blocks[x]) = BLK_ALLOC
          /\ block_sizes[x] <= BLK_AVAL_SIZE(mem, blocks[x])
          /\ \A other \in Ids : blocks[other] = blocks[x] => other = x
      BY <1>3, <3>1 DEF Owned
    <3>3. blocks[x] # ptr
      BY <3>1, <3>2
    <3>4. SamePayload(mem, mem', blocks[x])
      BY <1>6, <3>2, <3>3 DEF Kept
    <3>5. block_sizes[x] \in Nat
      BY <1>8
    <3>6. mem'[a] = mem[a]
      BY <1>3, <2>1, <3>1, <3>2, <3>4, <3>5, PayloadStays
    <3>7. Intact(x, block_sizes[x])
      BY <1>1, <1>16, <3>1 DEF DataPreserved
    <3>. QED  BY <2>1, <3>1, <3>6, <3>7 DEF Intact
  <2>. QED  BY <1>1, <2>1 DEF DataPreserved, Live, Intact
<1>17. Data'
  BY <1>16 DEF IInv, Data
<1>. QED  BY <1>1, <1>2, <1>11, <1>14, <1>15, <1>17 DEF IInv, Handing, Quiet

\* A realloc that hands out b for the block ptr of id.
LEMMA ResizedStep ==
  ASSUME IInv, Idle, NEW id \in Ids, NEW size \in Nat,
         NEW B, HeapOK(mem, mem_brk, B), Owned(B), NEW m, NEW brk, NEW b,
         Handed(mem, B, m, brk, blocks[id], b, size), Resized(id, size, m, brk, b)
  PROVE  IInv'
<1>1. /\ mem' = m /\ mem_brk' = brk /\ Deliver(CallArgs(id, size), b) /\ SetCursor(b)
      /\ UNCHANGED <<p, oldp, bestp>>
  BY DEF Resized
<1>2. bestp = NULL /\ TypeOK
  BY DEF IInv, Quiet, Idle
<1>3. p' \in Nat /\ oldp' \in Nat /\ bestp' = NULL
  BY <1>1, <1>2 DEF TypeOK
<1>. DEFINE c == CallArgs(id, size)
<1>4. c \in Calls /\ c.id = id /\ c.size = size /\ c.old = block_sizes[id]
  BY <1>2, ArgsTypes
<1>. HIDE DEF c
<1>5. Deliver(c, b) /\ blocks[id] = blocks[c.id] /\ Handed(mem, B, mem', mem_brk', blocks[id], b, c.size)
  BY <1>1, <1>4 DEF c
<1>6. pc \notin {"boot", "returned", "undefined"} /\ c.old = block_sizes[c.id]
  BY <1>4 DEF Idle
<1>. QED  BY <1>1, <1>3, <1>4, <1>5, <1>6, DeliverStep

\* A block of the client, and the size its request needs.
LEMMA ReallocFacts ==
  ASSUME IInv, NEW id \in Ids, NEW size \in Nat, ReallocCall(id, size)
  PROVE  /\ Idle /\ pc # "boot" /\ pc # "search"
         /\ NSize(size) \in Nat /\ NSize(size) % 8 = 0 /\ NSize(size) >= 8
         /\ size <= NSize(size) - 8
         /\ \E B : /\ HeapOK(mem, mem_brk, B) /\ Owned(B)
                   /\ blocks[id] \in B /\ blocks[id] # heap_listp
                   /\ BLK_STATE(mem, blocks[id]) = BLK_ALLOC
<1>1. Idle /\ pc # "boot" /\ pc # "search" /\ Live(id)
  BY DEF ReallocCall, Idle
<1>2. /\ NSize(size) \in Nat /\ NSize(size) % 8 = 0 /\ NSize(size) >= 8
      /\ size <= NSize(size) - 8
  BY DEF NSize, ALIGN, WSIZE
<1>3. PICK B : HeapOK(mem, mem_brk, B) /\ Owned(B)
  BY <1>1 DEF IInv, HeapInv
<1>4. /\ blocks[id] \in B /\ blocks[id] # heap_listp
      /\ BLK_STATE(mem, blocks[id]) = BLK_ALLOC
  BY <1>1, <1>3 DEF Owned
<1>. QED  BY <1>1, <1>2, <1>3, <1>4

\* realloc within the block.
LEMMA InPlaceStep ==
  ASSUME IInv, NEW id \in Ids, NEW size \in Nat, ReallocInPlace(id, size)
  PROVE  IInv'
<1>. DEFINE ptr == blocks[id]
            s == NSize(size)
            bsize == BLK_SIZE(mem, ptr)
            m == IF bsize - s >= MIN_BLK_SIZE THEN Cut(mem, ptr, bsize, s) ELSE mem
<1>1. ReallocCall(id, size) /\ s <= bsize /\ Resized(id, size, m, mem_brk, ptr)
  BY DEF ReallocInPlace
<1>2. /\ Idle /\ s \in Nat /\ s % 8 = 0 /\ s >= 8 /\ size <= s - 8
      /\ \E B : /\ HeapOK(mem, mem_brk, B) /\ Owned(B) /\ ptr \in B /\ ptr # heap_listp
                /\ BLK_STATE(mem, ptr) = BLK_ALLOC
  BY <1>1, ReallocFacts
<1>3. PICK B : /\ HeapOK(mem, mem_brk, B) /\ Owned(B) /\ ptr \in B /\ ptr # heap_listp
               /\ BLK_STATE(mem, ptr) = BLK_ALLOC
  BY <1>2
<1>. HIDE DEF s
<1>4. Handed(mem, B, m, mem_brk, ptr, ptr, size)
  <2>1. CASE bsize - s >= MIN_BLK_SIZE
    <3>. DEFINE e == ptr + bsize
    <3>1. /\ ptr \in Nat /\ bsize \in Nat /\ e \in B \cup {mem_brk}
          /\ \A c \in B : ptr < c => e <= c
      BY <1>3, Block
    <3>2. \A c \in B : ptr <= c /\ c < e => c = ptr \/ BLK_STATE(mem, c) = BLK_FREE
      <4>. SUFFICES ASSUME NEW c \in B, ptr <= c, c < e
                    PROVE  c = ptr
        OBVIOUS
      <4>1. c \in Nat
        BY <1>3, Prologue
      <4>. QED  BY <3>1, <4>1
    <3>3. mem \in Memory /\ e - ptr = bsize /\ s <= e - ptr
      BY <1>1, <1>3, <3>1 DEF HeapOK
    <3>5. Within(ptr, B, ptr, e)
      BY <1>2, <3>1, <3>3 DEF Within
    <3>6. Carried(mem, mem, ptr, ptr, size)
      BY DEF Carried
    <3>. HIDE DEF e, bsize
    <3>4. Handed(mem, B, Cut(mem, ptr, e - ptr, s), mem_brk, ptr, ptr, size)
      BY <1>2, <1>3, <3>1, <3>2, <3>3, <3>5, <3>6, CutHands
    <3>. QED  BY <2>1, <3>3, <3>4
  <2>2. CASE ~(bsize - s >= MIN_BLK_SIZE)
    <3>1. bsize \in Nat
      BY <1>3, Block
    <3>2. size <= BLK_AVAL_SIZE(mem, ptr)
      BY <1>1, <1>2, <3>1 DEF BLK_AVAL_SIZE, WSIZE
    <3>3. Kept(mem, mem, B, B, ptr, ptr) /\ Carried(mem, mem, ptr, ptr, size)
      BY DEF Kept, SamePayload, Carried
    <3>4. m = mem
      BY <2>2
    <3>. QED  BY <1>3, <3>2, <3>3, <3>4 DEF Handed
  <2>. QED  BY <2>1, <2>2
<1>. HIDE DEF m
<1>. QED  BY <1>1, <1>2, <1>3, <1>4, ResizedStep

\* The bytes of the next block belong to that block alone.
LEMMA NextRange ==
  ASSUME NEW m, NEW brk, NEW B, HeapOK(m, brk, B), NEW b \in B, NEXT_BLK_ALLOC(m, b) = BLK_FREE,
         NEW c \in B, b < c, c < NEXT_BLKP(m, b) + NEXT_BLK_SIZE(m, b)
  PROVE  BLK_STATE(m, c) = BLK_FREE
<1>. DEFINE nb == NEXT_BLKP(m, b)
<1>1. /\ nb = b + BLK_SIZE(m, b) /\ nb \in B \cup {brk} /\ BLK_SIZE(m, brk) = 0
      /\ NEXT_BLK_SIZE(m, b) \in Nat
  BY NextFacts
<1>2. c \in Nat /\ c < brk /\ brk \in Nat /\ b \in Nat
  BY Prologue DEF HeapOK
<1>3. nb <= c
  BY <1>1, Block
<1>4. nb # brk
  BY <1>1, <1>2, <1>3
<1>5. nb \in B /\ nb \in Nat /\ BLK_SIZE(m, nb) \in Nat /\ (nb < c => nb + BLK_SIZE(m, nb) <= c)
  BY <1>1, <1>4, Block
<1>6. BLK_STATE(m, nb) = BLK_FREE /\ NEXT_BLK_SIZE(m, b) = BLK_SIZE(m, nb)
  BY DEF NEXT_BLK_ALLOC, NEXT_BLK_SIZE
<1>7. c = nb
  BY <1>2, <1>3, <1>5, <1>6
<1>. QED  BY <1>6, <1>7

\* realloc into the free block behind.
LEMMA IntoNextStep ==
  ASSUME IInv, NEW id \in Ids, NEW size \in Nat, GrowIntoNext(id, size)
  PROVE  IInv'
<1>. DEFINE ptr == blocks[id]
            s == NSize(size)
            t == WithNext(id)
            e == ptr + t
            m == Cut(mem, ptr, t, s)
<1>1. /\ ReallocCall(id, size) /\ NextFree(id) /\ s <= t
      /\ Resized(id, size, m, mem_brk, ptr)
  BY DEF GrowIntoNext, Grows
<1>2. /\ Idle /\ s \in Nat /\ s % 8 = 0 /\ s >= 8 /\ size <= s - 8
      /\ \E B : /\ HeapOK(mem, mem_brk, B) /\ Owned(B) /\ ptr \in B /\ ptr # heap_listp
  BY <1>1, ReallocFacts
<1>3. PICK B : HeapOK(mem, mem_brk, B) /\ Owned(B) /\ ptr \in B /\ ptr # heap_listp
  BY <1>2
<1>. HIDE DEF s
<1>4. ptr \in Nat /\ BLK_SIZE(mem, ptr) \in Nat
  BY <1>3, Block
<1>5. /\ NEXT_BLKP(mem, ptr) = ptr + BLK_SIZE(mem, ptr)
      /\ NEXT_BLK_SIZE(mem, ptr) \in Nat
      /\ NEXT_BLKP(mem, ptr) + NEXT_BLK_SIZE(mem, ptr) \in B \cup {mem_brk}
  BY <1>3, NextFacts
<1>6. /\ e = NEXT_BLKP(mem, ptr) + NEXT_BLK_SIZE(mem, ptr) /\ e \in B \cup {mem_brk}
      /\ e - ptr = t /\ t \in Nat
  BY <1>4, <1>5 DEF WithNext
<1>7. \A c \in B : ptr <= c /\ c < e => c = ptr \/ BLK_STATE(mem, c) = BLK_FREE
  <2>. SUFFICES ASSUME NEW c \in B, ptr < c, c < e
                PROVE  BLK_STATE(mem, c) = BLK_FREE
    <3>1. \A c \in B : c \in Nat
      BY <1>3, Prologue
    <3>. QED  BY <1>4, <3>1
  <2>1. NEXT_BLK_ALLOC(mem, ptr) = BLK_FREE
    BY <1>1 DEF NextFree
  <2>. QED  BY <1>3, <1>6, <2>1, NextRange
<1>8. mem \in Memory /\ s <= e - ptr
  BY <1>1, <1>3, <1>6 DEF HeapOK
<1>a. Within(ptr, B, ptr, e) /\ Carried(mem, mem, ptr, ptr, size)
  BY <1>2, <1>4, <1>6, <1>8 DEF Within, Carried
<1>. HIDE DEF e, t
<1>9. Handed(mem, B, Cut(mem, ptr, e - ptr, s), mem_brk, ptr, ptr, size)
  BY <1>2, <1>3, <1>6, <1>7, <1>8, <1>a, CutHands
<1>10. Handed(mem, B, m, mem_brk, ptr, ptr, size)
  BY <1>6, <1>9
<1>. HIDE DEF m
<1>. QED  BY <1>1, <1>2, <1>3, <1>10, ResizedStep

\* realloc into the free block before, where the data moves to.
LEMMA IntoPrevStep ==
  ASSUME IInv, NEW id \in Ids, NEW size \in Nat, GrowIntoPrev(id, size)
  PROVE  IInv'
<1>. DEFINE ptr == blocks[id]
            s == NSize(size)
            a == PREV_BLKP(mem, ptr)
            l == BLK_AVAL_SIZE(mem, ptr)
            k == MoveDown(mem, a, ptr, l)
            t == BLK_SIZE(mem, ptr) + PREV_BLK_SIZE(mem, ptr)
            e == ptr + BLK_SIZE(mem, ptr)
            m == Cut(k, a, t, s)
<1>1. /\ ReallocCall(id, size) /\ s <= t /\ PREV_BLK_ALLOC(mem, ptr) = BLK_FREE
      /\ Resized(id, size, m, mem_brk, a)
  BY DEF GrowIntoPrev, PastNext, Grows, RoomBefore
<1>2. /\ Idle /\ s \in Nat /\ s % 8 = 0 /\ s >= 8 /\ size <= s - 8
      /\ \E B : /\ HeapOK(mem, mem_brk, B) /\ Owned(B) /\ ptr \in B /\ ptr # heap_listp
  BY <1>1, ReallocFacts
<1>3. PICK B : HeapOK(mem, mem_brk, B) /\ Owned(B) /\ ptr \in B /\ ptr # heap_listp
  BY <1>2
<1>. HIDE DEF s
<1>4. /\ ptr \in Nat /\ ptr % 8 = 0 /\ BLK_SIZE(mem, ptr) \in Nat
      /\ BLK_SIZE(mem, ptr) % 8 = 0 /\ BLK_SIZE(mem, ptr) >= 8
      /\ e \in B \cup {mem_brk} /\ e <= mem_brk
      /\ \A c \in B : ptr < c => e <= c
  <2>1. /\ ptr \in Nat /\ ptr % 8 = 0 /\ BLK_SIZE(mem, ptr) \in Nat
        /\ BLK_SIZE(mem, ptr) % 8 = 0 /\ BLK_SIZE(mem, ptr) >= 8
    BY <1>3, Block
  <2>2. e \in B \cup {mem_brk} /\ e <= mem_brk /\ \A c \in B : ptr < c => e <= c
    BY <1>3, Block
  <2>. QED  BY <2>1, <2>2
<1>5. /\ a \in B /\ BLK_STATE(mem, a) = BLK_FREE
      /\ PREV_BLK_SIZE(mem, ptr) = BLK_SIZE(mem, a)
      /\ a + BLK_SIZE(mem, a) = ptr
  BY <1>1, <1>3, PrevFacts
<1>. HIDE DEF a
<1>6. a # heap_listp
  BY <1>3, <1>5 DEF HeapOK, BLK_FREE, BLK_ALLOC
<1>7. /\ a \in Nat /\ a % 8 = 0 /\ mem_start_brk <= a
      /\ BLK_SIZE(mem, a) \in Nat /\ BLK_SIZE(mem, a) >= 8
      /\ \A c \in B : a < c => ptr <= c
  BY <1>3, <1>5, Block, Layout
<1>8. /\ mem \in Memory /\ mem_brk \in Nat /\ mem_brk <= mem_max_addr
  BY <1>3 DEF HeapOK
<1>9. l \in Nat /\ l % 8 = 0 /\ l = BLK_SIZE(mem, ptr) - 8 /\ a < ptr /\ ptr + l <= mem_max_addr
  <2>1. l = BLK_SIZE(mem, ptr) - 8
    BY DEF BLK_AVAL_SIZE, WSIZE
  <2>. HIDE DEF l
  <2>2. l \in Nat /\ l % 8 = 0
    BY <1>4, <2>1
  <2>3. a < ptr
    BY <1>4, <1>5, <1>7
  <2>4. ptr + l <= mem_max_addr
    <3>1. ptr + BLK_SIZE(mem, ptr) <= mem_brk
      BY <1>4
    <3>2. BLK_SIZE(mem, ptr) \in Nat /\ ptr \in Nat /\ mem_max_addr \in Nat
      BY <1>4, Layout
    <3>. HIDE DEF e, ptr
    <3>. QED  BY <1>8, <2>1, <3>1, <3>2
  <2>. QED  BY <2>1, <2>2, <2>3, <2>4
<1>. HIDE DEF l, k
<1>10. /\ k \in Memory /\ \A w \in Addr : w < a \/ a + l <= w => k[w] = mem[w]
       /\ ~MemcpyDescends => \A w \in Addr : a <= w /\ w < a + l => k[w] = mem[w - a + ptr]
  <2>1. /\ ptr \in Nat /\ ptr % 8 = 0 /\ a \in Nat /\ a % 8 = 0 /\ mem_start_brk <= a
        /\ a < ptr /\ l \in Nat /\ l % 8 = 0 /\ ptr + l <= mem_max_addr /\ mem \in Memory
    BY <1>4, <1>7, <1>8, <1>9
  <2>2. /\ MoveDown(mem, a, ptr, l) \in Memory
        /\ \A w \in Addr : w < a \/ a + l <= w => MoveDown(mem, a, ptr, l)[w] = mem[w]
    <3>1. SameBut(mem, MoveDown(mem, a, ptr, l), a, a + l)
      BY <2>1, MoveDownFacts
    <3>. QED  BY <3>1 DEF SameBut
  <2>3. ~MemcpyDescends => \A w \in Addr : a <= w /\ w < a + l =>
                              MoveDown(mem, a, ptr, l)[w] = mem[w - a + ptr]
    <3>1. ~MemcpyDescends => Moved(mem, MoveDown(mem, a, ptr, l), a, ptr, l)
      BY <2>1, MoveDownFacts
    <3>. QED  BY <3>1 DEF Moved
  <2>. QED  BY <2>2, <2>3 DEF k
<1>11. \A w \in Addr : w < a - 4 \/ e - 4 <= w => k[w] = mem[w]
  <2>. SUFFICES ASSUME NEW w \in Addr, w < a - 4 \/ e - 4 <= w
                PROVE  w < a \/ a + l <= w
    BY <1>10
  <2>. QED  BY <1>4, <1>7, <1>9 DEF Addr
<1>12. \A c \in B : a <= c /\ c < e => c = ptr \/ BLK_STATE(mem, c) = BLK_FREE
  <2>. SUFFICES ASSUME NEW c \in B, a <= c, c < e, c # ptr
                PROVE  c = a
    BY <1>5
  <2>1. c \in Nat
    BY <1>3, Prologue
  <2>. QED  BY <1>4, <1>7, <2>1
<1>13. e - a = t /\ s <= e - a
  BY <1>1, <1>2, <1>4, <1>5, <1>7
<1>a. Within(ptr, B, a, e)
  <2>1. a <= ptr
    BY <1>4, <1>7, <1>9
  <2>2. ptr < e
    BY <1>4
  <2>. QED  BY <2>1, <2>2 DEF Within
<1>b. Carried(mem, k, ptr, a, size)
  <2>. SUFFICES ASSUME ~MemcpyDescends, NEW o \in Nat, o % 4 = 0, o < l
                PROVE  k[a + o] = mem[ptr + o]
    BY DEF Carried, l
  <2>1. /\ a + o \in Int /\ (a + o) % 4 = 0 /\ a + o < ptr + l
        /\ a <= a + o /\ a + o < a + l /\ (a + o) - a + ptr = ptr + o
    BY <1>4, <1>7, <1>9
  <2>2. a + o \in Addr
    BY <1>4, <1>7, <1>9, <2>1, RegionAssumption DEF Addr, mem_max_addr
  <2>. QED  BY <1>10, <2>1, <2>2
<1>. HIDE DEF e, t
<1>14. Handed(mem, B, Cut(k, a, e - a, s), mem_brk, ptr, a, size)
  <2>1. /\ a \in B /\ a # heap_listp /\ e \in B \cup {mem_brk} /\ k \in Memory
        /\ s \in Nat /\ s % 8 = 0 /\ s >= 8 /\ s <= e - a /\ size <= s - 8
        /\ HeapOK(mem, mem_brk, B)
    BY <1>2, <1>3, <1>4, <1>5, <1>6, <1>10, <1>13
  <2>. QED  BY <1>11, <1>12, <1>a, <1>b, <2>1, CutHands
<1>15. Handed(mem, B, m, mem_brk, ptr, a, size)
  BY <1>13, <1>14
<1>. HIDE DEF m
<1>. QED  BY <1>1, <1>2, <1>3, <1>15, ResizedStep

\* The free block behind ptr is the end of the list: ptr is the tail.
LEMMA AtEndFacts ==
  ASSUME NEW B, HeapOK(mem, mem_brk, B), NEW id \in Ids, blocks[id] \in B
  PROVE  EB(mem, NEXT_BLKP(mem, blocks[id])) =>
           /\ NEXT_BLKP(mem, blocks[id]) = mem_brk
           /\ WithNext(id) = BLK_SIZE(mem, blocks[id])
           /\ blocks[id] + BLK_SIZE(mem, blocks[id]) = mem_brk
<1>. DEFINE ptr == blocks[id]
<1>1. /\ NEXT_BLKP(mem, ptr) = ptr + BLK_SIZE(mem, ptr)
      /\ NEXT_BLKP(mem, ptr) \in B \cup {mem_brk}
  BY NextFacts
<1>2. BLK_SIZE(mem, ptr) \in Nat
  BY Block
<1>3. SUFFICES ASSUME BLK_SIZE(mem, NEXT_BLKP(mem, ptr)) = 0
               PROVE  /\ NEXT_BLKP(mem, ptr) = mem_brk
                      /\ WithNext(id) = BLK_SIZE(mem, ptr)
                      /\ ptr + BLK_SIZE(mem, ptr) = mem_brk
  BY DEF EB
<1>4. NEXT_BLKP(mem, ptr) \notin B
  BY <1>3, Block
<1>. QED  BY <1>1, <1>2, <1>3, <1>4 DEF WithNext, NEXT_BLK_SIZE

\* realloc of the tail block, which grows with the heap.  Without memory the
\* footer falls outside the region, and only then.
LEMMA GrowTailStep ==
  ASSUME IInv, NEW id \in Ids, NEW size \in Nat, GrowTail(id, size)
  PROVE  IInv'
<1>. DEFINE ptr == blocks[id]
            s == NSize(size)
            incr == s - WithNext(id)
            x == extend_heap(mem, mem_brk, incr)
            k == x.mem
            m == SET_BLK(k, ptr, s, BLK_ALLOC)
<1>1. /\ ReallocCall(id, size) /\ s > BLK_SIZE(mem, ptr) /\ EB(mem, NEXT_BLKP(mem, ptr))
      /\ IF DOMAIN m = DOMAIN mem
         THEN Resized(id, size, m, x.brk, ptr)
         ELSE Wild /\ UNCHANGED searchVars
  BY DEF GrowTail, Grows, AtEnd
<1>2. /\ Idle /\ pc # "boot" /\ pc # "search"
      /\ s \in Nat /\ s % 8 = 0 /\ s >= 8 /\ size <= s - 8
      /\ \E B : /\ HeapOK(mem, mem_brk, B) /\ Owned(B) /\ ptr \in B /\ ptr # heap_listp
  BY <1>1, ReallocFacts
<1>3. PICK B : HeapOK(mem, mem_brk, B) /\ Owned(B) /\ ptr \in B /\ ptr # heap_listp
  BY <1>2
<1>. HIDE DEF s
<1>4. /\ ptr \in Nat /\ ptr % 8 = 0 /\ BLK_SIZE(mem, ptr) \in Nat
      /\ \A c \in B : ptr < c => ptr + BLK_SIZE(mem, ptr) <= c
  BY <1>3, Block
<1>5. WithNext(id) = BLK_SIZE(mem, ptr) /\ ptr + BLK_SIZE(mem, ptr) = mem_brk
  BY <1>1, <1>3, AtEndFacts
<1>6. incr \in Int /\ incr > 0 /\ mem_brk + incr = ptr + s
  BY <1>1, <1>2, <1>4, <1>5
<1>. HIDE DEF incr
<1>7. \/ x.p = NULL /\ x.mem = mem /\ x.brk = mem_brk /\ mem_brk + incr > mem_max_addr
      \/ /\ x.brk = mem_brk + incr /\ mem_brk + incr <= mem_max_addr
         /\ x.mem \in Memory
         /\ \A w \in Addr : w # mem_brk - 4 => x.mem[w] = mem[w]
  <2>1. \/ /\ x.p = NULL /\ x.mem = mem /\ x.brk = mem_brk
           /\ incr <= 0 \/ mem_brk + incr > mem_max_addr
        \/ /\ x.p = mem_brk /\ x.brk = mem_brk + incr /\ mem_brk # NULL
           /\ incr > 0 /\ mem_brk + incr <= mem_max_addr
           /\ x.mem \in Memory
           /\ \A w \in Addr : w # mem_brk - 4 => x.mem[w] = mem[w]
    BY <1>3, <1>6, ExtendFacts
  <2>. HIDE DEF x
  <2>. QED  BY <1>6, <2>1
<1>. HIDE DEF x
<1>8. CASE DOMAIN m # DOMAIN mem
  BY <1>1, <1>2, <1>8, WildStep
<1>9. CASE DOMAIN m = DOMAIN mem
  <2>1. mem_brk + incr <= mem_max_addr
    <3>. SUFFICES ASSUME k = mem, ptr + s > mem_max_addr
                  PROVE  FALSE
      BY <1>6, <1>7
    <3>1. DOMAIN mem = Addr /\ DOMAIN m = (DOMAIN mem \cup {BLK_HDRP(ptr)}) \cup {ptr + s - 2 * WSIZE}
      BY <1>3 DEF HeapOK, Memory, SET_BLK, SET
    <3>2. ptr + s - 8 \notin Addr
      BY <1>2, <1>4, RegionAssumption DEF Addr, mem_max_addr
    <3>3. ptr + s - 2 * WSIZE \in DOMAIN m
      BY <3>1
    <3>. HIDE DEF m
    <3>4. ptr + s - 2 * WSIZE \in Addr
      BY <1>9, <3>1, <3>3
    <3>5. ptr + s - 2 * WSIZE = ptr + s - 8
      BY <1>2, <1>4 DEF WSIZE
    <3>. QED  BY <3>2, <3>4, <3>5
  <2>2. /\ x.brk = ptr + s /\ k \in Memory
        /\ \A w \in Addr : w # mem_brk - 4 => k[w] = mem[w]
    <3>1. mem_brk + incr \in Int /\ mem_max_addr \in Int
      BY <1>2, <1>4, <1>6, Layout
    <3>. QED  BY <1>6, <1>7, <2>1, <3>1
  <2>3. ptr + s <= mem_max_addr /\ mem_brk < ptr + s
    BY <1>1, <1>2, <1>4, <1>5, <1>6, <2>1
  <2>4. \A c \in B : ptr <= c => c = ptr \/ BLK_STATE(mem, c) = BLK_FREE
    <3>. SUFFICES ASSUME NEW c \in B, ptr <= c
                  PROVE  c = ptr
      OBVIOUS
    <3>1. c \in Nat /\ c < mem_brk
      BY <1>3, Prologue
    <3>2. mem_brk \in Nat
      BY <1>3 DEF HeapOK
    <3>. QED  BY <1>4, <1>5, <3>1, <3>2
  <2>. HIDE DEF k
  <2>5. ptr \in B \cup {mem_brk}
    BY <1>3
  <2>a. Within(ptr, B, ptr, mem_brk)
    BY <1>3, <1>4, Prologue DEF Within
  <2>b. Carried(mem, k, ptr, ptr, size)
    <3>. SUFFICES ASSUME NEW o \in Nat, o % 4 = 0, o < BLK_AVAL_SIZE(mem, ptr)
                  PROVE  ptr + o \in Addr /\ ptr + o # mem_brk - 4
      BY <2>2 DEF Carried
    <3>1. ptr + o \in Addr
      BY <1>3, HeldAddr
    <3>2. o < BLK_SIZE(mem, ptr) - 8
      BY DEF BLK_AVAL_SIZE, WSIZE
    <3>. QED  BY <1>4, <1>5, <3>1, <3>2
  <2>6. Handed(mem, B, SET_BLK(k, ptr, s, BLK_ALLOC), ptr + s, ptr, ptr, size)
    BY <1>2, <1>3, <2>2, <2>3, <2>4, <2>5, <2>a, <2>b, GrowHands
  <2>7. Handed(mem, B, m, x.brk, ptr, ptr, size) /\ Resized(id, size, m, x.brk, ptr)
    BY <1>1, <1>9, <2>2, <2>6
  <2>. DEFINE brk == x.brk
  <2>8. Handed(mem, B, m, brk, ptr, ptr, size) /\ Resized(id, size, m, brk, ptr)
    BY <2>7
  <2>. HIDE DEF m, brk
  <2>. QED  BY <1>2, <1>3, <2>8, ResizedStep
<1>. QED  BY <1>8, <1>9

\* A block at the tail never reaches the last resort of realloc.
LEMMA TailHasRoom ==
  ASSUME NEW B, HeapOK(mem, mem_brk, B), NEW id \in Ids, blocks[id] \in B,
         blocks[id] # heap_listp, NEXT_BLKP(mem, blocks[id]) = mem_brk, NEW size \in Nat
  PROVE  ~PastNext(id, size)
<1>. DEFINE ptr == blocks[id]
<1>1. heap_listp + 8 <= ptr /\ ptr < mem_brk /\ ptr \in Nat
  BY Block
<1>2. mem[mem_brk - 4] = 0 /\ mem_brk \in Nat
  BY <1>1, Layout DEF HeapOK
<1>3. BLK_STATE(mem, mem_brk) = BLK_FREE /\ BLK_SIZE(mem, mem_brk) = 0
  BY <1>2 DEF BLK_STATE, BLK_SIZE, BLK_HDRP, WSIZE, GET_SIZE, GET_ALLOC, BLK_FREE
<1>4. NextFree(id) /\ EB(mem, NEXT_BLKP(mem, ptr))
  BY <1>3 DEF NextFree, NEXT_BLK_ALLOC, EB
<1>5. NSize(size) \in Nat /\ WithNext(id) \in Nat
  <2>1. NSize(size) \in Nat
    BY DEF NSize, ALIGN, WSIZE
  <2>2. WithNext(id) = BLK_SIZE(mem, ptr)
    BY <1>4, AtEndFacts
  <2>. QED  BY <2>1, <2>2, Block
<1>. QED  BY <1>4, <1>5 DEF PastNext, AtEnd

\* realloc by way of a new block.
LEMMA MoveStep ==
  ASSUME IInv, NEW id \in Ids, NEW size \in Nat, Move(id, size)
  PROVE  IInv'
<1>. DEFINE ptr == blocks[id]
            d == do_malloc(mem, mem_brk, ALIGN(size))
            f == implicit_mm_free(memcpy(d.mem, d.p, ptr, BLK_AVAL_SIZE(mem, ptr)), ptr)
            m == SET_BLK(f.mem, d.p, NSize(size), BLK_ALLOC)
            brk == d.brk
            b == d.p
<1>1. PastNext(id, size) /\ ReallocCall(id, size) /\ NSize(size) > BLK_SIZE(mem, ptr)
  BY DEF Move, PastNext, Grows
<1>2. /\ Idle /\ pc # "boot" /\ pc # "search" /\ NSize(size) \in Nat
      /\ \E B : /\ HeapOK(mem, mem_brk, B) /\ Owned(B) /\ ptr \in B /\ ptr # heap_listp
                /\ BLK_STATE(mem, ptr) = BLK_ALLOC
  BY <1>1, ReallocFacts
<1>3. PICK B : /\ HeapOK(mem, mem_brk, B) /\ Owned(B) /\ ptr \in B /\ ptr # heap_listp
               /\ BLK_STATE(mem, ptr) = BLK_ALLOC
  BY <1>2
<1>4. ptr # TAIL_BLK(mem, mem_brk)
  <2>1. NEXT_BLKP(mem, ptr) # mem_brk
    BY <1>1, <1>3, TailHasRoom
  <2>. QED  BY <1>3, <2>1, TailFacts DEF NEXT_BLKP
<1>5. CASE b = NULL
  <2>1. Deliver(CallArgs(id, size), NULL) /\ UNCHANGED <<mem, mem_brk, searchVars>>
    BY <1>4, <1>5 DEF Move
  <2>2. CallArgs(id, size) \in Calls
    BY ArgsTypes DEF IInv
  <2>3. /\ UNCHANGED <<mem, mem_brk, blocks, block_sizes, FIT, heap_curp, p, oldp, bestp>>
        /\ pc' = "failed" /\ call' \in Calls
    BY <2>1, <2>2 DEF Deliver, searchVars
  <2>4. TypeOK' /\ bestp' = NULL
    BY <1>2, <2>3 DEF IInv, Quiet, TypeOK, TypeOKClient, PC
  <2>5. pc \notin {"boot", "returned", "undefined"}
    BY <1>2 DEF Idle
  <2>. QED  BY <2>3, <2>4, <2>5, StillStep
<1>6. CASE b # NULL
  <2>1. Resized(id, size, m, brk, b)
    BY <1>4, <1>6 DEF Move
  <2>2. BLK_SIZE(mem, ptr) < NSize(size)
    <3>1. BLK_SIZE(mem, ptr) \in Nat
      BY <1>3, Block
    <3>. QED  BY <1>1, <1>2, <3>1
  <2>3. Handed(mem, B, m, brk, ptr, b, size)
    BY <1>3, <1>6, <2>2, MoveHands
  <2>. HIDE DEF m, brk, b
  <2>. QED  BY <1>2, <1>3, <2>1, <2>3, ResizedStep
<1>. QED  BY <1>5, <1>6

\* The client fills the block it was given.
LEMMA FillStep ==
  ASSUME IInv, Fill, UNCHANGED searchVars
  PROVE  IInv'
<1>. DEFINE b == blocks[call.id]
            l == call.size
<1>1. /\ pc = "returned" /\ mem' = memset(mem, b, call.id, l)
      /\ pc' = "client" /\ call' = NoCall
      /\ UNCHANGED <<mem_brk, blocks, block_sizes, FIT, heap_curp, p, oldp, bestp>>
  BY DEF Fill, searchVars
<1>2. TypeOK /\ call \in Calls /\ bestp = NULL
  BY <1>1 DEF IInv, TypeOK, TypeOKClient, Quiet
<1>3. call.id \in Ids /\ l \in Nat
  BY <1>2, CallTypes
<1>4. PICK B : HeapOK(mem, mem_brk, B) /\ Owned(B) /\ Cursors(B)
  BY <1>1 DEF IInv, HeapInv
<1>5. b \in B /\ b # heap_listp /\ l <= BLK_AVAL_SIZE(mem, b)
  BY <1>1, <1>3, <1>4 DEF IInv, Handing, Owned, Live
<1>6. b \in Nat /\ BLK_SIZE(mem, b) \in Nat
  BY <1>4, <1>5, Block
<1>7. b + l <= b + BLK_SIZE(mem, b) - 8
  BY <1>3, <1>5, <1>6 DEF BLK_AVAL_SIZE, WSIZE
<1>8. mem \in Memory
  BY <1>4 DEF HeapOK
<1>. HIDE DEF b, l
<1>9. mem' \in Memory
  BY <1>1, <1>3, <1>8 DEF memset, Memory, Word
<1>10. \A w \in Addr : w < b \/ b + BLK_SIZE(mem, b) - 8 <= w => mem'[w] = mem[w]
  <2>. SUFFICES ASSUME NEW w \in Addr, w < b \/ b + BLK_SIZE(mem, b) - 8 <= w
                PROVE  ~(b <= w /\ w < b + l)
    BY <1>1, <1>8 DEF memset, Memory
  <2>. QED  BY <1>3, <1>6, <1>7 DEF Addr
<1>11. /\ HeapOK(mem', mem_brk, B)
       /\ \A c \in B : BLK_SIZE(mem', c) = BLK_SIZE(mem, c) /\ BLK_STATE(mem', c) = BLK_STATE(mem, c)
       /\ \A c \in B : c # b => SamePayload(mem, mem', c)
  BY <1>4, <1>5, <1>9, <1>10, PayloadFrame
<1>12. HeapOK(mem', mem_brk', B)
  BY <1>1, <1>11
<1>13. Owned(B)'
  BY <1>1, <1>4, <1>11 DEF Owned, Live, BLK_AVAL_SIZE
<1>14. Cursors(B)'
  BY <1>1, <1>4 DEF Cursors
<1>15. HeapInv'
  BY <1>12, <1>13, <1>14 DEF HeapInv
<1>16. TypeOK'
  BY <1>1, <1>2, <1>9, NoCallTypes DEF TypeOK, TypeOKClient, PC, Memory
<1>17. Empty'
  BY <1>1 DEF IInv, Empty, Live
<1>18. ASSUME DataPreserved
       PROVE  DataPreserved'
  <2>1. ASSUME NEW x \in Ids, blocks[x] # NULL, NEW a \in Addr,
               blocks[x] <= a, a < blocks[x] + block_sizes[x]
        PROVE  mem'[a] = x
    <3>1. CASE x = call.id
      <4>1. b <= a /\ a < b + l
        BY <1>1, <2>1, <3>1 DEF IInv, Handing, b, l
      <4>. QED  BY <1>1, <1>8, <3>1, <4>1 DEF memset, Memory
    <3>2. CASE x # call.id
      <4>1. /\ blocks[x] \in B /\ block_sizes[x] <= BLK_AVAL_SIZE(mem, blocks[x])
            /\ \A other \in Ids : blocks[other] = blocks[x] => other = x
        BY <1>4, <2>1 DEF Owned, Live
      <4>2. blocks[x] # b
        BY <1>3, <3>2, <4>1 DEF b
      <4>3. SamePayload(mem, mem', blocks[x]) /\ block_sizes[x] \in Nat
        BY <1>2, <1>11, <4>1, <4>2 DEF TypeOK, TypeOKClient
      <4>4. mem'[a] = mem[a]
        BY <1>4, <2>1, <4>1, <4>3, PayloadStays
      <4>5. Intact(x, block_sizes[x])
        BY <1>1, <1>18, <2>1, <3>2 DEF DataPreserved, Live
      <4>. QED  BY <2>1, <4>4, <4>5 DEF Intact
    <3>. QED  BY <3>1, <3>2
  <2>. QED  BY <1>1, <2>1 DEF DataPreserved, Live, Intact
<1>19. Data'
  BY <1>18 DEF IInv, Data
<1>. QED  BY <1>1, <1>2, <1>15, <1>16, <1>17, <1>19 DEF IInv, Handing, Quiet

\* clean_up clears the region; the word below it keeps what mm_init left there.
LEMMA CleanUpStep ==
  ASSUME IInv, clean_up, UNCHANGED searchVars
  PROVE  IInv'
<1>1. /\ pc = "client" /\ mem' = memset(mem, mem_start_brk, 0, MAX_HEAP)
      /\ mem_brk' = mem_start_brk /\ pc' = "boot" /\ call' = call
      /\ blocks' = [id \in Ids |-> NULL] /\ block_sizes' = [id \in Ids |-> 0]
      /\ UNCHANGED <<FIT, heap_curp, p, oldp, bestp>>
  BY DEF clean_up, mem_clear, mem_reset_brk, Zeroed, searchVars
<1>2. TypeOK /\ bestp = NULL
  BY <1>1 DEF IInv, Quiet
<1>3. mem \in Memory /\ mem[mem_start_brk - 4] \in {0, 1}
  BY <1>1 DEF IInv, HeapInv, HeapOK
<1>4. mem' \in Memory
  BY <1>1, <1>3 DEF memset, Memory, Word
<1>5. mem'[mem_start_brk - 4] = mem[mem_start_brk - 4]
  <2>1. mem_start_brk - 4 \in Addr /\ ~(mem_start_brk <= mem_start_brk - 4)
    BY Layout, RegionAssumption DEF Addr
  <2>. QED  BY <1>1, <1>3, <2>1 DEF memset, Memory
<1>6. \A w \in Addr : mem_start_brk <= w => mem'[w] = 0
  <2>1. \A w \in Addr : w < mem_start_brk + MAX_HEAP
    BY RegionAssumption DEF Addr, mem_max_addr
  <2>. QED  BY <1>1, <1>3, <2>1 DEF memset, Memory
<1>7. Booting'
  BY <1>1, <1>3, <1>5, <1>6 DEF Booting
<1>8. mem_brk' \in mem_start_brk..mem_max_addr /\ mem_brk' % 8 = 0
  BY <1>1, Layout, RegionAssumption
<1>9. TypeOK'
  BY <1>1, <1>2, <1>4, <1>8 DEF TypeOK, TypeOKClient, PC, Memory, NULL
<1>10. Empty' /\ Data'
  BY <1>1 DEF Empty, Data, DataPreserved
<1>. QED  BY <1>1, <1>2, <1>7, <1>9, <1>10 DEF IInv, Handing, Quiet

\* A step that changes nothing.
LEMMA StutterStep ==
  ASSUME IInv, UNCHANGED vars
  PROVE  IInv'
<1>1. UNCHANGED <<mem, mem_brk, blocks, block_sizes, pc, call, FIT, heap_curp, p, oldp, bestp>>
  BY DEF vars, clientVars, searchVars
<1>2. TypeOK'
  BY <1>1 DEF IInv, TypeOK, TypeOKClient
<1>3. Handing' /\ Quiet' /\ (pc' = "boot" => Booting')
  BY <1>1 DEF IInv, Handing, Live, Quiet, Booting
<1>4. ASSUME pc # "boot"
      PROVE  HeapInv'
  <2>1. PICK B : HeapOK(mem, mem_brk, B) /\ Owned(B) /\ Cursors(B)
    BY <1>4 DEF IInv, HeapInv
  <2>2. HeapOK(mem', mem_brk', B) /\ Owned(B)' /\ Cursors(B)'
    BY <1>1, <2>1 DEF Owned, Live, Cursors
  <2>. QED  BY <2>2 DEF HeapInv
<1>5. Empty' /\ Data'
  <2>1. Empty'
    BY <1>1 DEF IInv, Empty, Live
  <2>2. DataPreserved => DataPreserved'
    BY <1>1 DEF DataPreserved, Live, Intact
  <2>. QED  BY <2>1, <2>2 DEF IInv, Data
<1>. QED  BY <1>1, <1>2, <1>3, <1>4, <1>5 DEF IInv

\* Every step keeps Asking: only MallocCall begins a search.
LEMMA AskingStep ==
  ASSUME TypeOK, Empty, Asking, [Next]_vars
  PROVE  Asking'
<1>1. CASE UNCHANGED vars
  BY <1>1 DEF vars, clientVars, Asking, Live
<1>2. CASE implicit_mm_init
  BY <1>2 DEF implicit_mm_init, Asking
<1>3. ASSUME NEW id \in Ids, MallocZero(id) \/ FreeCall(id)
      PROVE  Asking'
  BY <1>3 DEF MallocZero, FreeCall, Deliver, Drop, Asking
<1>4. ASSUME NEW id \in Ids, NEW size \in Sizes, MallocCall(id, size)
      PROVE  Asking'
  <2>1. call' = CallArgs(id, size) /\ blocks' = blocks /\ ~Live(id) /\ size > 0
    BY <1>4 DEF MallocCall
  <2>2. /\ CallArgs(id, size).id = id /\ CallArgs(id, size).size = size
        /\ CallArgs(id, size).ptr = blocks[id] /\ CallArgs(id, size).old = block_sizes[id]
    BY DEF CallArgs
  <2>3. blocks[id] = NULL /\ block_sizes[id] = 0
    BY <2>1 DEF Empty, Live
  <2>. QED  BY <2>1, <2>2, <2>3 DEF Asking, Live
<1>5. ASSUME NEW id \in Ids, NEW size \in Sizes, NEW m, NEW brk, NEW b,
             Resized(id, size, m, brk, b)
      PROVE  Asking'
  BY <1>5 DEF Resized, Deliver, Asking
<1>6. CASE Wild
  BY <1>6 DEF Wild, Asking
<1>7. ASSUME NEW id \in Ids, NEW size \in Sizes,
             \/ MallocFromNull(id, size)
             \/ ReallocInPlace(id, size) \/ GrowIntoNext(id, size) \/ GrowTail(id, size)
             \/ GrowIntoPrev(id, size) \/ Move(id, size)
      PROVE  Asking'
  <2>1. CASE MallocFromNull(id, size)
    BY <1>6, <2>1 DEF MallocFromNull
  <2>2. CASE ReallocInPlace(id, size)
    BY <1>5, <2>2, Zenon DEF ReallocInPlace
  <2>3. CASE GrowIntoNext(id, size)
    BY <1>5, <2>3, Zenon DEF GrowIntoNext
  <2>4. CASE GrowTail(id, size)
    BY <1>5, <1>6, <2>4, Zenon DEF GrowTail
  <2>5. CASE GrowIntoPrev(id, size)
    BY <1>5, <2>5, Zenon DEF GrowIntoPrev
  <2>6. CASE Move(id, size)
    <3>1. Deliver(CallArgs(id, size), NULL) => Asking'
      BY DEF Deliver, Asking
    <3>. QED  BY <1>5, <1>6, <2>6, <3>1, Zenon DEF Move
  <2>. QED  BY <1>7, <2>1, <2>2, <2>3, <2>4, <2>5, <2>6
<1>8. ASSUME NEW m, NEW brk, NEW b, Return(m, brk, b)
      PROVE  Asking'
  BY <1>8 DEF Return, Deliver, Asking
<1>9. ASSUME pc = "search", NotFound
      PROVE  Asking'
  BY <1>9 DEF NotFound, Asking, Live
<1>10. ASSUME NEW b, pc = "search", PlaceIn(b)
       PROVE  Asking'
  BY <1>8, <1>9, <1>10, Zenon DEF PlaceIn
<1>11. CASE FindFit
  <2>1. ASSUME UNCHANGED clientVars
        PROVE  Asking'
    BY <2>1 DEF clientVars, Asking, Live
  <2>2. CASE SearchHit
    BY <1>10, <2>2, Zenon DEF SearchHit
  <2>3. CASE FirstFitNext \/ BestFitNext
    BY <2>1, <2>3 DEF FirstFitNext, BestFitNext
  <2>4. CASE FirstFitMiss
    BY <1>9, <2>4 DEF FirstFitMiss
  <2>5. CASE NextFitNext
    BY <1>9, <2>1, <2>5 DEF NextFitNext
  <2>6. CASE BestFitEnd
    BY <1>9, <1>10, <2>6, Zenon DEF BestFitEnd
  <2>. QED  BY <1>11, <2>2, <2>3, <2>4, <2>5, <2>6 DEF FindFit
<1>12. CASE Extend
  BY <1>8, <1>12, Zenon DEF Extend
<1>13. CASE Fill \/ clean_up
  BY <1>13 DEF Fill, clean_up, Asking
<1>14. CASE Undefined
  BY <1>1, <1>14 DEF Undefined
<1>. QED  BY <1>1, <1>2, <1>3, <1>4, <1>7, <1>11, <1>12, <1>13, <1>14 DEF Next

\* The invariant holds at the start.
LEMMA InitInv == Init => IInv
<1>. SUFFICES ASSUME Init
              PROVE  IInv
  OBVIOUS
<1>1. /\ mem = [a \in Addr |-> 0] /\ mem_brk = mem_start_brk
      /\ blocks = [id \in Ids |-> NULL] /\ block_sizes = [id \in Ids |-> 0]
      /\ pc = "boot" /\ call = NoCall /\ FIT \in Strategies
      /\ heap_curp = NULL /\ p = NULL /\ oldp = NULL /\ bestp = NULL
  BY DEF Init, InitClient, mem_init
<1>2. mem \in [Addr -> Word]
  BY <1>1 DEF Word
<1>3. mem_brk \in mem_start_brk..mem_max_addr /\ mem_brk % 8 = 0
  BY <1>1, Layout, RegionAssumption
<1>4. TypeOK
  BY <1>1, <1>2, <1>3, NoCallTypes DEF TypeOK, TypeOKClient, PC, NULL
<1>5. Booting
  <2>1. mem_start_brk - 4 \in Addr
    BY Layout, RegionAssumption DEF Addr
  <2>. QED  BY <1>1, <2>1 DEF Booting
<1>6. Empty /\ Data
  BY <1>1 DEF Empty, Data, DataPreserved
<1>. QED  BY <1>1, <1>4, <1>5, <1>6 DEF IInv, Handing, Quiet

\* Every step keeps the invariant.
LEMMA NextInv == IInv /\ Asking /\ [Next]_vars => IInv'
<1>. SUFFICES ASSUME IInv, Asking, [Next]_vars
              PROVE  IInv'
  OBVIOUS
<1>0. Sizes \subseteq Nat
  BY ClientAssumption
<1>1. CASE implicit_mm_init
  BY <1>1, InitStep
<1>2. ASSUME NEW id \in Ids, MallocZero(id) \/ FreeCall(id)
      PROVE  IInv'
  BY <1>2, MallocZeroStep, FreeStep
<1>3. ASSUME NEW id \in Ids, NEW size \in Sizes,
             \/ MallocCall(id, size) \/ MallocFromNull(id, size)
             \/ ReallocInPlace(id, size) \/ GrowIntoNext(id, size) \/ GrowTail(id, size)
             \/ GrowIntoPrev(id, size) \/ Move(id, size)
      PROVE  IInv'
  <2>0. size \in Nat
    BY <1>0
  <2>1. CASE MallocCall(id, size)
    BY <2>0, <2>1, MallocCallStep
  <2>2. CASE MallocFromNull(id, size)
    BY <2>2, WildStep DEF MallocFromNull
  <2>3. CASE ReallocInPlace(id, size)
    BY <2>0, <2>3, InPlaceStep
  <2>4. CASE GrowIntoNext(id, size)
    BY <2>0, <2>4, IntoNextStep
  <2>5. CASE GrowTail(id, size)
    BY <2>0, <2>5, GrowTailStep
  <2>6. CASE GrowIntoPrev(id, size)
    BY <2>0, <2>6, IntoPrevStep
  <2>7. CASE Move(id, size)
    BY <2>0, <2>7, MoveStep
  <2>. QED  BY <1>3, <2>1, <2>2, <2>3, <2>4, <2>5, <2>6, <2>7
<1>4. CASE FindFit
  BY <1>4, FindFitStep
<1>5. CASE Extend
  BY <1>5, ExtendStep
<1>6. CASE Fill /\ UNCHANGED searchVars
  BY <1>6, FillStep
<1>7. CASE clean_up /\ UNCHANGED searchVars
  BY <1>7, CleanUpStep
<1>8. CASE Undefined
  BY <1>8, StutterStep DEF Undefined
<1>9. CASE UNCHANGED vars
  BY <1>9, StutterStep
<1>. QED  BY <1>1, <1>2, <1>3, <1>4, <1>5, <1>6, <1>7, <1>8, <1>9 DEF Next

\* The inductive invariant holds throughout.
THEOREM Invariance == Spec => [](IInv /\ Asking)
<1>1. Init => IInv /\ Asking
  BY InitInv DEF Init, InitClient, Asking
<1>2. IInv => TypeOK /\ Empty
  BY DEF IInv
<1>3. IInv /\ Asking /\ [Next]_vars => IInv' /\ Asking'
  BY <1>2, NextInv, AskingStep
<1>. QED  BY <1>1, <1>3, PTL DEF Spec

\* No operation of implicit.c stores outside the memory memlib gave it, and the
\* break stays in the region: every store of place, coalesce, extend_heap and
\* the branches of realloc lands on a word of the region, or the call is the one
\* GrowTail gives up on.
THEOREM TypeCorrect == Spec => []TypeOK
<1>1. IInv => TypeOK
  BY DEF IInv
<1>. QED  BY <1>1, Invariance, PTL

\* Blocks the client holds are apart because the blocks of a tiled heap are.
LEMMA HeldApart ==
  ASSUME NEW B, HeapOK(mem, mem_brk, B), Owned(B), block_sizes \in [Ids -> Nat],
         NEW id \in Ids, Live(id)
  PROVE  /\ blocks[id] % 8 = 0 /\ mem_start_brk <= blocks[id]
         /\ blocks[id] + block_sizes[id] <= mem_brk
         /\ \A other \in Ids : Live(other) /\ blocks[id] < blocks[other]
              => blocks[id] + block_sizes[id] <= blocks[other]
<1>. DEFINE b == blocks[id]
            n == block_sizes[id]
<1>1. b \in B /\ n <= BLK_AVAL_SIZE(mem, b) /\ n \in Nat
  BY DEF Owned
<1>2. /\ b \in Nat /\ b % 8 = 0 /\ mem_start_brk + 8 <= b
      /\ BLK_SIZE(mem, b) \in Nat /\ b + BLK_SIZE(mem, b) <= mem_brk
      /\ \A c \in B : b < c => b + BLK_SIZE(mem, b) <= c
  BY <1>1, Block
<1>3. mem_start_brk <= b
  BY <1>2, Layout
<1>4. b + n <= b + BLK_SIZE(mem, b)
  BY <1>1, <1>2 DEF BLK_AVAL_SIZE, WSIZE
<1>5. mem_brk \in Nat
  BY DEF HeapOK
<1>6. b + n <= mem_brk
  BY <1>1, <1>2, <1>4, <1>5
<1>7. ASSUME NEW other \in Ids, Live(other), b < blocks[other]
      PROVE  b + n <= blocks[other]
  <2>1. blocks[other] \in B
    BY <1>7 DEF Owned
  <2>2. blocks[other] \in Nat
    BY <2>1, Block
  <2>. QED  BY <1>1, <1>2, <1>4, <1>7, <2>1, <2>2
<1>. QED  BY <1>2, <1>3, <1>6, <1>7

\* The inductive invariant implies that the client's blocks are apart.
LEMMA InvDisjoint == IInv => PayloadsDisjoint
<1>. SUFFICES ASSUME IInv, NEW id \in Ids, Live(id)
              PROVE  /\ blocks[id] % ALIGNMENT = 0
                     /\ mem_start_brk <= blocks[id] /\ blocks[id] + block_sizes[id] <= mem_brk
                     /\ \A other \in Ids \ {id} : Live(other) =>
                           \/ blocks[id] + block_sizes[id] <= blocks[other]
                           \/ blocks[other] + block_sizes[other] <= blocks[id]
  BY DEF PayloadsDisjoint
<1>1. pc # "boot"
  BY DEF IInv, Booting, Live
<1>2. PICK B : HeapOK(mem, mem_brk, B) /\ Owned(B)
  BY <1>1 DEF IInv, HeapInv
<1>3. block_sizes \in [Ids -> Nat] /\ blocks \in [Ids -> Nat]
  BY DEF IInv, TypeOK, TypeOKClient
<1>4. /\ blocks[id] % 8 = 0 /\ mem_start_brk <= blocks[id]
      /\ blocks[id] + block_sizes[id] <= mem_brk
  BY <1>2, <1>3, HeldApart
<1>5. ASSUME NEW other \in Ids \ {id}, Live(other)
      PROVE  \/ blocks[id] + block_sizes[id] <= blocks[other]
             \/ blocks[other] + block_sizes[other] <= blocks[id]
  <2>1. blocks[other] # blocks[id]
    BY <1>2, <1>5 DEF Owned
  <2>2. CASE blocks[id] < blocks[other]
    BY <1>2, <1>3, <1>5, <2>2, HeldApart
  <2>3. CASE blocks[other] < blocks[id]
    BY <1>2, <1>3, <1>5, <2>3, HeldApart
  <2>4. blocks[id] \in Nat /\ blocks[other] \in Nat
    BY <1>3
  <2>. QED  BY <2>1, <2>2, <2>3, <2>4
<1>. QED  BY <1>4, <1>5 DEF ALIGNMENT

\* Whatever sequence of malloc, realloc and free a client makes, and whichever
\* strategy implicit.c is built with, every block it holds is aligned, inside the
\* heap and apart from all others: what the driver's add_range looks for.
THEOREM Disjoint == Spec => []PayloadsDisjoint
BY InvDisjoint, Invariance, PTL

\* The blocks the walk from the prologue meets are those of the invariant.
LEMMA InvBlks ==
  ASSUME IInv, pc # "boot"
  PROVE  HeapOK(mem, mem_brk, Blks) /\ Owned(Blks) /\ Cursors(Blks)
<1>1. PICK B : HeapOK(mem, mem_brk, B) /\ Owned(B) /\ Cursors(B)
  BY DEF IInv, HeapInv
<1>2. Tiling(mem, heap_listp, mem_brk, B) /\ mem_brk \in Int /\ heap_listp \in Int
  BY <1>1, Layout DEF HeapOK
<1>3. Blks = B
  BY <1>2, ChainTiling DEF Blks
<1>. QED  BY <1>1, <1>3

\* The inductive invariant implies that the heap is consistent.
LEMMA InvConsistent == IInv => HeapConsistent
<1>. SUFFICES ASSUME IInv, Ready
              PROVE  /\ Tiling(mem, heap_listp, mem_brk, Blks)
                     /\ EB(mem, mem_brk)
                     /\ {b \in Blks : ~IsFree(b)}
                          = {heap_listp} \cup {blocks[id] : id \in {x \in Ids : Live(x)}}
                     /\ \A id \in Ids : Live(id) => block_sizes[id] <= BLK_AVAL_SIZE(mem, blocks[id])
  BY DEF HeapConsistent
<1>1. HeapOK(mem, mem_brk, Blks) /\ Owned(Blks)
  BY InvBlks DEF Ready
<1>2. Tiling(mem, heap_listp, mem_brk, Blks) /\ heap_listp \in Blks
  BY <1>1, Prologue DEF HeapOK
<1>3. EB(mem, mem_brk)
  BY <1>1, Prologue, NextFacts DEF EB
<1>4. BLK_STATE(mem, heap_listp) = BLK_ALLOC
  BY <1>1 DEF HeapOK
<1>5. NULL \notin Blks
  BY <1>1, NotNull
<1>6. ASSUME NEW b \in Blks
      PROVE  ~IsFree(b) <=> BLK_STATE(mem, b) = BLK_ALLOC
  BY <1>1, Block DEF IsFree, BLK_FREE, BLK_ALLOC
<1>. DEFINE L == {blocks[id] : id \in {x \in Ids : Live(x)}}
<1>7. ASSUME NEW b \in Blks, BLK_STATE(mem, b) = BLK_ALLOC, b # heap_listp
      PROVE  b \in L
  <2>1. PICK id \in Ids : blocks[id] = b
    BY <1>1, <1>7 DEF Owned
  <2>. QED  BY <1>5, <2>1 DEF Live
<1>8. ASSUME NEW b \in L
      PROVE  b \in Blks /\ BLK_STATE(mem, b) = BLK_ALLOC
  BY <1>1 DEF Owned
<1>9. {b \in Blks : ~IsFree(b)} = {heap_listp} \cup L
  BY <1>2, <1>4, <1>6, <1>7, <1>8
<1>10. \A id \in Ids : Live(id) => block_sizes[id] <= BLK_AVAL_SIZE(mem, blocks[id])
  BY <1>1 DEF Owned
<1>. QED  BY <1>2, <1>3, <1>9, <1>10

\* After every call on implicit.c the blocks tile the heap from the prologue to
\* the word that ends the list, each footer repeats its header, and exactly the
\* blocks the client holds are marked allocated: no split, join or move loses a
\* block or hands it out twice.
THEOREM Consistent == Spec => []HeapConsistent
BY Invariance, InvConsistent, PTL

\* Whatever sequence of calls a client makes, what it wrote to a block is there
\* until it frees the block: no split, join, tag or copy of implicit.c touches the
\* data of another block, and a realloc returns a block that starts with the data
\* of the old one.  For a memcpy that copies upwards: GrowIntoPrev hands it areas
\* that overlap.
THEOREM DataKept ==
  ASSUME ~MemcpyDescends
  PROVE  Spec => []DataPreserved
<1>1. IInv => DataPreserved
  BY DEF IInv, Data
<1>. QED  BY <1>1, Invariance, PTL

\* next_fit's cursor is the payload of a block whenever it is not NULL, however
\* the block it was set on has been split, joined or moved since.
THEOREM CursorNeverDangles == Spec => []CursorValid
<1>1. IInv => CursorValid
  BY InvBlks DEF CursorValid, Ready, Cursors
<1>. QED  BY <1>1, Invariance, PTL

-----------------------------------------------------------------------------

\* The step of TailGrowsInPlace.
TailStep ==
  \A id \in Ids :
    (Live(id) /\ blocks'[id] # NULL /\ NEXT_BLKP(mem, blocks[id]) = mem_brk)
      => blocks'[id] = blocks[id]

\* A realloc of block id changes no other pointer.
LEMMA OthersStay ==
  ASSUME TypeOK, NEW id \in Ids, NEW size \in Sizes, NEW m, NEW brk, NEW b,
         Resized(id, size, m, brk, b)
  PROVE  /\ \A other \in Ids : other # id => blocks'[other] = blocks[other]
         /\ b # NULL => blocks'[id] = b
         /\ b = NULL => blocks' = blocks
<1>1. CallArgs(id, size).id = id
  BY DEF CallArgs
<1>2. blocks \in [Ids -> Nat]
  BY DEF TypeOK, TypeOKClient
<1>. QED  BY <1>1, <1>2 DEF Resized, Deliver

\* No step moves the block at the end of the heap.
LEMMA TailInv == IInv /\ Asking /\ [Next]_vars => [TailStep]_vars
<1>. SUFFICES ASSUME IInv, Asking, Next
              PROVE  TailStep
  OBVIOUS
<1>0. TypeOK /\ blocks \in [Ids -> Nat]
  BY DEF IInv, TypeOK, TypeOKClient
<1>1. ASSUME blocks' = blocks
      PROVE  TailStep
  BY <1>1 DEF TailStep
<1>2. CASE \/ implicit_mm_init \/ Fill \/ Undefined
  BY <1>1, <1>2 DEF implicit_mm_init, Fill, Undefined, vars, clientVars
<1>3. CASE clean_up
  BY <1>3 DEF clean_up, TailStep
<1>4. ASSUME NEW id \in Ids, MallocZero(id)
      PROVE  TailStep
  BY <1>1, <1>4 DEF MallocZero, Deliver
<1>5. ASSUME NEW id \in Ids, FreeCall(id)
      PROVE  TailStep
  BY <1>0, <1>5 DEF FreeCall, Drop, TailStep
<1>6. CASE Wild
  BY <1>1, <1>6 DEF Wild
<1>7. ASSUME NEW id \in Ids, NEW size \in Sizes, MallocCall(id, size) \/ MallocFromNull(id, size)
      PROVE  TailStep
  BY <1>1, <1>6, <1>7 DEF MallocCall, MallocFromNull
<1>8. ASSUME NEW id \in Ids, NEW size \in Sizes, NEW m, NEW brk, Resized(id, size, m, brk, blocks[id])
      PROVE  TailStep
  BY <1>0, <1>1, <1>8, OthersStay DEF TailStep
<1>9. ASSUME NEW id \in Ids, NEW size \in Sizes,
             ReallocInPlace(id, size) \/ GrowIntoNext(id, size) \/ GrowTail(id, size)
      PROVE  TailStep
  <2>1. CASE ReallocInPlace(id, size)
    BY <1>8, <2>1, Zenon DEF ReallocInPlace
  <2>2. CASE GrowIntoNext(id, size)
    BY <1>8, <2>2, Zenon DEF GrowIntoNext
  <2>3. CASE GrowTail(id, size)
    BY <1>6, <1>8, <2>3, Zenon DEF GrowTail
  <2>. QED  BY <1>9, <2>1, <2>2, <2>3
<1>10. ASSUME NEW id \in Ids, NEW size \in Sizes, PastNext(id, size)
       PROVE  NEXT_BLKP(mem, blocks[id]) # mem_brk
  <2>1. size \in Nat /\ ReallocCall(id, size)
    BY <1>10, ClientAssumption DEF PastNext, Grows
  <2>2. PICK B : HeapOK(mem, mem_brk, B) /\ blocks[id] \in B /\ blocks[id] # heap_listp
    BY <2>1, ReallocFacts
  <2>. QED  BY <1>10, <2>1, <2>2, TailHasRoom
<1>11. ASSUME NEW id \in Ids, NEW size \in Sizes, PastNext(id, size),
              NEW m, NEW brk, NEW b, Resized(id, size, m, brk, b)
       PROVE  TailStep
  <2>1. \A other \in Ids : other # id => blocks'[other] = blocks[other]
    BY <1>0, <1>11, OthersStay
  <2>. QED  BY <1>10, <1>11, <2>1 DEF TailStep
<1>12. ASSUME NEW id \in Ids, NEW size \in Sizes, GrowIntoPrev(id, size) \/ Move(id, size)
       PROVE  TailStep
  <2>1. CASE GrowIntoPrev(id, size)
    BY <1>11, <2>1, Zenon DEF GrowIntoPrev
  <2>2. CASE Move(id, size)
    <3>1. Deliver(CallArgs(id, size), NULL) => TailStep
      BY <1>1 DEF Deliver
    <3>. QED  BY <1>6, <1>11, <2>2, <3>1, Zenon DEF Move
  <2>. QED  BY <1>12, <2>1, <2>2
<1>13. ASSUME NEW m, NEW brk, NEW b, ~Live(call.id), call \in Calls, Return(m, brk, b)
       PROVE  TailStep
  <2>1. blocks' = blocks \/ blocks' = [blocks EXCEPT ![call.id] = b]
    BY <1>13 DEF Return, Deliver
  <2>. QED  BY <1>0, <1>1, <1>13, <2>1 DEF Live, TailStep
<1>14. CASE NotFound
  BY <1>1, <1>14 DEF NotFound
<1>15. ASSUME NEW b, pc = "search", PlaceIn(b)
       PROVE  TailStep
  <2>1. ~Live(call.id) /\ call \in Calls
    BY <1>0, <1>15 DEF Asking, TypeOK, TypeOKClient
  <2>. QED  BY <1>13, <1>14, <1>15, <2>1, Zenon DEF PlaceIn
<1>16. CASE FindFit
  <2>1. ASSUME UNCHANGED clientVars
        PROVE  TailStep
    BY <1>1, <2>1 DEF clientVars
  <2>2. CASE SearchHit
    BY <1>15, <2>2, Zenon DEF SearchHit
  <2>3. CASE FirstFitNext \/ BestFitNext
    BY <2>1, <2>3 DEF FirstFitNext, BestFitNext
  <2>4. CASE FirstFitMiss
    BY <1>14, <2>4 DEF FirstFitMiss
  <2>5. CASE NextFitNext
    BY <1>14, <2>1, <2>5 DEF NextFitNext
  <2>6. CASE BestFitEnd
    BY <1>14, <1>15, <2>6, Zenon DEF BestFitEnd
  <2>. QED  BY <1>16, <2>2, <2>3, <2>4, <2>5, <2>6 DEF FindFit
<1>17. CASE Extend
  <2>1. ~Live(call.id) /\ call \in Calls
    BY <1>0, <1>17 DEF Asking, TypeOK, TypeOKClient, Extend
  <2>. QED  BY <1>13, <1>17, <2>1, Zenon DEF Extend
<1>. QED  BY <1>2, <1>3, <1>4, <1>5, <1>7, <1>9, <1>12, <1>16, <1>17 DEF Next

\* The block at the end of the heap is never moved by realloc, so the branch of
\* implicit_mm_realloc for ptr == TAIL_BLK(), which would return the old break
\* as the block, is dead code.
THEOREM TailStays == Spec => TailGrowsInPlace
BY Invariance, TailInv, PTL DEF Spec, TailGrowsInPlace, TailStep

-----------------------------------------------------------------------------
(***************************************************************************)
(* What a search has passed.  first_fit and best_fit have passed the       *)
(* blocks below p; next_fit those from where it began up to p, round the   *)
(* end of the list if p is below that.                                     *)
(***************************************************************************)
Passed(b) == IF oldp <= p THEN oldp <= b /\ b < p ELSE oldp <= b \/ b < p

Looked ==
  /\ FIT = "first" => \A b \in Blks : b < p => ~Fits(b)
  /\ FIT = "next" => /\ oldp \in Blks \cup {mem_brk}
                     /\ \A b \in Blks : Passed(b) => ~Fits(b)
  /\ FIT = "best" => /\ bestp # NULL => Fits(bestp)
                     /\ \A b \in Blks : b < p /\ Fits(b) =>
                          bestp # NULL /\ BLK_SIZE(mem, bestp) <= BLK_SIZE(mem, b)

\* The search or the malloc has ended without a block.
GivenUp == pc = "extend" \/ (pc = "failed" /\ call.ptr = NULL /\ call.size > 0)

SearchInv ==
  /\ pc = "search" => Looked
  /\ GivenUp => \A b \in Blks : ~Fits(b)

\* The list as a search walks it: no block lies between one and the next, and
\* only the end of the list has size 0.
LEMMA SearchWalk ==
  ASSUME IInv, pc # "boot"
  PROVE  /\ heap_listp \in Blks /\ NULL \notin Blks /\ mem_brk \in Nat /\ mem_brk # NULL
         /\ EB(mem, mem_brk) /\ heap_listp \in Nat
         /\ \A b \in Blks :
              /\ b \in Nat /\ heap_listp <= b /\ b < mem_brk
              /\ ~EB(mem, b)
              /\ NEXT_BLKP(mem, b) \in Blks \cup {mem_brk}
              /\ NEXT_BLKP(mem, b) \in Nat /\ b < NEXT_BLKP(mem, b)
              /\ BLK_SIZE(mem, b) \in Nat /\ BLK_AVAL_SIZE(mem, b) < MAX_HEAP
              /\ \A c \in Blks \cup {mem_brk} : b < c => NEXT_BLKP(mem, b) <= c
<1>1. HeapOK(mem, mem_brk, Blks)
  BY InvBlks
<1>2. /\ Tiling(mem, heap_listp, mem_brk, Blks) /\ mem_brk \in Nat /\ heap_listp \in Nat
      /\ mem_brk <= mem_max_addr
  BY <1>1, Layout DEF HeapOK
<1>3. heap_listp \in Blks /\ NULL \notin Blks /\ mem_brk # NULL
  BY <1>1, Prologue, HeapTypes
<1>4. EB(mem, mem_brk)
  BY <1>1, <1>3, NextFacts DEF EB
<1>5. ASSUME NEW b \in Blks
      PROVE  /\ b \in Nat /\ heap_listp <= b /\ b < mem_brk
             /\ ~EB(mem, b)
             /\ NEXT_BLKP(mem, b) \in Blks \cup {mem_brk}
             /\ NEXT_BLKP(mem, b) \in Nat /\ b < NEXT_BLKP(mem, b)
             /\ BLK_SIZE(mem, b) \in Nat /\ BLK_AVAL_SIZE(mem, b) < MAX_HEAP
             /\ \A c \in Blks \cup {mem_brk} : b < c => NEXT_BLKP(mem, b) <= c
  <2>1. b \in Nat /\ b < mem_brk /\ heap_listp <= b
    BY <1>1, <1>2, Prologue DEF Tiling
  <2>2. /\ BLK_SIZE(mem, b) \in Nat /\ BLK_SIZE(mem, b) >= 8
        /\ b + BLK_SIZE(mem, b) \in Blks \cup {mem_brk} /\ b + BLK_SIZE(mem, b) <= mem_brk
    BY <1>2, TilingBlock
  <2>3. \A c \in Blks : b < c => b + BLK_SIZE(mem, b) <= c
    BY <1>2 DEF Tiling
  <2>4. BLK_SIZE(mem, b) - 8 < MAX_HEAP
    <3>1. mem_max_addr = mem_start_brk + MAX_HEAP /\ mem_start_brk \in Nat /\ MAX_HEAP \in Nat
      BY RegionAssumption DEF mem_max_addr
    <3>. QED  BY <1>2, <2>1, <2>2, <3>1, Layout
  <2>. QED  BY <1>2, <2>1, <2>2, <2>3, <2>4 DEF NEXT_BLKP, BLK_AVAL_SIZE, WSIZE, EB
<1>. QED  BY <1>2, <1>3, <1>4, <1>5

\* place takes a block that fits.
LEMMA PlaceFits ==
  ASSUME NEW b, Fits(b), BLK_SIZE(mem, b) \in Nat, call.size \in Nat
  PROVE  place(mem, b, ALIGN(call.size)).p = b
<1>1. ALIGN(ALIGN(call.size)) = ALIGN(call.size)
  <2>1. ALIGN(call.size) \in Nat /\ ALIGN(call.size) % 8 = 0
    BY AlignFacts
  <2>. QED  BY <2>1 DEF ALIGN
<1>2. /\ ALIGN(call.size) \in Nat
      /\ ~(ALIGN(call.size) + 2 * WSIZE > BLK_SIZE(mem, b))
  BY AlignFacts DEF Fits, BLK_AVAL_SIZE, WSIZE
<1>3. BLK_STATE(mem, b) # BLK_ALLOC
  BY DEF Fits, BLK_FREE, BLK_ALLOC
<1>. QED  BY <1>1, <1>2, <1>3 DEF place

\* The step of FitAsPromised.
FitStep ==
  (pc = "search" /\ pc' = "returned") =>
    \A b \in Blks : Fits(b) =>
      /\ FIT = "first" => blocks'[call.id] <= b
      /\ FIT = "best" => BLK_SIZE(mem, blocks'[call.id]) <= BLK_SIZE(mem, b)

\* A search that ends with the block b, which fits.
LEMMA HitSearch ==
  ASSUME IInv, pc = "search", NEW b \in Blks, Fits(b), PlaceIn(b)
  PROVE  pc' = "returned" /\ blocks'[call.id] = b
<1>1. /\ BLK_SIZE(mem, b) \in Nat /\ b # NULL
      /\ call \in Calls /\ call.size \in Nat /\ call.id \in Ids /\ blocks \in [Ids -> Nat]
  BY SearchWalk, CallTypes DEF IInv, TypeOK, TypeOKClient
<1>. DEFINE r == place(mem, b, ALIGN(call.size))
<1>2. r.p = b
  BY <1>1, PlaceFits
<1>3. Return(r.mem, mem_brk, b)
  BY <1>1, <1>2, Zenon DEF PlaceIn
<1>. QED  BY <1>1, <1>3 DEF Return, Deliver

\* A search that ends without a block after all have been passed.
LEMMA MissSearch ==
  ASSUME NotFound, \A b \in Blks : ~Fits(b)
  PROVE  SearchInv' /\ FitStep
<1>1. /\ UNCHANGED <<mem, mem_brk, call>> /\ pc' = "extend"
  BY DEF NotFound
<1>2. Blks' = Blks /\ \A b : Fits(b)' <=> Fits(b)
  BY <1>1 DEF Blks, Fits
<1>. QED  BY <1>1, <1>2 DEF SearchInv, FitStep, GivenUp

\* first_fit.
LEMMA FirstSearch ==
  ASSUME IInv, SearchInv, FIT = "first", FirstFitNext \/ FirstFitMiss
  PROVE  SearchInv' /\ FitStep
<1>1. pc = "search" /\ \A b \in Blks : b < p => ~Fits(b)
  BY DEF FirstFitNext, FirstFitMiss, SearchInv, Looked
<1>2. p \in Blks \cup {mem_brk}
  BY <1>1, InvBlks DEF Cursors
<1>3. CASE FirstFitMiss
  <2>1. p = mem_brk /\ \A b \in Blks : b < mem_brk
    BY <1>1, <1>2, <1>3, SearchWalk DEF FirstFitMiss
  <2>2. NotFound /\ \A b \in Blks : ~Fits(b)
    BY <1>1, <1>3, <2>1 DEF FirstFitMiss
  <2>. QED  BY <2>2, MissSearch
<1>4. CASE FirstFitNext
  <2>1. /\ UNCHANGED <<mem, mem_brk, FIT, pc, call>> /\ p' = NEXT_BLKP(mem, p)
        /\ ~EB(mem, p) /\ ~Fits(p)
    BY <1>4 DEF FirstFitNext, clientVars
  <2>2. p \in Blks
    BY <1>1, <1>2, <2>1, SearchWalk
  <2>3. Blks' = Blks /\ \A b : Fits(b)' <=> Fits(b)
    BY <2>1 DEF Blks, Fits
  <2>4. ASSUME NEW b \in Blks, b < NEXT_BLKP(mem, p)
        PROVE  ~Fits(b)
    <3>1. b \in Nat /\ p \in Nat /\ NEXT_BLKP(mem, p) \in Nat /\ (p < b => NEXT_BLKP(mem, p) <= b)
      BY <1>1, <2>2, SearchWalk
    <3>2. b < p \/ b = p
      BY <2>4, <3>1
    <3>. QED  BY <1>1, <2>1, <3>2
  <2>. QED  BY <1>1, <2>1, <2>3, <2>4 DEF SearchInv, Looked, GivenUp, FitStep
<1>. QED  BY <1>3, <1>4

\* next_fit.
LEMMA NextSearch ==
  ASSUME IInv, SearchInv, NextFitNext
  PROVE  SearchInv' /\ FitStep
<1>. DEFINE next == IF EB(mem, p) THEN heap_listp ELSE NEXT_BLKP(mem, p)
<1>1. /\ pc = "search" /\ FIT = "next" /\ (EB(mem, p) \/ ~Fits(p))
      /\ oldp \in Blks \cup {mem_brk} /\ \A b \in Blks : Passed(b) => ~Fits(b)
  BY DEF NextFitNext, SearchInv, Looked
<1>2. p \in Blks \cup {mem_brk}
  BY <1>1, InvBlks DEF Cursors
<1>3. /\ \A b \in Blks : b \in Nat /\ heap_listp <= b /\ b < mem_brk
      /\ mem_brk \in Nat /\ heap_listp \in Nat /\ heap_listp \in Blks
      /\ EB(mem, mem_brk) /\ \A b \in Blks : ~EB(mem, b)
  BY <1>1, SearchWalk
<1>4. p \in Nat /\ oldp \in Nat /\ heap_listp <= oldp /\ oldp <= mem_brk /\ heap_listp < mem_brk
  BY <1>1, <1>2, <1>3
<1>5. CASE p = mem_brk
  <2>1. next = heap_listp
    BY <1>3, <1>5
  <2>2. ASSUME NEW b \in Blks, oldp <= b
        PROVE  ~Fits(b)
    BY <1>1, <1>3, <1>4, <1>5, <2>2 DEF Passed
  <2>3. CASE next = oldp
    <3>1. NotFound
      BY <2>3 DEF NextFitNext
    <3>2. \A b \in Blks : ~Fits(b)
      BY <1>3, <2>1, <2>2, <2>3
    <3>. QED  BY <3>1, <3>2, MissSearch
  <2>4. CASE next # oldp
    <3>1. /\ UNCHANGED <<mem, mem_brk, FIT, pc, call, oldp>> /\ p' = heap_listp
      BY <2>1, <2>4 DEF NextFitNext, clientVars
    <3>2. Blks' = Blks /\ \A b : Fits(b)' <=> Fits(b)
      BY <3>1 DEF Blks, Fits
    <3>3. ASSUME NEW b \in Blks, Passed(b)'
          PROVE  ~Fits(b)
      <4>1. ~(oldp <= heap_listp)
        <5>1. oldp # heap_listp /\ heap_listp \in Nat
          BY <1>3, <2>1, <2>4
        <5>. QED  BY <1>4, <5>1
      <4>2. oldp <= b \/ b < heap_listp
        BY <3>1, <3>3, <4>1 DEF Passed
      <4>3. b \in Nat /\ heap_listp <= b
        BY <1>3
      <4>. QED  BY <1>3, <2>2, <4>2, <4>3
    <3>. QED  BY <1>1, <3>1, <3>2, <3>3 DEF SearchInv, Looked, GivenUp, FitStep
  <2>. QED  BY <2>3, <2>4
<1>6. CASE p # mem_brk
  <2>1. p \in Blks /\ ~Fits(p) /\ next = NEXT_BLKP(mem, p)
    BY <1>1, <1>2, <1>3, <1>6
  <2>2. /\ next \in Nat /\ p < next /\ \A c \in Blks \cup {mem_brk} : p < c => next <= c
    BY <1>1, <2>1, SearchWalk
  <2>. HIDE DEF next
  <2>3. ASSUME NEW b \in Blks,
               IF oldp <= next /\ oldp <= p THEN oldp <= b /\ b < next ELSE oldp <= b \/ b < next
        PROVE  ~Fits(b)
    <3>1. b \in Nat /\ (b < next => b <= p)
      BY <1>3, <1>4, <2>2
    <3>2. b = p \/ Passed(b)
      BY <1>4, <2>2, <2>3, <3>1 DEF Passed
    <3>. QED  BY <1>1, <2>1, <3>2
  <2>4. CASE next = oldp
    <3>1. NotFound
      BY <2>4 DEF NextFitNext, next
    <3>2. ~(oldp <= p)
      BY <1>4, <2>2, <2>4
    <3>3. ASSUME NEW b \in Blks
          PROVE  ~Fits(b)
      <4>1. oldp <= b \/ b < next
        BY <1>3, <1>4, <2>4
      <4>. QED  BY <2>3, <3>2, <4>1
    <3>. QED  BY <3>1, <3>3, MissSearch
  <2>5. CASE next # oldp
    <3>1. /\ UNCHANGED <<mem, mem_brk, FIT, pc, call, oldp>> /\ p' = next
      BY <2>5 DEF NextFitNext, clientVars, next
    <3>2. Blks' = Blks /\ \A b : Fits(b)' <=> Fits(b)
      BY <3>1 DEF Blks, Fits
    <3>3. oldp <= next => oldp <= p
      BY <1>1, <1>4, <2>2, <2>5
    <3>4. ASSUME NEW b \in Blks, Passed(b)'
          PROVE  ~Fits(b)
      <4>1. IF oldp <= next THEN oldp <= b /\ b < next ELSE oldp <= b \/ b < next
        BY <3>1, <3>4 DEF Passed
      <4>. QED  BY <2>3, <3>3, <4>1
    <3>. QED  BY <1>1, <3>1, <3>2, <3>4 DEF SearchInv, Looked, GivenUp, FitStep
  <2>. QED  BY <2>4, <2>5
<1>. QED  BY <1>5, <1>6

\* best_fit.
LEMMA BestSearch ==
  ASSUME IInv, SearchInv, BestFitNext \/ BestFitEnd
  PROVE  SearchInv' /\ FitStep
<1>1. /\ pc = "search" /\ FIT = "best" /\ (bestp # NULL => Fits(bestp))
      /\ \A b \in Blks : b < p /\ Fits(b) =>
           bestp # NULL /\ BLK_SIZE(mem, bestp) <= BLK_SIZE(mem, b)
  BY DEF BestFitNext, BestFitEnd, SearchInv, Looked
<1>2. p \in Blks \cup {mem_brk} /\ bestp \in Blks \cup {NULL}
  BY <1>1, InvBlks DEF Cursors
<1>3. CASE BestFitNext
  <2>1. /\ UNCHANGED <<mem, mem_brk, FIT, pc, call>> /\ p' = NEXT_BLKP(mem, p)
        /\ bestp' = IF Fits(p) /\ BLK_AVAL_SIZE(mem, p) < best THEN p ELSE bestp
        /\ ~EB(mem, p)
    BY <1>3 DEF BestFitNext, clientVars
  <2>2. p \in Blks
    BY <1>1, <1>2, <2>1, SearchWalk
  <2>3. p # NULL /\ BLK_SIZE(mem, p) \in Nat /\ BLK_AVAL_SIZE(mem, p) < MAX_HEAP
    BY <1>1, <2>2, SearchWalk
  <2>4. bestp # NULL => BLK_SIZE(mem, bestp) \in Nat
    BY <1>1, <1>2, SearchWalk
  <2>5. bestp' # NULL => Fits(bestp')
    BY <1>1, <2>1
  <2>6. ASSUME NEW b \in Blks, b < NEXT_BLKP(mem, p), Fits(b)
        PROVE  bestp' # NULL /\ BLK_SIZE(mem, bestp') <= BLK_SIZE(mem, b)
    <3>1. /\ b \in Nat /\ p \in Nat /\ NEXT_BLKP(mem, p) \in Nat /\ (p < b => NEXT_BLKP(mem, p) <= b)
          /\ BLK_SIZE(mem, b) \in Nat
      BY <1>1, <2>2, SearchWalk
    <3>2. b < p \/ b = p
      BY <2>6, <3>1
    <3>3. CASE Fits(p) /\ BLK_AVAL_SIZE(mem, p) < best
      <4>1. bestp' = p /\ bestp' # NULL
        BY <2>1, <2>3, <3>3
      <4>2. b < p => BLK_SIZE(mem, p) <= BLK_SIZE(mem, b)
        <5>. SUFFICES ASSUME b < p
                      PROVE  BLK_SIZE(mem, p) <= BLK_SIZE(mem, b)
          OBVIOUS
        <5>1. bestp # NULL /\ BLK_SIZE(mem, bestp) <= BLK_SIZE(mem, b)
          BY <1>1, <2>6
        <5>2. BLK_SIZE(mem, p) - 8 < BLK_SIZE(mem, bestp) - 8
          BY <3>3, <5>1 DEF best, BLK_AVAL_SIZE, WSIZE
        <5>. QED  BY <2>3, <2>4, <3>1, <5>1, <5>2
      <4>. QED  BY <3>1, <3>2, <4>1, <4>2
    <3>4. CASE ~(Fits(p) /\ BLK_AVAL_SIZE(mem, p) < best)
      <4>1. bestp' = bestp
        BY <2>1, <3>4
      <4>2. CASE b < p
        BY <1>1, <2>6, <4>1, <4>2
      <4>3. CASE b = p
        <5>1. Fits(p) /\ ~(BLK_AVAL_SIZE(mem, p) < best)
          BY <2>6, <3>4, <4>3
        <5>2. bestp # NULL
          BY <2>3, <5>1 DEF best
        <5>3. ~(BLK_SIZE(mem, p) - 8 < BLK_SIZE(mem, bestp) - 8)
          BY <5>1, <5>2 DEF best, BLK_AVAL_SIZE, WSIZE
        <5>. QED  BY <2>3, <2>4, <4>1, <4>3, <5>2, <5>3
      <4>. QED  BY <3>2, <4>2, <4>3
    <3>. QED  BY <3>3, <3>4
  <2>7. Blks' = Blks /\ \A b : Fits(b)' <=> Fits(b)
    BY <2>1 DEF Blks, Fits
  <2>8. Looked'
    BY <1>1, <2>1, <2>5, <2>6, <2>7 DEF Looked
  <2>. QED  BY <1>1, <2>1, <2>8 DEF SearchInv, GivenUp, FitStep
<1>4. CASE BestFitEnd
  <2>1. p = mem_brk /\ \A b \in Blks : b < mem_brk
    BY <1>1, <1>2, <1>4, SearchWalk DEF BestFitEnd
  <2>2. \A b \in Blks : Fits(b) => bestp # NULL /\ BLK_SIZE(mem, bestp) <= BLK_SIZE(mem, b)
    BY <1>1, <2>1
  <2>3. CASE bestp = NULL
    <3>1. NotFound
      BY <1>4, <2>3 DEF BestFitEnd, best
    <3>. QED  BY <2>2, <2>3, <3>1, MissSearch
  <2>4. CASE bestp # NULL
    <3>1. bestp \in Blks /\ Fits(bestp)
      BY <1>1, <1>2, <2>4
    <3>2. BLK_AVAL_SIZE(mem, bestp) < MAX_HEAP /\ BLK_SIZE(mem, bestp) \in Nat
      BY <1>1, <3>1, SearchWalk
    <3>3. best # MAX_HEAP
      BY <2>4, <3>2, RegionAssumption DEF best, BLK_AVAL_SIZE, WSIZE
    <3>4. PlaceIn(bestp)
      BY <1>4, <3>3 DEF BestFitEnd
    <3>5. pc' = "returned" /\ blocks'[call.id] = bestp
      BY <1>1, <3>1, <3>4, HitSearch
    <3>. QED  BY <1>1, <2>2, <3>5 DEF SearchInv, GivenUp, FitStep
  <2>. QED  BY <2>3, <2>4
<1>. QED  BY <1>3, <1>4

\* A turn of find_fit's loop, whatever the strategy.
LEMMA TurnSearch ==
  ASSUME IInv, SearchInv, FindFit
  PROVE  SearchInv' /\ FitStep
<1>1. CASE SearchHit
  <2>1. pc = "search" /\ FIT \in {"first", "next"} /\ ~EB(mem, p) /\ Fits(p) /\ PlaceIn(p)
    BY <1>1 DEF SearchHit
  <2>2. p \in Blks \cup {mem_brk}
    BY <2>1, InvBlks DEF Cursors
  <2>3. p \in Blks
    BY <2>1, <2>2, SearchWalk
  <2>4. pc' = "returned" /\ blocks'[call.id] = p
    BY <2>1, <2>3, HitSearch
  <2>5. FIT = "first" => \A b \in Blks : Fits(b) => p <= b
    <3>1. FIT = "first" => \A b \in Blks : b < p => ~Fits(b)
      BY <2>1 DEF SearchInv, Looked
    <3>2. \A b \in Blks : b \in Nat
      BY <2>1, SearchWalk
    <3>. QED  BY <2>3, <3>1, <3>2
  <2>6. FitStep
    BY <2>1, <2>4, <2>5 DEF FitStep
  <2>7. SearchInv'
    BY <2>4 DEF SearchInv, GivenUp
  <2>. QED  BY <2>6, <2>7
<1>2. CASE FirstFitNext \/ FirstFitMiss
  BY <1>2, FirstSearch DEF FirstFitNext, FirstFitMiss
<1>3. CASE NextFitNext
  BY <1>3, NextSearch
<1>4. CASE BestFitNext \/ BestFitEnd
  BY <1>4, BestSearch
<1>. QED  BY <1>1, <1>2, <1>3, <1>4 DEF FindFit

\* The start of a search: nothing has been passed.
LEMMA StartSearch ==
  ASSUME IInv, NEW id \in Ids, NEW size \in Nat, MallocCall(id, size)
  PROVE  SearchInv'
<1>1. /\ pc # "boot" /\ bestp = NULL /\ pc' = "search"
      /\ UNCHANGED <<mem, mem_brk, FIT, heap_curp, bestp>>
      /\ ~(FIT = "next" /\ heap_curp = NULL)
      /\ p' = IF FIT = "next" THEN NEXT_BLKP(mem, heap_curp) ELSE heap_listp
      /\ oldp' = IF FIT = "next" THEN NEXT_BLKP(mem, heap_curp) ELSE NULL
  BY DEF IInv, Quiet, MallocCall, Idle
<1>2. Blks' = Blks
  BY <1>1 DEF Blks
<1>3. \A b \in Blks : b \in Nat /\ heap_listp <= b
  BY <1>1, SearchWalk
<1>4. heap_listp \in Nat
  BY Layout
<1>5. CASE FIT = "next"
  <2>1. heap_curp \in Blks
    BY <1>1, <1>5, InvBlks DEF Cursors
  <2>2. oldp' \in Blks \cup {mem_brk} /\ oldp' \in Nat /\ p' = oldp'
    BY <1>1, <1>5, <2>1, SearchWalk
  <2>3. \A b \in Blks : ~Passed(b)'
    BY <1>3, <2>2 DEF Passed
  <2>4. Looked'
    BY <1>1, <1>2, <1>5, <2>2, <2>3 DEF Looked
  <2>. QED  BY <1>1, <2>4 DEF SearchInv, GivenUp
<1>6. CASE FIT # "next"
  <2>1. p' = heap_listp /\ \A b \in Blks : ~(b < p')
    BY <1>1, <1>3, <1>4, <1>6
  <2>2. Looked'
    BY <1>1, <1>2, <1>6, <2>1 DEF Looked
  <2>. QED  BY <1>1, <2>2 DEF SearchInv, GivenUp
<1>. QED  BY <1>5, <1>6

\* The end of a malloc that found no block.
LEMMA ExtendSearch ==
  ASSUME IInv, SearchInv, Extend
  PROVE  SearchInv'
<1>. DEFINE d == do_malloc(mem, mem_brk, ALIGN(call.size))
            m == d.mem
            brk == d.brk
            b == d.p
<1>1. pc = "extend" /\ Return(m, brk, b)
  BY DEF Extend
<1>2. PICK B : HeapOK(mem, mem_brk, B) /\ Owned(B) /\ Cursors(B)
  BY <1>1 DEF IInv, HeapInv
<1>3. call.size \in Nat
  BY <1>1, CallTypes DEF IInv, TypeOK, TypeOKClient
<1>4. b = NULL => m = mem /\ brk = mem_brk
  BY <1>2, <1>3, DoMallocHands
<1>. HIDE DEF m, brk, b
<1>5. CASE b = NULL
  <2>1. UNCHANGED <<mem, mem_brk, call>> /\ pc' = "failed"
    BY <1>1, <1>4, <1>5 DEF Return, Deliver
  <2>2. Blks' = Blks /\ \A c : Fits(c)' <=> Fits(c)
    BY <2>1 DEF Blks, Fits
  <2>. QED  BY <1>1, <2>1, <2>2 DEF SearchInv, GivenUp
<1>6. CASE b # NULL
  <2>1. pc' = "returned"
    BY <1>1, <1>6 DEF Return, Deliver
  <2>. QED  BY <2>1 DEF SearchInv, GivenUp
<1>. QED  BY <1>5, <1>6

\* Every step keeps what is known of the search.
LEMMA NextSearchInv == IInv /\ SearchInv /\ [Next]_vars => SearchInv' /\ [FitStep]_vars
<1>. SUFFICES ASSUME IInv, SearchInv, [Next]_vars
              PROVE  SearchInv' /\ FitStep
  OBVIOUS
<1>1. ASSUME pc # "search", pc' \notin {"search", "extend", "failed"}
      PROVE  SearchInv' /\ FitStep
  BY <1>1 DEF SearchInv, GivenUp, FitStep
<1>2. CASE implicit_mm_init
  BY <1>1, <1>2 DEF implicit_mm_init
<1>3. CASE Fill \/ clean_up
  BY <1>1, <1>3 DEF Fill, clean_up
<1>4. ASSUME NEW id \in Ids, MallocZero(id)
      PROVE  SearchInv' /\ FitStep
  <2>1. pc # "search" /\ pc' = "failed" /\ call'.size = 0
    BY <1>4 DEF MallocZero, Idle, Deliver, CallArgs
  <2>. QED  BY <2>1 DEF SearchInv, GivenUp, FitStep
<1>5. ASSUME NEW id \in Ids, FreeCall(id)
      PROVE  SearchInv' /\ FitStep
  BY <1>1, <1>5 DEF FreeCall, Idle, Drop
<1>6. ASSUME pc # "search", Wild
      PROVE  SearchInv' /\ FitStep
  BY <1>1, <1>6 DEF Wild
<1>7. ASSUME NEW id \in Ids, NEW size \in Sizes, MallocCall(id, size)
      PROVE  SearchInv' /\ FitStep
  <2>1. size \in Nat /\ pc # "search"
    BY <1>7, ClientAssumption DEF MallocCall, Idle
  <2>. QED  BY <1>7, <2>1, StartSearch DEF FitStep
<1>8. ASSUME NEW id \in Ids, NEW size \in Sizes, MallocFromNull(id, size)
      PROVE  SearchInv' /\ FitStep
  BY <1>6, <1>8 DEF MallocFromNull, Idle
<1>9. ASSUME NEW id \in Ids, NEW size \in Sizes, ReallocCall(id, size), NEW b,
             Deliver(CallArgs(id, size), b)
      PROVE  SearchInv' /\ FitStep
  <2>1. pc # "search" /\ call'.ptr # NULL /\ pc' \in {"failed", "returned"}
    BY <1>9 DEF ReallocCall, Idle, Live, Deliver, CallArgs
  <2>. QED  BY <2>1 DEF SearchInv, GivenUp, FitStep
<1>10. ASSUME NEW id \in Ids, NEW size \in Sizes,
              \/ ReallocInPlace(id, size) \/ GrowIntoNext(id, size) \/ GrowTail(id, size)
              \/ GrowIntoPrev(id, size) \/ Move(id, size)
       PROVE  SearchInv' /\ FitStep
  <2>1. ReallocCall(id, size) /\ pc # "search"
    BY <1>10, Zenon DEF ReallocInPlace, GrowIntoNext, GrowTail, GrowIntoPrev, Move, PastNext, Grows,
                 ReallocCall, Idle
  <2>2. Wild \/ \E b : Deliver(CallArgs(id, size), b)
    BY <1>10, Zenon DEF ReallocInPlace, GrowIntoNext, GrowTail, GrowIntoPrev, Move, Resized
  <2>. QED  BY <1>6, <1>9, <2>1, <2>2
<1>11. CASE FindFit
  BY <1>11, TurnSearch
<1>12. CASE Extend
  BY <1>12, ExtendSearch DEF Extend, FitStep
<1>13. CASE UNCHANGED vars
  <2>1. UNCHANGED <<mem, mem_brk, blocks, pc, call, FIT, p, oldp, bestp>>
    BY <1>13 DEF vars, clientVars, searchVars
  <2>2. Blks' = Blks /\ \A b : (Fits(b)' <=> Fits(b)) /\ (Passed(b)' <=> Passed(b))
    BY <2>1 DEF Blks, Fits, Passed
  <2>3. (Looked' <=> Looked) /\ (GivenUp' <=> GivenUp)
    BY <2>1, <2>2 DEF Looked, GivenUp
  <2>. QED  BY <2>1, <2>2, <2>3 DEF SearchInv, FitStep
<1>14. CASE Undefined
  BY <1>13, <1>14 DEF Undefined
<1>. QED  BY <1>2, <1>3, <1>4, <1>5, <1>7, <1>8, <1>10, <1>11, <1>12, <1>13, <1>14 DEF Next

\* What a search has passed, throughout.
LEMMA SearchInvariance == Spec => []SearchInv
<1>1. Init => SearchInv
  BY DEF Init, InitClient, SearchInv, GivenUp
<1>. QED  BY <1>1, NextSearchInv, Invariance, PTL DEF Spec

\* implicit_mm_malloc returns NULL only when no block of the whole list could have
\* served the request, for first_fit, next_fit (wherever its circular search began)
\* and best_fit.
THEOREM MallocFailsFull == Spec => []MallocFailsOnlyWhenFull
<1>1. SearchInv => MallocFailsOnlyWhenFull
  BY DEF SearchInv, GivenUp, MallocFailsOnlyWhenFull
<1>. QED  BY <1>1, SearchInvariance, PTL

\* implicit_mm_malloc calls do_malloc, which moves the break, only after a search
\* that no block could have satisfied.
THEOREM GrowthNeeded == Spec => NoNeedlessGrowth
<1>1. SearchInv => (pc = "extend" /\ mem_brk' # mem_brk => \A b \in Blks : ~Fits(b))
  BY DEF SearchInv, GivenUp
<1>. QED  BY <1>1, SearchInvariance, PTL DEF NoNeedlessGrowth

\* first_fit hands out the lowest block that fits and best_fit one of the smallest.
THEOREM FitsBest == Spec => FitAsPromised
BY NextSearchInv, SearchInvariance, Invariance, PTL DEF Spec, FitAsPromised, FitStep

(***************************************************************************)
(* implicit.c implements the contract of mm.h, with a memcpy that copies   *)
(* upwards.                                                                *)
(***************************************************************************)

\* The client's part of the invariant.
LEMMA InvClient ==
  ASSUME ~MemcpyDescends
  PROVE  IInv => TypeOKClient /\ PayloadsDisjoint /\ Seen
<1>1. IInv => ClientInv
  BY InvDisjoint DEF IInv, TypeOK, Handing, Data, ClientInv
<1>. QED  BY <1>1, ClientSees DEF ClientInv

\* malloc ends, with a block or with NULL.
LEMMA ReturnView ==
  ASSUME IInv, Asking, TypeOKClient', PayloadsDisjoint', Seen, Seen', pc \in {"search", "extend"},
         NEW m, NEW brk, NEW b, Return(m, brk, b)
  PROVE  Contract!Next \/ UNCHANGED Contract!vars
<1>1. /\ TypeOKClient /\ call \in Calls /\ call.size \in Sizes /\ call.size > 0
      /\ call.ptr = blocks[call.id] /\ call.old = block_sizes[call.id]
  <2>1. TypeOKClient /\ call \in Calls /\ Empty
    BY DEF IInv, TypeOK, TypeOKClient
  <2>2. call.id \in Ids
    BY <2>1 DEF Calls
  <2>. QED  BY <2>1, <2>2 DEF Asking, Empty, Live
<1>2. Deliver(call, b)
  BY DEF Return
<1>3. CASE b = NULL
  <2>1. UNCHANGED <<blocks, block_sizes>> /\ pc' = "failed"
    BY <1>2, <1>3 DEF Deliver
  <2>. QED  BY <2>1, ViewStays
<1>4. CASE b # NULL
  BY <1>1, <1>2, <1>4, ViewGranted
<1>. QED  BY <1>3, <1>4

\* realloc ends with a block, or with NULL.
LEMMA ResizedView ==
  ASSUME IInv, TypeOKClient', PayloadsDisjoint', Seen, Seen', NEW id \in Ids, NEW size \in Sizes,
         Idle, size > 0, NEW b, Deliver(CallArgs(id, size), b)
  PROVE  Contract!Next \/ UNCHANGED Contract!vars
<1>. DEFINE c == CallArgs(id, size)
<1>1. size \in Nat /\ TypeOK /\ TypeOKClient
  BY ClientAssumption DEF IInv, TypeOK
<1>2. c \in Calls /\ c.id = id /\ c.size = size /\ c.ptr = blocks[id] /\ c.old = block_sizes[id]
  BY <1>1, ArgsTypes
<1>. HIDE DEF c
<1>3. Deliver(c, b) /\ pc \notin {"boot", "returned", "undefined"}
  BY DEF c, Idle
<1>4. CASE b = NULL
  <2>1. UNCHANGED <<blocks, block_sizes>> /\ pc' = "failed"
    BY <1>3, <1>4 DEF Deliver
  <2>. QED  BY <1>3, <2>1, ViewStays
<1>5. CASE b # NULL
  BY <1>1, <1>2, <1>3, <1>5, ViewGranted
<1>. QED  BY <1>4, <1>5

\* Every step is one of the contract, or does not show.
LEMMA StepView ==
  ASSUME IInv, Asking, TypeOKClient', PayloadsDisjoint', Seen, Seen', [Next]_vars
  PROVE  Contract!Next \/ UNCHANGED Contract!vars
<1>. DEFINE Goal == Contract!Next \/ UNCHANGED Contract!vars
<1>. SUFFICES Goal
  OBVIOUS
<1>. HIDE DEF Goal
<1>0. TypeOKClient
  BY DEF IInv, TypeOK
<1>1. CASE implicit_mm_init
  <2>1. pc = "boot" /\ UNCHANGED <<blocks, block_sizes>> /\ blocks = [id \in Ids |-> NULL]
    BY <1>1 DEF implicit_mm_init, IInv, Booting
  <2>2. \A id \in Ids : ~Live(id) /\ ~Live(id)'
    BY <2>1 DEF Live
  <2>3. \A id \in Ids : ContentsOf(id)' = ContentsOf(id)
    BY <2>2 DEF ContentsOf
  <2>. QED  BY <2>1, <2>3 DEF Contract!vars, Goal
<1>2. ASSUME UNCHANGED <<mem, blocks, block_sizes>>
      PROVE  Goal
  BY <1>2, ViewStays DEF Goal
<1>3. ASSUME NEW id \in Ids, MallocZero(id)
      PROVE  Goal
  <2>1. UNCHANGED <<mem, blocks, block_sizes>>
    BY <1>3 DEF MallocZero, Deliver
  <2>. QED  BY <1>2, <2>1
<1>4. ASSUME NEW id \in Ids, FreeCall(id)
      PROVE  Goal
  BY <1>0, <1>4, ViewDropped DEF FreeCall, Idle, Goal
<1>5. CASE Wild
  BY <1>2, <1>5 DEF Wild
<1>6. ASSUME NEW id \in Ids, NEW size \in Sizes, MallocCall(id, size) \/ MallocFromNull(id, size)
      PROVE  Goal
  BY <1>2, <1>5, <1>6 DEF MallocCall, MallocFromNull
<1>7. ASSUME NEW id \in Ids, NEW size \in Sizes, ReallocCall(id, size),
             NEW m, NEW brk, NEW b, Resized(id, size, m, brk, b)
      PROVE  Goal
  <2>1. Idle /\ size > 0 /\ Deliver(CallArgs(id, size), b)
    BY <1>7 DEF ReallocCall, Resized
  <2>. QED  BY <1>7, <2>1, ResizedView DEF Goal
<1>8. ASSUME NEW id \in Ids, NEW size \in Sizes,
             \/ ReallocInPlace(id, size) \/ GrowIntoNext(id, size) \/ GrowTail(id, size)
             \/ GrowIntoPrev(id, size) \/ Move(id, size)
      PROVE  Goal
  <2>0. Grows(id, size) \/ PastNext(id, size) => ReallocCall(id, size)
    BY DEF Grows, PastNext
  <2>1. CASE ReallocInPlace(id, size)
    BY <1>7, <2>1, Zenon DEF ReallocInPlace
  <2>2. CASE GrowIntoNext(id, size)
    BY <1>7, <2>0, <2>2, Zenon DEF GrowIntoNext
  <2>3. CASE GrowTail(id, size)
    BY <1>5, <1>7, <2>0, <2>3, Zenon DEF GrowTail
  <2>4. CASE GrowIntoPrev(id, size)
    BY <1>7, <2>0, <2>4, Zenon DEF GrowIntoPrev
  <2>5. CASE Move(id, size)
    <3>1. ReallocCall(id, size)
      BY <2>0, <2>5 DEF Move
    <3>2. Idle /\ size > 0
      BY <3>1 DEF ReallocCall
    <3>3. Deliver(CallArgs(id, size), NULL) => Goal
      BY <3>2, ResizedView DEF Goal
    <3>. QED  BY <1>5, <1>7, <2>5, <3>1, <3>3, Zenon DEF Move
  <2>. QED  BY <1>8, <2>1, <2>2, <2>3, <2>4, <2>5
<1>9. ASSUME NEW m, NEW brk, NEW b, Return(m, brk, b), pc \in {"search", "extend"}
      PROVE  Goal
  BY <1>9, ReturnView DEF Goal
<1>10. CASE NotFound
  BY <1>2, <1>10 DEF NotFound
<1>11. ASSUME NEW b, pc = "search", PlaceIn(b)
       PROVE  Goal
  <2>1. pc \in {"search", "extend"}
    BY <1>11
  <2>. QED  BY <1>9, <1>10, <1>11, <2>1, Zenon DEF PlaceIn
<1>12. CASE FindFit
  <2>1. ASSUME UNCHANGED <<mem, clientVars>>
        PROVE  Goal
    BY <1>2, <2>1 DEF clientVars
  <2>2. CASE SearchHit
    BY <1>11, <2>2, Zenon DEF SearchHit
  <2>3. CASE FirstFitNext \/ BestFitNext
    BY <2>1, <2>3 DEF FirstFitNext, BestFitNext
  <2>4. CASE FirstFitMiss
    BY <1>10, <2>4 DEF FirstFitMiss
  <2>5. CASE NextFitNext
    BY <1>10, <2>1, <2>5 DEF NextFitNext
  <2>6. CASE BestFitEnd
    BY <1>10, <1>11, <2>6, Zenon DEF BestFitEnd
  <2>. QED  BY <1>12, <2>2, <2>3, <2>4, <2>5, <2>6 DEF FindFit
<1>13. CASE Extend
  <2>1. pc \in {"search", "extend"}
    BY <1>13 DEF Extend
  <2>. QED  BY <1>9, <1>13, <2>1, Zenon DEF Extend
<1>14. CASE Fill
  <2>1. pc = "returned" /\ Live(call.id)
    BY <1>14 DEF Fill, IInv, Handing
  <2>. QED  BY <1>0, <1>14, <2>1, ViewFilled DEF Goal
<1>15. CASE clean_up
  BY <1>15, ViewReset DEF clean_up, Goal
<1>16. CASE Undefined \/ UNCHANGED vars
  BY <1>2, <1>16 DEF Undefined, vars, clientVars
<1>. QED  BY <1>1, <1>3, <1>4, <1>6, <1>8, <1>12, <1>13, <1>14, <1>15, <1>16 DEF Next

\* Every step of implicit.c is one the contract of mm.h allows, or does not show in
\* the client's view: a call fails or hands out an aligned block apart from all
\* others, a realloc carries the contents over, and no call changes what is in any
\* other block.
THEOREM Implements ==
  ASSUME ~MemcpyDescends
  PROVE  Spec => Fulfils
<1>1. Init => Contract!Init
  BY ViewInit DEF Init
<1>2. IInv => TypeOKClient /\ PayloadsDisjoint /\ Seen
  BY InvClient
<1>3. /\ IInv /\ Asking /\ Seen /\ (TypeOKClient /\ PayloadsDisjoint /\ Seen)' /\ [Next]_vars
      => [Contract!Next]_(Contract!vars)
  BY StepView
<1>. QED  BY <1>1, <1>2, <1>3, Invariance, PTL DEF Spec, Fulfils, Contract!Spec

=============================================================================
