------------------------- MODULE ImplicitHeapProofs -------------------------
(***************************************************************************)
(* What the operations of implicit.c on memory do to a well-formed heap:   *)
(* each leaves a well-formed heap and keeps every allocated block that is  *)
(* not its own to change.                                                  *)
(***************************************************************************)
EXTENDS Implicit, TraceClientProofs

(***************************************************************************)
(* A well-formed heap with the blocks B.  The word at brk - 4 ends the     *)
(* list: a header of size 0, marked allocated only while it is the one     *)
(* mm_init wrote.  Memory above the break is zero, which is what makes the *)
(* next epilogue.                                                          *)
(***************************************************************************)
HeapOK(m, brk, B) ==
  /\ m \in Memory
  /\ brk \in Nat /\ brk % 8 = 0 /\ heap_listp < brk /\ brk <= mem_max_addr
  /\ Tiling(m, heap_listp, brk, B)
  /\ BLK_SIZE(m, heap_listp) = 8 /\ BLK_STATE(m, heap_listp) = BLK_ALLOC
  /\ m[brk - 4] \in {0, 1} /\ (heap_listp + 8 < brk => m[brk - 4] = 0)
  /\ \A w \in Addr : brk <= w => m[w] = 0
  /\ m[mem_start_brk - 4] \in {0, 1}

\* The words between the tags of block b are what they were.
SamePayload(m, n, b) == \A w \in Addr : b <= w /\ w < b + BLK_SIZE(m, b) - 8 => n[w] = m[w]

\* Every allocated block except own is a block still, with the tags and the
\* contents it had, and no other block is allocated but new.
Kept(m, n, B, C, own, new) ==
  /\ \A b \in B : (BLK_STATE(m, b) = BLK_ALLOC /\ b # own) =>
        /\ b \in C
        /\ BLK_SIZE(n, b) = BLK_SIZE(m, b)
        /\ BLK_STATE(n, b) = BLK_ALLOC
        /\ SamePayload(m, n, b)
  /\ \A b \in C : BLK_STATE(n, b) = BLK_ALLOC =>
        b = new \/ (b \in B /\ BLK_STATE(m, b) = BLK_ALLOC /\ b # own)

\* Contents kept by two operations, one after the other.
LEMMA SameTwice ==
  ASSUME NEW m, NEW n, NEW o, NEW b, BLK_SIZE(n, b) = BLK_SIZE(m, b),
         SamePayload(m, n, b), SamePayload(n, o, b)
  PROVE  SamePayload(m, o, b)
BY DEF SamePayload

\* Two operations that keep the blocks of others, one after the other.
LEMMA KeptTwice ==
  ASSUME NEW m, NEW n, NEW o, NEW B, NEW C, NEW D, NEW own, NEW new,
         Kept(m, n, B, C, own, own), Kept(n, o, C, D, own, new)
  PROVE  Kept(m, o, B, D, own, new)
<1>1. ASSUME NEW b \in B, BLK_STATE(m, b) = BLK_ALLOC, b # own
      PROVE  /\ b \in D /\ BLK_SIZE(o, b) = BLK_SIZE(m, b) /\ BLK_STATE(o, b) = BLK_ALLOC
             /\ SamePayload(m, o, b)
  <2>1. /\ b \in C /\ BLK_SIZE(n, b) = BLK_SIZE(m, b) /\ BLK_STATE(n, b) = BLK_ALLOC
        /\ SamePayload(m, n, b)
    BY <1>1 DEF Kept
  <2>2. /\ b \in D /\ BLK_SIZE(o, b) = BLK_SIZE(n, b) /\ BLK_STATE(o, b) = BLK_ALLOC
        /\ SamePayload(n, o, b)
    BY <1>1, <2>1 DEF Kept
  <2>. QED  BY <2>1, <2>2, SameTwice
<1>2. \A b \in D : BLK_STATE(o, b) = BLK_ALLOC =>
        b = new \/ (b \in B /\ BLK_STATE(m, b) = BLK_ALLOC /\ b # own)
  BY DEF Kept
<1>. QED  BY <1>1, <1>2 DEF Kept

\* Constants of the layout.
LEMMA Layout ==
  /\ heap_listp \in Nat /\ heap_listp = mem_start_brk + 8 /\ heap_listp % 8 = 0
  /\ mem_start_brk <= heap_listp
  /\ mem_max_addr \in Nat /\ mem_max_addr % 8 = 0
  /\ mem_start_brk \in Nat /\ mem_start_brk >= 8
  /\ heap_listp + 8 <= mem_max_addr
  /\ Nat \subseteq Word
BY RegionAssumption, ImplicitAssumption DEF heap_listp, WSIZE, mem_max_addr, Word

\* Aligned addresses of the region are word addresses.
LEMMA AddrFacts ==
  ASSUME NEW a \in Int, a % 8 = 0, mem_start_brk <= a
  PROVE  /\ a <= mem_max_addr => a - 4 \in Addr
         /\ a < mem_max_addr => a \in Addr
BY RegionAssumption DEF Addr, mem_max_addr

\* The prologue block and the first word after it.
LEMMA Prologue ==
  ASSUME NEW m, NEW brk, NEW B, HeapOK(m, brk, B)
  PROVE  /\ heap_listp \in B
         /\ \A b \in B : b \in Nat /\ b % 8 = 0 /\ (b # heap_listp => heap_listp + 8 <= b) /\ b < brk
         /\ heap_listp + 8 <= brk
<1>1. Tiling(m, heap_listp, brk, B) /\ BLK_SIZE(m, heap_listp) = 8 /\ brk \in Nat
  BY DEF HeapOK
<1>a. heap_listp \in Int /\ brk \in Int
  BY <1>1, Layout
<1>b. heap_listp \in B
  BY <1>1 DEF Tiling
<1>2. heap_listp \in B /\ heap_listp + 8 <= brk
  BY <1>1, <1>a, <1>b, TilingBlock
<1>3. \A b \in B : heap_listp <= b /\ b < brk /\ (heap_listp < b => heap_listp + 8 <= b)
  BY <1>1, <1>2 DEF Tiling
<1>4. \A b \in B : b \in Int /\ b % 8 = 0
  BY <1>1, <1>a, TilingBlock
<1>. QED  BY <1>2, <1>3, <1>4, Layout

\* NULL is no block.
LEMMA NotNull ==
  ASSUME NEW m, NEW brk, NEW B, HeapOK(m, brk, B)
  PROVE  NULL \notin B
<1>1. heap_listp \in Nat /\ heap_listp >= 8
  BY Layout
<1>2. \A b \in B : heap_listp <= b /\ b \in Nat
  <2>. SUFFICES ASSUME NEW b \in B
                PROVE  heap_listp <= b /\ b \in Nat
    OBVIOUS
  <2>1. b \in Nat /\ (b # heap_listp => heap_listp + 8 <= b)
    BY Prologue
  <2>. QED  BY <1>1, <2>1
<1>. QED  BY <1>1, <1>2 DEF NULL

\* What a well-formed heap says of one of its blocks.
LEMMA Block ==
  ASSUME NEW m, NEW brk, NEW B, HeapOK(m, brk, B), NEW b \in B
  PROVE  /\ b \in Nat /\ b % 8 = 0 /\ mem_start_brk + 8 <= b /\ b < brk
         /\ b # heap_listp => heap_listp + 8 <= b
         /\ BLK_SIZE(m, b) \in Nat /\ BLK_SIZE(m, b) % 8 = 0 /\ BLK_SIZE(m, b) >= 8
         /\ b + BLK_SIZE(m, b) \in B \cup {brk}
         /\ b + BLK_SIZE(m, b) <= brk
         /\ BLK_STATE(m, b) \in {BLK_FREE, BLK_ALLOC}
         /\ \A c \in B : b < c => b + BLK_SIZE(m, b) <= c
<1>1. Tiling(m, heap_listp, brk, B) /\ brk \in Int /\ heap_listp \in Int
  BY Layout DEF HeapOK
<1>2. /\ BLK_SIZE(m, b) \in Nat /\ BLK_SIZE(m, b) % 8 = 0 /\ BLK_SIZE(m, b) >= 8
      /\ b + BLK_SIZE(m, b) \in B \cup {brk}
      /\ b + BLK_SIZE(m, b) <= brk
      /\ BLK_STATE(m, b) \in {BLK_FREE, BLK_ALLOC}
  BY <1>1, TilingBlock
<1>3. \A c \in B : b < c => b + BLK_SIZE(m, b) <= c
  BY <1>1 DEF Tiling
<1>4. /\ b \in Nat /\ b % 8 = 0 /\ mem_start_brk + 8 <= b /\ b < brk
      /\ b # heap_listp => heap_listp + 8 <= b
  BY Prologue, Layout
<1>. QED  BY <1>2, <1>3, <1>4

\* own is no block, or one between a and e.
Within(own, B, a, e) == own \in B => a <= own /\ own < e

\* Between the blocks a and e nothing but free blocks and own is replaced by
\* other blocks; the rest of memory stays as it is.
LEMMA Rewrite ==
  ASSUME NEW m, NEW brk, NEW B, HeapOK(m, brk, B), NEW own, NEW new,
         NEW a \in B, a # heap_listp, NEW e \in B \cup {brk}, NEW n \in Memory,
         NEW N, Tiling(n, a, e, N), \A b \in N : BLK_STATE(n, b) = BLK_ALLOC => b = new,
         \A w \in Addr : w < a - 4 \/ e - 4 <= w => n[w] = m[w],
         \A b \in B : a <= b /\ b < e => b = own \/ BLK_STATE(m, b) = BLK_FREE,
         Within(own, B, a, e)
  PROVE  LET C == Replaced(B, a, e, N)
         IN  HeapOK(n, brk, C) /\ Kept(m, n, B, C, own, new)
<1>. DEFINE C == Replaced(B, a, e, N)
<1>1. /\ Tiling(m, heap_listp, brk, B) /\ brk \in Nat /\ brk % 8 = 0
      /\ heap_listp < brk /\ brk <= mem_max_addr
  BY DEF HeapOK
<1>2. a \in Nat /\ heap_listp + 8 <= a /\ e \in Int /\ e <= brk /\ a < e /\ e % 8 = 0 /\ a % 8 = 0
  <2>1. a \in N /\ e \in Int /\ e <= brk /\ e % 8 = 0
    BY <1>1, Prologue DEF Tiling
  <2>2. a < e
    BY <2>1 DEF Tiling
  <2>. QED  BY <2>1, <2>2, Prologue
<1>3. Tiling(n, heap_listp, brk, C)
  <2>1. heap_listp \in Int /\ brk \in Int /\ mem_start_brk <= heap_listp
    BY <1>1, Layout
  <2>. QED  BY <1>1, <2>1, TilingReplace
<1>4. /\ heap_listp - 4 \in Addr /\ brk - 4 \in Addr /\ mem_start_brk - 4 \in Addr
  BY <1>1, Layout, RegionAssumption DEF Addr
<1>5. n[heap_listp - 4] = m[heap_listp - 4]
  BY <1>2, <1>4, Layout
<1>6. n[brk - 4] = m[brk - 4]
  BY <1>1, <1>2, <1>4
<1>7. n[mem_start_brk - 4] = m[mem_start_brk - 4]
  BY <1>2, <1>4, Layout
<1>8. \A w \in Addr : brk <= w => n[w] = m[w]
  BY <1>1, <1>2 DEF Addr
<1>9. \A b \in B : b < a \/ e <= b => BLK_SIZE(n, b) = BLK_SIZE(m, b) /\ BLK_STATE(n, b) = BLK_STATE(m, b)
  <2>. SUFFICES ASSUME NEW b \in B, b < a \/ e <= b
                PROVE  n[b - 4] = m[b - 4]
    BY DEF BLK_SIZE, BLK_STATE, BLK_HDRP, WSIZE
  <2>1. b \in Nat /\ b % 8 = 0 /\ heap_listp <= b /\ b < brk
    BY Prologue, Layout
  <2>2. b - 4 \in Addr
    BY <1>1, <2>1, Layout, AddrFacts
  <2>3. b - 4 < a - 4 \/ e - 4 <= b - 4
    BY <1>2, <2>1
  <2>. QED  BY <2>2, <2>3
<1>10. BLK_SIZE(n, heap_listp) = 8 /\ BLK_STATE(n, heap_listp) = BLK_ALLOC
  BY <1>5 DEF HeapOK, BLK_SIZE, BLK_STATE, BLK_HDRP, WSIZE
<1>11. HeapOK(n, brk, C)
  BY <1>3, <1>6, <1>7, <1>8, <1>10 DEF HeapOK
<1>12. Kept(m, n, B, C, own, new)
  <2>1. ASSUME NEW b \in B, BLK_STATE(m, b) = BLK_ALLOC, b # own
        PROVE  b < a \/ e <= b
    <3>1. b \in Nat
      BY Prologue
    <3>2. ~(a <= b /\ b < e)
      BY <2>1 DEF BLK_FREE, BLK_ALLOC
    <3>. QED  BY <1>2, <3>1, <3>2
  <2>2. ASSUME NEW b \in C, BLK_STATE(n, b) = BLK_ALLOC
        PROVE  b = new \/ (b \in B /\ BLK_STATE(m, b) = BLK_ALLOC /\ b # own)
    <3>1. CASE b \in N
      BY <2>2, <3>1
    <3>2. CASE b \in B /\ (b < a \/ e <= b)
      <4>1. BLK_STATE(m, b) = BLK_ALLOC /\ b \in Nat
        BY <1>9, <2>2, <3>2, Prologue
      <4>. QED  BY <1>2, <3>2, <4>1 DEF Within
    <3>. QED  BY <3>1, <3>2 DEF Replaced
  <2>3. \A b \in B : b < a \/ e <= b => b \in C
    BY DEF Replaced
  <2>4. ASSUME NEW b \in B, b < a \/ e <= b
        PROVE  SamePayload(m, n, b)
    <3>. SUFFICES ASSUME NEW w \in Addr, b <= w, w < b + BLK_SIZE(m, b) - 8
                  PROVE  w < a - 4 \/ e - 4 <= w
      BY DEF SamePayload
    <3>1. b \in Nat /\ BLK_SIZE(m, b) \in Nat /\ (b < a => b + BLK_SIZE(m, b) <= a)
      BY Block
    <3>. QED  BY <1>2, <2>4, <3>1 DEF Addr
  <2>. QED  BY <1>9, <2>1, <2>2, <2>3, <2>4 DEF Kept
<1>. QED  BY <1>11, <1>12

\* From a on, where nothing but free blocks and own is left, the heap gets
\* other blocks, up to a higher break.
LEMMA Regrow ==
  ASSUME NEW m, NEW brk, NEW B, HeapOK(m, brk, B), NEW own, NEW new,
         NEW a \in B \cup {brk}, a # heap_listp, NEW n \in Memory,
         NEW e \in Nat, e % 8 = 0, brk < e, e <= mem_max_addr,
         NEW N, Tiling(n, a, e, N), \A b \in N : BLK_STATE(n, b) = BLK_ALLOC => b = new,
         \A w \in Addr : w < a - 4 \/ e - 4 <= w => n[w] = m[w],
         \A b \in B : a <= b => b = own \/ BLK_STATE(m, b) = BLK_FREE,
         Within(own, B, a, brk)
  PROVE  LET C == Grown(B, a, N)
         IN  HeapOK(n, e, C) /\ Kept(m, n, B, C, own, new)
<1>. DEFINE C == Grown(B, a, N)
<1>1. /\ Tiling(m, heap_listp, brk, B) /\ brk \in Nat /\ brk % 8 = 0
      /\ heap_listp + 8 <= brk /\ brk <= mem_max_addr
  BY Prologue DEF HeapOK
<1>2. a \in Nat /\ heap_listp + 8 <= a /\ a <= brk /\ a % 8 = 0
  BY <1>1, Prologue
<1>3. Tiling(n, heap_listp, e, C)
  <2>1. heap_listp \in Int /\ brk \in Int /\ e \in Int /\ mem_start_brk <= heap_listp
    BY <1>1, Layout
  <2>. QED  BY <1>1, <2>1, TilingGrow
<1>4. /\ heap_listp - 4 \in Addr /\ e - 4 \in Addr /\ mem_start_brk - 4 \in Addr
  BY <1>1, Layout, RegionAssumption DEF Addr
<1>5. n[heap_listp - 4] = m[heap_listp - 4]
  BY <1>2, <1>4, Layout
<1>6. n[e - 4] = 0
  <2>1. e - 4 >= brk /\ m[e - 4] = 0
    BY <1>1, <1>4 DEF HeapOK
  <2>. QED  BY <1>4, <2>1
<1>7. n[mem_start_brk - 4] = m[mem_start_brk - 4]
  BY <1>2, <1>4, Layout
<1>8. \A w \in Addr : e <= w => n[w] = 0
  <2>. SUFFICES ASSUME NEW w \in Addr, e <= w
                PROVE  n[w] = 0
    OBVIOUS
  <2>1. brk <= w /\ e - 4 <= w
    BY <1>1 DEF Addr
  <2>2. m[w] = 0
    BY <2>1 DEF HeapOK
  <2>. QED  BY <2>1, <2>2
<1>9. \A b \in B : b < a => BLK_SIZE(n, b) = BLK_SIZE(m, b) /\ BLK_STATE(n, b) = BLK_STATE(m, b)
  <2>. SUFFICES ASSUME NEW b \in B, b < a
                PROVE  n[b - 4] = m[b - 4]
    BY DEF BLK_SIZE, BLK_STATE, BLK_HDRP, WSIZE
  <2>1. b \in Nat /\ b % 8 = 0 /\ heap_listp <= b /\ b < brk
    BY Prologue, Layout
  <2>2. b - 4 \in Addr
    BY <1>1, <2>1, Layout, AddrFacts
  <2>3. b - 4 < a - 4
    BY <1>2, <2>1
  <2>. QED  BY <2>2, <2>3
<1>10. BLK_SIZE(n, heap_listp) = 8 /\ BLK_STATE(n, heap_listp) = BLK_ALLOC
  BY <1>5 DEF HeapOK, BLK_SIZE, BLK_STATE, BLK_HDRP, WSIZE
<1>11. heap_listp < e
  BY <1>1, Layout
<1>12. HeapOK(n, e, C)
  BY <1>3, <1>6, <1>7, <1>8, <1>10, <1>11 DEF HeapOK
<1>13. Kept(m, n, B, C, own, new)
  <2>1. ASSUME NEW b \in B, BLK_STATE(m, b) = BLK_ALLOC, b # own
        PROVE  b < a
    <3>1. b \in Nat
      BY Prologue
    <3>2. ~(a <= b)
      BY <2>1 DEF BLK_FREE, BLK_ALLOC
    <3>. QED  BY <1>2, <3>1, <3>2
  <2>2. ASSUME NEW b \in C, BLK_STATE(n, b) = BLK_ALLOC
        PROVE  b = new \/ (b \in B /\ BLK_STATE(m, b) = BLK_ALLOC /\ b # own)
    <3>1. CASE b \in N
      BY <2>2, <3>1
    <3>2. CASE b \in B /\ b < a
      <4>1. BLK_STATE(m, b) = BLK_ALLOC /\ b \in Nat
        BY <1>9, <2>2, <3>2, Prologue
      <4>. QED  BY <1>2, <3>2, <4>1 DEF Within
    <3>. QED  BY <3>1, <3>2 DEF Grown
  <2>3. \A b \in B : b < a => b \in C
    BY DEF Grown
  <2>4. ASSUME NEW b \in B, b < a
        PROVE  SamePayload(m, n, b)
    <3>. SUFFICES ASSUME NEW w \in Addr, b <= w, w < b + BLK_SIZE(m, b) - 8
                  PROVE  w < a - 4
      BY DEF SamePayload
    <3>1. b \in Nat /\ BLK_SIZE(m, b) \in Nat
      BY Block
    <3>2. b + BLK_SIZE(m, b) <= a
      BY <1>1, <1>2, <2>4, Block
    <3>. QED  BY <1>2, <3>1, <3>2 DEF Addr
  <2>. QED  BY <1>9, <2>1, <2>2, <2>3, <2>4 DEF Kept
<1>. QED  BY <1>12, <1>13

(***************************************************************************)
(* An operation that turns memory m with blocks B into memory n with the   *)
(* break brk hands out the block b with room for size bytes: b is marked   *)
(* allocated, as no other block is that was not, and it is not the block   *)
(* of anyone but own; the words of own, as many as fit, are in b.  With a  *)
(* memcpy that copies downwards the last is not so.                        *)
(***************************************************************************)
Carried(m, n, own, b, size) ==
  ~MemcpyDescends /\ own # NULL =>
    \A o \in Nat : o % 4 = 0 /\ o < size /\ o < BLK_AVAL_SIZE(m, own) => n[b + o] = m[own + o]

Handed(m, B, n, brk, own, b, size) ==
  \E C :
    /\ HeapOK(n, brk, C) /\ Kept(m, n, B, C, own, b)
    /\ b \in C /\ b # heap_listp
    /\ BLK_STATE(n, b) = BLK_ALLOC /\ size <= BLK_AVAL_SIZE(n, b)
    /\ \A c \in B : BLK_STATE(m, c) = BLK_ALLOC /\ c # own => c # b
    /\ Carried(m, n, own, b, size)

\* Words of the payload of the new block are as they were in k.
LEMMA CarriedOn ==
  ASSUME NEW m, NEW k, NEW n, NEW own, NEW a \in Nat, a % 8 = 0, mem_start_brk <= a,
         NEW size \in Nat, NEW s \in Nat, size <= s - 8, a + s <= mem_max_addr,
         Carried(m, k, own, a, size),
         \A w \in Addr : a <= w /\ w < a + s - 8 => n[w] = k[w]
  PROVE  Carried(m, n, own, a, size)
<1>. SUFFICES ASSUME ~MemcpyDescends, own # NULL,
                     NEW o \in Nat, o % 4 = 0, o < size, o < BLK_AVAL_SIZE(m, own)
              PROVE  n[a + o] = m[own + o]
  BY DEF Carried
<1>1. k[a + o] = m[own + o]
  BY DEF Carried
<1>2. a + o \in Addr /\ a <= a + o /\ a + o < a + s - 8
  BY RegionAssumption DEF Addr, mem_max_addr
<1>. QED  BY <1>1, <1>2

\* Blocks from a to e of which none but the first is allocated.
TiledFirst(m, a, e) ==
  \E N : /\ Tiling(m, a, e, N) /\ a \in N
         /\ \A c \in N : BLK_STATE(m, c) = BLK_ALLOC => c = a

\* n is m with the t bytes at a cut into an allocated block of s bytes and,
\* when they make one, a free rest.
Severed(m, n, a, t, s) ==
  /\ n \in Memory
  /\ \A w \in Addr : w < a - 4 \/ a + t - 4 <= w => n[w] = m[w]
  /\ TiledFirst(n, a, a + t)
  /\ BLK_SIZE(n, a) = s /\ BLK_STATE(n, a) = BLK_ALLOC
  /\ \A w \in Addr : a <= w /\ w < a + s - 8 => n[w] = m[w]

\* Cut makes one or two blocks of the total bytes at a.
LEMMA CutTiles ==
  ASSUME NEW m \in Memory, NEW a \in Int, a % 8 = 0, mem_start_brk <= a,
         NEW t \in Nat, t % 8 = 0, a + t <= mem_max_addr,
         NEW s \in Nat, s % 8 = 0, s >= 8, s <= t
  PROVE  Severed(m, Cut(m, a, t, s), a, t, s)
<1>. DEFINE n == Cut(m, a, t, s)
<1>1. BLK_FREE \in {BLK_FREE, BLK_ALLOC} /\ BLK_ALLOC \in {BLK_FREE, BLK_ALLOC}
  OBVIOUS
<1>2. CASE t - s >= 8
  <2>. DEFINE r == t - s
  <2>1. r \in Nat /\ r % 8 = 0 /\ r >= 8 /\ a + s + r = a + t
    BY <1>2
  <2>2. n = SET_BLK(SET_BLK(m, a, s, BLK_ALLOC), a + s, r, BLK_FREE)
    BY <1>2 DEF Cut, MIN_BLK_SIZE, WSIZE
  <2>. HIDE DEF r
  <2>3. a + s + r <= mem_max_addr
    BY <2>1
  <2>. DEFINE k == SET_BLK(SET_BLK(m, a, s, BLK_ALLOC), a + s, r, BLK_FREE)
  <2>4. /\ k \in Memory
        /\ \A w \in Addr : w < a - 4 \/ a + s + r - 4 <= w => k[w] = m[w]
        /\ Tiling(k, a, a + s + r, {a, a + s})
        /\ BLK_SIZE(k, a) = s /\ BLK_STATE(k, a) = BLK_ALLOC
    BY <1>1, <2>1, <2>3, SetTwoFacts
  <2>a. BLK_STATE(k, a + s) = BLK_FREE
    BY <1>1, <2>1, <2>3, SetTwoUpper
  <2>b. \A w \in Addr : a <= w /\ w < a + s - 8 => k[w] = m[w]
    <3>. DEFINE h == SET_BLK(m, a, s, BLK_ALLOC)
                c == a + s
    <3>1. /\ h \in Memory /\ \A w \in Addr : w # a - 4 /\ w # a + s - 8 => h[w] = m[w]
      <4>1. a + s <= mem_max_addr
        BY <2>1, <2>3, Layout
      <4>2. Tagged(m, h, a, s, BLK_ALLOC)
        BY <1>1, <4>1, SetBlkFacts
      <4>. QED  BY <4>2 DEF Tagged
    <3>. HIDE DEF h
    <3>2. c \in Int /\ c % 8 = 0 /\ mem_start_brk <= c /\ c + r <= mem_max_addr
      BY <2>1, <2>3, Layout
    <3>. HIDE DEF c
    <3>3. \A w \in Addr : w # c - 4 /\ w # c + r - 8 => SET_BLK(h, c, r, BLK_FREE)[w] = h[w]
      <4>1. Tagged(h, SET_BLK(h, c, r, BLK_FREE), c, r, BLK_FREE)
        BY <1>1, <2>1, <3>1, <3>2, SetBlkFacts
      <4>. QED  BY <4>1 DEF Tagged
    <3>4. ASSUME NEW w \in Addr, a <= w, w < a + s - 8
          PROVE  w # a - 4 /\ w # a + s - 8 /\ w # c - 4 /\ w # c + r - 8
      BY <2>1, <3>4 DEF Addr, c
    <3>5. k = SET_BLK(h, c, r, BLK_FREE)
      BY DEF h, c
    <3>. QED  BY <3>1, <3>3, <3>4, <3>5
  <2>. HIDE DEF k
  <2>5. n = k
    BY <2>2 DEF k
  <2>6. \A w \in Addr : w < a - 4 \/ a + t - 4 <= w => k[w] = m[w]
    BY <2>1, <2>4
  <2>7. /\ Tiling(k, a, a + t, {a, a + s}) /\ a \in {a, a + s}
        /\ \A c \in {a, a + s} : BLK_STATE(k, c) = BLK_ALLOC => c = a
    BY <2>1, <2>4, <2>a DEF BLK_FREE, BLK_ALLOC
  <2>. QED  BY <2>4, <2>5, <2>6, <2>7, <2>b DEF TiledFirst, Severed
<1>3. CASE ~(t - s >= 8)
  <2>1. t = s
    BY <1>3
  <2>. DEFINE k == SET_BLK(m, a, s, BLK_ALLOC)
  <2>2. n = k
    BY <1>3 DEF Cut, MIN_BLK_SIZE, WSIZE
  <2>3. a + s <= mem_max_addr
    BY <2>1
  <2>4. /\ k \in Memory
        /\ \A w \in Addr : w # a - 4 /\ w # a + s - 8 => k[w] = m[w]
        /\ Tiling(k, a, a + s, {a})
        /\ BLK_SIZE(k, a) = s /\ BLK_STATE(k, a) = BLK_ALLOC
    <3>1. Tagged(m, k, a, s, BLK_ALLOC)
      BY <1>1, <2>3, SetBlkFacts
    <3>. QED  BY <3>1 DEF Tagged
  <2>. HIDE DEF k
  <2>5. \A w \in Addr : w < a - 4 \/ a + t - 4 <= w => k[w] = m[w]
    <3>. SUFFICES ASSUME NEW w \in Addr, w < a - 4 \/ a + t - 4 <= w
                  PROVE  w # a - 4 /\ w # a + s - 8
      BY <2>4
    <3>. QED  BY <2>1 DEF Addr
  <2>6. /\ Tiling(k, a, a + t, {a}) /\ a \in {a}
        /\ \A c \in {a} : BLK_STATE(k, c) = BLK_ALLOC => c = a
    BY <2>1, <2>4
  <2>7. \A w \in Addr : a <= w /\ w < a + s - 8 => k[w] = m[w]
    <3>. SUFFICES ASSUME NEW w \in Addr, a <= w, w < a + s - 8
                  PROVE  w # a - 4 /\ w # a + s - 8
      BY <2>4
    <3>. QED  BY DEF Addr
  <2>. QED  BY <2>2, <2>4, <2>5, <2>6, <2>7 DEF TiledFirst, Severed
<1>. QED  BY <1>2, <1>3

\* Cut applied to the bytes from block a to block e, of which only free blocks
\* and own are left, hands out a.  The payloads there may have moved (k).
LEMMA CutHands ==
  ASSUME NEW m, NEW brk, NEW B, HeapOK(m, brk, B), NEW own,
         NEW a \in B, a # heap_listp, NEW e \in B \cup {brk}, NEW k \in Memory,
         \A w \in Addr : w < a - 4 \/ e - 4 <= w => k[w] = m[w],
         \A b \in B : a <= b /\ b < e => b = own \/ BLK_STATE(m, b) = BLK_FREE,
         Within(own, B, a, e),
         NEW s \in Nat, s % 8 = 0, s >= 8, s <= e - a,
         NEW size \in Nat, size <= s - 8, Carried(m, k, own, a, size)
  PROVE  Handed(m, B, Cut(k, a, e - a, s), brk, own, a, size)
<1>. DEFINE n == Cut(k, a, e - a, s)
            t == e - a
<1>1. /\ a \in Nat /\ a % 8 = 0 /\ mem_start_brk <= a
      /\ brk \in Nat /\ brk % 8 = 0 /\ brk <= mem_max_addr
  <2>1. a \in Nat /\ a % 8 = 0 /\ mem_start_brk + 8 <= a
    BY Block
  <2>2. brk \in Nat /\ brk % 8 = 0 /\ brk <= mem_max_addr
    BY DEF HeapOK
  <2>. QED  BY <2>1, <2>2, Layout
<1>2. e \in Nat /\ e % 8 = 0 /\ e <= mem_max_addr
  <2>1. CASE e = brk
    BY <1>1, <2>1
  <2>2. CASE e \in B
    <3>1. e \in Nat /\ e % 8 = 0 /\ e < brk
      BY <2>2, Block
    <3>. QED  BY <1>1, <3>1, Layout
  <2>. QED  BY <2>1, <2>2
<1>3. t \in Nat /\ t % 8 = 0 /\ a + t = e
  BY <1>1, <1>2
<1>. HIDE DEF t
<1>4. s <= t /\ a + t <= mem_max_addr /\ a \in Int
  BY <1>1, <1>2, <1>3 DEF t
<1>5. /\ Cut(k, a, t, s) \in Memory
      /\ \A w \in Addr : w < a - 4 \/ a + t - 4 <= w => Cut(k, a, t, s)[w] = k[w]
      /\ TiledFirst(Cut(k, a, t, s), a, a + t)
      /\ BLK_SIZE(Cut(k, a, t, s), a) = s /\ BLK_STATE(Cut(k, a, t, s), a) = BLK_ALLOC
      /\ \A w \in Addr : a <= w /\ w < a + s - 8 => Cut(k, a, t, s)[w] = k[w]
  <2>1. Severed(k, Cut(k, a, t, s), a, t, s)
    BY <1>1, <1>3, <1>4, CutTiles
  <2>. QED  BY <2>1 DEF Severed
<1>6. n = Cut(k, a, t, s)
  BY DEF t
<1>. HIDE DEF n
<1>7. /\ n \in Memory
      /\ BLK_SIZE(n, a) = s /\ BLK_STATE(n, a) = BLK_ALLOC
  BY <1>5, <1>6
<1>8. PICK N : /\ Tiling(n, a, e, N) /\ a \in N
               /\ \A c \in N : BLK_STATE(n, c) = BLK_ALLOC => c = a
  BY <1>3, <1>5, <1>6 DEF TiledFirst
<1>9. \A w \in Addr : w < a - 4 \/ e - 4 <= w => n[w] = m[w]
  <2>. SUFFICES ASSUME NEW w \in Addr, w < a - 4 \/ e - 4 <= w
                PROVE  n[w] = m[w]
    OBVIOUS
  <2>1. k[w] = m[w]
    OBVIOUS
  <2>2. w < a - 4 \/ a + t - 4 <= w
    BY <1>1, <1>2, <1>3 DEF Addr
  <2>3. Cut(k, a, t, s)[w] = k[w]
    BY <1>5, <2>2
  <2>. QED  BY <1>6, <2>1, <2>3
<1>10. HeapOK(n, brk, Replaced(B, a, e, N)) /\ Kept(m, n, B, Replaced(B, a, e, N), own, a)
  BY <1>7, <1>8, <1>9, Rewrite
<1>11. a \in Replaced(B, a, e, N)
  BY <1>8 DEF Replaced
<1>12. size <= BLK_AVAL_SIZE(n, a)
  BY <1>7 DEF BLK_AVAL_SIZE, WSIZE
<1>13. \A c \in B : BLK_STATE(m, c) = BLK_ALLOC /\ c # own => c # a
  <2>1. a < e
    BY <1>1, <1>2
  <2>. QED  BY <1>1, <2>1 DEF BLK_FREE, BLK_ALLOC
<1>a. Carried(m, n, own, a, size)
  <2>1. a + s <= mem_max_addr /\ \A w \in Addr : a <= w /\ w < a + s - 8 => n[w] = k[w]
    <3>1. mem_max_addr \in Int
      BY Layout
    <3>2. a + s <= mem_max_addr
      BY <1>1, <1>3, <1>4, <3>1
    <3>. QED  BY <1>5, <1>6, <3>2
  <2>. QED  BY <1>1, <2>1, CarriedOn
<1>14. Handed(m, B, n, brk, own, a, size)
  BY <1>7, <1>10, <1>11, <1>12, <1>13, <1>a DEF Handed
<1>. QED  BY <1>14 DEF n

\* place hands out the block it is given, if it takes it.
LEMMA PlaceHands ==
  ASSUME NEW m, NEW brk, NEW B, HeapOK(m, brk, B), NEW b \in B, NEW size \in Nat,
         place(m, b, ALIGN(size)).p # NULL
  PROVE  /\ place(m, b, ALIGN(size)).p = b
         /\ Handed(m, B, place(m, b, ALIGN(size)).mem, brk, NULL, b, size)
<1>. DEFINE s == ALIGN(size) + 8
            e == b + BLK_SIZE(m, b)
<1>1. /\ s \in Nat /\ s % 8 = 0 /\ s >= 8 /\ size <= s - 8
      /\ ALIGN(ALIGN(size)) + 2 * 4 = s
  BY DEF ALIGN
<1>. HIDE DEF s
<1>2. /\ b \in Nat /\ BLK_SIZE(m, b) \in Nat /\ BLK_SIZE(m, b) % 8 = 0 /\ BLK_SIZE(m, b) >= 8
      /\ e \in B \cup {brk}
      /\ BLK_STATE(m, b) \in {BLK_FREE, BLK_ALLOC}
      /\ \A c \in B : b < c => e <= c
  BY Block
<1>3. /\ BLK_STATE(m, b) = BLK_FREE /\ s <= BLK_SIZE(m, b)
      /\ place(m, b, ALIGN(size)).p = b
      /\ place(m, b, ALIGN(size)).mem = Cut(m, b, BLK_SIZE(m, b), s)
  <2>1. /\ BLK_STATE(m, b) # BLK_ALLOC /\ ~(s > BLK_SIZE(m, b))
        /\ place(m, b, ALIGN(size)).p = b
    BY <1>1 DEF place, WSIZE, NULL
  <2>2. s <= BLK_SIZE(m, b) /\ BLK_STATE(m, b) = BLK_FREE
    BY <1>1, <1>2, <2>1
  <2>3. BLK_SIZE(m, b) - s < 8 => BLK_SIZE(m, b) = s
    BY <1>1, <1>2, <2>2
  <2>4. place(m, b, ALIGN(size)).mem = Cut(m, b, BLK_SIZE(m, b), s)
    <3>1. CASE BLK_SIZE(m, b) - s < 8
      BY <1>1, <1>2, <2>1, <2>3, <3>1 DEF place, Cut, MIN_BLK_SIZE, WSIZE
    <3>2. CASE ~(BLK_SIZE(m, b) - s < 8)
      BY <1>1, <1>2, <2>1, <3>2 DEF place, Cut, MIN_BLK_SIZE, WSIZE
    <3>. QED  BY <3>1, <3>2
  <2>. QED  BY <2>1, <2>2, <2>4
<1>4. b # heap_listp
  BY <1>3 DEF HeapOK, BLK_FREE, BLK_ALLOC
<1>5. \A c \in B : b <= c /\ c < e => c = NULL \/ BLK_STATE(m, c) = BLK_FREE
  <2>. SUFFICES ASSUME NEW c \in B, b <= c, c < e
                PROVE  c = b
    BY <1>3
  <2>1. c \in Nat
    BY Prologue
  <2>. QED  BY <1>2, <2>1
<1>6. m \in Memory /\ s <= e - b /\ e - b = BLK_SIZE(m, b) /\ Within(NULL, B, b, e)
  BY <1>2, <1>3, NotNull DEF HeapOK, Within
<1>. HIDE DEF e
<1>a. Carried(m, m, NULL, b, size)
  BY DEF Carried
<1>7. Handed(m, B, Cut(m, b, e - b, s), brk, NULL, b, size)
  BY <1>1, <1>2, <1>4, <1>5, <1>6, <1>a, CutHands
<1>. QED  BY <1>3, <1>6, <1>7

\* The block after b, which may be the end of the list.
LEMMA NextFacts ==
  ASSUME NEW m, NEW brk, NEW B, HeapOK(m, brk, B), NEW b \in B
  PROVE  /\ NEXT_BLKP(m, b) = b + BLK_SIZE(m, b)
         /\ NEXT_BLKP(m, b) \in B \cup {brk}
         /\ BLK_SIZE(m, brk) = 0 /\ BLK_STATE(m, brk) \in {BLK_FREE, BLK_ALLOC}
         /\ NEXT_BLK_SIZE(m, b) \in Nat
         /\ NEXT_BLKP(m, b) + NEXT_BLK_SIZE(m, b) \in B \cup {brk}
         /\ NEXT_BLK_ALLOC(m, b) \in {BLK_FREE, BLK_ALLOC}
<1>1. NEXT_BLKP(m, b) = b + BLK_SIZE(m, b) /\ NEXT_BLKP(m, b) \in B \cup {brk}
  BY Block DEF NEXT_BLKP
<1>2. BLK_SIZE(m, brk) = 0 /\ BLK_STATE(m, brk) \in {BLK_FREE, BLK_ALLOC} /\ brk \in Nat
  BY DEF HeapOK, BLK_SIZE, BLK_STATE, BLK_HDRP, WSIZE, GET_SIZE, GET_ALLOC, BLK_FREE, BLK_ALLOC
<1>3. CASE NEXT_BLKP(m, b) = brk
  BY <1>1, <1>2, <1>3 DEF NEXT_BLK_SIZE, NEXT_BLK_ALLOC
<1>4. CASE NEXT_BLKP(m, b) \in B
  BY <1>1, <1>2, <1>4, Block DEF NEXT_BLK_SIZE, NEXT_BLK_ALLOC
<1>. QED  BY <1>1, <1>2, <1>3, <1>4

\* The block before b.
LEMMA PrevFacts ==
  ASSUME NEW m, NEW brk, NEW B, HeapOK(m, brk, B), NEW b \in B \cup {brk}, b # heap_listp
  PROVE  /\ PREV_BLKP(m, b) \in B
         /\ PREV_BLK_SIZE(m, b) = BLK_SIZE(m, PREV_BLKP(m, b))
         /\ PREV_BLK_ALLOC(m, b) = BLK_STATE(m, PREV_BLKP(m, b))
         /\ PREV_BLKP(m, b) = b - PREV_BLK_SIZE(m, b)
         /\ PREV_BLKP(m, b) + BLK_SIZE(m, PREV_BLKP(m, b)) = b
<1>1. Tiling(m, heap_listp, brk, B) /\ brk \in Int /\ heap_listp \in Int
  BY Layout DEF HeapOK
<1>. QED  BY <1>1, TilingPrev

\* coalesce joins the block with its free neighbours into one free block, from
\* a to e.
LEMMA CoalesceFacts ==
  ASSUME NEW m, NEW brk, NEW B, HeapOK(m, brk, B), NEW bp \in B, bp # heap_listp
  PROVE  \E C : /\ HeapOK(coalesce(m, bp).mem, brk, C)
                /\ Kept(m, coalesce(m, bp).mem, B, C, bp, NULL)
                /\ coalesce(m, bp).p \in C
<1>. DEFINE next == IF NEXT_BLK_ALLOC(m, bp) = BLK_FREE THEN NEXT_BLK_SIZE(m, bp) ELSE 0
            prev == IF PREV_BLK_ALLOC(m, bp) = BLK_FREE THEN PREV_BLK_SIZE(m, bp) ELSE 0
            a == bp - prev
            s == BLK_SIZE(m, bp) + next + prev
            n == SET_BLK(m, a, s, BLK_FREE)
            e == a + s
<1>1. coalesce(m, bp) = [mem |-> n, p |-> a]
  BY DEF coalesce
<1>2. /\ bp \in Nat /\ BLK_SIZE(m, bp) \in Nat /\ BLK_SIZE(m, bp) >= 8
      /\ BLK_SIZE(m, bp) % 8 = 0
      /\ \A c \in B : bp < c => bp + BLK_SIZE(m, bp) <= c
  BY Block
<1>. DEFINE nb == bp + BLK_SIZE(m, bp)
            pb == PREV_BLKP(m, bp)
<1>3. /\ nb \in B \cup {brk} /\ nb \in Nat
      /\ next \in Nat /\ nb + next \in B \cup {brk}
      /\ \A c \in B : nb <= c /\ c < nb + next => BLK_STATE(m, c) = BLK_FREE
  <2>1. /\ NEXT_BLKP(m, bp) = nb /\ nb \in B \cup {brk}
        /\ NEXT_BLK_SIZE(m, bp) \in Nat
        /\ NEXT_BLKP(m, bp) + NEXT_BLK_SIZE(m, bp) \in B \cup {brk}
        /\ BLK_SIZE(m, brk) = 0
    BY NextFacts
  <2>2. nb \in Nat /\ next \in Nat /\ nb + next \in B \cup {brk}
    BY <1>2, <2>1
  <2>3. ASSUME NEW c \in B, nb <= c, c < nb + next
        PROVE  BLK_STATE(m, c) = BLK_FREE
    <3>1. c \in Nat /\ c < brk /\ brk \in Nat
      BY Prologue DEF HeapOK
    <3>2. /\ NEXT_BLK_ALLOC(m, bp) = BLK_FREE /\ next = BLK_SIZE(m, nb)
          /\ BLK_STATE(m, nb) = BLK_FREE
      BY <2>1, <2>2, <2>3, <3>1 DEF NEXT_BLK_SIZE, NEXT_BLK_ALLOC
    <3>3. nb \in B
      BY <2>1, <2>2, <2>3, <3>1
    <3>4. nb < c => nb + BLK_SIZE(m, nb) <= c
      BY <3>3, Block
    <3>5. c = nb
      BY <2>2, <2>3, <3>1, <3>2, <3>4
    <3>. QED  BY <3>2, <3>5
  <2>. QED  BY <2>1, <2>2, <2>3
<1>. HIDE DEF next
<1>4. /\ a \in B /\ a # heap_listp /\ prev \in Nat
      /\ \A c \in B : a <= c /\ c < bp => BLK_STATE(m, c) = BLK_FREE
  <2>1. /\ pb \in B /\ PREV_BLK_SIZE(m, bp) = BLK_SIZE(m, pb)
        /\ PREV_BLK_ALLOC(m, bp) = BLK_STATE(m, pb)
        /\ pb = bp - PREV_BLK_SIZE(m, bp) /\ pb + BLK_SIZE(m, pb) = bp
    BY PrevFacts
  <2>2. /\ pb \in Nat /\ BLK_SIZE(m, pb) \in Nat
        /\ \A c \in B : pb < c => pb + BLK_SIZE(m, pb) <= c
    BY <2>1, Block
  <2>3. CASE PREV_BLK_ALLOC(m, bp) = BLK_FREE
    <3>1. a = pb /\ prev \in Nat /\ BLK_STATE(m, pb) = BLK_FREE
      BY <2>1, <2>2, <2>3
    <3>2. pb # heap_listp
      BY <3>1 DEF HeapOK, BLK_FREE, BLK_ALLOC
    <3>3. ASSUME NEW c \in B, pb <= c, c < bp
          PROVE  c = pb
      <4>1. c \in Nat
        BY Prologue
      <4>. QED  BY <2>1, <2>2, <3>3, <4>1
    <3>. QED  BY <2>1, <3>1, <3>2, <3>3
  <2>4. CASE PREV_BLK_ALLOC(m, bp) # BLK_FREE
    <3>1. a = bp /\ prev = 0
      BY <1>2, <2>4
    <3>2. ASSUME NEW c \in B, bp <= c, c < bp
          PROVE  FALSE
      <4>1. c \in Nat
        BY Prologue
      <4>. QED  BY <1>2, <3>2, <4>1
    <3>. QED  BY <3>1, <3>2
  <2>. QED  BY <2>3, <2>4
<1>. HIDE DEF prev
<1>5. e = nb + next /\ s \in Nat /\ s >= 8
  BY <1>2, <1>3, <1>4
<1>6. /\ a \in Nat /\ a % 8 = 0 /\ mem_start_brk <= a
      /\ brk \in Nat /\ brk <= mem_max_addr /\ brk % 8 = 0 /\ m \in Memory
  <2>1. brk \in Nat /\ brk <= mem_max_addr /\ brk % 8 = 0 /\ m \in Memory
    BY DEF HeapOK
  <2>2. a \in Nat /\ a % 8 = 0 /\ mem_start_brk <= a
    BY <1>4, Block, Layout
  <2>. QED  BY <2>1, <2>2
<1>7. e \in B \cup {brk} /\ e \in Nat /\ e % 8 = 0 /\ e <= brk
  BY <1>3, <1>5, <1>6, Prologue
<1>8. s % 8 = 0 /\ a + s <= mem_max_addr
  <2>1. a + s <= mem_max_addr
    BY <1>6, <1>7, Layout
  <2>. HIDE DEF a, s
  <2>. QED  BY <1>5, <1>6, <1>7, <2>1
<1>9. \A c \in B : a <= c /\ c < e => c = bp \/ BLK_STATE(m, c) = BLK_FREE
  <2>. SUFFICES ASSUME NEW c \in B, a <= c, c < e, c # bp
                PROVE  BLK_STATE(m, c) = BLK_FREE
    OBVIOUS
  <2>1. c \in Nat
    BY Prologue
  <2>2. c < bp \/ nb <= c
    BY <1>2, <2>1
  <2>. QED  BY <1>3, <1>4, <1>5, <2>2
<1>. HIDE DEF a, s
<1>10. /\ n \in Memory
       /\ \A w \in Addr : w # a - 4 /\ w # a + s - 8 => n[w] = m[w]
       /\ Tiling(n, a, a + s, {a}) /\ BLK_STATE(n, a) = BLK_FREE
  <2>1. BLK_FREE \in {BLK_FREE, BLK_ALLOC} /\ a \in Int
    BY <1>6
  <2>2. Tagged(m, n, a, s, BLK_FREE)
    BY <1>5, <1>6, <1>8, <2>1, SetBlkFacts
  <2>. QED  BY <2>2 DEF Tagged
<1>. HIDE DEF n
<1>11. \A w \in Addr : w < a - 4 \/ e - 4 <= w => n[w] = m[w]
  <2>. SUFFICES ASSUME NEW w \in Addr, w < a - 4 \/ e - 4 <= w
                PROVE  w # a - 4 /\ w # a + s - 8
    BY <1>10
  <2>. QED  BY <1>5, <1>6 DEF Addr
<1>12. HeapOK(n, brk, Replaced(B, a, e, {a})) /\ Kept(m, n, B, Replaced(B, a, e, {a}), bp, NULL)
  <2>1. \A b \in {a} : BLK_STATE(n, b) = BLK_ALLOC => b = NULL
    BY <1>10 DEF BLK_FREE, BLK_ALLOC
  <2>2. Within(bp, B, a, e)
    BY <1>2, <1>3, <1>4, <1>5 DEF a, Within
  <2>3. Tiling(n, a, e, {a})
    BY <1>10
  <2>. HIDE DEF e
  <2>. QED  BY <1>4, <1>7, <1>9, <1>10, <1>11, <2>1, <2>2, <2>3, Rewrite
<1>13. a \in Replaced(B, a, e, {a})
  BY DEF Replaced
<1>. QED  BY <1>1, <1>12, <1>13

\* Writing a block's tags anew, with the size it has.
LEMMA Retag ==
  ASSUME NEW m, NEW brk, NEW B, HeapOK(m, brk, B), NEW b \in B, b # heap_listp,
         NEW x \in {BLK_FREE, BLK_ALLOC}
  PROVE  LET n == SET_BLK(m, b, BLK_SIZE(m, b), x)
             C == Replaced(B, b, b + BLK_SIZE(m, b), {b})
         IN  /\ HeapOK(n, brk, C) /\ Kept(m, n, B, C, b, b) /\ b \in C
             /\ BLK_SIZE(n, b) = BLK_SIZE(m, b) /\ BLK_STATE(n, b) = x
             /\ SamePayload(m, n, b)
<1>. DEFINE s == BLK_SIZE(m, b)
            e == b + s
            n == SET_BLK(m, b, s, x)
<1>1. /\ b \in Nat /\ b % 8 = 0 /\ mem_start_brk <= b
      /\ s \in Nat /\ s % 8 = 0 /\ s >= 8
      /\ e \in B \cup {brk} /\ e <= brk
      /\ \A c \in B : b < c => e <= c
  BY Block, Layout
<1>2. brk \in Nat /\ brk <= mem_max_addr /\ m \in Memory
  BY DEF HeapOK
<1>3. \A c \in B : b <= c /\ c < e => c = b \/ BLK_STATE(m, c) = BLK_FREE
  <2>. SUFFICES ASSUME NEW c \in B, b <= c, c < e
                PROVE  c = b
    OBVIOUS
  <2>1. c \in Nat
    BY Prologue
  <2>. QED  BY <1>1, <2>1
<1>. HIDE DEF s
<1>4. b + s <= mem_max_addr /\ b \in Int
  BY <1>1, <1>2, Layout
<1>5. /\ n \in Memory
      /\ \A w \in Addr : w # b - 4 /\ w # b + s - 8 => n[w] = m[w]
      /\ Tiling(n, b, b + s, {b})
      /\ BLK_SIZE(n, b) = s /\ BLK_STATE(n, b) = x
  <2>1. Tagged(m, n, b, s, x)
    BY <1>1, <1>2, <1>4, SetBlkFacts
  <2>. QED  BY <2>1 DEF Tagged
<1>. HIDE DEF n
<1>6. \A w \in Addr : w < b - 4 \/ e - 4 <= w => n[w] = m[w]
  <2>. SUFFICES ASSUME NEW w \in Addr, w < b - 4 \/ e - 4 <= w
                PROVE  w # b - 4 /\ w # b + s - 8
    BY <1>5
  <2>. QED  BY <1>1 DEF Addr
<1>7. HeapOK(n, brk, Replaced(B, b, e, {b})) /\ Kept(m, n, B, Replaced(B, b, e, {b}), b, b)
  <2>1. Within(b, B, b, e) /\ Tiling(n, b, e, {b})
    BY <1>1, <1>5 DEF Within
  <2>. HIDE DEF e
  <2>. QED  BY <1>1, <1>3, <1>5, <1>6, <2>1, Rewrite
<1>8. b \in Replaced(B, b, e, {b})
  BY DEF Replaced
<1>9. SamePayload(m, n, b)
  <2>. SUFFICES ASSUME NEW w \in Addr, b <= w, w < b + s - 8
                PROVE  w # b - 4 /\ w # b + s - 8
    BY <1>5 DEF SamePayload, s
  <2>. QED  BY <1>1 DEF Addr
<1>. QED  BY <1>5, <1>7, <1>8, <1>9 DEF n, s

\* implicit_mm_free gives up the block ptr and no other.
LEMMA FreeFacts ==
  ASSUME NEW m, NEW brk, NEW B, HeapOK(m, brk, B), NEW ptr \in B, ptr # heap_listp
  PROVE  \E C : /\ HeapOK(implicit_mm_free(m, ptr).mem, brk, C)
                /\ Kept(m, implicit_mm_free(m, ptr).mem, B, C, ptr, NULL)
                /\ implicit_mm_free(m, ptr).p \in C
<1>. DEFINE n == SET_BLK(m, ptr, BLK_SIZE(m, ptr), BLK_FREE)
            C == Replaced(B, ptr, ptr + BLK_SIZE(m, ptr), {ptr})
<1>1. HeapOK(n, brk, C) /\ Kept(m, n, B, C, ptr, ptr) /\ ptr \in C
  BY Retag
<1>2. implicit_mm_free(m, ptr) = coalesce(n, ptr)
  BY DEF implicit_mm_free
<1>. HIDE DEF n, C
<1>3. PICK D : /\ HeapOK(coalesce(n, ptr).mem, brk, D)
               /\ Kept(n, coalesce(n, ptr).mem, C, D, ptr, NULL)
               /\ coalesce(n, ptr).p \in D
  BY <1>1, CoalesceFacts
<1>4. Kept(m, coalesce(n, ptr).mem, B, D, ptr, NULL)
  BY <1>1, <1>3, KeptTwice
<1>. QED  BY <1>2, <1>3, <1>4

\* extend_heap fails, or moves the break and writes the word under it only.
LEMMA ExtendFacts ==
  ASSUME NEW m, NEW brk, NEW B, HeapOK(m, brk, B), NEW incr \in Int
  PROVE  LET x == extend_heap(m, brk, incr)
         IN  \/ /\ x.p = NULL /\ x.mem = m /\ x.brk = brk
                /\ incr <= 0 \/ brk + incr > mem_max_addr
             \/ /\ x.p = brk /\ x.brk = brk + incr /\ brk # NULL
                /\ incr > 0 /\ brk + incr <= mem_max_addr
                /\ x.mem \in Memory
                /\ \A w \in Addr : w # brk - 4 => x.mem[w] = m[w]
<1>. DEFINE x == extend_heap(m, brk, incr)
<1>1. brk \in Nat /\ brk # 0 /\ brk % 8 = 0 /\ m \in Memory /\ brk <= mem_max_addr
      /\ mem_start_brk <= brk
  BY Layout DEF HeapOK
<1>2. CASE incr = 0 \/ ~SbrkSucceeds(brk, incr)
  <2>1. x = [mem |-> m, brk |-> brk, p |-> NULL]
    BY <1>2 DEF extend_heap
  <2>2. incr <= 0 \/ brk + incr > mem_max_addr
    BY <1>1, <1>2, Layout DEF SbrkSucceeds
  <2>. QED  BY <2>1, <2>2
<1>3. CASE ~(incr = 0 \/ ~SbrkSucceeds(brk, incr))
  <2>1. incr > 0 /\ brk + incr <= mem_max_addr
    BY <1>3 DEF SbrkSucceeds
  <2>2. NEXT_BLKP(m, brk) = brk
    <3>1. BLK_SIZE(m, brk) = 0
      BY Prologue, NextFacts
    <3>. QED  BY <1>1, <3>1 DEF NEXT_BLKP
  <2>3. x = [mem |-> SET(m, brk - 4, 1), brk |-> brk + incr, p |-> brk]
    BY <1>3, <2>2 DEF extend_heap, SET_EB, PACK, BLK_ALLOC, WSIZE
  <2>4. brk - 4 \in Addr
    BY <1>1, AddrFacts
  <2>5. /\ SET(m, brk - 4, 1) \in Memory
        /\ \A w \in Addr : w # brk - 4 => SET(m, brk - 4, 1)[w] = m[w]
    BY <1>1, <2>4 DEF SET, Memory, Word
  <2>. QED  BY <1>1, <2>1, <2>3, <2>5 DEF NULL
<1>. QED  BY <1>2, <1>3

\* After extend_heap, a block from a to the new break is handed out.
LEMMA GrowHands ==
  ASSUME NEW m, NEW brk, NEW B, HeapOK(m, brk, B), NEW own,
         NEW k \in Memory, \A w \in Addr : w # brk - 4 => k[w] = m[w],
         NEW a \in B \cup {brk}, a # heap_listp,
         \A b \in B : a <= b => b = own \/ BLK_STATE(m, b) = BLK_FREE,
         Within(own, B, a, brk),
         NEW s \in Nat, s % 8 = 0, s >= 8, brk < a + s, a + s <= mem_max_addr,
         NEW size \in Nat, size <= s - 8, Carried(m, k, own, a, size)
  PROVE  /\ Handed(m, B, SET_BLK(k, a, s, BLK_ALLOC), a + s, own, a, size)
         /\ BLK_SIZE(SET_BLK(k, a, s, BLK_ALLOC), a) = s
<1>. DEFINE n == SET_BLK(k, a, s, BLK_ALLOC)
            e == a + s
<1>1. brk \in Nat /\ brk % 8 = 0 /\ brk <= mem_max_addr /\ m \in Memory /\ heap_listp < brk
  BY DEF HeapOK
<1>2. a \in Nat /\ a % 8 = 0 /\ mem_start_brk <= a /\ a <= brk
  BY <1>1, Prologue, Layout
<1>3. e \in Nat /\ e % 8 = 0 /\ a \in Int
  BY <1>2
<1>4. BLK_ALLOC \in {BLK_FREE, BLK_ALLOC}
  OBVIOUS
<1>5. /\ n \in Memory
      /\ \A w \in Addr : w # a - 4 /\ w # a + s - 8 => n[w] = k[w]
      /\ Tiling(n, a, a + s, {a})
      /\ BLK_SIZE(n, a) = s /\ BLK_STATE(n, a) = BLK_ALLOC
  <2>1. Tagged(k, n, a, s, BLK_ALLOC)
    BY <1>2, <1>3, <1>4, SetBlkFacts
  <2>. QED  BY <2>1 DEF Tagged
<1>. HIDE DEF n
<1>6. \A w \in Addr : w < a - 4 \/ e - 4 <= w => n[w] = m[w]
  <2>. SUFFICES ASSUME NEW w \in Addr, w < a - 4 \/ e - 4 <= w
                PROVE  w # a - 4 /\ w # a + s - 8 /\ w # brk - 4
    BY <1>5
  <2>. QED  BY <1>1, <1>2 DEF Addr
<1>7. HeapOK(n, e, Grown(B, a, {a})) /\ Kept(m, n, B, Grown(B, a, {a}), own, a)
  BY <1>3, <1>5, <1>6, Regrow
<1>8. a \in Grown(B, a, {a})
  BY DEF Grown
<1>9. size <= BLK_AVAL_SIZE(n, a)
  BY <1>5 DEF BLK_AVAL_SIZE, WSIZE
<1>10. \A c \in B : BLK_STATE(m, c) = BLK_ALLOC /\ c # own => c # a
  BY <1>2 DEF BLK_FREE, BLK_ALLOC
<1>a. Carried(m, n, own, a, size)
  <2>1. \A w \in Addr : a <= w /\ w < a + s - 8 => n[w] = k[w]
    <3>. SUFFICES ASSUME NEW w \in Addr, a <= w, w < a + s - 8
                  PROVE  w # a - 4 /\ w # a + s - 8
      BY <1>5
    <3>. QED  BY <1>2 DEF Addr
  <2>. QED  BY <1>2, <2>1, CarriedOn
<1>11. Handed(m, B, n, e, own, a, size)
  BY <1>5, <1>7, <1>8, <1>9, <1>10, <1>a DEF Handed
<1>. QED  BY <1>5, <1>11 DEF n

\* The last block of the heap.
LEMMA TailFacts ==
  ASSUME NEW m, NEW brk, NEW B, HeapOK(m, brk, B)
  PROVE  /\ TAIL_BLK(m, brk) \in B
         /\ TAIL_BLK(m, brk) + BLK_SIZE(m, TAIL_BLK(m, brk)) = brk
         /\ \A c \in B : TAIL_BLK(m, brk) <= c => c = TAIL_BLK(m, brk)
<1>. DEFINE t == TAIL_BLK(m, brk)
<1>1. brk # heap_listp /\ brk \in Nat
  BY Layout DEF HeapOK
<1>2. t \in B /\ t + BLK_SIZE(m, t) = brk
  BY <1>1, PrevFacts DEF TAIL_BLK
<1>. HIDE DEF t
<1>3. ASSUME NEW c \in B, t <= c
      PROVE  c = t
  <2>1. c \in Nat /\ c < brk /\ t \in Nat
    BY <1>2, Prologue
  <2>2. t < c => t + BLK_SIZE(m, t) <= c
    BY <1>2, Block
  <2>. QED  BY <1>1, <1>2, <1>3, <2>1, <2>2
<1>. QED  BY <1>2, <1>3 DEF t

\* do_malloc fails and changes nothing, or hands out a block at the end.
LEMMA DoMallocHands ==
  ASSUME NEW m, NEW brk, NEW B, HeapOK(m, brk, B), NEW size \in Nat
  PROVE  LET d == do_malloc(m, brk, ALIGN(size))
         IN  \/ d.p = NULL /\ d.mem = m /\ d.brk = brk
             \/ /\ d.p # NULL /\ brk < d.brk
                /\ Handed(m, B, d.mem, d.brk, NULL, d.p, size)
                /\ BLK_SIZE(d.mem, d.p) = NSize(size)
<1>. DEFINE d == do_malloc(m, brk, ALIGN(size))
            tailp == TAIL_BLK(m, brk)
            s == ALIGN(size) + 8
            reuse == BLK_STATE(m, tailp) = BLK_FREE
            incr == IF reuse THEN s - BLK_SIZE(m, tailp) ELSE s
            x == extend_heap(m, brk, incr)
            a == IF reuse THEN tailp ELSE brk
<1>1. /\ ALIGN(size) \in Nat /\ s \in Nat /\ s % 8 = 0 /\ s >= 8 /\ size <= s - 8
      /\ ALIGN(ALIGN(size)) = ALIGN(size)
  BY DEF ALIGN
<1>2. /\ tailp \in B /\ tailp + BLK_SIZE(m, tailp) = brk
      /\ \A c \in B : tailp <= c => c = tailp
  BY TailFacts
<1>3. tailp \in Nat /\ BLK_SIZE(m, tailp) \in Nat /\ brk \in Nat /\ heap_listp < brk
  BY <1>2, Block DEF HeapOK
<1>. HIDE DEF tailp
<1>4. incr \in Int /\ a + s = brk + incr /\ a \in Nat /\ a \in B \cup {brk}
  BY <1>1, <1>2, <1>3
<1>5. a # heap_listp /\ a # NULL
  <2>1. heap_listp # NULL /\ heap_listp \in Nat
    BY Layout DEF NULL
  <2>2. reuse => tailp # heap_listp
    BY DEF HeapOK, BLK_FREE, BLK_ALLOC
  <2>3. tailp # NULL
    BY <1>2, Prologue, Layout DEF NULL
  <2>. QED  BY <1>3, <2>1, <2>2, <2>3 DEF NULL
<1>6. \A b \in B : a <= b => b = NULL \/ BLK_STATE(m, b) = BLK_FREE
  <2>. SUFFICES ASSUME NEW b \in B, a <= b
                PROVE  BLK_STATE(m, b) = BLK_FREE
    OBVIOUS
  <2>1. b \in Nat /\ b < brk
    BY Prologue
  <2>. QED  BY <1>2, <1>3, <2>1
<1>7. d = IF x.p = NULL THEN x
          ELSE [mem |-> SET_BLK(x.mem, IF reuse THEN tailp ELSE x.p, s, BLK_ALLOC),
                brk |-> x.brk, p |-> IF reuse THEN tailp ELSE x.p]
  <2>1. ALIGN(ALIGN(size)) - BLK_AVAL_SIZE(m, tailp) = s - BLK_SIZE(m, tailp)
    BY <1>1, <1>3 DEF BLK_AVAL_SIZE, WSIZE
  <2>2. ALIGN(ALIGN(size)) + 2 * WSIZE = s
    BY <1>1 DEF WSIZE
  <2>. QED  BY <2>1, <2>2, Zenon DEF do_malloc, tailp
<1>8. \/ /\ x.p = NULL /\ x.mem = m /\ x.brk = brk
      \/ /\ x.p = brk /\ x.brk = brk + incr /\ brk # NULL
         /\ incr > 0 /\ brk + incr <= mem_max_addr
         /\ x.mem \in Memory
         /\ \A w \in Addr : w # brk - 4 => x.mem[w] = m[w]
  <2>. HIDE DEF incr
  <2>. QED  BY <1>4, ExtendFacts
<1>. HIDE DEF x, reuse
<1>9. CASE x.p = NULL
  <2>1. x.mem = m /\ x.brk = brk
    BY <1>8, <1>9
  <2>. QED  BY <1>7, <1>9, <2>1
<1>10. CASE x.p # NULL
  <2>1. /\ x.p = brk /\ x.brk = brk + incr /\ incr > 0 /\ brk + incr <= mem_max_addr
        /\ x.mem \in Memory
        /\ \A w \in Addr : w # brk - 4 => x.mem[w] = m[w]
    BY <1>8, <1>10
  <2>2. d.p = a /\ d.brk = a + s /\ d.mem = SET_BLK(x.mem, a, s, BLK_ALLOC)
    BY <1>4, <1>7, <1>10, <2>1
  <2>3. brk < a + s /\ a + s <= mem_max_addr
    BY <1>3, <1>4, <2>1
  <2>. DEFINE k == x.mem
  <2>a. k \in Memory /\ \A w \in Addr : w # brk - 4 => k[w] = m[w]
    BY <2>1
  <2>. HIDE DEF a, s, d, k, incr
  <2>c. /\ s \in Nat /\ s % 8 = 0 /\ s >= 8 /\ size <= s - 8
        /\ a \in B \cup {brk} /\ a # heap_listp
    BY <1>1, <1>4, <1>5
  <2>d. Within(NULL, B, a, brk) /\ Carried(m, k, NULL, a, size)
    BY NotNull DEF Within, Carried
  <2>b. /\ Handed(m, B, SET_BLK(k, a, s, BLK_ALLOC), a + s, NULL, a, size)
        /\ BLK_SIZE(SET_BLK(k, a, s, BLK_ALLOC), a) = s
    BY <1>6, <2>a, <2>c, <2>d, <2>3, GrowHands
  <2>4. /\ Handed(m, B, SET_BLK(x.mem, a, s, BLK_ALLOC), a + s, NULL, a, size)
        /\ BLK_SIZE(SET_BLK(x.mem, a, s, BLK_ALLOC), a) = s
    BY <2>b DEF k
  <2>5. NSize(size) = s
    BY DEF NSize, s, WSIZE
  <2>. QED  BY <1>5, <2>2, <2>3, <2>4, <2>5 DEF d
<1>. QED  BY <1>9, <1>10

\* The l bytes at dst are those that were at src.
Moved(m, n, dst, src, l) ==
  \A w \in Addr : dst <= w /\ w < dst + l => n[w] = m[w - dst + src]

\* However libc's memcpy goes about it, the move writes the n bytes at dst only.
LEMMA MoveDownFacts ==
  ASSUME NEW m \in Memory, NEW dst \in Nat, dst % 8 = 0, NEW src \in Nat, src % 8 = 0,
         mem_start_brk <= dst, dst < src, NEW n \in Nat, n % 8 = 0, src + n <= mem_max_addr
  PROVE  /\ SameBut(m, MoveDown(m, dst, src, n), dst, dst + n)
         /\ ~MemcpyDescends => Moved(m, MoveDown(m, dst, src, n), dst, src, n)
<1>. DEFINE d == src - dst
            turns(a) == (dst + n - 1 - a) \div d
            from(a) == a + d + d * turns(a)
            k == memcpyDown(m, dst, src, n)
<1>1. d \in Nat /\ d > 0 /\ d % 4 = 0 /\ d % 8 = 0 /\ mem_start_brk <= src
  BY Layout
<1>. HIDE DEF d
<1>2. ASSUME NEW a \in Addr, dst <= a, a < dst + n
      PROVE  from(a) \in Addr
  <2>. DEFINE x == dst + n - 1 - a
              g == d * (x \div d)
  <2>1. x \in Nat /\ a \in Int /\ a % 4 = 0
    BY <1>2 DEF Addr
  <2>. HIDE DEF x
  <2>2. g \in Nat /\ g <= x /\ g % 4 = 0
    BY <1>1, <2>1, MultipleFacts
  <2>. HIDE DEF g
  <2>3. a + d + g \in Int /\ (a + d + g) % 4 = 0
    BY <1>1, <2>1, <2>2
  <2>4. a + d + g <= src + n - 1
    BY <1>1, <2>1, <2>2 DEF x, d
  <2>5. a + d + g >= mem_start_brk
    BY <1>1, <1>2, <2>1, <2>2, Layout
  <2>6. a + d + g \in Addr
    BY <2>3, <2>4, <2>5, RegionAssumption DEF Addr, mem_max_addr
  <2>. QED  BY <2>6 DEF g, x
<1>. HIDE DEF from
<1>3. DOMAIN m = Addr /\ \A a \in Addr : m[a] \in Word
  BY DEF Memory
<1>4. k = [a \in Addr |-> IF dst <= a /\ a < dst + n THEN m[from(a)] ELSE m[a]]
  BY <1>3 DEF memcpyDown, from, d
<1>5. \A a \in Addr : (IF dst <= a /\ a < dst + n THEN m[from(a)] ELSE m[a]) \in Word
  BY <1>2, <1>3
<1>6. k \in Memory
  BY <1>4, <1>5 DEF Memory
<1>7. \A w \in Addr : w < dst \/ dst + n <= w => ~(dst <= w /\ w < dst + n)
  BY DEF Addr
<1>8. \A w \in Addr : w < dst \/ dst + n <= w => k[w] = m[w]
  BY <1>4, <1>7
<1>9. /\ memcpy(m, dst, src, n) \in Memory
      /\ \A w \in Addr : w < dst \/ dst + n <= w => memcpy(m, dst, src, n)[w] = m[w]
  <2>1. mem_start_brk <= src
    BY <1>1
  <2>2. SameBut(m, memcpy(m, dst, src, n), dst, dst + n)
    BY <2>1, CopyFacts
  <2>. QED  BY <2>2 DEF SameBut
<1>10. \A w \in Addr : dst <= w /\ w < dst + n => memcpy(m, dst, src, n)[w] = m[w - dst + src]
  BY <1>3 DEF memcpy
<1>. QED  BY <1>6, <1>8, <1>9, <1>10 DEF MoveDown, SameBut, Moved

\* Writing into the payload of a block leaves the heap as it is.
LEMMA PayloadFrame ==
  ASSUME NEW m, NEW brk, NEW B, HeapOK(m, brk, B), NEW b \in B, b # heap_listp,
         NEW k \in Memory,
         \A w \in Addr : w < b \/ b + BLK_SIZE(m, b) - 8 <= w => k[w] = m[w]
  PROVE  /\ HeapOK(k, brk, B)
         /\ \A c \in B : BLK_SIZE(k, c) = BLK_SIZE(m, c) /\ BLK_STATE(k, c) = BLK_STATE(m, c)
         /\ \A c \in B : c # b => SamePayload(m, k, c)
<1>1. /\ Tiling(m, heap_listp, brk, B) /\ brk \in Nat /\ brk % 8 = 0
      /\ heap_listp + 8 <= brk /\ brk <= mem_max_addr /\ m \in Memory
  BY Prologue DEF HeapOK
<1>2. /\ b \in Nat /\ b % 8 = 0 /\ heap_listp + 8 <= b
      /\ BLK_SIZE(m, b) \in Nat /\ BLK_SIZE(m, b) % 8 = 0 /\ BLK_SIZE(m, b) >= 8
      /\ b + BLK_SIZE(m, b) <= brk
      /\ \A c \in B : b < c => b + BLK_SIZE(m, b) <= c
  BY Block
<1>3. ASSUME NEW c \in B
      PROVE  k[c - 4] = m[c - 4] /\ k[c + BLK_SIZE(m, c) - 8] = m[c + BLK_SIZE(m, c) - 8]
  <2>1. /\ c \in Nat /\ c % 8 = 0 /\ mem_start_brk + 8 <= c
        /\ BLK_SIZE(m, c) \in Nat /\ BLK_SIZE(m, c) % 8 = 0 /\ BLK_SIZE(m, c) >= 8
        /\ c + BLK_SIZE(m, c) <= brk
        /\ c < b => c + BLK_SIZE(m, c) <= b
    BY Block
  <2>2. c - 4 \in Addr /\ c + BLK_SIZE(m, c) - 8 \in Addr
    BY <1>1, <2>1, RegionAssumption DEF Addr, mem_max_addr
  <2>3. CASE c < b
    BY <1>2, <2>1, <2>2, <2>3
  <2>4. CASE c = b
    BY <1>2, <2>1, <2>2, <2>4
  <2>5. CASE b < c
    BY <1>2, <2>1, <2>2, <2>5
  <2>. QED  BY <1>2, <2>1, <2>3, <2>4, <2>5
<1>4. Tiling(k, heap_listp, brk, B)
  <2>1. heap_listp \in Int /\ brk \in Int
    BY <1>1, Layout
  <2>. QED  BY <1>1, <1>3, <2>1, TilingFrame
<1>5. \A c \in B : BLK_SIZE(k, c) = BLK_SIZE(m, c) /\ BLK_STATE(k, c) = BLK_STATE(m, c)
  BY <1>3 DEF BLK_SIZE, BLK_STATE, BLK_HDRP, WSIZE
<1>6. BLK_SIZE(k, heap_listp) = 8 /\ BLK_STATE(k, heap_listp) = BLK_ALLOC
  BY <1>5, Prologue DEF HeapOK
<1>7. brk - 4 \in Addr /\ mem_start_brk - 4 \in Addr
  BY <1>1, Layout, RegionAssumption DEF Addr
<1>8. k[brk - 4] = m[brk - 4] /\ k[mem_start_brk - 4] = m[mem_start_brk - 4]
  BY <1>1, <1>2, <1>7, Layout
<1>9. \A w \in Addr : brk <= w => k[w] = m[w]
  <2>. SUFFICES ASSUME NEW w \in Addr, brk <= w
                PROVE  b + BLK_SIZE(m, b) - 8 <= w
    OBVIOUS
  <2>. QED  BY <1>1, <1>2 DEF Addr
<1>10. HeapOK(k, brk, B)
  BY <1>4, <1>6, <1>8, <1>9 DEF HeapOK
<1>11. ASSUME NEW c \in B, c # b
       PROVE  SamePayload(m, k, c)
  <2>. SUFFICES ASSUME NEW w \in Addr, c <= w, w < c + BLK_SIZE(m, c) - 8
                PROVE  w < b \/ b + BLK_SIZE(m, b) - 8 <= w
    BY DEF SamePayload
  <2>1. c \in Nat /\ BLK_SIZE(m, c) \in Nat /\ (c < b => c + BLK_SIZE(m, c) <= b)
    BY Block
  <2>. QED  BY <1>2, <1>11, <2>1 DEF Addr
<1>. QED  BY <1>5, <1>10, <1>11

\* realloc by way of a new block at the end of the heap: the old block is copied
\* and freed, and the tags of the new one are written once more.
LEMMA MoveHands ==
  ASSUME NEW m, NEW brk, NEW B, HeapOK(m, brk, B), NEW ptr \in B, ptr # heap_listp,
         BLK_STATE(m, ptr) = BLK_ALLOC, NEW size \in Nat, BLK_SIZE(m, ptr) < NSize(size),
         do_malloc(m, brk, ALIGN(size)).p # NULL
  PROVE  LET d == do_malloc(m, brk, ALIGN(size))
             f == implicit_mm_free(memcpy(d.mem, d.p, ptr, BLK_AVAL_SIZE(m, ptr)), ptr)
         IN  /\ Handed(m, B, SET_BLK(f.mem, d.p, NSize(size), BLK_ALLOC), d.brk, ptr, d.p, size)
             /\ brk < d.brk
<1>. DEFINE d == do_malloc(m, brk, ALIGN(size))
            b == d.p
            n1 == d.mem
            brk1 == d.brk
            s == NSize(size)
            l == BLK_AVAL_SIZE(m, ptr)
            k == memcpy(n1, b, ptr, l)
            n2 == implicit_mm_free(k, ptr).mem
            n3 == SET_BLK(n2, b, s, BLK_ALLOC)
<1>1. brk < brk1 /\ Handed(m, B, n1, brk1, NULL, b, size) /\ BLK_SIZE(n1, b) = s
  BY DoMallocHands
<1>. HIDE DEF d
<1>2. PICK C : /\ HeapOK(n1, brk1, C) /\ Kept(m, n1, B, C, NULL, b)
               /\ b \in C /\ b # heap_listp /\ BLK_STATE(n1, b) = BLK_ALLOC
               /\ \A c \in B : BLK_STATE(m, c) = BLK_ALLOC /\ c # NULL => c # b
  BY <1>1 DEF Handed
<1>. HIDE DEF n1, b, brk1, s
<1>3. /\ s \in Nat /\ s % 8 = 0 /\ s >= 8 /\ size <= s - 8
  BY DEF s, NSize, ALIGN, WSIZE
<1>4. \A c \in B : c # NULL
  <2>. SUFFICES ASSUME NEW c \in B
                PROVE  c # 0
    BY DEF NULL
  <2>1. c \in Nat /\ mem_start_brk + 8 <= c
    BY Block
  <2>. QED  BY <2>1, Layout
<1>5. /\ ptr \in C /\ ptr # b /\ BLK_SIZE(n1, ptr) = BLK_SIZE(m, ptr) /\ BLK_STATE(n1, ptr) = BLK_ALLOC
      /\ SamePayload(m, n1, ptr)
  BY <1>2, <1>4 DEF Kept
<1>6. /\ l \in Nat /\ l % 8 = 0 /\ l < s - 8 /\ ptr + l <= mem_max_addr
      /\ ptr \in Nat /\ ptr % 8 = 0 /\ mem_start_brk <= ptr
  <2>1. /\ ptr \in Nat /\ ptr % 8 = 0 /\ mem_start_brk + 8 <= ptr
        /\ BLK_SIZE(m, ptr) \in Nat /\ BLK_SIZE(m, ptr) % 8 = 0 /\ BLK_SIZE(m, ptr) >= 8
        /\ ptr + BLK_SIZE(m, ptr) <= brk
    BY Block
  <2>2. brk \in Nat /\ brk <= mem_max_addr
    BY DEF HeapOK
  <2>3. l = BLK_SIZE(m, ptr) - 8 /\ BLK_SIZE(m, ptr) < s
    BY DEF s, BLK_AVAL_SIZE, WSIZE
  <2>. HIDE DEF l
  <2>. QED  BY <1>3, <2>1, <2>2, <2>3, Layout
<1>. HIDE DEF l
<1>7. b \in Nat /\ b % 8 = 0 /\ mem_start_brk <= b /\ n1 \in Memory
  BY <1>2, Block, Layout DEF HeapOK
<1>. HIDE DEF k
<1>8. /\ k \in Memory /\ \A w \in Addr : w < b \/ b + l <= w => k[w] = n1[w]
      /\ \A w \in Addr : b <= w /\ w < b + l => k[w] = n1[w - b + ptr]
  <2>1. /\ l \in Nat /\ l % 8 = 0 /\ ptr + l <= mem_max_addr
        /\ ptr \in Nat /\ ptr % 8 = 0 /\ mem_start_brk <= ptr
    BY <1>6
  <2>2. /\ memcpy(n1, b, ptr, l) \in Memory
        /\ \A w \in Addr : w < b \/ b + l <= w => memcpy(n1, b, ptr, l)[w] = n1[w]
    <3>1. SameBut(n1, memcpy(n1, b, ptr, l), b, b + l)
      BY <1>7, <2>1, CopyFacts
    <3>. QED  BY <3>1 DEF SameBut
  <2>3. \A w \in Addr : b <= w /\ w < b + l => memcpy(n1, b, ptr, l)[w] = n1[w - b + ptr]
    BY <1>7 DEF memcpy, Memory
  <2>. QED  BY <2>2, <2>3 DEF k
<1>. HIDE DEF k
<1>9. \A w \in Addr : w < b \/ b + BLK_SIZE(n1, b) - 8 <= w => k[w] = n1[w]
  <2>. SUFFICES ASSUME NEW w \in Addr, w < b \/ b + s - 8 <= w
                PROVE  w < b \/ b + l <= w
    BY <1>1, <1>8
  <2>. QED  BY <1>3, <1>6, <1>7 DEF Addr
<1>10. /\ HeapOK(k, brk1, C)
       /\ \A c \in C : BLK_SIZE(k, c) = BLK_SIZE(n1, c) /\ BLK_STATE(k, c) = BLK_STATE(n1, c)
       /\ \A c \in C : c # b => SamePayload(n1, k, c)
  BY <1>2, <1>8, <1>9, PayloadFrame
<1>11. PICK D : HeapOK(n2, brk1, D) /\ Kept(k, n2, C, D, ptr, NULL)
  BY <1>5, <1>10, FreeFacts
<1>. HIDE DEF n2
<1>12. b \in D /\ BLK_SIZE(n2, b) = s /\ BLK_STATE(n2, b) = BLK_ALLOC /\ SamePayload(k, n2, b)
  BY <1>1, <1>2, <1>5, <1>10, <1>11 DEF Kept
<1>. DEFINE E == Replaced(D, b, b + s, {b})
<1>13. /\ HeapOK(n3, brk1, E) /\ Kept(n2, n3, D, E, b, b) /\ b \in E
       /\ BLK_SIZE(n3, b) = s /\ BLK_STATE(n3, b) = BLK_ALLOC /\ SamePayload(n2, n3, b)
  <2>1. BLK_ALLOC \in {BLK_FREE, BLK_ALLOC}
    OBVIOUS
  <2>. QED  BY <1>2, <1>11, <1>12, <2>1, Retag
<1>. HIDE DEF n3, E
<1>14. Kept(m, n3, B, E, ptr, b)
  <2>1. ASSUME NEW c \in B, BLK_STATE(m, c) = BLK_ALLOC, c # ptr
        PROVE  /\ c \in E /\ BLK_SIZE(n3, c) = BLK_SIZE(m, c) /\ BLK_STATE(n3, c) = BLK_ALLOC
               /\ SamePayload(m, n3, c)
    <3>1. c # NULL /\ c # b
      BY <1>2, <1>4, <2>1
    <3>2. /\ c \in C /\ BLK_SIZE(n1, c) = BLK_SIZE(m, c) /\ BLK_STATE(n1, c) = BLK_ALLOC
          /\ SamePayload(m, n1, c)
      BY <1>2, <2>1, <3>1 DEF Kept
    <3>3. /\ BLK_SIZE(k, c) = BLK_SIZE(m, c) /\ BLK_STATE(k, c) = BLK_ALLOC
          /\ SamePayload(n1, k, c)
      BY <1>10, <3>1, <3>2
    <3>4. /\ c \in D /\ BLK_SIZE(n2, c) = BLK_SIZE(m, c) /\ BLK_STATE(n2, c) = BLK_ALLOC
          /\ SamePayload(k, n2, c)
      BY <1>11, <2>1, <3>2, <3>3 DEF Kept
    <3>5. /\ c \in E /\ BLK_SIZE(n3, c) = BLK_SIZE(m, c) /\ BLK_STATE(n3, c) = BLK_ALLOC
          /\ SamePayload(n2, n3, c)
      BY <1>13, <3>1, <3>4 DEF Kept
    <3>6. SamePayload(m, k, c)
      BY <3>2, <3>3, SameTwice
    <3>7. SamePayload(m, n2, c)
      BY <3>3, <3>4, <3>6, SameTwice
    <3>8. SamePayload(m, n3, c)
      BY <3>4, <3>5, <3>7, SameTwice
    <3>. QED  BY <3>5, <3>8
  <2>2. ASSUME NEW c \in E, BLK_STATE(n3, c) = BLK_ALLOC, c # b
        PROVE  c \in B /\ BLK_STATE(m, c) = BLK_ALLOC /\ c # ptr
    <3>1. c \in D /\ BLK_STATE(n2, c) = BLK_ALLOC
      BY <1>13, <2>2 DEF Kept
    <3>2. c # NULL
      BY <1>11, <3>1, NotNull
    <3>3. c \in C /\ BLK_STATE(k, c) = BLK_ALLOC /\ c # ptr
      BY <1>11, <3>1, <3>2 DEF Kept
    <3>4. BLK_STATE(n1, c) = BLK_ALLOC
      BY <1>10, <3>3
    <3>. QED  BY <1>2, <2>2, <3>3, <3>4 DEF Kept
  <2>. QED  BY <2>1, <2>2 DEF Kept
<1>15. size <= BLK_AVAL_SIZE(n3, b)
  BY <1>3, <1>13 DEF BLK_AVAL_SIZE, WSIZE
<1>a. Carried(m, n3, ptr, b, size)
  <2>. SUFFICES ASSUME NEW o \in Nat, o % 4 = 0, o < size, o < l
                PROVE  n3[b + o] = m[ptr + o]
    BY DEF Carried, l
  <2>1. /\ BLK_SIZE(m, ptr) \in Nat /\ l = BLK_SIZE(m, ptr) - 8 /\ l < s - 8
        /\ ptr \in Nat /\ ptr % 8 = 0 /\ b \in Nat /\ b % 8 = 0 /\ s \in Nat
    BY <1>3, <1>6, <1>7, Block DEF l, BLK_AVAL_SIZE, WSIZE
  <2>2. ptr + o \in Addr /\ b + o \in Addr
    <3>1. ptr + BLK_SIZE(m, ptr) <= mem_max_addr /\ mem_start_brk + 8 <= ptr
      BY Block, Layout DEF HeapOK
    <3>2. b + s <= mem_max_addr /\ mem_start_brk + 8 <= b
      BY <1>1, <1>2, Block, Layout DEF HeapOK
    <3>. QED  BY <2>1, <3>1, <3>2, RegionAssumption DEF Addr, mem_max_addr
  <2>3. n1[ptr + o] = m[ptr + o]
    <3>1. ptr <= ptr + o /\ ptr + o < ptr + BLK_SIZE(m, ptr) - 8
      BY <2>1
    <3>. QED  BY <1>5, <2>2, <3>1 DEF SamePayload
  <2>4. k[b + o] = n1[ptr + o]
    <3>1. b <= b + o /\ b + o < b + l /\ (b + o) - b + ptr = ptr + o
      BY <2>1
    <3>. QED  BY <1>8, <2>2, <3>1
  <2>5. b <= b + o /\ b + o < b + s - 8
    BY <2>1
  <2>6. BLK_SIZE(k, b) = s
    BY <1>1, <1>2, <1>10
  <2>7. n2[b + o] = k[b + o]
    BY <1>12, <2>2, <2>5, <2>6 DEF SamePayload
  <2>8. n3[b + o] = n2[b + o]
    BY <1>12, <1>13, <2>2, <2>5 DEF SamePayload
  <2>. QED  BY <2>3, <2>4, <2>7, <2>8
<1>16. Handed(m, B, n3, brk1, ptr, b, size)
  BY <1>2, <1>4, <1>13, <1>14, <1>15, <1>a DEF Handed
<1>. QED  BY <1>1, <1>16 DEF n3, n2, k, l, b, n1, brk1, s, d

\* mm_init on a cleared region makes a heap of the prologue alone.
LEMMA InitFacts ==
  ASSUME NEW m \in Memory, m[mem_start_brk - 4] \in {0, 1},
         \A w \in Addr : mem_start_brk <= w => m[w] = 0
  PROVE  LET e  == extend_heap(m, mem_start_brk, 4 * WSIZE)
             m1 == SET(e.mem, mem_start_brk, 48879)
             m2 == SET_BLK(m1, heap_listp, 2 * WSIZE, BLK_ALLOC)
         IN  /\ e.brk = mem_start_brk + 16
             /\ HeapOK(SET_EB(m2, heap_listp + 2 * WSIZE), mem_start_brk + 16, {heap_listp})
<1>. DEFINE e  == extend_heap(m, mem_start_brk, 4 * WSIZE)
            m0 == SET(m, mem_start_brk - 4, 1)
            m1 == SET(m0, mem_start_brk, 48879)
            m2 == SET_BLK(m1, heap_listp, 8, BLK_ALLOC)
            m3 == SET(m2, heap_listp + 4, 1)
<1>1. /\ mem_start_brk - 4 \in Addr /\ mem_start_brk \in Addr
      /\ heap_listp - 4 \in Addr /\ heap_listp \in Addr /\ heap_listp + 4 \in Addr
  BY Layout, RegionAssumption DEF Addr
<1>2. e = [mem |-> m0, brk |-> mem_start_brk + 16, p |-> mem_start_brk]
  <2>1. SbrkSucceeds(mem_start_brk, 16)
    BY Layout DEF SbrkSucceeds
  <2>2. NEXT_BLKP(m, mem_start_brk) = mem_start_brk
    BY Layout DEF NEXT_BLKP, BLK_SIZE, BLK_HDRP, WSIZE, GET_SIZE
  <2>. QED  BY <2>1, <2>2 DEF extend_heap, SET_EB, PACK, BLK_ALLOC, WSIZE
<1>3. m0 \in Memory /\ m0[mem_start_brk - 4] = 1
      /\ \A w \in Addr : w # mem_start_brk - 4 => m0[w] = m[w]
  BY <1>1 DEF SET, Memory, Word
<1>. HIDE DEF m0
<1>4. m1 \in Memory /\ \A w \in Addr : w # mem_start_brk => m1[w] = m0[w]
  BY <1>1, <1>3 DEF SET, Memory, Word
<1>. HIDE DEF m1
<1>. DEFINE s == 8
<1>5. /\ m2 \in Memory
      /\ m2[heap_listp - 4] = PACK(8, BLK_ALLOC)
      /\ m2[heap_listp + 8 - 8] = PACK(8, BLK_ALLOC)
      /\ \A w \in Addr : w # heap_listp - 4 /\ w # heap_listp + 8 - 8 => m2[w] = m1[w]
  <2>1. /\ heap_listp \in Int /\ heap_listp % 8 = 0 /\ mem_start_brk <= heap_listp
        /\ s \in Nat /\ s % 8 = 0 /\ s >= 8 /\ heap_listp + s <= mem_max_addr
        /\ BLK_ALLOC \in {BLK_FREE, BLK_ALLOC}
    BY Layout
  <2>. HIDE DEF s
  <2>2. /\ SET_BLK(m1, heap_listp, s, BLK_ALLOC) \in Memory
        /\ SET_BLK(m1, heap_listp, s, BLK_ALLOC)[heap_listp - 4] = PACK(s, BLK_ALLOC)
        /\ SET_BLK(m1, heap_listp, s, BLK_ALLOC)[heap_listp + s - 8] = PACK(s, BLK_ALLOC)
        /\ \A w \in Addr : w # heap_listp - 4 /\ w # heap_listp + s - 8
             => SET_BLK(m1, heap_listp, s, BLK_ALLOC)[w] = m1[w]
    <3>1. Tagged(m1, SET_BLK(m1, heap_listp, s, BLK_ALLOC), heap_listp, s, BLK_ALLOC)
      BY <1>4, <2>1, SetBlkFacts
    <3>. QED  BY <3>1 DEF Tagged
  <2>. QED  BY <2>2, Zenon DEF s
<1>. HIDE DEF m2
<1>6. m3 \in Memory /\ m3[heap_listp + 4] = 1 /\ \A w \in Addr : w # heap_listp + 4 => m3[w] = m2[w]
  BY <1>1, <1>5 DEF SET, Memory, Word
<1>. HIDE DEF m3
<1>7. m3[heap_listp - 4] = PACK(8, BLK_ALLOC) /\ m3[heap_listp + 8 - 8] = PACK(8, BLK_ALLOC)
  <2>1. heap_listp - 4 # heap_listp + 4 /\ heap_listp + 8 - 8 # heap_listp + 4 /\ heap_listp + 8 - 8 = heap_listp
    BY Layout
  <2>. QED  BY <1>1, <1>5, <1>6, <2>1
<1>8. /\ Tiling(m3, heap_listp, heap_listp + 8, {heap_listp})
      /\ BLK_SIZE(m3, heap_listp) = 8 /\ BLK_STATE(m3, heap_listp) = BLK_ALLOC
  <2>1. /\ heap_listp \in Int /\ heap_listp % 8 = 0 /\ 8 \in Nat /\ 8 % 8 = 0 /\ 8 >= 8
        /\ BLK_ALLOC \in {BLK_FREE, BLK_ALLOC}
    BY Layout
  <2>. QED  BY <1>7, <2>1, TilingOne
<1>9. m3[mem_start_brk - 4] = 1
  <2>1. /\ mem_start_brk - 4 # heap_listp + 4 /\ mem_start_brk - 4 # heap_listp - 4
        /\ mem_start_brk - 4 # heap_listp + 8 - 8 /\ mem_start_brk - 4 # mem_start_brk
    BY Layout
  <2>. QED  BY <1>1, <1>3, <1>4, <1>5, <1>6, <2>1
<1>10. ASSUME NEW w \in Addr, mem_start_brk + 16 <= w
       PROVE  m3[w] = 0
  <2>1. /\ w # heap_listp + 4 /\ w # heap_listp - 4 /\ w # heap_listp + 8 - 8
        /\ w # mem_start_brk /\ w # mem_start_brk - 4 /\ mem_start_brk <= w
    BY <1>10, Layout DEF Addr
  <2>. QED  BY <1>3, <1>4, <1>5, <1>6, <2>1
<1>11. HeapOK(m3, heap_listp + 8, {heap_listp})
  <2>1. /\ heap_listp + 8 \in Nat /\ (heap_listp + 8) % 8 = 0 /\ heap_listp < heap_listp + 8
        /\ heap_listp + 8 <= mem_max_addr /\ heap_listp + 8 - 4 = heap_listp + 4
        /\ ~(heap_listp + 8 < heap_listp + 8) /\ heap_listp + 8 = mem_start_brk + 16
    BY Layout
  <2>2. m3[heap_listp + 8 - 4] \in {0, 1} /\ m3[mem_start_brk - 4] \in {0, 1}
    BY <1>6, <1>9, <2>1
  <2>3. \A w \in Addr : heap_listp + 8 <= w => m3[w] = 0
    BY <1>10, <2>1
  <2>. DEFINE e8 == heap_listp + 8
  <2>a. /\ e8 \in Nat /\ e8 % 8 = 0 /\ heap_listp < e8 /\ e8 <= mem_max_addr
        /\ ~(heap_listp + 8 < e8)
    BY <2>1
  <2>b. m3[e8 - 4] \in {0, 1}
    <3>1. e8 - 4 = heap_listp + 4
      BY Layout
    <3>. QED  BY <1>6, <3>1
  <2>c. \A w \in Addr : e8 <= w => m3[w] = 0
    BY <2>3, Zenon
  <2>d. Tiling(m3, heap_listp, e8, {heap_listp})
    BY <1>8, Zenon
  <2>. HIDE DEF e8
  <2>5. HeapOK(m3, e8, {heap_listp})
    BY <1>6, <1>8, <2>2, <2>a, <2>b, <2>c, <2>d DEF HeapOK
  <2>. QED  BY <2>5 DEF e8
<1>12. heap_listp + 8 = mem_start_brk + 16
  BY Layout
<1>13. e.brk = mem_start_brk + 16 /\ SET(e.mem, mem_start_brk, 48879) = m1
  BY <1>2 DEF m1
<1>14. SET_EB(SET_BLK(m1, heap_listp, 2 * WSIZE, BLK_ALLOC), heap_listp + 2 * WSIZE) = m3
  <2>1. 2 * WSIZE = 8 /\ PACK(0, BLK_ALLOC) = 1 /\ (heap_listp + 8) - WSIZE = heap_listp + 4
    BY Layout DEF WSIZE, PACK, BLK_ALLOC
  <2>2. SET_BLK(m1, heap_listp, 2 * WSIZE, BLK_ALLOC) = m2 /\ heap_listp + 2 * WSIZE = heap_listp + 8
    BY <2>1, Zenon DEF m2
  <2>3. SET_EB(m2, heap_listp + 8) = m3
    BY <2>1, Zenon DEF SET_EB, m3
  <2>. QED  BY <2>2, <2>3, Zenon
<1>. QED  BY <1>11, <1>12, <1>13, <1>14
=============================================================================
