------------------------- MODULE TraceClientProofs --------------------------
(***************************************************************************)
(* What the proofs about both allocators share: block tags, tilings of the *)
(* heap and the walk over it, and how the client's view of the heap maps   *)
(* to the contract of mm.h.                                                *)
(***************************************************************************)
EXTENDS TraceClient, TLAPS, WellFoundedInduction

(***************************************************************************)
(* Induction over the naturals, stated with sets: the properties to be     *)
(* proved by it are given as the set of numbers that have them.            *)
(***************************************************************************)

\* Every set of naturals has a least element.
LEMMA LeastElement ==
  ASSUME NEW T \in SUBSET Nat, T # {}
  PROVE  \E x \in T : \A y \in T : x <= y
<1>1. PICK x \in T : \A y \in T : ~(<<y, x>> \in OpToRel(<, Nat))
  BY WFMin, NatLessThanWellFounded
<1>2. ASSUME NEW y \in T
      PROVE  x <= y
  <2>1. CASE y < x
    <3>1. <<y, x>> \in OpToRel(<, Nat)
      BY <2>1 DEF OpToRel
    <3>. QED  BY <1>1, <3>1
  <2>. QED  BY <2>1
<1>. QED  BY <1>2

\* A set of naturals that has 0 and every successor has them all.
LEMMA Induction ==
  ASSUME NEW S \in SUBSET Nat, 0 \in S, \A n \in S : n + 1 \in S
  PROVE  S = Nat
<1>. SUFFICES ASSUME S # Nat
              PROVE  FALSE
  OBVIOUS
<1>1. PICK x \in Nat \ S : \A y \in Nat \ S : x <= y
  BY LeastElement
<1>2. x # 0 /\ x - 1 \in Nat /\ x - 1 \in S
  BY <1>1
<1>. QED  BY <1>1, <1>2

\* Rounding up gives the next multiple of 8.
LEMMA AlignFacts ==
  ASSUME NEW n \in Nat
  PROVE  /\ ALIGN(n) \in Nat
         /\ ALIGN(n) % 8 = 0
         /\ n <= ALIGN(n)
         /\ ALIGN(n) < n + 8
BY DEF ALIGN

\* A tag gives back the size and the mark it was packed from.
LEMMA PackFacts ==
  ASSUME NEW s \in Nat, s % 8 = 0, NEW x \in {BLK_FREE, BLK_ALLOC}
  PROVE  /\ PACK(s, x) \in Nat
         /\ GET_SIZE(PACK(s, x)) = s
         /\ GET_ALLOC(PACK(s, x)) = x
BY DEF PACK, GET_SIZE, GET_ALLOC, BLK_FREE, BLK_ALLOC

\* The size in a tag is a multiple of 8.
LEMMA SizeFacts ==
  ASSUME NEW w \in Nat
  PROVE  /\ GET_SIZE(w) \in Nat
         /\ GET_SIZE(w) % 8 = 0
         /\ GET_SIZE(w) <= w
         /\ GET_ALLOC(w) \in {BLK_FREE, BLK_ALLOC}
BY DEF GET_SIZE, GET_ALLOC, BLK_FREE, BLK_ALLOC

\* What a tiling says of one of its blocks.
LEMMA TilingBlock ==
  ASSUME NEW m, NEW lo \in Int, NEW brk \in Int, NEW B, Tiling(m, lo, brk, B), NEW b \in B
  PROVE  /\ b \in Int /\ b % 8 = 0 /\ lo <= b
         /\ m[b - 4] \in Nat
         /\ BLK_SIZE(m, b) \in Nat /\ BLK_SIZE(m, b) % 8 = 0 /\ BLK_SIZE(m, b) >= 8
         /\ m[b + BLK_SIZE(m, b) - 8] = m[b - 4]
         /\ b + BLK_SIZE(m, b) \in B \cup {brk}
         /\ b + BLK_SIZE(m, b) <= brk
         /\ BLK_STATE(m, b) \in {BLK_FREE, BLK_ALLOC}
<1>1. /\ b \in Int /\ b % 8 = 0 /\ lo <= b
      /\ m[b - 4] \in Nat
  BY DEF Tiling, BlockOK, BLK_HDRP, WSIZE
<1>2. /\ BLK_SIZE(m, b) \in Nat /\ BLK_SIZE(m, b) % 8 = 0
      /\ BLK_STATE(m, b) \in {BLK_FREE, BLK_ALLOC}
  BY <1>1, SizeFacts DEF BLK_SIZE, BLK_STATE, BLK_HDRP, WSIZE
<1>3. BLK_SIZE(m, b) >= 8
  BY DEF Tiling, BlockOK
<1>4. m[b + BLK_SIZE(m, b) - 8] = m[b - 4]
  BY <1>1, <1>2, b + BLK_SIZE(m, b) - 8 = b + (BLK_SIZE(m, b) - 2 * 4)
  DEF Tiling, BlockOK, BLK_HDRP, BLK_FTRP, BLK_AVAL_SIZE, WSIZE
<1>5. b + BLK_SIZE(m, b) \in B \cup {brk}
  BY DEF Tiling, NEXT_BLKP
<1>6. b + BLK_SIZE(m, b) <= brk
  BY <1>1, <1>2, <1>5 DEF Tiling
<1>. QED
  BY <1>1, <1>2, <1>3, <1>4, <1>5, <1>6

\* The block before b, found from the footer under b's header.
LEMMA TilingPrev ==
  ASSUME NEW m, NEW lo \in Int, NEW brk \in Int, NEW B, Tiling(m, lo, brk, B),
         NEW b \in B \cup {brk}, b # lo
  PROVE  /\ m[b - 8] \in Nat
         /\ PREV_BLKP(m, b) \in B
         /\ PREV_BLKP(m, b) = b - PREV_BLK_SIZE(m, b)
         /\ PREV_BLK_SIZE(m, b) = BLK_SIZE(m, PREV_BLKP(m, b))
         /\ PREV_BLK_ALLOC(m, b) = BLK_STATE(m, PREV_BLKP(m, b))
         /\ PREV_BLKP(m, b) + BLK_SIZE(m, PREV_BLKP(m, b)) = b
<1>. DEFINE q == PREV_BLKP(m, b)
<1>1. m[b - 8] \in Nat /\ q \in B /\ q + BLK_SIZE(m, q) = b
  BY DEF Tiling, PREV_FTRP, NEXT_BLKP, WSIZE
<1>2. q \in Int /\ BLK_SIZE(m, q) \in Nat /\ m[q + BLK_SIZE(m, q) - 8] = m[q - 4]
  BY <1>1, TilingBlock
<1>3. m[b - 8] = m[q - 4]
  BY <1>1, <1>2
<1>4. b \in Int
  BY DEF Tiling
<1>5. PREV_BLK_SIZE(m, b) = BLK_SIZE(m, q) /\ PREV_BLK_ALLOC(m, b) = BLK_STATE(m, q)
  BY <1>3 DEF PREV_BLK_SIZE, PREV_BLK_ALLOC, PREV_FTRP, BLK_SIZE, BLK_STATE, BLK_HDRP, WSIZE
<1>. QED
  BY <1>1, <1>3, <1>5 DEF PREV_BLKP

\* Two tilings that meet make one.
LEMMA TilingConcat ==
  ASSUME NEW m, NEW lo \in Int, NEW mid \in Int, NEW hi \in Int, NEW A, NEW C,
         Tiling(m, lo, mid, A), Tiling(m, mid, hi, C)
  PROVE  Tiling(m, lo, hi, A \cup C)
<1>. DEFINE B == A \cup C
<1>1. /\ A \subseteq Int /\ C \subseteq Int /\ lo \in A /\ mid \in C
      /\ \A b \in A : lo <= b /\ b < mid
      /\ \A b \in C : mid <= b /\ b < hi
  BY DEF Tiling
<1>2. \A b \in B : lo <= b /\ b < hi
  BY <1>1
<1>3. \A b \in B : BlockOK(m, b)
  BY DEF Tiling
<1>4. \A b \in B : NEXT_BLKP(m, b) \in B \cup {hi}
  BY <1>1 DEF Tiling
<1>5. \A b \in (B \cup {hi}) \ {lo} :
        m[PREV_FTRP(b)] \in Nat /\ PREV_BLKP(m, b) \in B /\ NEXT_BLKP(m, PREV_BLKP(m, b)) = b
  BY <1>1 DEF Tiling
<1>6. \A b, c \in B : b < c => b + BLK_SIZE(m, b) <= c
  <2>. SUFFICES ASSUME NEW b \in B, NEW c \in B, b < c
                PROVE  b + BLK_SIZE(m, b) <= c
    OBVIOUS
  <2>1. CASE b \in A /\ c \in A
    BY <2>1 DEF Tiling
  <2>2. CASE b \in C /\ c \in C
    BY <2>2 DEF Tiling
  <2>3. CASE b \in A /\ c \in C
    <3>1. b \in Int /\ BLK_SIZE(m, b) \in Nat /\ b + BLK_SIZE(m, b) <= mid
      BY <2>3, TilingBlock
    <3>. QED  BY <1>1, <2>3, <3>1
  <2>. QED  BY <1>1, <2>1, <2>2, <2>3
<1>. QED  BY <1>1, <1>2, <1>3, <1>4, <1>5, <1>6 DEF Tiling

\* The blocks below one of the blocks tile the heap up to it.
LEMMA TilingBelow ==
  ASSUME NEW m, NEW lo \in Int, NEW brk \in Int, NEW B, Tiling(m, lo, brk, B),
         NEW a \in B \cup {brk}, a # lo
  PROVE  Tiling(m, lo, a, {b \in B : b < a})
<1>. DEFINE A == {b \in B : b < a}
<1>1. /\ A \subseteq Int /\ lo \in A /\ a \notin A /\ a \in Int
      /\ \A b \in A : lo <= b /\ b < a
      /\ \A b \in A : BlockOK(m, b)
  <2>1. B \subseteq Int /\ lo \in B /\ \A b \in B : lo <= b /\ b < brk
    BY DEF Tiling
  <2>2. a \in Int /\ lo < a
    BY <2>1
  <2>3. \A b \in B : BlockOK(m, b)
    BY DEF Tiling
  <2>4. /\ A \subseteq Int
        /\ lo \in A
        /\ a \notin A
    <3>1. \A b \in A : b \in Int /\ b # a
      BY <2>1, <2>2
    <3>2. lo \in A
      BY <2>1, <2>2
    <3>. QED  BY <3>1, <3>2
  <2>5. \A b \in A : lo <= b /\ b < a
    BY <2>1
  <2>6. \A b \in A : BlockOK(m, b)
    BY <2>3
  <2>. QED  BY <2>2, <2>4, <2>5, <2>6
<1>2. \A b \in A : NEXT_BLKP(m, b) \in A \cup {a}
  <2>. SUFFICES ASSUME NEW b \in A
                PROVE  NEXT_BLKP(m, b) \in A \cup {a}
    OBVIOUS
  <2>1. /\ b \in Int /\ BLK_SIZE(m, b) \in Nat
        /\ b + BLK_SIZE(m, b) \in B \cup {brk}
        /\ b + BLK_SIZE(m, b) <= brk
    BY TilingBlock
  <2>2. b + BLK_SIZE(m, b) <= a
    BY <1>1, <2>1 DEF Tiling
  <2>. QED  BY <1>1, <2>1, <2>2 DEF NEXT_BLKP, Tiling
<1>3. \A b \in (A \cup {a}) \ {lo} :
        m[PREV_FTRP(b)] \in Nat /\ PREV_BLKP(m, b) \in A /\ NEXT_BLKP(m, PREV_BLKP(m, b)) = b
  <2>. SUFFICES ASSUME NEW b \in (A \cup {a}) \ {lo}
                PROVE  m[PREV_FTRP(b)] \in Nat /\ PREV_BLKP(m, b) \in A /\ NEXT_BLKP(m, PREV_BLKP(m, b)) = b
    OBVIOUS
  <2>. DEFINE q == PREV_BLKP(m, b)
  <2>1. b \in B \cup {brk} /\ b <= a /\ b \in Int
    BY <1>1
  <2>2. m[PREV_FTRP(b)] \in Nat /\ q \in B /\ NEXT_BLKP(m, q) = b
    BY <2>1 DEF Tiling
  <2>3. q \in Int /\ BLK_SIZE(m, q) \in Nat /\ BLK_SIZE(m, q) >= 8
    BY <2>2, TilingBlock
  <2>. QED  BY <1>1, <2>1, <2>2, <2>3 DEF NEXT_BLKP
<1>4. \A b, c \in A : b < c => b + BLK_SIZE(m, b) <= c
  BY DEF Tiling
<1>. QED  BY <1>1, <1>2, <1>3, <1>4 DEF Tiling

\* The blocks from one of the blocks on tile the heap from there.
LEMMA TilingAbove ==
  ASSUME NEW m, NEW lo \in Int, NEW brk \in Int, NEW B, Tiling(m, lo, brk, B), NEW a \in B
  PROVE  Tiling(m, a, brk, {b \in B : a <= b})
<1>. DEFINE C == {b \in B : a <= b}
<1>1. /\ C \subseteq Int /\ a \in C /\ brk \notin C /\ a \in Int
      /\ \A b \in C : a <= b /\ b < brk
      /\ \A b \in C : BlockOK(m, b)
  <2>1. B \subseteq Int /\ \A b \in B : lo <= b /\ b < brk
    BY DEF Tiling
  <2>2. \A b \in B : BlockOK(m, b)
    BY DEF Tiling
  <2>3. C \subseteq Int /\ a \in C /\ brk \notin C /\ a \in Int
    <3>1. \A b \in C : b \in Int /\ b # brk
      BY <2>1
    <3>2. a \in Int /\ a \in C
      BY <2>1
    <3>. QED  BY <3>1, <3>2
  <2>4. \A b \in C : a <= b /\ b < brk
    BY <2>1
  <2>5. \A b \in C : BlockOK(m, b)
    BY <2>2
  <2>. QED  BY <2>3, <2>4, <2>5
<1>2. \A b \in C : NEXT_BLKP(m, b) \in C \cup {brk}
  <2>. SUFFICES ASSUME NEW b \in C
                PROVE  NEXT_BLKP(m, b) \in C \cup {brk}
    OBVIOUS
  <2>1. /\ b \in Int /\ BLK_SIZE(m, b) \in Nat
        /\ b + BLK_SIZE(m, b) \in B \cup {brk}
    BY TilingBlock
  <2>. QED  BY <1>1, <2>1 DEF NEXT_BLKP
<1>3. \A b \in (C \cup {brk}) \ {a} :
        m[PREV_FTRP(b)] \in Nat /\ PREV_BLKP(m, b) \in C /\ NEXT_BLKP(m, PREV_BLKP(m, b)) = b
  <2>. SUFFICES ASSUME NEW b \in (C \cup {brk}) \ {a}
                PROVE  m[PREV_FTRP(b)] \in Nat /\ PREV_BLKP(m, b) \in C /\ NEXT_BLKP(m, PREV_BLKP(m, b)) = b
    OBVIOUS
  <2>. DEFINE q == PREV_BLKP(m, b)
  <2>1. b \in (B \cup {brk}) \ {lo} /\ a < b /\ b \in Int
    BY <1>1 DEF Tiling
  <2>2. m[PREV_FTRP(b)] \in Nat /\ q \in B /\ NEXT_BLKP(m, q) = b
    BY <2>1 DEF Tiling
  <2>3. q \in Int /\ BLK_SIZE(m, q) \in Nat
    BY <2>2, TilingBlock
  <2>4. q < a => q + BLK_SIZE(m, q) <= a
    BY <2>2 DEF Tiling
  <2>. QED  BY <1>1, <2>1, <2>2, <2>3, <2>4 DEF NEXT_BLKP
<1>4. \A b, c \in C : b < c => b + BLK_SIZE(m, b) <= c
  BY DEF Tiling
<1>. QED  BY <1>1, <1>2, <1>3, <1>4 DEF Tiling

\* Only the tags matter: what the payloads hold may change.
LEMMA TilingFrame ==
  ASSUME NEW m, NEW n, NEW lo \in Int, NEW brk \in Int, NEW B, Tiling(m, lo, brk, B),
         \A b \in B : /\ n[b - 4] = m[b - 4]
                     /\ n[b + BLK_SIZE(m, b) - 8] = m[b + BLK_SIZE(m, b) - 8]
  PROVE  Tiling(n, lo, brk, B)
<1>1. /\ B \subseteq Int /\ lo \in B /\ brk \notin B
      /\ \A b \in B : lo <= b /\ b < brk
  BY DEF Tiling
<1>2. \A b \in B : /\ BLK_SIZE(n, b) = BLK_SIZE(m, b)
                   /\ NEXT_BLKP(n, b) = NEXT_BLKP(m, b)
  BY DEF BLK_SIZE, NEXT_BLKP, BLK_HDRP, WSIZE
<1>3. \A b \in B : BlockOK(n, b)
  <2>. SUFFICES ASSUME NEW b \in B
                PROVE  BlockOK(n, b)
    OBVIOUS
  <2>1. /\ b \in Int /\ b % 8 = 0
        /\ m[b - 4] \in Nat
        /\ BLK_SIZE(m, b) \in Nat /\ BLK_SIZE(m, b) >= 8
        /\ m[b + BLK_SIZE(m, b) - 8] = m[b - 4]
    BY TilingBlock
  <2>2. n[b + BLK_SIZE(n, b) - 8] = n[b - 4]
    BY <1>2, <2>1
  <2>3. b + BLK_SIZE(n, b) - 8 = b + (BLK_SIZE(n, b) - 2 * 4)
    BY <1>2, <2>1
  <2>. QED  BY <1>2, <2>1, <2>2, <2>3 DEF BlockOK, BLK_HDRP, BLK_FTRP, BLK_AVAL_SIZE, WSIZE
<1>4. \A b \in B : NEXT_BLKP(n, b) \in B \cup {brk}
  BY <1>2 DEF Tiling
<1>5. \A b \in (B \cup {brk}) \ {lo} :
        n[PREV_FTRP(b)] \in Nat /\ PREV_BLKP(n, b) \in B /\ NEXT_BLKP(n, PREV_BLKP(n, b)) = b
  <2>. SUFFICES ASSUME NEW b \in (B \cup {brk}) \ {lo}
                PROVE  n[PREV_FTRP(b)] \in Nat /\ PREV_BLKP(n, b) \in B /\ NEXT_BLKP(n, PREV_BLKP(n, b)) = b
    OBVIOUS
  <2>. DEFINE q == PREV_BLKP(m, b)
  <2>1. b \in Int
    BY <1>1
  <2>2. m[b - 8] \in Nat /\ q \in B /\ q + BLK_SIZE(m, q) = b /\ NEXT_BLKP(m, q) = b
    BY TilingPrev DEF NEXT_BLKP
  <2>3. q \in Int /\ BLK_SIZE(m, q) \in Nat
    BY <2>2, TilingBlock
  <2>4. n[b - 8] = m[b - 8]
    BY <2>2, <2>3
  <2>5. PREV_BLKP(n, b) = q
    BY <2>4 DEF PREV_BLKP, PREV_BLK_SIZE, PREV_FTRP, WSIZE
  <2>. QED  BY <1>2, <2>2, <2>4, <2>5 DEF PREV_FTRP, WSIZE
<1>6. \A b, c \in B : b < c => b + BLK_SIZE(n, b) <= c
  BY <1>2 DEF Tiling
<1>. QED  BY <1>1, <1>3, <1>4, <1>5, <1>6 DEF Tiling

\* A memory that has not changed between the first header and the last footer.
LEMMA TilingSame ==
  ASSUME NEW m, NEW n, NEW lo \in Int, NEW brk \in Int, NEW B, Tiling(m, lo, brk, B),
         mem_start_brk <= lo, brk <= mem_max_addr,
         \A w \in Addr : lo - 4 <= w /\ w <= brk - 8 => n[w] = m[w]
  PROVE  Tiling(n, lo, brk, B)
<1>. SUFFICES ASSUME NEW b \in B
              PROVE  /\ n[b - 4] = m[b - 4]
                     /\ n[b + BLK_SIZE(m, b) - 8] = m[b + BLK_SIZE(m, b) - 8]
  BY TilingFrame
<1>. DEFINE s == BLK_SIZE(m, b)
<1>1. /\ b \in Int /\ b % 8 = 0 /\ lo <= b
      /\ s \in Nat /\ s % 8 = 0 /\ s >= 8
      /\ b + s <= brk
  BY TilingBlock
<1>. HIDE DEF s
<1>2. b - 4 \in Addr /\ b + s - 8 \in Addr
  BY <1>1, RegionAssumption DEF Addr, mem_max_addr
<1>3. lo - 4 <= b - 4 /\ b - 4 <= brk - 8 /\ lo - 4 <= b + s - 8 /\ b + s - 8 <= brk - 8
  BY <1>1
<1>4. n[b - 4] = m[b - 4] /\ n[b + s - 8] = m[b + s - 8]
  BY <1>2, <1>3
<1>. QED  BY <1>4 DEF s

\* One block alone.
LEMMA TilingOne ==
  ASSUME NEW m, NEW a \in Int, a % 8 = 0, NEW s \in Nat, s % 8 = 0, s >= 8,
         NEW x \in {BLK_FREE, BLK_ALLOC},
         m[a - 4] = PACK(s, x), m[a + s - 8] = PACK(s, x)
  PROVE  /\ Tiling(m, a, a + s, {a})
         /\ BLK_SIZE(m, a) = s /\ BLK_STATE(m, a) = x
<1>1. /\ m[a - 4] \in Nat /\ GET_SIZE(m[a - 4]) = s /\ GET_ALLOC(m[a - 4]) = x
  BY PackFacts
<1>2. BLK_SIZE(m, a) = s /\ BLK_STATE(m, a) = x /\ NEXT_BLKP(m, a) = a + s
  BY <1>1 DEF BLK_SIZE, BLK_STATE, NEXT_BLKP, BLK_HDRP, WSIZE
<1>3. BlockOK(m, a)
  BY <1>1, <1>2, a + s - 8 = a + (s - 2 * 4) DEF BlockOK, BLK_FTRP, BLK_AVAL_SIZE, BLK_HDRP, WSIZE
<1>4. PREV_FTRP(a + s) = a + s - 8
  BY DEF PREV_FTRP, WSIZE
<1>5. m[PREV_FTRP(a + s)] = m[a - 4]
  BY <1>4
<1>6. PREV_BLKP(m, a + s) = a
  BY <1>1, <1>5 DEF PREV_BLKP, PREV_BLK_SIZE
<1>. QED  BY <1>1, <1>2, <1>3, <1>5, <1>6 DEF Tiling

\* The set of blocks B with those from a on replaced by N.
Grown(B, a, N) == {b \in B : b < a} \cup N

\* Above a, the heap is tiled anew, up to a possibly different end.
LEMMA TilingGrow ==
  ASSUME NEW m, NEW n, NEW lo \in Int, NEW brk \in Int, NEW B, Tiling(m, lo, brk, B),
         mem_start_brk <= lo, brk <= mem_max_addr,
         NEW a \in B \cup {brk}, a # lo, NEW e \in Int, NEW N, Tiling(n, a, e, N),
         \A w \in Addr : w < a - 4 => n[w] = m[w]
  PROVE  Tiling(n, lo, e, Grown(B, a, N))
<1>. DEFINE A == {b \in B : b < a}
<1>1. a \in Int /\ a <= brk
  BY DEF Tiling
<1>2. Tiling(m, lo, a, A)
  BY TilingBelow
<1>3. \A w \in Addr : lo - 4 <= w /\ w <= a - 8 => n[w] = m[w]
  BY <1>1, RegionAssumption DEF Addr, mem_max_addr
<1>4. a <= mem_max_addr
  BY <1>1, RegionAssumption DEF mem_max_addr
<1>. HIDE DEF A
<1>5. Tiling(n, lo, a, A)
  BY <1>1, <1>2, <1>3, <1>4, TilingSame
<1>6. Tiling(n, lo, e, A \cup N)
  BY <1>1, <1>5, TilingConcat
<1>. QED  BY <1>6 DEF A, Grown

\* The set of blocks B with those between a and e replaced by N.
Replaced(B, a, e, N) == {b \in B : b < a} \cup N \cup {b \in B : e <= b}

\* The blocks between a and e are replaced by other ones.
LEMMA TilingReplace ==
  ASSUME NEW m, NEW n, NEW lo \in Int, NEW brk \in Int, NEW B, Tiling(m, lo, brk, B),
         mem_start_brk <= lo, brk <= mem_max_addr,
         NEW a \in B, a # lo, NEW e \in B \cup {brk}, NEW N, Tiling(n, a, e, N),
         \A w \in Addr : w < a - 4 \/ e - 4 <= w => n[w] = m[w]
  PROVE  Tiling(n, lo, brk, Replaced(B, a, e, N))
<1>. DEFINE A == {b \in B : b < a}
            C == {b \in B : e <= b}
<1>1. e \in Int /\ e <= brk /\ lo <= e
  BY DEF Tiling
<1>2. Tiling(n, lo, e, A \cup N)
  BY <1>1, TilingGrow DEF Grown
<1>3. CASE e = brk
  <2>1. B \subseteq Int /\ \A b \in B : b < brk
    BY DEF Tiling
  <2>2. \A b \in B : ~(e <= b)
    BY <1>3, <2>1
  <2>3. C = {}
    BY <2>2
  <2>. QED  BY <1>2, <1>3, <2>3 DEF Replaced
<1>4. CASE e # brk
  <2>1. e \in B
    BY <1>4
  <2>2. Tiling(m, e, brk, C)
    BY <2>1, TilingAbove
  <2>3. \A w \in Addr : e - 4 <= w /\ w <= brk - 8 => n[w] = m[w]
    OBVIOUS
  <2>4. mem_start_brk <= e
    BY <1>1, RegionAssumption
  <2>. HIDE DEF A, C
  <2>5. Tiling(n, e, brk, C)
    BY <1>1, <2>2, <2>3, <2>4, TilingSame
  <2>6. Tiling(n, lo, brk, (A \cup N) \cup C)
    BY <1>1, <1>2, <2>5, TilingConcat
  <2>. QED  BY <2>6 DEF A, C, Replaced
<1>. QED  BY <1>3, <1>4

\* The memories of the right type.
Memory == [Addr -> Word]

\* n is m with the tags of a block of s bytes in state x written at a.
Tagged(m, n, a, s, x) ==
  /\ n \in Memory
  /\ n[a - 4] = PACK(s, x)
  /\ n[a + s - 8] = PACK(s, x)
  /\ \A w \in Addr : w # a - 4 /\ w # a + s - 8 => n[w] = m[w]
  /\ Tiling(n, a, a + s, {a})
  /\ BLK_SIZE(n, a) = s
  /\ BLK_STATE(n, a) = x

\* SET_BLK writes the two tags of a block and nothing else.
LEMMA SetBlkFacts ==
  ASSUME NEW m \in Memory,
         NEW a \in Int, a % 8 = 0, mem_start_brk <= a,
         NEW s \in Nat, s % 8 = 0, s >= 8, a + s <= mem_max_addr,
         NEW x \in {BLK_FREE, BLK_ALLOC}
  PROVE  Tagged(m, SET_BLK(m, a, s, x), a, s, x)
<1>. DEFINE v  == PACK(s, x)
            h  == a - 4
            f  == a + s - 8
            m1 == SET(m, h, v)
            m2 == SET(m1, f, v)
<1>1. v \in Word
  BY PackFacts DEF Word
<1>2. h \in Addr /\ f \in Addr /\ h # f
  BY RegionAssumption DEF Addr, mem_max_addr
<1>. HIDE DEF v, h, f
<1>. HIDE DEF m1
<1>3. m1 \in Memory /\ m1[h] = v /\ \A w \in Addr : w # h => m1[w] = m[w]
  <2>1. /\ SET(m, h, v) \in Memory /\ SET(m, h, v)[h] = v
        /\ \A w \in Addr : w # h => SET(m, h, v)[w] = m[w]
    BY <1>1, <1>2 DEF SET, Memory
  <2>. QED  BY <2>1 DEF m1
<1>. HIDE DEF m2
<1>4. m2 \in Memory /\ m2[f] = v /\ \A w \in Addr : w # f => m2[w] = m1[w]
  <2>1. /\ SET(m1, f, v) \in Memory /\ SET(m1, f, v)[f] = v
        /\ \A w \in Addr : w # f => SET(m1, f, v)[w] = m1[w]
    BY <1>1, <1>2, <1>3 DEF SET, Memory
  <2>. QED  BY <2>1 DEF m2
<1>5. SET_BLK(m, a, s, x) = m2
  BY DEF SET_BLK, m2, m1, v, h, f, BLK_HDRP, WSIZE
<1>6. m2[a - 4] = PACK(s, x) /\ m2[a + s - 8] = PACK(s, x)
  BY <1>2, <1>3, <1>4 DEF v, h, f
<1>7. \A w \in Addr : w # a - 4 /\ w # a + s - 8 => m2[w] = m[w]
  BY <1>2, <1>3, <1>4 DEF h, f
<1>8. /\ Tiling(m2, a, a + s, {a})
      /\ BLK_SIZE(m2, a) = s /\ BLK_STATE(m2, a) = x
  BY <1>6, TilingOne
<1>. QED  BY <1>4, <1>5, <1>6, <1>7, <1>8 DEF Tagged

\* A block cut in two.
LEMMA SetTwoFacts ==
  ASSUME NEW m \in Memory,
         NEW a \in Int, a % 8 = 0, mem_start_brk <= a,
         NEW s \in Nat, s % 8 = 0, s >= 8, NEW r \in Nat, r % 8 = 0, r >= 8,
         a + s + r <= mem_max_addr,
         NEW x \in {BLK_FREE, BLK_ALLOC}, NEW y \in {BLK_FREE, BLK_ALLOC}
  PROVE  LET n == SET_BLK(SET_BLK(m, a, s, x), a + s, r, y)
         IN  /\ n \in Memory
             /\ \A w \in Addr : w < a - 4 \/ a + s + r - 4 <= w => n[w] = m[w]
             /\ Tiling(n, a, a + s + r, {a, a + s})
             /\ BLK_SIZE(n, a) = s /\ BLK_STATE(n, a) = x
<1>. DEFINE m1 == SET_BLK(m, a, s, x)
            n  == SET_BLK(m1, a + s, r, y)
            b  == a + s
<1>1. a + s <= mem_max_addr
  BY RegionAssumption DEF mem_max_addr
<1>2. /\ m1 \in Memory
      /\ m1[a - 4] = PACK(s, x) /\ m1[a + s - 8] = PACK(s, x)
      /\ \A w \in Addr : w # a - 4 /\ w # a + s - 8 => m1[w] = m[w]
  <2>1. Tagged(m, m1, a, s, x)
    BY <1>1, SetBlkFacts
  <2>. QED  BY <2>1 DEF Tagged
<1>. HIDE DEF m1
<1>3. b \in Int /\ b % 8 = 0 /\ mem_start_brk <= b /\ b + r <= mem_max_addr
  BY RegionAssumption DEF mem_max_addr
<1>. HIDE DEF b
<1>4. /\ SET_BLK(m1, b, r, y) \in Memory
      /\ \A w \in Addr : w # b - 4 /\ w # b + r - 8 => SET_BLK(m1, b, r, y)[w] = m1[w]
      /\ Tiling(SET_BLK(m1, b, r, y), b, b + r, {b})
  <2>1. Tagged(m1, SET_BLK(m1, b, r, y), b, r, y)
    BY <1>2, <1>3, SetBlkFacts
  <2>. QED  BY <2>1 DEF Tagged
<1>5. n = SET_BLK(m1, b, r, y)
  BY DEF b
<1>. HIDE DEF n
<1>6. a - 4 \in Addr /\ a + s - 8 \in Addr
  BY <1>1, RegionAssumption DEF Addr, mem_max_addr
<1>7. n[a - 4] = PACK(s, x) /\ n[a + s - 8] = PACK(s, x)
  <2>1. a - 4 # b - 4 /\ a - 4 # b + r - 8 /\ a + s - 8 # b - 4 /\ a + s - 8 # b + r - 8
    BY DEF b
  <2>. QED  BY <1>2, <1>4, <1>5, <1>6, <2>1
<1>8. Tiling(n, a, a + s, {a}) /\ BLK_SIZE(n, a) = s /\ BLK_STATE(n, a) = x
  BY <1>7, TilingOne
<1>9. Tiling(n, a, b + r, {a} \cup {b})
  <2>1. Tiling(n, a, b, {a})
    BY <1>8 DEF b
  <2>2. Tiling(n, b, b + r, {b})
    BY <1>4, <1>5
  <2>3. b + r \in Int
    BY <1>3
  <2>. QED  BY <1>3, <2>1, <2>2, <2>3, TilingConcat
<1>10. Tiling(n, a, a + s + r, {a, a + s})
  BY <1>9, {a} \cup {b} = {a, b} DEF b
<1>11. \A w \in Addr : w < a - 4 \/ a + s + r - 4 <= w => n[w] = m[w]
  <2>. SUFFICES ASSUME NEW w \in Addr, w < a - 4 \/ a + s + r - 4 <= w
                PROVE  n[w] = m[w]
    OBVIOUS
  <2>1. w # a - 4 /\ w # a + s - 8 /\ w # b - 4 /\ w # b + r - 8
    BY DEF Addr, b
  <2>. QED  BY <1>2, <1>4, <1>5, <2>1
<1>. QED  BY <1>4, <1>5, <1>8, <1>10, <1>11 DEF n, m1

\* The second of the two.
LEMMA SetTwoUpper ==
  ASSUME NEW m \in Memory,
         NEW a \in Int, a % 8 = 0, mem_start_brk <= a,
         NEW s \in Nat, s % 8 = 0, s >= 8, NEW r \in Nat, r % 8 = 0, r >= 8,
         a + s + r <= mem_max_addr,
         NEW x \in {BLK_FREE, BLK_ALLOC}, NEW y \in {BLK_FREE, BLK_ALLOC}
  PROVE  /\ BLK_SIZE(SET_BLK(SET_BLK(m, a, s, x), a + s, r, y), a + s) = r
         /\ BLK_STATE(SET_BLK(SET_BLK(m, a, s, x), a + s, r, y), a + s) = y
<1>. DEFINE m1 == SET_BLK(m, a, s, x)
            b  == a + s
<1>1. a + s <= mem_max_addr
  BY RegionAssumption DEF mem_max_addr
<1>2. m1 \in Memory
  <2>1. Tagged(m, m1, a, s, x)
    BY <1>1, SetBlkFacts
  <2>. QED  BY <2>1 DEF Tagged
<1>. HIDE DEF m1
<1>3. b \in Int /\ b % 8 = 0 /\ mem_start_brk <= b /\ b + r <= mem_max_addr
  BY RegionAssumption DEF mem_max_addr
<1>. HIDE DEF b
<1>4. BLK_SIZE(SET_BLK(m1, b, r, y), b) = r /\ BLK_STATE(SET_BLK(m1, b, r, y), b) = y
  <2>1. Tagged(m1, SET_BLK(m1, b, r, y), b, r, y)
    BY <1>2, <1>3, SetBlkFacts
  <2>. QED  BY <2>1 DEF Tagged
<1>. QED  BY <1>4 DEF m1, b

\* Multiples, as memcpyDown steps through them.
LEMMA MultipleFacts ==
  ASSUME NEW d \in Nat, d > 0, d % 4 = 0, NEW x \in Nat
  PROVE  /\ d * (x \div d) \in Nat
         /\ d * (x \div d) <= x
         /\ (d * (x \div d)) % 4 = 0
<1>. DEFINE t == x \div d
<1>1. t \in Nat /\ x = d * t + (x % d) /\ x % d \in Nat
  OBVIOUS
<1>. HIDE DEF t
<1>2. d * t \in Nat
  BY <1>1
<1>3. d * t <= x
  BY <1>1, <1>2
<1>4. PICK j \in Nat : d = 4 * j
  <2>1. d = 4 * (d \div 4) /\ d \div 4 \in Nat
    OBVIOUS
  <2>. QED  BY <2>1
<1>5. d * t = 4 * (j * t) /\ j * t \in Nat
  BY <1>1, <1>4
<1>6. (d * t) % 4 = 0
  <2>. DEFINE q == j * t
  <2>1. q \in Nat /\ d * t = 4 * q
    BY <1>5
  <2>. HIDE DEF q
  <2>2. (4 * q) % 4 = 0
    BY <2>1
  <2>. QED  BY <2>1, <2>2
<1>. QED  BY <1>2, <1>3, <1>6 DEF t

\* n is m except for the words from a up to e.
SameBut(m, n, a, e) ==
  n \in Memory /\ \A w \in Addr : w < a \/ e <= w => n[w] = m[w]

\* memset and memcpy write the bytes from dst on and nothing else.
LEMMA CopyFacts ==
  ASSUME NEW m \in Memory, NEW dst \in Nat, dst % 8 = 0, NEW src \in Nat, src % 8 = 0,
         mem_start_brk <= dst, mem_start_brk <= src, NEW n \in Nat,
         n % 8 = 0, src + n <= mem_max_addr
  PROVE  SameBut(m, memcpy(m, dst, src, n), dst, dst + n)
<1>1. ASSUME NEW a \in Addr, dst <= a, a < dst + n
      PROVE  a - dst + src \in Addr
  BY <1>1, RegionAssumption DEF Addr, mem_max_addr
<1>2. DOMAIN m = Addr /\ \A a \in Addr : m[a] \in Word
  BY DEF Memory
<1>3. memcpy(m, dst, src, n) =
        [a \in Addr |-> IF dst <= a /\ a < dst + n THEN m[a - dst + src] ELSE m[a]]
  BY <1>2 DEF memcpy
<1>4. \A a \in Addr : (IF dst <= a /\ a < dst + n THEN m[a - dst + src] ELSE m[a]) \in Word
  BY <1>1, <1>2
<1>5. memcpy(m, dst, src, n) \in Memory
  BY <1>3, <1>4 DEF Memory
<1>6. \A w \in Addr : w < dst \/ dst + n <= w => ~(dst <= w /\ w < dst + n)
  BY DEF Addr
<1>7. \A w \in Addr : w < dst \/ dst + n <= w => memcpy(m, dst, src, n)[w] = m[w]
  BY <1>3, <1>6
<1>. QED  BY <1>5, <1>7 DEF SameBut

(***************************************************************************)
(* The walk over the blocks.                                               *)
(***************************************************************************)

\* The equations of Walk have a solution, which it therefore satisfies.
LEMMA WalkDef ==
  ASSUME NEW m, NEW lo \in Int, NEW brk \in Int, lo <= brk
  PROVE  LET K == (brk - lo) \div 8
             w == Walk(m, lo, brk)
         IN  /\ K \in Nat /\ DOMAIN w = 0..K
             /\ w[0] = lo
             /\ \A n \in 1..K : w[n] = Follow(m, brk, w[n - 1])
<1>. DEFINE K == (brk - lo) \div 8
            F(x) == Follow(m, brk, x)
            S == {k \in Nat : \E f : f = [n \in 0..k |-> IF n = 0 THEN lo ELSE F(f[n - 1])]}
<1>1. K \in Nat
  OBVIOUS
<1>. HIDE DEF K, F
<1>2. 0 \in S
  <2>. DEFINE f == [n \in 0..0 |-> lo]
  <2>1. f = [n \in 0..0 |-> IF n = 0 THEN lo ELSE F(f[n - 1])]
    OBVIOUS
  <2>. QED  BY <2>1
<1>3. ASSUME NEW k \in S
      PROVE  k + 1 \in S
  <2>1. k \in Nat
    OBVIOUS
  <2>2. PICK f : f = [n \in 0..k |-> IF n = 0 THEN lo ELSE F(f[n - 1])]
    OBVIOUS
  <2>. DEFINE g == [n \in 0..(k + 1) |-> IF n = k + 1 THEN F(f[k]) ELSE f[n]]
  <2>3. ASSUME NEW n \in 0..(k + 1)
        PROVE  g[n] = IF n = 0 THEN lo ELSE F(g[n - 1])
    <3>1. CASE n = k + 1
      <4>1. n # 0 /\ n - 1 = k /\ k \in 0..(k + 1) /\ k # k + 1
        BY <2>1, <3>1
      <4>2. g[n] = F(f[k]) /\ g[n - 1] = f[k]
        BY <3>1, <4>1
      <4>. QED  BY <4>1, <4>2
    <3>2. CASE n = 0
      <4>1. f[0] = lo
        BY <2>1, <2>2
      <4>. QED  BY <2>1, <3>2, <4>1
    <3>3. CASE n # k + 1 /\ n # 0
      <4>1. n \in 0..k /\ n - 1 \in 0..(k + 1) /\ n - 1 # k + 1
        BY <2>1, <3>3
      <4>2. g[n] = f[n] /\ g[n - 1] = f[n - 1]
        BY <3>3, <4>1
      <4>3. f[n] = F(f[n - 1])
        BY <2>2, <3>3, <4>1
      <4>. QED  BY <3>3, <4>2, <4>3
    <3>. QED  BY <3>1, <3>2, <3>3
  <2>4. g = [n \in 0..(k + 1) |-> IF n = 0 THEN lo ELSE F(g[n - 1])]
    BY <2>3
  <2>. HIDE DEF g
  <2>. QED  BY <2>1, <2>4
<1>4. S = Nat
  BY <1>2, <1>3, Induction
<1>. DEFINE w == Walk(m, lo, brk)
<1>5. w = [n \in 0..K |-> IF n = 0 THEN lo ELSE F(w[n - 1])]
  <2>1. \E f : f = [n \in 0..K |-> IF n = 0 THEN lo ELSE F(f[n - 1])]
    BY <1>1, <1>4
  <2>. QED  BY <2>1, Zenon DEF Walk, F, K
<1>. HIDE DEF w
<1>6. DOMAIN w = 0..K /\ w[0] = lo
  BY <1>1, <1>5
<1>7. \A n \in 1..K : w[n] = F(w[n - 1])
  BY <1>1, <1>5
<1>. QED  BY <1>1, <1>6, <1>7 DEF w, F, K

\* The blocks met on the walk are those that tile the heap.
LEMMA ChainTiling ==
  ASSUME NEW m, NEW lo \in Int, NEW brk \in Int, NEW B, Tiling(m, lo, brk, B)
  PROVE  Chain(m, lo, brk) = B
<1>. DEFINE K == (brk - lo) \div 8
            w == Walk(m, lo, brk)
            R == {w[n] : n \in DOMAIN w}
<1>1. lo \in B /\ B \subseteq Int /\ lo < brk /\ \A b \in B : lo <= b /\ b < brk
  BY DEF Tiling
<1>2. /\ K \in Nat /\ DOMAIN w = 0..K /\ w[0] = lo
      /\ \A n \in 1..K : w[n] = Follow(m, brk, w[n - 1])
  BY <1>1, WalkDef
<1>3. 8 * K <= brk - lo /\ brk - lo < 8 * K + 8
  BY <1>1
<1>. HIDE DEF K, w
<1>4. ASSUME NEW b \in B
      PROVE  /\ BLK_SIZE(m, b) \in Nat /\ BLK_SIZE(m, b) >= 8 /\ b + BLK_SIZE(m, b) <= brk
             /\ Follow(m, brk, b) = b + BLK_SIZE(m, b)
             /\ Follow(m, brk, b) \in B \cup {brk}
  <2>1. /\ BLK_SIZE(m, b) \in Nat /\ BLK_SIZE(m, b) >= 8 /\ b + BLK_SIZE(m, b) <= brk
        /\ b + BLK_SIZE(m, b) \in B \cup {brk}
    BY TilingBlock
  <2>2. ~(b >= brk) /\ BLK_SIZE(m, b) # 0
    BY <1>1, <2>1
  <2>. QED  BY <2>1, <2>2 DEF Follow, NEXT_BLKP
<1>5. Follow(m, brk, brk) = brk
  BY DEF Follow
\* every block visited is a block of the tiling, and lies the further up the later
<1>6. \A n \in 0..K : w[n] \in B \cup {brk} /\ (w[n] \in B => lo + 8 * n <= w[n])
  <2>. DEFINE P(n) == w[n] \in B \cup {brk} /\ (w[n] \in B => lo + 8 * n <= w[n])
              S == {n \in Nat : n <= K => P(n)}
  <2>1. 0 \in S
    BY <1>1, <1>2
  <2>2. ASSUME NEW n \in S
        PROVE  n + 1 \in S
    <3>. SUFFICES ASSUME n + 1 <= K
                  PROVE  P(n + 1)
      OBVIOUS
    <3>1. n \in Nat /\ n <= K /\ P(n)
      BY <1>2
    <3>2. n + 1 \in 1..K /\ (n + 1) - 1 = n
      BY <1>2, <3>1
    <3>3. w[n + 1] = Follow(m, brk, w[n])
      BY <1>2, <3>2
    <3>4. CASE w[n] \in B
      <4>1. lo + 8 * n <= w[n] /\ w[n] \in Int
        BY <1>1, <3>1, <3>4
      <4>2. /\ w[n + 1] = w[n] + BLK_SIZE(m, w[n]) /\ w[n + 1] \in B \cup {brk}
            /\ BLK_SIZE(m, w[n]) \in Nat /\ BLK_SIZE(m, w[n]) >= 8
        BY <1>4, <3>3, <3>4
      <4>. QED  BY <3>1, <4>1, <4>2
    <3>5. CASE w[n] = brk
      <4>1. brk \notin B
        BY DEF Tiling
      <4>. QED  BY <1>5, <3>3, <3>5, <4>1
    <3>. QED  BY <3>1, <3>4, <3>5
  <2>3. S = Nat
    <3>. HIDE DEF P
    <3>. QED  BY <2>1, <2>2, Induction
  <2>4. \A n \in 0..K : n \in S
    <3>. HIDE DEF S
    <3>. QED  BY <1>2, <2>3
  <2>. QED  BY <1>2, <2>4
\* the lowest block not visited would follow one that was
<1>7. \A b \in B : b \in R
  <2>. DEFINE T == {d \in Nat : lo + d \in B /\ lo + d \notin R}
  <2>. SUFFICES ASSUME NEW b \in B, b \notin R
                PROVE  FALSE
    OBVIOUS
  <2>1. b - lo \in T
    BY <1>1
  <2>2. T \in SUBSET Nat /\ T # {}
    BY <2>1
  <2>3. PICK d \in T : \A y \in T : d <= y
    BY <2>2, LeastElement
  <2>. DEFINE c == lo + d
              q == PREV_BLKP(m, c)
  <2>4. c \in B /\ c \notin R /\ d \in Nat
    BY <2>3
  <2>5. c # lo
    BY <1>2, <2>4
  <2>6. q \in B /\ q + BLK_SIZE(m, q) = c
    BY <2>4, <2>5, TilingPrev
  <2>. HIDE DEF q
  <2>7. q \in Int /\ lo <= q /\ q < c /\ Follow(m, brk, q) = c /\ c < brk
    <3>1. /\ BLK_SIZE(m, q) \in Nat /\ BLK_SIZE(m, q) >= 8
          /\ Follow(m, brk, q) = q + BLK_SIZE(m, q)
      BY <1>4, <2>6
    <3>2. q \in Int /\ lo <= q /\ c < brk
      BY <1>1, <2>4, <2>6
    <3>. HIDE DEF c
    <3>. QED  BY <2>6, <3>1, <3>2
  <2>8. q \in R
    <3>. SUFFICES ASSUME q \notin R
                  PROVE  FALSE
      OBVIOUS
    <3>1. q - lo \in Nat /\ lo + (q - lo) = q
      BY <2>7
    <3>2. q - lo \in T
      BY <2>6, <3>1
    <3>. QED  BY <2>3, <2>4, <2>7, <3>2
  <2>9. PICK n \in 0..K : w[n] = q
    BY <1>2, <2>8
  <2>10. lo + 8 * n <= q
    BY <1>6, <2>6, <2>9
  <2>11. n + 1 \in 1..K /\ (n + 1) - 1 = n /\ n + 1 \in 0..K
    <3>1. BLK_SIZE(m, q) \in Nat /\ BLK_SIZE(m, q) >= 8
      BY <1>4, <2>6
    <3>2. BLK_SIZE(m, c) \in Nat /\ BLK_SIZE(m, c) >= 8 /\ c + BLK_SIZE(m, c) <= brk
      BY <1>4, <2>4
    <3>. QED  BY <1>2, <1>3, <2>4, <2>6, <2>7, <2>10, <3>1, <3>2
  <2>12. w[n + 1] = c
    BY <1>2, <2>7, <2>9, <2>11
  <2>. QED  BY <1>2, <2>4, <2>11, <2>12
<1>8. \A b \in R : b < brk /\ BLK_SIZE(m, b) # 0 => b \in B
  BY <1>2, <1>6
<1>9. \A b \in B : b < brk /\ BLK_SIZE(m, b) # 0
  BY <1>1, <1>4
<1>10. Chain(m, lo, brk) = {b \in R : b < brk /\ BLK_SIZE(m, b) # 0}
  BY DEF Chain, w
<1>. QED  BY <1>7, <1>8, <1>9, <1>10

(***************************************************************************)
(* The client's view.  That blocks are apart and keep their contents is    *)
(* all an allocator has to show of memory to fulfil the contract.          *)
(***************************************************************************)
Offsets(size) == {x \in 0..(size - 1) : x % 4 = 0}

\* What is seen in the blocks held: between calls, what their owners wrote; in a
\* block just handed out, what the old block held of it.
Seen ==
  \A id \in Ids :
    IF ~Live(id) THEN ContentsOf(id) = <<>>
    ELSE /\ ContentsOf(id) = [o \in Offsets(block_sizes[id]) |-> ContentsOf(id)[o]]
         /\ pc \notin {"boot", "undefined"} =>
              \A o \in Offsets(block_sizes[id]) :
                (pc = "returned" /\ call.id = id => o < call.old) => ContentsOf(id)[o] = id

\* The client's part of the inductive invariants of the allocators.
ClientInv ==
  /\ TypeOKClient /\ PayloadsDisjoint /\ DataPreserved
  /\ pc = "returned" => block_sizes[call.id] = call.size

\* A word of a block that the client holds.
LEMMA HeldWord ==
  ASSUME TypeOKClient, PayloadsDisjoint, NEW id \in Ids, Live(id),
         NEW o \in Offsets(block_sizes[id])
  PROVE  /\ blocks[id] + o \in Addr
         /\ blocks[id] <= blocks[id] + o /\ o \in Nat /\ o < block_sizes[id]
<1>. DEFINE b == blocks[id]
            n == block_sizes[id]
<1>1. b \in Nat /\ n \in Nat /\ mem_brk \in Nat /\ mem_brk <= mem_max_addr
  BY RegionAssumption DEF TypeOKClient, mem_max_addr
<1>2. b % 8 = 0 /\ mem_start_brk <= b /\ b + n <= mem_brk
  BY DEF PayloadsDisjoint, ALIGNMENT
<1>3. o \in Nat /\ o < n /\ o % 4 = 0 /\ mem_brk % 8 = 0
  BY <1>1 DEF Offsets, TypeOKClient
<1>. HIDE DEF b, n
<1>4. b + o \in Int /\ (b + o) % 4 = 0 /\ mem_start_brk - 4 <= b + o /\ b + o <= mem_brk - 4
  BY <1>1, <1>2, <1>3, RegionAssumption
<1>5. b + o \in Addr
  BY <1>1, <1>4, RegionAssumption DEF Addr, mem_max_addr
<1>. QED  BY <1>1, <1>3, <1>5 DEF b, n

\* What the client sees follows from its blocks being apart and intact.
LEMMA ClientSees == ClientInv => Seen
<1>. SUFFICES ASSUME ClientInv, NEW id \in Ids, Live(id)
              PROVE  /\ ContentsOf(id) = [o \in Offsets(block_sizes[id]) |-> ContentsOf(id)[o]]
                     /\ pc \notin {"boot", "undefined"} =>
                          \A o \in Offsets(block_sizes[id]) :
                            (pc = "returned" /\ call.id = id => o < call.old) => ContentsOf(id)[o] = id
  BY DEF Seen, ContentsOf
<1>0. /\ TypeOKClient /\ PayloadsDisjoint /\ DataPreserved
      /\ pc = "returned" => block_sizes[call.id] = call.size
  BY DEF ClientInv
<1>1. ContentsOf(id) = [o \in Offsets(block_sizes[id]) |-> mem[blocks[id] + o]]
  BY DEF ContentsOf, Offsets
<1>2. ASSUME pc \notin {"boot", "undefined"}, NEW o \in Offsets(block_sizes[id]),
             pc = "returned" /\ call.id = id => o < call.old
      PROVE  mem[blocks[id] + o] = id
  <2>1. /\ blocks[id] + o \in Addr /\ blocks[id] <= blocks[id] + o
        /\ o \in Nat /\ o < block_sizes[id] /\ blocks[id] \in Nat /\ block_sizes[id] \in Nat
    BY <1>0, HeldWord DEF TypeOKClient
  <2>2. CASE pc = "returned" /\ call.id = id
    <3>. DEFINE n == IF call.old < call.size THEN call.old ELSE call.size
    <3>1. Intact(id, n)
      BY <1>0, <1>2, <2>2 DEF DataPreserved
    <3>2. call.old \in Nat /\ call.size \in Nat /\ block_sizes[id] = call.size
      BY <1>0, <2>2 DEF TypeOKClient, Calls
    <3>3. CASE o < n
      <4>1. n \in Nat
        BY <3>2
      <4>. HIDE DEF n
      <4>2. blocks[id] + o < blocks[id] + n
        BY <2>1, <3>3, <4>1
      <4>. QED  BY <2>1, <3>1, <4>2 DEF Intact
    <3>4. CASE ~(o < n)
      BY <1>2, <2>1, <2>2, <3>2, <3>4
    <3>. QED  BY <3>3, <3>4
  <2>3. CASE ~(pc = "returned" /\ call.id = id)
    <3>1. Intact(id, block_sizes[id])
      BY <1>0, <1>2, <2>3 DEF DataPreserved
    <3>2. blocks[id] + o < blocks[id] + block_sizes[id]
      BY <2>1
    <3>. QED  BY <2>1, <3>1, <3>2 DEF Intact
  <2>. QED  BY <2>2, <2>3
<1>. QED  BY <1>1, <1>2

\* At the start the client holds nothing.
LEMMA ViewInit ==
  ASSUME InitClient
  PROVE  Contract!Init
<1>1. /\ blocks = [id \in Ids |-> NULL] /\ block_sizes = [id \in Ids |-> 0]
  BY DEF InitClient
<1>2. \A id \in Ids : ContentsOf(id) = <<>>
  BY <1>1 DEF ContentsOf, Live
<1>. QED  BY <1>1, <1>2 DEF Contract!Init, Contract!NoBlock, NULL

\* A step within a call shows nothing.
LEMMA ViewStays ==
  ASSUME Seen, Seen', UNCHANGED <<blocks, block_sizes>>,
         \/ UNCHANGED mem
         \/ pc \notin {"boot", "returned", "undefined"} /\ pc' \notin {"boot", "returned", "undefined"}
  PROVE  UNCHANGED Contract!vars
<1>1. ASSUME NEW id \in Ids
      PROVE  ContentsOf(id)' = ContentsOf(id)
  <2>1. CASE UNCHANGED mem
    BY <2>1 DEF ContentsOf, Live
  <2>2. CASE pc \notin {"boot", "returned", "undefined"} /\ pc' \notin {"boot", "returned", "undefined"}
    <3>1. CASE ~Live(id)
      BY <3>1 DEF ContentsOf, Live
    <3>2. CASE Live(id)
      <4>1. ContentsOf(id) = [o \in Offsets(block_sizes[id]) |-> id]
        BY <2>2, <3>2 DEF Seen
      <4>2. Live(id)'
        BY <3>2 DEF Live
      <4>3. ContentsOf(id)' = [o \in Offsets(block_sizes[id]) |-> id]'
        BY <2>2, <4>2 DEF Seen
      <4>. QED  BY <4>1, <4>3
    <3>. QED  BY <3>1, <3>2
  <2>. QED  BY <2>1, <2>2
<1>. QED  BY <1>1 DEF Contract!vars

\* The client's pointers are gone.
LEMMA ViewReset ==
  ASSUME blocks' = [id \in Ids |-> NULL], block_sizes' = [id \in Ids |-> 0]
  PROVE  Contract!Next
<1>1. \A id \in Ids : ContentsOf(id)' = <<>>
  BY DEF ContentsOf, Live
<1>2. Contract!Reset
  BY <1>1 DEF Contract!Reset, Contract!Release, Contract!NoBlock, NULL
<1>. QED  BY <1>2 DEF Contract!Next

\* A block given up.
LEMMA ViewDropped ==
  ASSUME TypeOKClient, Seen, Seen', pc \notin {"boot", "returned", "undefined"},
         NEW id \in Ids, Live(id), Drop(id)
  PROVE  Contract!Next
<1>1. /\ blocks' = [blocks EXCEPT ![id] = NULL] /\ block_sizes' = [block_sizes EXCEPT ![id] = 0]
      /\ pc' = "client" /\ blocks \in [Ids -> Nat] /\ block_sizes \in [Ids -> Nat]
  BY DEF Drop, TypeOKClient
<1>2. ASSUME NEW x \in Ids
      PROVE  ContentsOf(x)' = IF x \in {id} THEN <<>> ELSE ContentsOf(x)
  <2>1. CASE x = id
    BY <1>1, <2>1 DEF ContentsOf, Live
  <2>2. CASE x # id
    <3>0. blocks'[x] = blocks[x] /\ block_sizes'[x] = block_sizes[x]
      BY <1>1, <2>2
    <3>1. CASE ~Live(x)
      BY <2>2, <3>0, <3>1 DEF ContentsOf, Live
    <3>2. CASE Live(x)
      <4>1. ContentsOf(x) = [o \in Offsets(block_sizes[x]) |-> x]
        BY <3>2 DEF Seen
      <4>2. Live(x)'
        BY <3>0, <3>2 DEF Live
      <4>3. ContentsOf(x)' = [o \in Offsets(block_sizes[x]) |-> x]'
        BY <1>1, <4>2 DEF Seen
      <4>. QED  BY <2>2, <3>0, <4>1, <4>3
    <3>. QED  BY <3>1, <3>2
  <2>. QED  BY <2>1, <2>2
<1>3. /\ blocks' = [x \in Ids |-> IF x \in {id} THEN 0 ELSE blocks[x]]
      /\ block_sizes' = [x \in Ids |-> IF x \in {id} THEN 0 ELSE block_sizes[x]]
  BY <1>1 DEF NULL
<1>4. Contract!mm_free(id)
  BY <1>2, <1>3 DEF Contract!mm_free, Contract!Held, Contract!Release, Contract!NoBlock, Live, NULL
<1>. QED  BY <1>4 DEF Contract!Next

\* The client fills the block it was given.
LEMMA ViewFilled ==
  ASSUME TypeOKClient, Seen, Seen', pc = "returned", Live(call.id), Fill
  PROVE  Contract!Next
<1>. DEFINE id == call.id
<1>1. UNCHANGED <<blocks, block_sizes>> /\ pc' = "client" /\ id \in Ids
  BY DEF Fill, TypeOKClient, Calls
<1>2. ASSUME NEW x \in Ids
      PROVE  ContentsOf(x)' = IF x = id THEN [o \in DOMAIN ContentsOf(id) |-> id] ELSE ContentsOf(x)
  <2>1. CASE ~Live(x)
    BY <1>1, <2>1 DEF ContentsOf, Live
  <2>2. CASE Live(x)
    <3>1. Live(x)'
      BY <1>1, <2>2 DEF Live
    <3>2. ContentsOf(x)' = [o \in Offsets(block_sizes[x]) |-> x]'
      BY <1>1, <3>1 DEF Seen
    <3>3. DOMAIN ContentsOf(x) = Offsets(block_sizes[x])
      BY <2>2 DEF Seen
    <3>4. CASE x = id
      BY <1>1, <3>2, <3>3, <3>4
    <3>5. CASE x # id
      <4>1. ContentsOf(x) = [o \in Offsets(block_sizes[x]) |-> x]
        BY <2>2, <3>5 DEF Seen
      <4>. QED  BY <1>1, <3>2, <3>5, <4>1
    <3>. QED  BY <3>4, <3>5
  <2>. QED  BY <2>1, <2>2
<1>3. Contract!Write(id)
  BY <1>1, <1>2 DEF Contract!Write, Contract!Held, Contract!NoBlock, Live, NULL
<1>. QED  BY <1>1, <1>3 DEF Contract!Next

\* A block handed out.
LEMMA ViewGranted ==
  ASSUME TypeOKClient, TypeOKClient', Seen, Seen', PayloadsDisjoint',
         pc \notin {"boot", "returned", "undefined"},
         NEW c \in Calls, c.size \in Sizes, c.size > 0, c.ptr = blocks[c.id],
         c.old = block_sizes[c.id], NEW b, b # NULL, Deliver(c, b)
  PROVE  Contract!Next
<1>. DEFINE id   == c.id
            size == c.size
            old  == IF blocks[id] = NULL THEN <<>> ELSE ContentsOf(id)
<1>1. /\ blocks' = [blocks EXCEPT ![id] = b] /\ block_sizes' = [block_sizes EXCEPT ![id] = size]
      /\ pc' = "returned" /\ call' = c /\ blocks \in [Ids -> Nat] /\ block_sizes \in [Ids -> Nat]
      /\ id \in Ids /\ size \in Nat /\ size > 0
      /\ mem_brk' \in mem_start_brk..mem_max_addr /\ mem_brk' % 8 = 0
  BY DEF Deliver, TypeOKClient, Calls
<1>. HIDE DEF id, size
<1>2. blocks'[id] = b /\ block_sizes'[id] = size
  BY <1>1
<1>3. \A x \in Ids : x # id => blocks'[x] = blocks[x] /\ block_sizes'[x] = block_sizes[x]
  BY <1>1
<1>4. b \in Nat /\ b # 0 /\ b % 8 = 0 /\ b \in Addr
  <2>1. Live(id)'
    BY <1>2 DEF Live
  <2>2. b % 8 = 0 /\ mem_start_brk <= b /\ b + size <= mem_brk'
    BY <1>1, <1>2, <2>1 DEF PayloadsDisjoint, ALIGNMENT
  <2>3. b \in Nat
    BY <1>1, <1>2 DEF TypeOKClient
  <2>4. b \in (mem_start_brk - 4)..(mem_max_addr - 4) /\ b % 4 = 0
    BY <1>1, <2>2, <2>3, RegionAssumption DEF mem_max_addr
  <2>. QED  BY <2>2, <2>3, <2>4 DEF Addr, NULL
<1>5. Contract!Avoids(id, b, size)
  <2>. SUFFICES ASSUME NEW other \in Ids \ {id}, blocks[other] # 0
                PROVE  b + size <= blocks[other] \/ blocks[other] + block_sizes[other] <= b
    BY DEF Contract!Avoids, Contract!Held, Contract!NoBlock
  <2>1. Live(id)' /\ Live(other)'
    BY <1>2, <1>3 DEF Live, NULL
  <2>. QED  BY <1>1, <1>2, <1>3, <2>1 DEF PayloadsDisjoint
<1>6. ASSUME NEW x \in Ids \ {id}
      PROVE  ContentsOf(x)' = ContentsOf(x)
  <2>1. CASE ~Live(x)
    BY <1>3, <2>1 DEF ContentsOf, Live
  <2>2. CASE Live(x)
    <3>1. Live(x)'
      BY <1>3, <2>2 DEF Live
    <3>2. ContentsOf(x)' = [o \in Offsets(block_sizes[x]) |-> x]'
      BY <1>1, <3>1 DEF Seen, id
    <3>3. ContentsOf(x) = [o \in Offsets(block_sizes[x]) |-> x]
      BY <2>2 DEF Seen
    <3>. QED  BY <1>3, <3>2, <3>3
  <2>. QED  BY <2>1, <2>2
<1>7. Live(id)'
  BY <1>2 DEF Live
<1>8. DOMAIN ContentsOf(id)' = Offsets(size)
  BY <1>1, <1>2, <1>7 DEF Seen
<1>9. ASSUME NEW o \in Offsets(size) \cap DOMAIN old
      PROVE  ContentsOf(id)'[o] = old[o]
  <2>1. CASE blocks[id] = NULL
    BY <1>9, <2>1
  <2>2. CASE blocks[id] # NULL
    <3>1. Live(id) /\ old = ContentsOf(id)
      BY <2>2 DEF Live
    <3>2. ContentsOf(id) = [x \in Offsets(block_sizes[id]) |-> id]
      BY <1>1, <3>1 DEF Seen
    <3>3. o \in Offsets(c.old) /\ old[o] = id
      BY <1>9, <3>1, <3>2 DEF id
    <3>4. c.old \in Nat
      BY DEF Calls
    <3>5. o < c.old
      BY <3>3, <3>4 DEF Offsets
    <3>6. ContentsOf(id)'[o] = id
      BY <1>1, <1>2, <1>7, <1>9, <3>5 DEF Seen
    <3>. QED  BY <3>3, <3>6
  <2>. QED  BY <2>1, <2>2
<1>10. Contract!Grant(id, size, old)
  <2>1. Contract!Offsets(size) = Offsets(size)
    BY DEF Contract!Offsets, Offsets
  <2>. HIDE DEF old
  <2>. QED  BY <1>1, <1>4, <1>5, <1>6, <1>8, <1>9, <2>1 DEF Contract!Grant, Contract!NoBlock
<1>11. Contract!mm_malloc(id, size) \/ Contract!mm_realloc(id, size)
  <2>1. CASE blocks[id] = NULL
    BY <1>10, <2>1 DEF Contract!mm_malloc, Contract!Held, Contract!NoBlock, NULL
  <2>2. CASE blocks[id] # NULL
    <3>1. [x \in Ids |-> ContentsOf(x)][id] = ContentsOf(id)
      BY <1>1
    <3>2. old = [x \in Ids |-> ContentsOf(x)][id]
      BY <2>2, <3>1
    <3>. QED  BY <1>10, <2>2, <3>2 DEF Contract!mm_realloc, Contract!Held, Contract!NoBlock, NULL
  <2>. QED  BY <2>1, <2>2
<1>. QED  BY <1>1, <1>11 DEF Contract!Next, size

=============================================================================
