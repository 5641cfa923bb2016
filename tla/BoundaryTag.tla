---------------------------- MODULE BoundaryTag -----------------------------
(***************************************************************************)
(* The block layout shared by implicit.c and segregate.c: a block of size  *)
(* bytes with payload pointer p has a header word at p - 4 and a footer    *)
(* word at p + size - 8, both holding size and an allocated bit; the next  *)
(* block's payload is at p + size.  The two files define the same macros   *)
(* under the prefixes RB_ and BLK_; every operator takes the memory m it   *)
(* reads.                                                                  *)
(***************************************************************************)
EXTENDS Memlib

ALIGNMENT == 8
WSIZE     == 4      \* every header and footer is one word
BLK_FREE  == 0
BLK_ALLOC == 1

ALIGN(size) == ((size + 7) \div 8) * 8

PACK(size, alloc) == size + alloc
GET_SIZE(w)       == w - (w % 8)
GET_ALLOC(w)      == w % 2

BLK_HDRP(p)         == p - WSIZE
BLK_SIZE(m, p)      == GET_SIZE(m[BLK_HDRP(p)])
BLK_STATE(m, p)     == GET_ALLOC(m[BLK_HDRP(p)])
BLK_AVAL_SIZE(m, p) == BLK_SIZE(m, p) - 2 * WSIZE
BLK_FTRP(m, p)      == p + BLK_AVAL_SIZE(m, p)

SET_BLK(m, p, size, alloc) ==
  SET(SET(m, BLK_HDRP(p), PACK(size, alloc)), p + size - 2 * WSIZE, PACK(size, alloc))

NEXT_BLKP(m, p)      == p + BLK_SIZE(m, p)
PREV_FTRP(p)         == p - 2 * WSIZE
PREV_BLK_SIZE(m, p)  == GET_SIZE(m[PREV_FTRP(p)])
PREV_BLK_ALLOC(m, p) == GET_ALLOC(m[PREV_FTRP(p)])
PREV_BLKP(m, p)      == p - PREV_BLK_SIZE(m, p)
NEXT_BLK_SIZE(m, p)  == BLK_SIZE(m, NEXT_BLKP(m, p))
NEXT_BLK_ALLOC(m, p) == BLK_STATE(m, NEXT_BLKP(m, p))

SET_EB(m, p) == SET(m, p - WSIZE, PACK(0, BLK_ALLOC))

(***************************************************************************)
(* What it means for a set B of payload pointers to tile the heap from the *)
(* prologue block lo up to the break: the blocks follow one another        *)
(* without gap or overlap, and each footer repeats its header, so that the *)
(* heap can be walked in both directions.                                  *)
(***************************************************************************)
BlockOK(m, b) ==
  /\ b % 8 = 0
  /\ m[BLK_HDRP(b)] \in Nat
  /\ BLK_SIZE(m, b) >= 8
  /\ m[BLK_FTRP(m, b)] = m[BLK_HDRP(b)]

Tiling(m, lo, brk, B) ==
  /\ B \subseteq Int
  /\ lo \in B /\ brk \notin B
  /\ \A b \in B : lo <= b /\ b < brk
  /\ \A b \in B : BlockOK(m, b)
  /\ \A b \in B : NEXT_BLKP(m, b) \in B \cup {brk}
  /\ \A b \in (B \cup {brk}) \ {lo} :
        /\ m[PREV_FTRP(b)] \in Nat
        /\ PREV_BLKP(m, b) \in B
        /\ NEXT_BLKP(m, PREV_BLKP(m, b)) = b
  /\ \A b, c \in B : b < c => b + BLK_SIZE(m, b) <= c

\* One step of the walk over the blocks; the break and a header of size 0 end it.
Follow(m, brk, b) == IF b >= brk \/ BLK_SIZE(m, b) = 0 THEN b ELSE NEXT_BLKP(m, b)

\* The walk from lo.  No block has less than 8 bytes, so that it has ended by the
\* last step.
Walk(m, lo, brk) ==
  LET nth[n \in 0..((brk - lo) \div 8)] == IF n = 0 THEN lo ELSE Follow(m, brk, nth[n - 1])
  IN  nth

\* The blocks met on it.
Chain(m, lo, brk) ==
  LET nth == Walk(m, lo, brk)
  IN  {b \in {nth[n] : n \in DOMAIN nth} : b < brk /\ BLK_SIZE(m, b) # 0}
=============================================================================
