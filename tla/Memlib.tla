------------------------------- MODULE Memlib -------------------------------
(***************************************************************************)
(* memlib.c: the simulated memory system under both allocators.            *)
(*                                                                         *)
(* Addresses are byte addresses.  Memory is a function on the 4-byte word  *)
(* addresses of the region memlib mallocs, plus the one word just below    *)
(* it (libc's own chunk header), which implicit.c reaches.  A store to     *)
(* any other address enlarges the domain of the function, so that the type *)
(* invariants of the allocators say that no store leaves the region; TLC   *)
(* stops on a load from outside it.                                        *)
(***************************************************************************)
EXTENDS Integers

CONSTANTS
  MAX_HEAP,       \* bytes memlib may hand out (config.h: 20 MB)
  mem_start_brk   \* first byte of the region, as libc's malloc returned it

ASSUME RegionAssumption ==
  /\ MAX_HEAP \in Nat /\ MAX_HEAP % 8 = 0
  /\ mem_start_brk \in Nat /\ mem_start_brk % 8 = 0 /\ mem_start_brk >= 8

VARIABLES
  mem,       \* the words of the region
  mem_brk    \* one past the last byte handed out

NULL == 0

mem_max_addr == mem_start_brk + MAX_HEAP

Addr == {a \in (mem_start_brk - 4)..(mem_max_addr - 4) : a % 4 = 0}

\* *(unsigned int * )(a) = v
SET(m, a, v) == [x \in DOMAIN m \cup {a} |-> IF x = a THEN v ELSE m[x]]

\* libc memset and memcpy on n bytes, seen word by word: a partly written last
\* word counts as written.
memset(m, dst, v, n) ==
  [a \in DOMAIN m |-> IF dst <= a /\ a < dst + n THEN v ELSE m[a]]

\* Mutant: the last 8 bytes are left out.
memcpyShort(m, dst, src, n) ==
  [a \in DOMAIN m |-> IF dst <= a /\ a < dst + n - 8 THEN m[a - dst + src] ELSE m[a]]

memcpy(m, dst, src, n) ==
  [a \in DOMAIN m |-> IF dst <= a /\ a < dst + n THEN m[a - dst + src] ELSE m[a]]

\* Mutant: the limit is tested against the break before it moves.
SbrkChecksOldBreak(brk, incr) == incr >= 0 /\ brk <= mem_max_addr

\* mem_sbrk(incr) moves the break, or fails leaving it alone.
SbrkSucceeds(brk, incr) == incr >= 0 /\ brk + incr <= mem_max_addr

\* A fresh region is a fresh mapping: 20 MB is beyond libc's mmap threshold.
mem_init == mem = [a \in Addr |-> 0] /\ mem_brk = mem_start_brk

\* memset(mem_start_brk, 0, MAX_HEAP), without the reset of the break.
Zeroed(m) == memset(m, mem_start_brk, 0, MAX_HEAP)

mem_reset_brk == mem_brk' = mem_start_brk

mem_clear == mem' = Zeroed(mem) /\ mem_reset_brk
=============================================================================
