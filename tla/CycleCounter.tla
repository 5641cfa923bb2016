---------------------------- MODULE CycleCounter ----------------------------
(***************************************************************************)
(* clock.c: the processor's cycle counter, read as two words, and the time *)
(* between start_counter and get_counter computed from them.               *)
(***************************************************************************)
EXTENDS Integers

CONSTANTS
  W,          \* values of a word (2^32 in the code)
  Platforms,  \* the machines of the builds under study
  Starts      \* bound: what the counter may show when the program starts

ASSUME CounterAssumption ==
  /\ W \in Nat \ {0} /\ Starts \subseteq 0..(W * W - 1)
  /\ Platforms \subseteq {"i386", "alpha", "other"}

VARIABLES
  platform,   \* which of the machine dependent parts is compiled
  tsc,        \* the counter of the processor, two words wide
  cyc_hi,     \* static: the counter at the last start_counter
  cyc_lo

counterVars == <<platform, tsc, cyc_hi, cyc_lo>>

\* unsigned arithmetic
Word(x) == x % W

hi(t) == t \div W
lo(t) == t % W

\* The counter d cycles after t.
After(t, d) == (t + d) % (W * W)

InitCounter ==
  /\ platform \in Platforms
  /\ tsc \in Starts
  /\ cyc_hi = 0 /\ cyc_lo = 0

\* The alpha's counter has one word for the process; the high word is set to 0.
access_counter_hi == IF platform = "alpha" THEN 0 ELSE hi(tsc)

\* Mutant: the low word is not cut off.
start_counterWide ==
  /\ cyc_hi' = access_counter_hi
  /\ cyc_lo' = tsc

start_counter ==
  /\ cyc_hi' = access_counter_hi
  /\ cyc_lo' = lo(tsc)

\* Mutant: the borrow is forgotten.
get_counterNoBorrow ==
  LET ncyc_lo == lo(tsc)
  IN  Word(access_counter_hi - cyc_hi) * W + Word(ncyc_lo - cyc_lo)

get_counter ==
  LET ncyc_lo == lo(tsc)
      l       == Word(ncyc_lo - cyc_lo)
      borrow  == IF l > ncyc_lo THEN 1 ELSE 0
  IN  Word(access_counter_hi - cyc_hi - borrow) * W + l
=============================================================================
