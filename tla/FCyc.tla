-------------------------------- MODULE FCyc --------------------------------
(***************************************************************************)
(* fcyc.c and the compensated counters of clock.c: the running time of f   *)
(* as the best of a number of samples, each corrected for the timer        *)
(* interrupts that fell into it.                                           *)
(*                                                                         *)
(* The timer is periodic: after Period cycles of the program the interrupt *)
(* comes, takes TickCost cycles of the counter and one tick of tms_utime.  *)
(* The program spends its cycles in f and in the loop of callibrate; the   *)
(* interrupt can come between any two steps of it.  Doubles are integers:  *)
(* cycles are whole, and callibrate's quotient is by one tick.             *)
(***************************************************************************)
EXTENDS CycleCounter, SequencesExt

CONSTANTS
  Period,         \* cycles of the program from one interrupt to the next
  TickCost,       \* cycles an interrupt takes
  NEVENT,         \* ticks callibrate waits for (100)
  THRESHOLD,      \* cycles between two looks at tms_utime (1000)
  RECORDTHRESH,   \* no tick is thought to be cheaper than this (3000)
  EpsDen,         \* epsilon is a multiple of 1/EpsDen
  Epsilons,       \* arguments of set_fcyc_epsilon, in these units
  KBests,         \* arguments of set_fcyc_k
  MaxSamples,     \* arguments of set_fcyc_maxsamples
  CACHE_BYTES,    \* the size of the cache unless set otherwise
  CacheSizes,     \* arguments of set_fcyc_cache_size
  CacheBlocks,    \* arguments of set_fcyc_cache_block
  MaxWork,        \* bound: the cycles of one run of f
  MaxTotal        \* bound: the samples all calls may take together

\* A look at tms_utime sees at most one tick, a tick is told from a stretch
\* without one by RECORDTHRESH, and callibrate is done before a word overflows.
\* With a block of less than an int, clear's walk would not move.
ASSUME FCycAssumption ==
  /\ Period \in Nat /\ TickCost \in Nat /\ THRESHOLD \in Nat \ {0} /\ NEVENT \in Nat
  /\ RECORDTHRESH \in Nat /\ THRESHOLD < RECORDTHRESH /\ RECORDTHRESH < TickCost /\ THRESHOLD < Period
  /\ (NEVENT + 2) * (Period + TickCost) < W
  /\ Epsilons \subseteq Nat /\ EpsDen \in Nat \ {0}
  /\ KBests \subseteq Nat \ {0} /\ MaxSamples \subseteq Nat /\ CacheSizes \subseteq Nat \ {0}
  /\ CACHE_BYTES \in CacheSizes /\ \A b \in CacheBlocks : b \in Nat /\ b >= 4
  /\ MaxWork \in Nat \ {0} /\ MaxTotal \in Nat

VARIABLES
  pc,                                             \* the program's next step
  kbest, maxsamples, compensate, clear_cache,     \* the parameters
  epsilon, cache_bytes, cache_block,
  cache_buf,      \* the size of the buffer, or 0 for NULL
  values,         \* the kbest smallest samples
  samplecount,
  cyc_per_tick,   \* what a tick costs, or 0 if that is not known
  oldt, newt, e,  \* callibrate: readings of the counter, events seen
  time,           \* the sample under way
  ticks,          \* tms_utime less oldc or start_tick, whichever is in use
  since,          \* cycles of the program since the last interrupt
  elapsed,        \* history: cycles since start_counter
  work,           \* history: those of them that were f's own
  samples,        \* history: all samples of the call (KEEP_SAMPLES)
  asked           \* samples the calls so far may have taken

params  == <<kbest, maxsamples, compensate, clear_cache, epsilon, cache_bytes, cache_block>>
sampler == <<values, samplecount, samples>>
calib   == <<cyc_per_tick, oldt, newt, e>>
clock   == <<tsc, ticks, since, elapsed>>
vars    == <<counterVars, pc, params, cache_buf, sampler, calib, time, ticks, since,
             elapsed, work, asked>>

-----------------------------------------------------------------------------
(***************************************************************************)
(* The sampler.                                                            *)
(***************************************************************************)

\* Mutant: the order of the values is not kept.
insertUnsorted(vs, pos, val) == [vs EXCEPT ![pos] = val]

\* values[pos] becomes val and is swapped down as long as a bigger value is
\* before it.
insert(vs, pos, val) ==
  LET q == Max({j \in 1..pos : j = 1 \/ vs[j - 1] <= val})
  IN  InsertAt(RemoveAt(vs, pos), q, val)

add_sample(val) ==
  /\ values' = CASE samplecount < kbest -> insert(values, samplecount + 1, val)
                 [] samplecount >= kbest /\ val < values[kbest] -> insert(values, kbest, val)
                 [] OTHER -> values
  /\ samplecount' = samplecount + 1
  /\ samples' = Append(samples, val)

\* Mutant: convergence is tested before there are kbest samples.
has_convergedEarly(vs, n) == (EpsDen + epsilon) * vs[1] >= EpsDen * vs[kbest]

has_converged(vs, n) ==
  /\ n >= kbest
  /\ (EpsDen + epsilon) * vs[1] >= EpsDen * vs[kbest]

-----------------------------------------------------------------------------
(***************************************************************************)
(* Time.                                                                   *)
(***************************************************************************)

Cycle ==
  /\ since < Period
  /\ tsc' = After(tsc, 1) /\ since' = since + 1
  /\ elapsed' = IF pc = "f" THEN elapsed + 1 ELSE elapsed
  /\ UNCHANGED ticks

\* The interrupt is taken between two steps of the program.
Interrupt ==
  /\ since = Period /\ pc \notin {"idle", "exit"}
  /\ tsc' = After(tsc, TickCost) /\ since' = 0
  /\ ticks' = ticks + 1
  /\ elapsed' = IF pc \in {"f", "get"} THEN elapsed + TickCost ELSE elapsed
  /\ UNCHANGED <<platform, cyc_hi, cyc_lo, pc, params, cache_buf, sampler, calib, time,
                 work, asked>>

\* times(): the present tms_utime becomes the one ticks are counted from.
times ==
  /\ ticks' = 0
  /\ UNCHANGED <<tsc, since, elapsed>>

-----------------------------------------------------------------------------
(***************************************************************************)
(* The parameters, set between two calls.                                  *)
(***************************************************************************)

Setting ==
  /\ pc = "idle"
  /\ UNCHANGED <<counterVars, pc, sampler, calib, time, ticks, since, elapsed, work, asked>>

set_fcyc_clear_cache ==
  /\ Setting /\ clear_cache' \in BOOLEAN
  /\ UNCHANGED <<kbest, maxsamples, compensate, epsilon, cache_bytes, cache_block, cache_buf>>

\* Mutant: the buffer of the old size is kept.
set_fcyc_cache_sizeOnly(bytes) ==
  /\ Setting /\ cache_bytes' = bytes
  /\ UNCHANGED <<kbest, maxsamples, compensate, clear_cache, epsilon, cache_block, cache_buf>>

set_fcyc_cache_size(bytes) ==
  /\ Setting /\ cache_bytes' = bytes
  /\ cache_buf' = IF bytes # cache_bytes THEN 0 ELSE cache_buf
  /\ UNCHANGED <<kbest, maxsamples, compensate, clear_cache, epsilon, cache_block>>

set_fcyc_cache_block ==
  /\ Setting /\ cache_block' \in CacheBlocks
  /\ UNCHANGED <<kbest, maxsamples, compensate, clear_cache, epsilon, cache_bytes, cache_buf>>

set_fcyc_compensate ==
  /\ Setting /\ compensate' \in BOOLEAN
  /\ UNCHANGED <<kbest, maxsamples, clear_cache, epsilon, cache_bytes, cache_block, cache_buf>>

set_fcyc_k ==
  /\ Setting /\ kbest' \in KBests
  /\ UNCHANGED <<maxsamples, compensate, clear_cache, epsilon, cache_bytes, cache_block, cache_buf>>

set_fcyc_maxsamples ==
  /\ Setting /\ maxsamples' \in MaxSamples
  /\ UNCHANGED <<kbest, compensate, clear_cache, epsilon, cache_bytes, cache_block, cache_buf>>

set_fcyc_epsilon ==
  /\ Setting /\ epsilon' \in Epsilons
  /\ UNCHANGED <<kbest, maxsamples, compensate, clear_cache, cache_bytes, cache_block, cache_buf>>

-----------------------------------------------------------------------------
(***************************************************************************)
(* fcyc.                                                                   *)
(***************************************************************************)

Goto(label) == pc' = label

init_sampler ==
  /\ pc = "idle" /\ asked' = asked + maxsamples /\ asked' <= MaxTotal
  /\ values' = [j \in 1..kbest |-> 0] /\ samplecount' = 0 /\ samples' = <<>>
  /\ Goto("clear")
  /\ UNCHANGED <<counterVars, params, cache_buf, calib, time, ticks, since, elapsed, work>>

\* Mutant: the walk through the buffer does not move.
clearForever(allocated) ==
  /\ pc = "clear"
  /\ IF clear_cache
     THEN cache_buf' = cache_bytes /\ Goto("clear")
     ELSE UNCHANGED cache_buf /\ Goto("start_comp_counter")
  /\ UNCHANGED <<counterVars, params, sampler, calib, time, ticks, since, elapsed, work, asked>>

\* The first call allocates the buffer, and gives the program up if it cannot.
clear(allocated) ==
  /\ pc = "clear"
  /\ IF clear_cache /\ cache_buf = 0
     THEN IF allocated THEN cache_buf' = cache_bytes /\ Goto("start_comp_counter")
                       ELSE cache_buf' = 0 /\ Goto("exit")
     ELSE UNCHANGED cache_buf /\ Goto("start_comp_counter")
  /\ UNCHANGED <<counterVars, params, sampler, calib, time, ticks, since, elapsed, work, asked>>

\* start_comp_counter up to its first times(), or, without compensation, none.
StartComp ==
  /\ pc = "start_comp_counter"
  /\ IF compensate /\ cyc_per_tick = 0 THEN Goto("callibrate")
     ELSE IF compensate THEN Goto("times") ELSE Goto("start_counter")
  /\ UNCHANGED <<counterVars, params, cache_buf, sampler, calib, time, ticks, since,
                 elapsed, work, asked>>

StartTick ==
  /\ pc = "times" /\ times /\ Goto("start_counter")
  /\ UNCHANGED <<platform, cyc_hi, cyc_lo, params, cache_buf, sampler, calib, time, work, asked>>

\* start_counter, the last thing before f; other platforms do not have one.
StartCounter ==
  /\ pc = "start_counter"
  /\ IF platform = "other"
     THEN Goto("exit") /\ UNCHANGED <<cyc_hi, cyc_lo>>
     ELSE Goto("f") /\ start_counter
  /\ elapsed' = 0 /\ work' = 0
  /\ UNCHANGED <<platform, tsc, ticks, since, params, cache_buf, sampler, calib, time, asked>>

f ==
  /\ pc = "f" /\ work < MaxWork
  /\ Cycle /\ work' = work + 1
  /\ UNCHANGED <<platform, cyc_hi, cyc_lo, pc, params, cache_buf, sampler, calib, time, asked>>

ReturnFromF ==
  /\ pc = "f" /\ work > 0 /\ Goto("get")
  /\ UNCHANGED <<counterVars, params, cache_buf, sampler, calib, time, ticks, since,
                 elapsed, work, asked>>

GetCounter ==
  /\ pc = "get"
  /\ time' = get_counter
  /\ Goto(IF compensate THEN "get_times" ELSE "add_sample")
  /\ UNCHANGED <<counterVars, params, cache_buf, sampler, calib, ticks, since, elapsed,
                 work, asked>>

\* Mutant: one tick is taken off, however many there were.
GetTicksOnce ==
  /\ pc = "get_times"
  /\ time' = IF ticks > 0 THEN time - cyc_per_tick ELSE time
  /\ Goto("add_sample")
  /\ UNCHANGED <<counterVars, params, cache_buf, sampler, calib, ticks, since, elapsed,
                 work, asked>>

\* get_comp_counter, from its times() on.
GetTicks ==
  /\ pc = "get_times"
  /\ time' = time - ticks * cyc_per_tick
  /\ Goto("add_sample")
  /\ UNCHANGED <<counterVars, params, cache_buf, sampler, calib, ticks, since, elapsed,
                 work, asked>>

\* The loop's body ends, and its locals with it.
AddSample ==
  /\ pc = "add_sample"
  /\ add_sample(time)
  /\ Goto(IF ~has_converged(values', samplecount') /\ samplecount' < maxsamples
          THEN "clear" ELSE "return")
  /\ time' = 0 /\ ticks' = 0 /\ elapsed' = 0 /\ work' = 0
  /\ UNCHANGED <<counterVars, params, cache_buf, calib, since, asked>>

\* What fcyc returns.
result == values[1]

Return ==
  /\ pc = "return" /\ Goto("idle")
  /\ values' = <<>> /\ samples' = <<>> /\ samplecount' = 0
  /\ UNCHANGED <<counterVars, params, cache_buf, calib, time, ticks, since, elapsed, work, asked>>

-----------------------------------------------------------------------------
(***************************************************************************)
(* callibrate.                                                             *)
(***************************************************************************)

CalRest == <<platform, tsc, since, elapsed, params, cache_buf, sampler, time, work, asked>>

CalTimes ==
  /\ pc = "callibrate" /\ times /\ e' = 0
  /\ Goto("cal_start")
  /\ UNCHANGED <<platform, cyc_hi, cyc_lo, params, cache_buf, sampler, cyc_per_tick, oldt, newt,
                 time, work, asked>>

CalStart ==
  /\ pc = "cal_start"
  /\ IF platform = "other"
     THEN Goto("exit") /\ UNCHANGED <<cyc_hi, cyc_lo>>
     ELSE Goto("cal_oldt") /\ start_counter
  /\ UNCHANGED <<CalRest, calib, ticks>>

CalOldt ==
  /\ pc = "cal_oldt" /\ oldt' = get_counter /\ Goto("cal_loop")
  /\ UNCHANGED <<CalRest, cyc_hi, cyc_lo, cyc_per_tick, newt, e, ticks>>

\* The loop's test, and the reading of the counter that starts its body.
CalRead ==
  /\ pc = "cal_loop"
  /\ IF e < NEVENT
     THEN /\ newt' = get_counter
          /\ Goto(IF newt' - oldt >= THRESHOLD THEN "cal_look" ELSE "cal_spin")
          /\ UNCHANGED <<oldt, e>>
     ELSE Goto("times") /\ newt' = 0 /\ oldt' = 0 /\ e' = 0
  /\ UNCHANGED <<CalRest, cyc_hi, cyc_lo, cyc_per_tick, ticks>>

CalSpin ==
  /\ pc = "cal_spin" /\ Cycle /\ Goto("cal_loop")
  /\ UNCHANGED <<platform, cyc_hi, cyc_lo, params, cache_buf, sampler, calib, time, work, asked>>

\* Mutant: every quotient counts as the cost of a tick.
RecordedAny(cpt) == cyc_per_tick = 0 \/ cyc_per_tick > cpt

Recorded(cpt) == (cyc_per_tick = 0 \/ cyc_per_tick > cpt) /\ cpt > RECORDTHRESH

\* times() again, after the counter was read; oldc becomes newc if it is later.
CalLook ==
  /\ pc = "cal_look"
  /\ oldt' = newt
  /\ IF ticks > 0
     THEN LET cpt == (newt - oldt) \div ticks
          IN  /\ cyc_per_tick' = IF Recorded(cpt) THEN cpt ELSE cyc_per_tick
              /\ e' = e + 1 /\ ticks' = 0
     ELSE UNCHANGED <<cyc_per_tick, e, ticks>>
  /\ Goto("cal_spin")
  /\ UNCHANGED <<CalRest, cyc_hi, cyc_lo, newt>>

-----------------------------------------------------------------------------

Init ==
  /\ InitCounter
  /\ pc = "idle" /\ asked = 0
  /\ kbest \in KBests /\ maxsamples \in MaxSamples /\ epsilon \in Epsilons
  /\ cache_block \in CacheBlocks /\ compensate = FALSE /\ clear_cache = FALSE
  /\ cache_bytes = CACHE_BYTES /\ cache_buf = 0
  /\ values = <<>> /\ samplecount = 0 /\ samples = <<>>
  /\ cyc_per_tick = 0 /\ oldt = 0 /\ newt = 0 /\ e = 0 /\ time = 0
  /\ ticks = 0 /\ since \in 0..Period
  /\ elapsed = 0 /\ work = 0

Program ==
  \/ init_sampler \/ \E allocated \in BOOLEAN : clear(allocated)
  \/ StartComp \/ StartTick \/ StartCounter \/ f \/ ReturnFromF \/ GetCounter \/ GetTicks
  \/ AddSample \/ Return
  \/ CalTimes \/ CalStart \/ CalOldt \/ CalRead \/ CalSpin \/ CalLook

Set ==
  \/ set_fcyc_clear_cache \/ set_fcyc_compensate \/ set_fcyc_k \/ set_fcyc_maxsamples
  \/ set_fcyc_epsilon \/ set_fcyc_cache_block
  \/ \E bytes \in CacheSizes : set_fcyc_cache_size(bytes)

Next == Program \/ Interrupt \/ Set

\* The program, once called, goes on, and the timer's interrupt is taken.
Spec == Init /\ [][Next]_vars /\ WF_vars(Program) /\ WF_vars(Interrupt)

-----------------------------------------------------------------------------

TypeOK ==
  /\ tsc \in 0..(W * W - 1) /\ cyc_hi \in 0..(W - 1) /\ cyc_lo \in 0..(W - 1)
  /\ kbest \in KBests /\ maxsamples \in MaxSamples /\ cache_bytes \in CacheSizes
  /\ compensate \in BOOLEAN /\ clear_cache \in BOOLEAN
  /\ epsilon \in Epsilons /\ cache_block \in CacheBlocks
  /\ cache_buf \in {0} \cup CacheSizes
  /\ values = <<>> \/ values \in [1..kbest -> Int]
  /\ samplecount \in Nat /\ e \in 0..NEVENT /\ since \in 0..Period
  /\ cyc_per_tick \in Nat /\ ticks \in Nat /\ work \in 0..MaxWork /\ elapsed \in Nat

\* The buffer that clear walks through has the size it goes by, in whatever order
\* the size was set and the cache cleared.
BufferFits == cache_buf \in {0, cache_bytes}

\* The values are the kbest smallest of all samples of this call, in order: each
\* is a sample of its own, and no other sample is below any of them.
KBest ==
  pc \in {"clear", "return"} =>
    LET kept == 1..Min({kbest, samplecount})
    IN  /\ Len(samples) = samplecount
        /\ \A i, j \in kept : i < j => values[i] <= values[j]
        /\ \E from \in [kept -> DOMAIN samples] :
             /\ \A i, j \in kept : from[i] = from[j] => i = j
             /\ \A i \in kept : values[i] = samples[from[i]]
             /\ \A n \in DOMAIN samples : (\A i \in kept : from[i] # n) =>
                  \A i \in kept : values[i] <= samples[n]

\* fcyc returns the best of all its samples, and stops early only if kbest of
\* them are within epsilon of it; with a tolerance above 0, a negative best is never
\* taken for convergence.
ResultEarned ==
  pc = "return" =>
    /\ result \in Range(samples) /\ \A n \in DOMAIN samples : result <= samples[n]
    /\ \/ Len(samples) >= maxsamples
       \/ /\ result >= 0 \/ epsilon = 0
          /\ Cardinality({n \in DOMAIN samples :
               EpsDen * samples[n] <= (EpsDen + epsilon) * result}) >= kbest

\* get_counter is the true number of cycles since start_counter on a Pentium,
\* whatever the low word did in between.  On an Alpha it is so as long as the low
\* word has not started again; after that the borrow makes it W^2 - W too big.
CountsElapsed ==
  pc \in {"f", "get"} =>
    get_counter = IF platform = "alpha" /\ cyc_lo + elapsed >= W
                  THEN W * W - W + elapsed ELSE elapsed

\* What callibrate takes a tick to cost is at least what it costs and at most
\* THRESHOLD cycles more, although the counter and tms_utime are read one after the
\* other and a tick may come in between.
CallibratedRight ==
  platform = "i386" =>
    cyc_per_tick = 0 \/ (TickCost <= cyc_per_tick /\ cyc_per_tick <= TickCost + THRESHOLD)

\* A compensated sample never exceeds the cycles f took itself: the ticks are
\* counted over a stretch that includes the one the cycles are counted over, and none
\* is taken off for less than it cost.  (It may fall short, even below zero.)
NeverOver ==
  (pc = "add_sample" /\ platform = "i386" /\ compensate /\ cyc_per_tick > 0) => time <= work

\* Every call of fcyc comes back, or gives the program up: callibrate sees its
\* ticks and the samples end.
Returns == (pc = "clear") ~> (pc \in {"idle", "exit"})
=============================================================================
