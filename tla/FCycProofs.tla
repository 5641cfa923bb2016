----------------------------- MODULE FCycProofs -----------------------------
(***************************************************************************)
(* The two-word subtraction of get_counter is exact, whatever the width of *)
(* a word and wherever the counter started; with it, what fcyc makes of    *)
(* its samples and callibrate of the ticks is right.                       *)
(***************************************************************************)
EXTENDS FCyc, TLAPS, FiniteSetTheorems, WellFoundedInduction

\* Quotient and remainder by W, and that they are the only ones.
LEMMA DivMod ==
  ASSUME NEW x \in Int
  PROVE  /\ x \div W \in Int /\ x % W \in Int
         /\ x = W * (x \div W) + (x % W) /\ 0 <= x % W /\ x % W < W
<1>1. W \in Nat /\ W > 0 BY CounterAssumption, SMT
<1> QED BY <1>1, SMT

LEMMA Monotone ==
  ASSUME NEW a \in Int, NEW b \in Int, a + 1 <= b
  PROVE  W * a \in Int /\ W * b \in Int /\ W * a + W <= W * b
<1>1. W \in Nat /\ W > 0 BY CounterAssumption, SMT
<1>2. W * (b - a - 1) >= 0 BY <1>1, SMT
<1> QED BY <1>1, <1>2, SMT

LEMMA Unique ==
  ASSUME NEW q \in Int, NEW r \in Int, 0 <= r, r < W
  PROVE  (W * q + r) % W = r /\ (W * q + r) \div W = q
<1>1. W \in Nat /\ W > 0 BY CounterAssumption, SMT
<1> DEFINE x == W * q + r
           a == x \div W
           y == x % W
<1>2. x \in Int BY <1>1, SMT
<1>3. a \in Int /\ y \in Int /\ x = W * a + y /\ 0 <= y /\ y < W 
  <2> HIDE DEF x
  <2> QED BY <1>2, DivMod
<1> HIDE DEF a, y
<1>4. a = q
  <2>1. CASE a + 1 <= q BY <2>1, <1>1, <1>3, Monotone, SMT DEF x
  <2>2. CASE q + 1 <= a BY <2>2, <1>1, <1>3, Monotone, SMT DEF x
  <2> QED BY <2>1, <2>2, <1>3, SMT
<1>5. W * q \in Int BY <1>1, SMT
<1>6. y = r BY <1>3, <1>4, <1>5, SMT DEF x
<1> QED BY <1>4, <1>6 DEF x, a, y

\* A counter of two words, as a high and a low one.
LEMMA Words ==
  ASSUME NEW t \in Int, 0 <= t, t < W * W
  PROVE  /\ hi(t) \in Int /\ lo(t) \in Int /\ t = W * hi(t) + lo(t)
         /\ 0 <= hi(t) /\ hi(t) < W /\ 0 <= lo(t) /\ lo(t) < W
<1>1. W \in Nat /\ W > 0 BY CounterAssumption, SMT
<1>2. /\ hi(t) \in Int /\ lo(t) \in Int /\ t = W * hi(t) + lo(t)
      /\ 0 <= lo(t) /\ lo(t) < W
  BY DivMod DEF hi, lo
<1>3. 0 <= hi(t)
  <2>1. CASE hi(t) + 1 <= 0
    <3>1. W * hi(t) + W <= W * 0 BY <2>1, <1>2, Monotone, SMT
    <3> QED BY <3>1, <1>1, <1>2, SMT
  <2> QED BY <2>1, <1>2, SMT
<1>4. hi(t) < W
  <2>1. CASE W + 1 <= hi(t)
    <3>1. W * W + W <= W * hi(t) BY <2>1, <1>1, <1>2, Monotone, SMT
    <3> QED BY <3>1, <1>1, <1>2, SMT
  <2>2. CASE W = hi(t) BY <2>2, <1>1, <1>2, SMT
  <2> QED BY <2>1, <2>2, <1>1, <1>2, SMT
<1> QED BY <1>2, <1>3, <1>4

\* Equal numbers have equal words.
LEMMA SameWords ==
  ASSUME NEW a \in Int, NEW b \in Int, NEW x \in Int, NEW y \in Int,
         0 <= x, x < W, 0 <= y, y < W, W * a + x = W * b + y
  PROVE  a = b /\ x = y
BY Unique

\* What get_counter makes of two readings, the present one with the high word high.
Reading(high, t, h, l) ==
  LET low    == Word(lo(t) - l)
      borrow == IF low > lo(t) THEN 1 ELSE 0
  IN  Word(high - h - borrow) * W + low

LEMMA CounterReads ==
  /\ get_counter = Reading(access_counter_hi, tsc, cyc_hi, cyc_lo)
  /\ get_counter' = Reading(access_counter_hi', tsc', cyc_hi', cyc_lo')
BY Zenon DEF get_counter, Reading

\* Counting on from t0, the counter starts again at most once in W^2 cycles.
LEMMA AfterFacts ==
  ASSUME NEW t0 \in Int, 0 <= t0, t0 < W * W, NEW d \in Int, 0 <= d, d < W * W
  PROVE  /\ After(t0, d) \in Int /\ 0 <= After(t0, d) /\ After(t0, d) < W * W
         /\ After(t0, d) = IF t0 + d < W * W THEN t0 + d ELSE t0 + d - W * W
<1> DEFINE N == W * W
<1>1. N \in Nat /\ N > 0 BY CounterAssumption, SMT
<1>2. After(t0, d) = (t0 + d) % N BY DEF After
<1>3. t0 < N /\ d < N BY DEF N
<1> HIDE DEF N
<1>4. CASE t0 + d < N BY <1>1, <1>2, <1>3, <1>4, SMT DEF N
<1>5. CASE t0 + d >= N BY <1>1, <1>2, <1>3, <1>5, SMT DEF N
<1> QED BY <1>4, <1>5, <1>1, SMT DEF N

\* The two-word subtraction gives the cycles that passed.
LEMMA ReadingExact ==
  ASSUME NEW t0 \in Int, 0 <= t0, t0 < W * W,
         NEW d \in Int, 0 <= d, d < W * W,
         NEW t, t = After(t0, d)
  PROVE  Reading(hi(t), t, hi(t0), lo(t0)) = d
<1> DEFINE h0 == hi(t0)  l0 == lo(t0)
           hd == hi(d)   ld == lo(d)
           h1 == hi(t) l1 == lo(t)
<1>1. W \in Nat /\ W > 0 /\ W * W \in Nat BY CounterAssumption, SMT
<1>2. t \in Int /\ 0 <= t /\ t < W * W /\ (t = t0 + d \/ t = t0 + d - W * W)
  BY <1>1, AfterFacts
<1>3. /\ h0 \in Int /\ l0 \in Int /\ t0 = W * h0 + l0
      /\ 0 <= h0 /\ h0 < W /\ 0 <= l0 /\ l0 < W
  BY Words
<1>4. /\ hd \in Int /\ ld \in Int /\ d = W * hd + ld
      /\ 0 <= hd /\ hd < W /\ 0 <= ld /\ ld < W
  BY Words
<1>5. /\ h1 \in Int /\ l1 \in Int /\ t = W * h1 + l1
      /\ 0 <= h1 /\ h1 < W /\ 0 <= l1 /\ l1 < W
  BY <1>2, Words
<1>6. PICK c \in {0, 1} : t = t0 + d - W * (W * c) BY <1>1, <1>2, SMT
<1> DEFINE l      == Word(l1 - l0)
           borrow == IF l > l1 THEN 1 ELSE 0
<1>7. Reading(hi(t), t, hi(t0), lo(t0)) = Word(h1 - h0 - borrow) * W + l
  BY DEF Reading
<1> HIDE DEF h0, l0, hd, ld, h1, l1
\* carry is what adding the low words of t0 and d gives to the high ones
<1>8. PICK carry \in {0, 1} : 0 <= l0 + ld - W * carry /\ l0 + ld - W * carry < W
  BY <1>1, <1>3, <1>4, SMT
<1>9. h1 = h0 + hd + carry - W * c /\ l1 = l0 + ld - W * carry
  <2>1. W * h1 + l1 = W * (h0 + hd + carry - W * c) + (l0 + ld - W * carry)
    BY <1>1, <1>3, <1>4, <1>5, <1>6, SMT
  <2>2. h0 + hd + carry - W * c \in Int /\ l0 + ld - W * carry \in Int
    BY <1>1, <1>3, <1>4, SMT
  <2> QED BY <2>1, <2>2, <1>5, <1>8, SameWords
<1>10. l = ld
  <2>1. l1 - l0 = W * (0 - carry) + ld BY <1>1, <1>3, <1>4, <1>9, SMT
  <2>2. (W * (0 - carry) + ld) % W = ld BY <1>4, Unique, SMT
  <2> QED BY <2>1, <2>2 DEF Word
<1>11. borrow = carry BY <1>1, <1>3, <1>4, <1>8, <1>9, <1>10, SMT
<1> HIDE DEF l, borrow
<1>12. Word(h1 - h0 - borrow) = hd
  <2>1. h1 - h0 - borrow = W * (0 - c) + hd BY <1>1, <1>3, <1>4, <1>9, <1>11, SMT
  <2>2. (W * (0 - c) + hd) % W = hd BY <1>4, Unique, SMT
  <2> QED BY <2>1, <2>2 DEF Word
<1> QED BY <1>1, <1>4, <1>7, <1>10, <1>12, SMT

\* On a Pentium get_counter is the number of cycles since start_counter, for words
\* of any width and any reading t0 of the counter at the start, as long as they
\* are less than two words can hold: also when the low word, or the counter as a
\* whole, has started again in between.
THEOREM CounterExact ==
  ASSUME NEW t0 \in Int, 0 <= t0, t0 < W * W,
         NEW d \in Int, 0 <= d, d < W * W,
         platform = "i386",
         cyc_hi = hi(t0), cyc_lo = lo(t0), tsc = After(t0, d)
  PROVE  get_counter = d
<1>1. access_counter_hi = hi(tsc) BY DEF access_counter_hi
<1> QED BY <1>1, CounterReads, ReadingExact

-----------------------------------------------------------------------------
(***************************************************************************)
(* The counter from one step to the next.                                  *)
(***************************************************************************)

\* Two words are a counter.
LEMMA Joined ==
  ASSUME NEW h \in 0..(W - 1), NEW l \in 0..(W - 1)
  PROVE  /\ W * h + l \in Int /\ 0 <= W * h + l /\ W * h + l < W * W
         /\ hi(W * h + l) = h /\ lo(W * h + l) = l
<1>1. W \in Nat /\ W > 0 BY CounterAssumption, SMT
<1>2. W * h \in Int /\ W * h >= 0 BY <1>1, SMT
<1>3. W * h + W <= W * W
  <2>1. h + 1 <= W /\ h \in Int BY <1>1
  <2> QED BY <2>1, <1>1, Monotone
<1>4. W * W \in Int BY <1>1
<1>5. W * h + l \in Int /\ 0 <= W * h + l /\ W * h + l < W * W
  BY <1>1, <1>2, <1>3, <1>4
<1>6. h \in Int /\ l \in Int /\ 0 <= l /\ l < W BY <1>1
<1> QED BY <1>5, <1>6, Unique DEF hi, lo

\* On a Pentium, get_counter is the time from the reading at the start to the
\* present one, and a time of less than W^2 cycles that fits these is the one.
LEMMA ReadingOf ==
  ASSUME NEW t \in 0..(W * W - 1), NEW h \in 0..(W - 1), NEW l \in 0..(W - 1)
  PROVE  /\ Reading(hi(t), t, h, l) \in 0..(W * W - 1)
         /\ t = After(W * h + l, Reading(hi(t), t, h, l))
         /\ \A d \in 0..(W * W - 1) : t = After(W * h + l, d) => Reading(hi(t), t, h, l) = d
<1> DEFINE N == W * W
           t0 == W * h + l
           d0 == IF t >= t0 THEN t - t0 ELSE t - t0 + N
<1>1. N \in Nat /\ N > 0 BY CounterAssumption, SMT
<1>2. t0 \in Int /\ 0 <= t0 /\ t0 < N /\ hi(t0) = h /\ lo(t0) = l BY Joined
<1>3. ASSUME NEW d \in 0..(N - 1), t = After(t0, d)
      PROVE  Reading(hi(t), t, h, l) = d
  <2>1. d \in Int /\ 0 <= d /\ d < N BY <1>1
  <2> HIDE DEF t0
  <2> QED BY <2>1, <1>2, <1>3, ReadingExact
<1>4. d0 \in 0..(N - 1) /\ t = After(t0, d0)
  <2>0. t \in Int /\ 0 <= t /\ t < N BY <1>1
  <2> HIDE DEF t0, N
  <2>1. d0 \in Int /\ 0 <= d0 /\ d0 < N /\ d0 \in 0..(N - 1) BY <1>1, <1>2, <2>0
  <2>2. t = IF t0 + d0 < N THEN t0 + d0 ELSE t0 + d0 - N BY <1>1, <1>2, <2>0
  <2> HIDE DEF d0
  <2>3. After(t0, d0) = IF t0 + d0 < N THEN t0 + d0 ELSE t0 + d0 - N
    BY <2>1, <1>2, AfterFacts DEF N
  <2> QED BY <2>1, <2>2, <2>3
<1>5. Reading(hi(t), t, h, l) = d0 BY <1>3, <1>4
<1> QED BY <1>3, <1>4, <1>5

LEMMA CounterType ==
  ASSUME platform = "i386", tsc \in 0..(W * W - 1),
         cyc_hi \in 0..(W - 1), cyc_lo \in 0..(W - 1)
  PROVE  get_counter \in 0..(W * W - 1)
<1>1. access_counter_hi = hi(tsc) BY DEF access_counter_hi
<1> QED BY <1>1, CounterReads, ReadingOf

\* The counter runs on: d more cycles, unless that is more than it can hold.
LEMMA CounterMoves ==
  ASSUME platform = "i386", tsc \in 0..(W * W - 1),
         cyc_hi \in 0..(W - 1), cyc_lo \in 0..(W - 1),
         UNCHANGED <<platform, cyc_hi, cyc_lo>>,
         NEW d \in Nat, tsc' = After(tsc, d), get_counter + d < W * W
  PROVE  get_counter' = get_counter + d
<1> DEFINE N == W * W
           t0 == W * cyc_hi + cyc_lo
           g == get_counter
<1>1. N \in Nat /\ N > 0 BY CounterAssumption, SMT
<1>2. t0 \in Int /\ 0 <= t0 /\ t0 < N BY Joined
<1>3. access_counter_hi = hi(tsc) /\ access_counter_hi' = hi(tsc')
  BY DEF access_counter_hi
<1>4. g \in 0..(N - 1) /\ tsc = After(t0, g)
  BY <1>3, CounterReads, ReadingOf
<1>5. get_counter' = Reading(hi(tsc'), tsc', cyc_hi, cyc_lo)
  BY <1>3, CounterReads
<1>6. /\ tsc \in Int /\ 0 <= tsc /\ tsc < N /\ d \in Int /\ 0 <= d /\ d < N
      /\ g \in Int /\ 0 <= g /\ g < N /\ g + d \in Int /\ 0 <= g + d /\ g + d < N
  BY <1>1, <1>4
<1> HIDE DEF g, t0, N
<1>7. /\ tsc' \in Int /\ 0 <= tsc' /\ tsc' < N
      /\ tsc' = IF tsc + d < N THEN tsc + d ELSE tsc + d - N
  BY <1>6, AfterFacts DEF N
<1>8. tsc = IF t0 + g < N THEN t0 + g ELSE t0 + g - N
  BY <1>2, <1>4, <1>6, AfterFacts DEF N
<1>9. After(t0, g + d) = IF t0 + (g + d) < N THEN t0 + (g + d) ELSE t0 + (g + d) - N
  BY <1>2, <1>6, AfterFacts DEF N
<1>10. tsc' = After(t0, g + d)
  BY <1>1, <1>2, <1>6, <1>7, <1>8, <1>9
<1>11. tsc' \in 0..(W * W - 1) /\ g + d \in 0..(W * W - 1)
  BY <1>1, <1>6, <1>7 DEF N
<1> QED BY <1>5, <1>10, <1>11, ReadingOf DEF t0, g

\* start_counter: no time has passed.
LEMMA CounterStarts ==
  ASSUME platform = "i386", tsc \in 0..(W * W - 1), start_counter, UNCHANGED <<platform, tsc>>
  PROVE  get_counter' = 0
<1>1. W * W \in Nat /\ W * W > 0 BY CounterAssumption, SMT
<1>2. tsc \in Int /\ 0 <= tsc /\ tsc < W * W BY <1>1
<1>3. access_counter_hi = hi(tsc) /\ access_counter_hi' = hi(tsc')
  BY DEF access_counter_hi
<1>4. cyc_hi' = hi(tsc) /\ cyc_lo' = lo(tsc) BY <1>3 DEF start_counter
<1>5. After(tsc, 0) = tsc BY <1>1, <1>2, AfterFacts
<1>6. Reading(hi(tsc), tsc, hi(tsc), lo(tsc)) = 0
  BY <1>1, <1>2, <1>5, ReadingExact
<1> QED BY <1>3, <1>4, <1>6, CounterReads

\* Whole words make no difference to a remainder.
LEMMA ModShift ==
  ASSUME NEW y \in Int, NEW k \in Int
  PROVE  (y + W * k) % W = y % W
<1> DEFINE a == y \div W
           r == y % W
<1>1. W \in Nat /\ W > 0 BY CounterAssumption, SMT
<1>2. a \in Int /\ r \in Int /\ y = W * a + r /\ 0 <= r /\ r < W BY DivMod
<1> HIDE DEF a, r
<1>3. y + W * k = W * (a + k) + r BY <1>1, <1>2, SMT
<1>4. (W * (a + k) + r) % W = r BY <1>2, Unique
<1> QED BY <1>3, <1>4 DEF r

\* The low word of the counter runs on as a counter of its own.
LEMMA LowMoves ==
  ASSUME NEW t \in 0..(W * W - 1), NEW d \in Nat
  PROVE  lo(After(t, d)) = Word(t + d)
<1>1. W \in Nat /\ W > 0 BY CounterAssumption, SMT
<1>2. PICK q \in Int : After(t, d) = t + d + W * q
  <2> DEFINE N == W * W
             x == t + d
             b == x \div N
  <2>1. N \in Nat /\ N > 0 /\ x \in Int BY <1>1, SMT
  <2>2. After(t, d) = x % N BY DEF After
  <2> HIDE DEF N, x
  <2>3. b \in Int /\ x % N = x - N * b BY <2>1, SMT
  <2> HIDE DEF b
  <2>4. N * b = W * (W * b) /\ W * b \in Int BY <1>1, <2>3, SMT DEF N
  <2>5. x % N = x + W * (0 - W * b) /\ 0 - W * b \in Int BY <1>1, <2>1, <2>3, <2>4, SMT
  <2> QED BY <2>2, <2>5 DEF x
<1>3. t + d \in Int BY <1>1, SMT
<1> QED BY <1>2, <1>3, ModShift DEF lo, Word

\* An alpha counts with one word: the borrow of two words is wrong once it has
\* started again.
LEMMA AlphaReads ==
  ASSUME NEW t \in Int, NEW l \in 0..(W - 1), NEW x \in Nat, x < W, lo(t) = Word(l + x)
  PROVE  Reading(0, t, 0, l) = IF l + x >= W THEN W * W - W + x ELSE x
<1>1. W \in Nat /\ W > 0 /\ W * W \in Int BY CounterAssumption, SMT
<1>2. l \in Int /\ 0 <= l /\ l < W /\ x \in Int /\ 0 <= x BY <1>1
<1>3. CASE l + x < W
  <2>1. l + x = W * 0 + (l + x) /\ l + x \in Int /\ 0 <= l + x BY <1>1, <1>2
  <2>2. lo(t) = l + x BY <2>1, <1>3, Unique DEF Word
  <2>3. lo(t) - l = W * 0 + x BY <1>1, <1>2, <2>2
  <2>4. Word(lo(t) - l) = x BY <2>3, <1>2, Unique DEF Word
  <2>5. Word(0) = 0
    <3>1. W * 0 + 0 = 0 BY <1>1
    <3>2. (W * 0 + 0) % W = 0 BY <1>1, Unique
    <3> QED BY <3>1, <3>2 DEF Word
  <2>6. ~(x > lo(t)) BY <1>2, <2>2
  <2>7. Reading(0, t, 0, l) = Word(0 - 0 - 0) * W + x BY <2>4, <2>6 DEF Reading
  <2> QED BY <2>5, <2>7, <1>1, <1>2, <1>3
<1>4. CASE l + x >= W
  <2>1. l + x = W * 1 + (l + x - W) /\ l + x - W \in Int /\ 0 <= l + x - W /\ l + x - W < W
    BY <1>1, <1>2, <1>4
  <2>2. lo(t) = l + x - W BY <2>1, Unique DEF Word
  <2>3. lo(t) - l = W * (0 - 1) + x BY <1>1, <1>2, <2>2
  <2>4. Word(lo(t) - l) = x BY <2>3, <1>2, Unique DEF Word
  <2>5. Word(0 - 1) = W - 1
    <3>1. W * (0 - 1) + (W - 1) = 0 - 1 BY <1>1
    <3>2. (W * (0 - 1) + (W - 1)) % W = W - 1 BY <1>1, Unique
    <3> QED BY <3>1, <3>2 DEF Word
  <2>6. x > lo(t) BY <1>1, <1>2, <2>2
  <2>7. Reading(0, t, 0, l) = Word(0 - 0 - 1) * W + x BY <2>4, <2>6 DEF Reading
  <2>8. Word(0 - 0 - 1) = W - 1 BY <2>5
  <2>9. (W - 1) * W = W * W - W BY <1>1, SMT
  <2> QED BY <2>7, <2>8, <2>9, <1>1, <1>2, <1>4
<1> QED BY <1>3, <1>4, <1>1, <1>2

-----------------------------------------------------------------------------
(***************************************************************************)
(* The sampler.                                                            *)
(***************************************************************************)

\* Every set of naturals has a least element.
LEMMA LeastElement ==
  ASSUME NEW T \in SUBSET Nat, T # {}
  PROVE  \E x \in T : \A y \in T : x <= y
<1>1. PICK x \in T : \A y \in T : ~(<<y, x>> \in OpToRel(<, Nat))
  BY WFMin, NatLessThanWellFounded
<1>2. ASSUME NEW y \in T, y < x
      PROVE  FALSE
  <2>1. <<y, x>> \in OpToRel(<, Nat) BY <1>2 DEF OpToRel
  <2> QED BY <1>1, <2>1
<1> QED BY <1>2

\* A set of naturals with a bound has a greatest element.
LEMMA MaxFacts ==
  ASSUME NEW top \in Nat, NEW S \in SUBSET (0..top), S # {}
  PROVE  Max(S) \in S /\ \A y \in S : y <= Max(S)
<1> DEFINE T == {top - y : y \in S}
<1>1. T \in SUBSET Nat /\ T # {}
  <2>1. \A y \in S : top - y \in Nat OBVIOUS
  <2>2. PICK y \in S : TRUE OBVIOUS
  <2> QED BY <2>1, <2>2
<1>2. PICK x \in T : \A y \in T : x <= y BY <1>1, LeastElement
<1>3. PICK m \in S : x = top - m BY <1>2
<1>4. ASSUME NEW y \in S
      PROVE  m >= y
  <2>1. top - y \in T /\ y \in 0..top /\ m \in 0..top OBVIOUS
  <2> QED BY <1>2, <1>3, <2>1
<1>5. \E z \in S : \A y \in S : z >= y BY <1>3, <1>4
<1>6. Max(S) \in S /\ \A y \in S : Max(S) >= y BY <1>5, Zenon DEF Max
<1> QED BY <1>6

\* insert puts val where the order wants it, and drops what was at pos.
Inserted(vs, k, pos, val, r, q) ==
  /\ q \in 1..pos
  /\ q = 1 \/ vs[q - 1] <= val
  /\ \A j \in 1..k : q <= j /\ j < pos => val < vs[j]
  /\ r \in [1..k -> Int]
  /\ \A j \in 1..k : r[j] = IF j < q \/ pos < j THEN vs[j]
                            ELSE IF j = q THEN val ELSE vs[j - 1]

LEMMA InsertFacts ==
  ASSUME NEW k \in Nat, NEW vs \in [1..k -> Int], NEW pos \in 1..k, NEW val \in Int
  PROVE  \E q \in 1..pos : Inserted(vs, k, pos, val, insert(vs, pos, val), q)
<1> DEFINE S == {j \in 1..pos : j = 1 \/ vs[j - 1] <= val}
           q == Max(S)
           r == RemoveAt(vs, pos)
           z == InsertAt(r, q, val)
<1>1. S \in SUBSET (0..pos) /\ 1 \in S /\ pos \in Nat OBVIOUS
<1>2. q \in S /\ \A y \in S : y <= q
  <2> HIDE DEF S
  <2> QED BY <1>1, MaxFacts
<1> HIDE DEF q
<1>3. q \in 1..pos /\ (q = 1 \/ vs[q - 1] <= val) BY <1>2
<1>4. ASSUME NEW j \in 1..k, q <= j, j < pos
      PROVE  val < vs[j]
  <2>1. j + 1 \in 1..pos /\ ~(j + 1 <= q) BY <1>3, <1>4
  <2>2. j + 1 \notin S BY <1>2, <2>1
  <2>3. ~(vs[j + 1 - 1] <= val) BY <2>1, <2>2
  <2>4. j + 1 - 1 = j /\ vs[j] \in Int OBVIOUS
  <2> QED BY <2>3, <2>4
<1> HIDE DEF S
<1>5. vs \in Seq(Int) /\ Len(vs) = k OBVIOUS
<1>6. /\ r \in Seq(Int) /\ Len(r) = k - 1
      /\ \A j \in 1..(k - 1) : r[j] = IF j < pos THEN vs[j] ELSE vs[j + 1]
  BY <1>5 DEF RemoveAt
<1> HIDE DEF r
<1>7. /\ z \in Seq(Int) /\ Len(z) = k
      /\ \A j \in 1..k : z[j] = IF j < q THEN r[j] ELSE IF j = q THEN val ELSE r[j - 1]
  BY <1>3, <1>6 DEF InsertAt
<1>8. z = insert(vs, pos, val) BY DEF insert, q, S, r
<1> HIDE DEF z
<1>9. z \in [1..k -> Int] BY <1>7
<1>10. ASSUME NEW j \in 1..k
       PROVE  z[j] = IF j < q \/ pos < j THEN vs[j] ELSE IF j = q THEN val ELSE vs[j - 1]
  <2>1. j - 1 + 1 = j /\ q \in Int /\ pos \in Int /\ q <= pos /\ j \in Int BY <1>3
  <2>2. CASE j < q
    <3>1. j \in 1..(k - 1) /\ j < pos BY <2>1, <2>2
    <3> QED BY <2>2, <3>1, <1>6, <1>7
  <2>3. CASE j = q BY <2>1, <2>3, <1>7
  <2>4. CASE q < j
    <3>1. j - 1 \in 1..(k - 1) /\ z[j] = r[j - 1] BY <1>3, <2>1, <2>4, <1>7
    <3>2. CASE j <= pos BY <3>1, <3>2, <2>1, <2>4, <1>6
    <3>3. CASE pos < j BY <3>1, <3>3, <2>1, <2>4, <1>6
    <3> QED BY <2>1, <3>2, <3>3
  <2> QED BY <2>1, <2>2, <2>3, <2>4
<1>11. Inserted(vs, k, pos, val, z, q) BY <1>3, <1>4, <1>9, <1>10 DEF Inserted
<1> QED BY <1>3, <1>8, <1>11

\* How many of k values are set after n samples.
Kept(k, n) == IF n < k THEN n ELSE k

\* The k values vs are the best of the n samples ss: from gives for each value that
\* is set the sample it is, and what it leaves out is no better than the last.
Best(vs, k, ss, n, from) ==
  /\ \A i, j \in 1..Kept(k, n) : from[i] = from[j] => i = j
  /\ \A i \in 1..Kept(k, n) : vs[i] = ss[from[i]]
  /\ \A x \in 1..n : (\A i \in 1..Kept(k, n) : from[i] # x) => k <= n /\ vs[k] <= ss[x]

\* The first m of the values are in order.
Ordered(vs, m) == \A i, j \in 1..m : i < j => vs[i] <= vs[j]

\* The order is kept by insert.
LEMMA InsertOrdered ==
  ASSUME NEW k \in Nat, NEW vs \in [1..k -> Int], NEW pos \in 1..k, NEW val \in Int,
         NEW r, NEW q \in 1..pos, Inserted(vs, k, pos, val, r, q), Ordered(vs, pos - 1)
  PROVE  Ordered(r, pos)
<1> SUFFICES ASSUME NEW i \in 1..pos, NEW j \in 1..pos, i < j
             PROVE  r[i] <= r[j]
  BY DEF Ordered
<1>0. /\ i \in 1..k /\ j \in 1..k /\ i \in Int /\ j \in Int /\ pos \in Int /\ q \in Int
      /\ \A x \in 1..k : vs[x] \in Int
  OBVIOUS
<1>1. r[i] = IF i < q THEN vs[i] ELSE IF i = q THEN val ELSE vs[i - 1]
  BY <1>0 DEF Inserted
<1>2. r[j] = IF j < q THEN vs[j] ELSE IF j = q THEN val ELSE vs[j - 1]
  BY <1>0 DEF Inserted
<1>3. CASE j < q
  <2>1. i \in 1..(pos - 1) /\ j \in 1..(pos - 1) BY <1>0, <1>3
  <2> QED BY <2>1, <1>1, <1>2, <1>3 DEF Ordered
<1>4. CASE j = q
  <2>1. vs[q - 1] <= val /\ q - 1 \in 1..(pos - 1) /\ i \in 1..(pos - 1) /\ i <= q - 1
    BY <1>0, <1>4 DEF Inserted
  <2>2. vs[i] <= vs[q - 1] BY <2>1, <1>0 DEF Ordered
  <2> QED BY <2>1, <2>2, <1>0, <1>1, <1>2, <1>4
<1>5. CASE q < j
  <2>1. j - 1 \in 1..(pos - 1) /\ j - 1 \in 1..k /\ r[j] = vs[j - 1] BY <1>0, <1>2, <1>5
  <2>2. CASE i < q
    <3>1. i \in 1..(pos - 1) /\ i < j - 1 BY <1>0, <1>5, <2>2
    <3> QED BY <2>1, <2>2, <3>1, <1>1 DEF Ordered
  <2>3. CASE i = q
    <3>1. val < vs[j - 1] BY <2>1, <2>3, <1>0, <1>5 DEF Inserted
    <3> QED BY <2>1, <2>3, <3>1, <1>0, <1>1
  <2>4. CASE q < i
    <3>1. i - 1 \in 1..(pos - 1) /\ i - 1 < j - 1 BY <1>0, <2>4
    <3>2. r[i] = vs[i - 1] BY <1>0, <1>1, <2>4
    <3> QED BY <2>1, <3>1, <3>2 DEF Ordered
  <2> QED BY <2>2, <2>3, <2>4, <1>0
<1> QED BY <1>3, <1>4, <1>5, <1>0

\* ss2 is the samples ss with val behind them.
More(ss, n, val, ss2) == ss2[n + 1] = val /\ \A x \in 1..n : ss2[x] = ss[x]

\* What insert makes of the best values are the best with the new sample.
LEMMA InsertBest ==
  ASSUME NEW k \in Nat, NEW n \in Nat, NEW vs \in [1..k -> Int], k > 0,
         NEW val \in Int, NEW ss \in [1..n -> Int], NEW ss2, More(ss, n, val, ss2),
         NEW pos \in 1..k, n < k => pos = n + 1, n >= k => pos = k /\ val < vs[k],
         NEW m \in Nat, m = Kept(k, n), Ordered(vs, m),
         NEW from \in [1..m -> 1..n], Best(vs, k, ss, n, from),
         NEW r, NEW q \in 1..pos, Inserted(vs, k, pos, val, r, q)
  PROVE  \E from2 \in [1..Kept(k, n + 1) -> 1..(n + 1)] :
           Best(r, k, ss2, n + 1, from2)
<1> DEFINE from2 == [i \in 1..pos |-> IF i < q THEN from[i]
                                      ELSE IF i = q THEN n + 1 ELSE from[i - 1]]
<1>1. Kept(k, n + 1) = pos /\ pos \in Int /\ q \in Int /\ q <= pos /\ pos <= k BY DEF Kept
<1>2. pos - 1 <= m /\ m <= pos /\ m <= k /\ (m = pos => n >= k /\ m = k) BY DEF Kept
<1>3. /\ ss2[n + 1] = val
      /\ \A x \in 1..n : ss2[x] = ss[x] /\ ss[x] \in Int
  BY DEF More
<1>4. /\ from \in [1..m -> 1..n]
      /\ \A i, j \in 1..m : from[i] = from[j] => i = j
      /\ \A i \in 1..m : vs[i] = ss[from[i]]
      /\ \A x \in 1..n : (\A i \in 1..m : from[i] # x) => k <= n /\ vs[k] <= ss[x]
  BY DEF Best
<1>5. \A i \in 1..pos : r[i] = IF i < q THEN vs[i] ELSE IF i = q THEN val ELSE vs[i - 1]
  BY <1>1 DEF Inserted
<1>6. \A i \in 1..pos : from2[i] = IF i < q THEN from[i]
                                   ELSE IF i = q THEN n + 1 ELSE from[i - 1]
  OBVIOUS
<1>60. DOMAIN from2 = 1..pos /\ from2 = [i \in DOMAIN from2 |-> from2[i]] OBVIOUS
<1> HIDE DEF from2
<1>61. ASSUME NEW i \in 1..pos, i < q
       PROVE  i \in 1..m /\ from[i] \in 1..n /\ from2[i] = from[i]
  <2>1. i \in 1..m BY <1>1, <1>2, <1>61
  <2>2. from[i] \in 1..n BY <2>1
  <2> QED BY <2>1, <2>2, <1>6, <1>61
<1>62. q \in 1..pos /\ from2[q] = n + 1
  <2>1. ~(q < q) BY <1>1
  <2> QED BY <2>1, <1>6
<1>63. ASSUME NEW i \in 1..pos, q < i
       PROVE  i - 1 \in 1..m /\ from[i - 1] \in 1..n /\ from2[i] = from[i - 1]
  <2>1. i - 1 \in 1..m BY <1>1, <1>2, <1>63
  <2>2. from[i - 1] \in 1..n BY <2>1
  <2>3. ~(i < q) /\ i # q BY <1>1, <1>63
  <2> QED BY <2>1, <2>2, <2>3, <1>6
<1>7. from2 \in [1..pos -> 1..(n + 1)]
  <2>1. ASSUME NEW i \in 1..pos
        PROVE  from2[i] \in 1..(n + 1)
    <3>0. \A x \in 1..n : x \in 1..(n + 1) OBVIOUS
    <3>1. CASE i < q
      <4>1. from2[i] = from[i] /\ from[i] \in 1..n BY <3>1, <1>61
      <4> QED BY <4>1, <3>0, Zenon
    <3>2. CASE i = q BY <3>2, <1>62
    <3>3. CASE q < i
      <4>1. from2[i] = from[i - 1] /\ from[i - 1] \in 1..n BY <3>3, <1>63
      <4> QED BY <4>1, <3>0, Zenon
    <3> QED BY <3>1, <3>2, <3>3, <1>1
  <2> QED BY <2>1, <1>60
<1>8. ASSUME NEW i \in 1..pos, NEW j \in 1..pos, from2[i] = from2[j]
      PROVE  i = j
  <2>1. \A x \in 1..m : from[x] \in 1..n /\ from[x] # n + 1 BY <1>4
  <2>2. ASSUME NEW x \in 1..pos, x # q
        PROVE  from2[x] # n + 1
    <3>1. CASE x < q
      <4>1. x \in 1..m /\ from2[x] = from[x] BY <3>1, <1>61
      <4> QED BY <4>1, <2>1, Zenon
    <3>2. CASE q < x
      <4>1. x - 1 \in 1..m /\ from2[x] = from[x - 1] BY <3>2, <1>63
      <4> QED BY <4>1, <2>1, Zenon
    <3> QED BY <3>1, <3>2, <2>2, <1>1
  <2>7. CASE i = q \/ j = q BY <1>62, <1>8, <2>2, <2>7, Zenon
  <2>3. CASE i < q /\ j < q BY <1>4, <1>61, <1>62, <1>63, <1>8, <2>3
  <2>4. CASE q < i /\ q < j
    <3>1. i - 1 = j - 1 BY <1>4, <1>61, <1>62, <1>63, <1>8, <2>4
    <3> QED BY <3>1, <1>1
  <2>5. CASE i < q /\ q < j
    <3>1. i = j - 1 BY <1>4, <1>61, <1>62, <1>63, <1>8, <2>5
    <3> QED BY <3>1, <2>5, <1>1
  <2>6. CASE q < i /\ j < q
    <3>1. j = i - 1 BY <1>4, <1>61, <1>62, <1>63, <1>8, <2>6
    <3> QED BY <3>1, <2>6, <1>1
  <2> QED BY <2>3, <2>4, <2>5, <2>6, <2>7, <1>1
<1>9. ASSUME NEW i \in 1..pos
      PROVE  r[i] = ss2[from2[i]]
  <2>1. CASE i < q
    <3>1. i \in 1..m /\ from[i] \in 1..n /\ from2[i] = from[i] BY <2>1, <1>61
    <3>2. r[i] = vs[i] BY <2>1, <1>5
    <3> QED BY <3>1, <3>2, <1>3, <1>4, ZenonT(30)
  <2>2. CASE i = q BY <2>2, <1>1, <1>3, <1>5, <1>61, <1>62, <1>63
  <2>3. CASE q < i
    <3>1. r[i] = vs[i - 1]
      <4>1. ~(i < q) /\ i # q BY <2>3, <1>1
      <4> QED BY <4>1, <1>5
    <3>2. i - 1 \in 1..m /\ from[i - 1] \in 1..n /\ from2[i] = from[i - 1] BY <2>3, <1>63
    <3> QED BY <3>1, <3>2, <1>3, <1>4, ZenonT(30)
  <2> QED BY <2>1, <2>2, <2>3, <1>1
<1>10. ASSUME NEW x \in 1..(n + 1), \A i \in 1..pos : from2[i] # x
       PROVE  k <= n + 1 /\ r[k] <= ss2[x]
  <2>1. x \in 1..n
    <3>1. q \in 1..pos /\ from2[q] = n + 1 BY <1>1, <1>61, <1>62, <1>63
    <3> QED BY <3>1, <1>10, SMTT(30)
  <2>2. ASSUME NEW i \in 1..(pos - 1)
        PROVE  from[i] # x
    <3>1. CASE i < q
      <4>1. i \in 1..pos BY <1>1
      <4>2. from2[i] = from[i] BY <4>1, <3>1, <1>61
      <4> QED BY <4>1, <4>2, <1>10, Zenon
    <3>2. CASE q <= i
      <4>1. i + 1 \in 1..pos /\ q < i + 1 /\ i + 1 - 1 = i BY <3>2, <1>1
      <4>2. from2[i + 1] = from[i] BY <4>1, <1>63
      <4> QED BY <4>1, <4>2, <1>10, Zenon
    <3> QED BY <3>1, <3>2, <1>1
  <2>3. m = pos /\ n >= k /\ m = k /\ val < vs[k]
    <3>1. CASE m = pos - 1
      <4>1. k <= n BY <2>1, <2>2, <3>1, <1>4
      <4> QED BY <4>1, <3>1, <1>1, <1>2 DEF Kept
    <3>2. CASE m = pos BY <3>2, <1>2
    <3> QED BY <3>1, <3>2, <1>1, <1>2
  <2>4. vs[k] <= ss[x]
    <3>1. CASE from[k] = x
      <4>1. k \in 1..m BY <2>3, <1>2
      <4>2. vs[k] = ss[x] /\ ss[x] \in Int BY <4>1, <3>1, <1>3, <1>4, <2>1
      <4> QED BY <4>2
    <3>2. CASE from[k] # x
      <4>1. \A i \in 1..m : from[i] # x
        <5>1. ASSUME NEW i \in 1..m PROVE i = k \/ i \in 1..(pos - 1) BY <2>3, <1>1
        <5> QED BY <5>1, <2>2, <3>2
      <4> QED BY <4>1, <1>4, <2>1
    <3> QED BY <3>1, <3>2
  <2>5. r[k] <= vs[k]
    <3>0. k \in 1..pos /\ vs[k] \in Int BY <2>3, <1>1
    <3>1. CASE q = k BY <3>0, <3>1, <2>3, <1>5
    <3>2. CASE q # k
      <4>1. q < k /\ k - 1 \in 1..m /\ k \in 1..m /\ k - 1 < k BY <2>3, <3>2, <1>1
      <4>2. r[k] = vs[k - 1] BY <3>0, <4>1, <1>1, <1>5, SMTT(30)
      <4> QED BY <4>1, <4>2 DEF Ordered
    <3> QED BY <3>1, <3>2
  <2>6. r[k] \in Int /\ vs[k] \in Int /\ ss[x] \in Int
    BY <1>3, <2>1 DEF Inserted
  <2> QED BY <2>1, <2>3, <2>4, <2>5, <2>6, <1>3, SMTT(30)
<1>11. Best(r, k, ss2, n + 1, from2)
  BY <1>1, <1>8, <1>9, <1>10 DEF Best
<1> QED BY <1>1, <1>7, <1>11

-----------------------------------------------------------------------------
(***************************************************************************)
(* The inductive invariant.                                                *)
(***************************************************************************)

\* A run of f, with every interrupt that can fall into it, is over before the counter
\* would start again; the counter of an alpha has one word only.
ShortRuns ==
  MaxWork + (MaxWork \div Period + 1) * TickCost
    < IF "alpha" \in Platforms THEN W ELSE W * W

Types ==
  /\ TypeOK
  /\ platform \in Platforms
  /\ time \in Int /\ oldt \in Int /\ newt \in Int
  /\ IF pc = "idle" THEN values = <<>> ELSE values \in [1..kbest -> Int]
  /\ samples \in Seq(Int)
  /\ pc = "cal_look" => e < NEVENT

\* While f runs and until the counter is read, every cycle that passed is either
\* f's or an interrupt's, the interrupts are Period cycles of f apart, and each of
\* them was counted in ticks.
Sampling ==
  pc \in {"f", "get"} =>
    /\ \E n \in 0..ticks :
         elapsed = work + n * TickCost /\ n * Period + since <= work + Period
    /\ platform = "i386" => get_counter = elapsed
    /\ platform = "alpha" => cyc_hi = 0 /\ lo(tsc) = Word(cyc_lo + elapsed)
    /\ platform # "other"

\* The counter was read; more ticks may come before they are counted.
Read ==
  (pc = "get_times" /\ platform = "i386") => time <= work + ticks * TickCost

\* Where callibrate stands, d being the cycles since its last look: before the
\* next look there is at most one tick, which took TickCost of the d cycles unless it
\* came before the first reading; and a tick that came between the reading of
\* the counter and that of tms_utime has taken TickCost of the present d cycles but was
\* counted already.
Window(d) ==
  LET span == newt - oldt
  IN CASE pc = "cal_loop" ->
            \/ ticks = 0 /\ 0 <= d /\ d <= THRESHOLD
            \/ ticks = 0 /\ d = TickCost + 1 /\ since = 1
            \/ ticks = 1 /\ TickCost <= d /\ d <= TickCost + THRESHOLD /\ since <= 1
            \/ ticks = 1 /\ since = d /\ 0 <= d /\ d <= THRESHOLD
       [] pc = "cal_spin" ->
            \/ ticks = 0 /\ 0 <= d /\ d < THRESHOLD
            \/ ticks = 0 /\ d = TickCost /\ since = 0
            \/ ticks = 1 /\ TickCost <= d /\ d < TickCost + THRESHOLD /\ since = 0
            \/ ticks = 1 /\ since = d /\ 0 <= d /\ d < THRESHOLD
       [] pc = "cal_look" ->
            \/ ticks = 0 /\ d = span /\ span = THRESHOLD
            \/ ticks = 0 /\ d = span /\ since = 1
            \/ ticks = 1 /\ d = span /\ since <= 1
                 /\ TickCost <= span /\ span <= TickCost + THRESHOLD
            \/ ticks = 1 /\ d = span /\ span = THRESHOLD /\ since = THRESHOLD
            \/ ticks = 1 /\ d = span + TickCost /\ span = THRESHOLD /\ since = 0
       [] OTHER -> TRUE

\* The ticks seen so far bound the cycles callibrate has taken.
Paced == get_counter <= (e + ticks) * (Period + TickCost) + since

Calibrating ==
  platform = "i386" =>
    /\ pc \in {"cal_start", "cal_oldt"} => e = 0 /\ (ticks = 0 \/ (ticks = 1 /\ since = 0))
    /\ pc \in {"cal_oldt", "cal_loop", "cal_spin", "cal_look"} => Paced
    /\ pc \in {"cal_loop", "cal_spin", "cal_look"} => Window(get_counter - oldt)

KeptBest ==
  /\ Len(samples) = samplecount
  /\ Ordered(values, Kept(kbest, samplecount))
  /\ \E from \in [1..Kept(kbest, samplecount) -> 1..samplecount] :
       Best(values, kbest, samples, samplecount, from)

Keeping == pc # "idle" => KeptBest

\* fcyc leaves its loop for one of two reasons.
Stopping ==
  pc = "return" =>
    samplecount >= 1 /\ (has_converged(values, samplecount) \/ samplecount >= maxsamples)

IInv ==
  /\ Types
  /\ BufferFits
  /\ Sampling
  /\ Read
  /\ NeverOver
  /\ Calibrating
  /\ CallibratedRight
  /\ Keeping
  /\ Stopping

-----------------------------------------------------------------------------
(***************************************************************************)
(* The invariant is kept: the sampler.                                     *)
(***************************************************************************)

\* add_sample keeps the best of all samples.
LEMMA SampleKept ==
  ASSUME Types, KeptBest, pc = "add_sample", AddSample
  PROVE  values' \in [1..kbest -> Int] /\ samples' \in Seq(Int) /\ KeptBest'
<1> DEFINE k == kbest
           n == samplecount
           m == Kept(k, n)
<1>1. /\ k \in Nat /\ k > 0 /\ n \in Nat /\ time \in Int
      /\ values \in [1..k -> Int] /\ samples \in Seq(Int)
  BY FCycAssumption DEF Types, TypeOK
<1>2. /\ kbest' = k /\ samplecount' = n + 1 /\ samples' = Append(samples, time)
      /\ n < k => values' = insert(values, n + 1, time)
      /\ n >= k /\ time < values[k] => values' = insert(values, k, time)
      /\ n >= k /\ ~(time < values[k]) => values' = values
  BY <1>1 DEF AddSample, add_sample, params
<1>3. Len(samples) = n /\ Ordered(values, m) BY DEF KeptBest
<1>4. PICK from \in [1..m -> 1..n] : Best(values, k, samples, n, from) BY DEF KeptBest
<1> HIDE DEF k, n
<1>5. m \in Nat /\ Kept(k, n + 1) \in Nat BY <1>1 DEF Kept
<1>6. samples \in [1..n -> Int] BY <1>1, <1>3
<1>7. samples' \in Seq(Int) /\ Len(samples') = n + 1 BY <1>1, <1>2, <1>3
<1>8. More(samples, n, time, samples') BY <1>1, <1>2, <1>3 DEF More
<1>9. ASSUME NEW pos \in 1..k, n < k => pos = n + 1, n >= k => pos = k /\ time < values[k],
             values' = insert(values, pos, time)
      PROVE  /\ values' \in [1..k -> Int]
             /\ Ordered(values', Kept(k, n + 1))
             /\ \E from2 \in [1..Kept(k, n + 1) -> 1..(n + 1)] :
                  Best(values', k, samples', n + 1, from2)
  <2>1. PICK q \in 1..pos : Inserted(values, k, pos, time, values', q)
    BY <1>1, <1>9, InsertFacts
  <2>2. Kept(k, n + 1) = pos /\ pos - 1 <= m /\ pos \in Int BY <1>1, <1>9 DEF Kept
  <2>3. Ordered(values, pos - 1) BY <1>3, <1>5, <2>2 DEF Ordered
  <2>4. Ordered(values', pos) BY <1>1, <2>1, <2>3, InsertOrdered
  <2>5. \E from2 \in [1..Kept(k, n + 1) -> 1..(n + 1)] :
          Best(values', k, samples', n + 1, from2)
    <3> HIDE DEF m
    <3>1. m = Kept(k, n) BY DEF m
    <3> QED BY <1>1, <1>3, <1>4, <1>5, <1>6, <1>8, <1>9, <2>1, <3>1, InsertBest, ZenonT(30)
  <2> QED BY <2>1, <2>2, <2>4, <2>5 DEF Inserted
<1>10. CASE n < k
  <2>1. n + 1 \in 1..k BY <1>1, <1>10
  <2>2. values' = insert(values, n + 1, time) BY <1>2, <1>10
  <2>3. ~(n >= k) BY <1>1, <1>10
  <2> QED BY <2>1, <2>2, <2>3, <1>2, <1>7, <1>9 DEF KeptBest, k, n
<1>11. CASE n >= k /\ time < values[k]
  <2>1. k \in 1..k BY <1>1
  <2>2. values' = insert(values, k, time) BY <1>2, <1>11
  <2>3. ~(n < k) BY <1>1, <1>11
  <2> QED BY <2>1, <2>2, <2>3, <1>2, <1>7, <1>9, <1>11 DEF KeptBest, k, n
<1>12. CASE n >= k /\ ~(time < values[k])
  <2>1. values' = values BY <1>2, <1>12
  <2>2. Kept(k, n + 1) = k /\ m = k BY <1>1, <1>12 DEF Kept
  <2>3. from \in [1..k -> 1..(n + 1)]
    <3>1. \A x \in 1..n : x \in 1..(n + 1) BY <1>1
    <3> QED BY <2>2, <3>1, <1>4
  <2>4. /\ \A i, j \in 1..k : from[i] = from[j] => i = j
        /\ \A i \in 1..k : values[i] = samples[from[i]]
        /\ \A x \in 1..n : (\A i \in 1..k : from[i] # x) => k <= n /\ values[k] <= samples[x]
    BY <1>4, <2>2 DEF Best
  <2>5. ASSUME NEW i \in 1..k
        PROVE  values[i] = samples'[from[i]]
    <3>1. from[i] \in 1..n BY <1>4, <2>2
    <3> QED BY <2>4, <3>1, <1>8 DEF More
  <2>6. ASSUME NEW x \in 1..(n + 1), \A i \in 1..k : from[i] # x
        PROVE  k <= n + 1 /\ values[k] <= samples'[x]
    <3>1. values[k] \in Int BY <1>1
    <3>2. CASE x = n + 1 BY <1>1, <1>8, <1>12, <3>1, <3>2 DEF More
    <3>3. CASE x # n + 1
      <4>1. x \in 1..n BY <1>1, <3>3
      <4>2. samples'[x] = samples[x] BY <4>1, <1>8 DEF More
      <4> QED BY <4>1, <4>2, <2>4, <2>6, <1>1
    <3> QED BY <3>2, <3>3
  <2>7. Best(values, k, samples', n + 1, from) BY <2>2, <2>4, <2>5, <2>6 DEF Best
  <2>8. Ordered(values, k) BY <1>3, <2>2
  <2> QED BY <2>1, <2>2, <2>3, <2>7, <2>8, <1>1, <1>2, <1>7 DEF KeptBest, k, n
<1>13. k \in Int /\ n \in Int BY <1>1
<1> QED BY <1>10, <1>11, <1>12, <1>13

-----------------------------------------------------------------------------
(***************************************************************************)
(* The invariant is kept: types and the buffer.                            *)
(***************************************************************************)

LEMMA ClockTypes ==
  ASSUME NEW t \in 0..(W * W - 1), NEW d \in Nat
  PROVE  After(t, d) \in 0..(W * W - 1) /\ hi(t) \in 0..(W - 1) /\ lo(t) \in 0..(W - 1)
<1> DEFINE N == W * W
<1>1. N \in Nat /\ N > 0 /\ W \in Nat BY CounterAssumption, SMT
<1>2. t \in Int /\ 0 <= t /\ t < N BY <1>1
<1>3. hi(t) \in 0..(W - 1) /\ lo(t) \in 0..(W - 1)
  <2>1. /\ hi(t) \in Int /\ lo(t) \in Int
        /\ 0 <= hi(t) /\ hi(t) < W /\ 0 <= lo(t) /\ lo(t) < W BY <1>2, Words
  <2> QED BY <1>1, <2>1
<1>4. After(t, d) = (t + d) % N BY DEF After
<1> HIDE DEF N
<1>5. (t + d) % N \in 0..(N - 1) BY <1>1, <1>2
<1> QED BY <1>3, <1>4, <1>5 DEF N

\* Whatever the machine, get_counter is a number.
LEMMA CounterInt ==
  ASSUME TypeOK
  PROVE  get_counter \in Int
<1>1. W \in Nat /\ W > 0 /\ 0 \in Nat BY CounterAssumption, SMT
<1>2. lo(tsc) \in Int /\ hi(tsc) \in Int /\ cyc_hi \in Int /\ cyc_lo \in Int
  BY <1>1, ClockTypes DEF TypeOK
<1>3. access_counter_hi \in Int BY <1>2 DEF access_counter_hi
<1>4. \A x \in Int : Word(x) \in Int BY <1>1, DivMod DEF Word
<1> DEFINE low == Word(lo(tsc) - cyc_lo)
           borrow == IF low > lo(tsc) THEN 1 ELSE 0
           high == Word(access_counter_hi - cyc_hi - borrow)
<1>5. get_counter = high * W + low BY CounterReads DEF Reading
<1>6. low \in Int BY <1>2, <1>4
<1>7. borrow \in Int OBVIOUS
<1> HIDE DEF low, borrow
<1>8. high \in Int BY <1>2, <1>3, <1>4, <1>7
<1> HIDE DEF high
<1> QED BY <1>1, <1>5, <1>6, <1>8, SMT

LEMMA TypesKept ==
  ASSUME Types, Keeping, [Next]_vars
  PROVE  Types'
<1>0. /\ Period \in Nat /\ TickCost \in Nat /\ NEVENT \in Nat /\ KBests \subseteq Nat \ {0}
      /\ RECORDTHRESH \in Nat /\ CacheSizes \subseteq Nat \ {0}
  BY FCycAssumption
<1>1. get_counter \in Int BY CounterInt DEF Types
<1>2. After(tsc, 1) \in 0..(W * W - 1) /\ After(tsc, TickCost) \in 0..(W * W - 1)
  BY <1>0, ClockTypes DEF Types, TypeOK
<1>3. start_counter => cyc_hi' \in 0..(W - 1) /\ cyc_lo' \in 0..(W - 1)
  <2>1. hi(tsc) \in 0..(W - 1) /\ lo(tsc) \in 0..(W - 1) /\ 0 \in 0..(W - 1)
    BY CounterAssumption, ClockTypes DEF Types, TypeOK
  <2> QED BY <2>1 DEF start_counter, access_counter_hi
<1> USE DEF Types, TypeOK, params, sampler, calib, clock, counterVars, Goto
<1>4. CASE init_sampler
  <2>1. [j \in 1..kbest |-> 0] \in [1..kbest -> Int] OBVIOUS
  <2> QED BY <1>4, <2>1 DEF init_sampler
<1>5. CASE \E allocated \in BOOLEAN : clear(allocated) BY <1>5 DEF clear
<1>6. CASE StartComp BY <1>6 DEF StartComp
<1>7. CASE StartTick BY <1>7 DEF StartTick, times
<1>8. CASE StartCounter BY <1>0, <1>3, <1>8, FCycAssumption, SMTT(30) DEF StartCounter
<1>9. CASE f BY <1>0, <1>2, <1>9, FCycAssumption, SMTT(30) DEF f, Cycle
<1>10. CASE ReturnFromF BY <1>10 DEF ReturnFromF
<1>11. CASE GetCounter BY <1>1, <1>11 DEF GetCounter
<1>12. CASE GetTicks BY <1>12 DEF GetTicks
<1>13. CASE AddSample
  <2>1. pc = "add_sample" /\ pc' \in {"clear", "return"} BY <1>13 DEF AddSample
  <2>2. values' \in [1..kbest -> Int] /\ samples' \in Seq(Int)
    BY <2>1, <1>13, SampleKept DEF Keeping
  <2>3. samplecount' \in Nat BY <1>13, SMTT(30) DEF AddSample, add_sample
  <2>4. 0 \in 0..MaxWork BY FCycAssumption
  <2> QED BY <2>1, <2>2, <2>3, <2>4, <1>13 DEF AddSample
<1>14. CASE Return BY <1>14 DEF Return
<1>15. CASE CalTimes BY <1>0, <1>15 DEF CalTimes, times
<1>16. CASE CalStart BY <1>3, <1>16 DEF CalStart, CalRest
<1>17. CASE CalOldt BY <1>1, <1>17 DEF CalOldt, CalRest
<1>18. CASE CalRead
  <2>1. /\ pc = "cal_loop" /\ pc' \in {"cal_look", "cal_spin", "times"}
        /\ pc' = "cal_look" => e' < NEVENT
        /\ newt' \in Int /\ oldt' \in Int /\ e' \in 0..NEVENT
        /\ UNCHANGED <<CalRest, cyc_hi, cyc_lo, cyc_per_tick, ticks>>
    BY <1>0, <1>1, <1>18, SMTT(30) DEF CalRead
  <2> QED BY <2>1 DEF CalRest
<1>19. CASE CalSpin BY <1>0, <1>2, <1>19 DEF CalSpin, Cycle
<1>20. CASE CalLook
  <2> DEFINE cpt == (newt - oldt) \div ticks
  <2>1. /\ pc = "cal_look" /\ pc' = "cal_spin" /\ oldt' = newt
        /\ UNCHANGED <<CalRest, cyc_hi, cyc_lo, newt>>
        /\ \/ UNCHANGED <<cyc_per_tick, e, ticks>>
           \/ /\ ticks > 0 /\ e' = e + 1 /\ ticks' = 0
              /\ cyc_per_tick' = IF Recorded(cpt) THEN cpt ELSE cyc_per_tick
    BY <1>20 DEF CalLook
  <2>2. e + 1 \in 0..NEVENT BY <1>0, <1>20 DEF CalLook
  <2>3. ticks > 0 => cpt \in Int BY SMT
  <2>4. ticks > 0 /\ Recorded(cpt) => cpt \in Nat
    <3> HIDE DEF cpt
    <3> QED BY <2>3, <1>0 DEF Recorded
  <2> HIDE DEF cpt
  <2>5. cyc_per_tick' \in Nat /\ ticks' \in Nat /\ e' \in 0..NEVENT
    <3>1. CASE UNCHANGED <<cyc_per_tick, e, ticks>> BY <3>1
    <3>2. CASE /\ ticks > 0 /\ e' = e + 1 /\ ticks' = 0
               /\ cyc_per_tick' = IF Recorded(cpt) THEN cpt ELSE cyc_per_tick
      <4>1. cyc_per_tick' \in Nat
        <5>1. CASE Recorded(cpt) BY <5>1, <3>2, <2>4
        <5>2. CASE ~Recorded(cpt) BY <5>2, <3>2
        <5> QED BY <5>1, <5>2
      <4> QED BY <4>1, <3>2, <2>2
    <3> QED BY <2>1, <3>1, <3>2
  <2> QED BY <2>1, <2>5 DEF CalRest
<1>21. CASE Interrupt BY <1>0, <1>2, <1>21 DEF Interrupt
<1>22. CASE Set BY <1>22 DEF Set, Setting, set_fcyc_clear_cache, set_fcyc_compensate, set_fcyc_k,
         set_fcyc_maxsamples, set_fcyc_epsilon, set_fcyc_cache_block, set_fcyc_cache_size
<1>23. CASE UNCHANGED vars BY <1>23 DEF vars
<1> QED BY <1>4, <1>5, <1>6, <1>7, <1>8, <1>9, <1>10, <1>11, <1>12, <1>13, <1>14, <1>15, <1>16,
           <1>17, <1>18, <1>19, <1>20, <1>21, <1>22, <1>23 DEF Next, Program

\* The buffer is the one for the size set.
LEMMA BufferKept ==
  ASSUME Types, BufferFits, [Next]_vars
  PROVE  BufferFits'
<1> USE DEF BufferFits, params
<1>1. CASE \E allocated \in BOOLEAN : clear(allocated) BY <1>1 DEF clear
<1>2. CASE Set BY <1>2 DEF Set, set_fcyc_clear_cache, set_fcyc_compensate, set_fcyc_k,
         set_fcyc_maxsamples, set_fcyc_epsilon, set_fcyc_cache_block, set_fcyc_cache_size
<1>3. CASE \/ init_sampler \/ StartComp \/ StartTick \/ StartCounter \/ f \/ ReturnFromF
           \/ GetCounter \/ GetTicks \/ AddSample \/ Return
  BY <1>3 DEF init_sampler, StartComp, StartTick, StartCounter, f, ReturnFromF, GetCounter,
              GetTicks, AddSample, Return
<1>4. CASE CalTimes \/ CalStart \/ CalOldt \/ CalRead \/ CalSpin \/ CalLook \/ Interrupt
  BY <1>4 DEF CalTimes, CalStart, CalOldt, CalRead, CalSpin, CalLook, CalRest, Interrupt
<1>5. CASE UNCHANGED vars BY <1>5 DEF vars
<1> QED BY <1>1, <1>2, <1>3, <1>4, <1>5 DEF Next, Program

\* The samples and the values kept of them change at the start of a call, with
\* each sample and at the end; the call ends where the sampler says so.
LEMMA KeepingKept ==
  ASSUME Types, Keeping, Stopping, [Next]_vars
  PROVE  Keeping' /\ Stopping'
<1> USE DEF params, sampler, Goto
<1>0. kbest \in Nat /\ kbest > 0 /\ samplecount \in Nat BY FCycAssumption DEF Types, TypeOK
<1>1. ASSUME UNCHANGED <<kbest, maxsamples, epsilon, sampler>>,
             pc = "idle" => pc' = "idle", pc' = "return" => pc = "return"
      PROVE  Keeping' /\ Stopping'
  BY <1>1 DEF Keeping, KeptBest, Stopping, has_converged
<1>2. CASE init_sampler
  <2>1. kbest' = kbest /\ samplecount' = 0 /\ samples' = <<>> /\ pc' = "clear"
    BY <1>2 DEF init_sampler
  <2>2. Kept(kbest', samplecount') = 0 /\ Len(samples') = samplecount' BY <1>0, <2>1 DEF Kept
  <2>3. Ordered(values', 0) BY DEF Ordered
  <2>4. Best(values', kbest', samples', samplecount', [i \in 1..0 |-> i])
    BY <2>1, <2>2 DEF Best
  <2>5. [i \in 1..0 |-> i] \in [1..0 -> 1..0] OBVIOUS
  <2>6. KeptBest' BY <2>1, <2>2, <2>3, <2>4, <2>5 DEF KeptBest
  <2> QED BY <2>1, <2>6 DEF Keeping, Stopping
<1>3. CASE AddSample
  <2>1. pc = "add_sample" BY <1>3 DEF AddSample
  <2>2. KeptBest' BY <1>3, <2>1, SampleKept DEF Keeping
  <2>3. samplecount' = samplecount + 1 /\ UNCHANGED <<kbest, maxsamples, epsilon>>
    BY <1>3 DEF AddSample, add_sample
  <2>4. pc' = "return" =>
          has_converged(values', samplecount') \/ ~(samplecount' < maxsamples)
    BY <1>3 DEF AddSample
  <2>5. samplecount' >= 1 /\ (~(samplecount' < maxsamples) => samplecount' >= maxsamples)
    <3>1. maxsamples \in Nat BY FCycAssumption DEF Types, TypeOK
    <3> QED BY <1>0, <2>3, <3>1
  <2>6. has_converged(values', samplecount') = has_converged(values, samplecount)'
    BY <2>3 DEF has_converged
  <2> QED BY <2>2, <2>3, <2>4, <2>5, <2>6 DEF Keeping, Stopping
<1>4. CASE Return BY <1>4 DEF Return, Keeping, Stopping
<1>5. CASE Set
  <2>1. pc = "idle" /\ pc' = "idle"
    BY <1>5 DEF Set, Setting, set_fcyc_clear_cache, set_fcyc_compensate, set_fcyc_k,
         set_fcyc_maxsamples, set_fcyc_epsilon, set_fcyc_cache_block, set_fcyc_cache_size
  <2> QED BY <2>1 DEF Keeping, Stopping
<1>6. CASE \/ \E allocated \in BOOLEAN : clear(allocated)
           \/ StartComp \/ StartTick \/ StartCounter \/ f \/ ReturnFromF
           \/ GetCounter \/ GetTicks
  BY <1>1, <1>6 DEF clear, StartComp, StartTick, StartCounter, f, ReturnFromF, GetCounter,
              GetTicks
<1>7. CASE CalTimes \/ CalStart \/ CalOldt \/ CalRead \/ CalSpin \/ CalLook \/ Interrupt
  BY <1>1, <1>7 DEF CalTimes, CalStart, CalOldt, CalRead, CalSpin, CalLook, CalRest, Interrupt
<1>8. CASE UNCHANGED vars BY <1>1, <1>8 DEF vars
<1> QED BY <1>2, <1>3, <1>4, <1>5, <1>6, <1>7, <1>8 DEF Next, Program

-----------------------------------------------------------------------------
(***************************************************************************)
(* The invariant is kept: the time of a sample.                            *)
(***************************************************************************)

\* No more interrupts fall into a run of f than its cycles make room for.
LEMMA ElapsedBound ==
  ASSUME ShortRuns, NEW n \in Nat, NEW w \in 0..MaxWork, NEW s \in Nat,
         n * Period + s <= w + Period
  PROVE  w + n * TickCost < (IF "alpha" \in Platforms THEN W ELSE W * W)
<1> DEFINE b == MaxWork \div Period
           room == IF "alpha" \in Platforms THEN W ELSE W * W
<1>1. /\ Period \in Nat /\ Period > 0 /\ TickCost \in Nat /\ MaxWork \in Nat
      /\ w \in Nat /\ w <= MaxWork /\ W \in Nat
  BY FCycAssumption, CounterAssumption
<1>2. b \in Nat /\ MaxWork < Period * (b + 1) BY <1>1, SMT
<1>3. room \in Nat BY <1>1, SMT
<1>4. MaxWork + (b + 1) * TickCost < room BY DEF ShortRuns
<1> HIDE DEF b, room
<1>5. n <= b + 1
  <2>1. CASE n >= b + 2
    <3>1. Period * (n - (b + 2)) >= 0 BY <1>1, <1>2, <2>1, SMT
    <3>2. n * Period >= Period * (b + 1) + Period BY <1>1, <1>2, <3>1, SMT
    <3>3. Period * (b + 1) \in Int /\ n * Period \in Int BY <1>1, <1>2, SMT
    <3> QED BY <1>1, <1>2, <3>2, <3>3
  <2> QED BY <2>1, <1>2
<1>6. TickCost * (b + 1 - n) >= 0 BY <1>1, <1>2, <1>5, SMT
<1>7. n * TickCost <= (b + 1) * TickCost /\ n * TickCost \in Int /\ (b + 1) * TickCost \in Int
  BY <1>1, <1>2, <1>6, SMT
<1>8. w + n * TickCost < room BY <1>1, <1>3, <1>4, <1>7
<1> QED BY <1>8 DEF room

LEMMA ModAdd ==
  ASSUME NEW x \in Int, NEW y \in Int, x % W = y % W, NEW d \in Int
  PROVE  (x + d) % W = (y + d) % W
<1> DEFINE a == x \div W
           b == y \div W
           r == x % W
<1>1. W \in Nat /\ W > 0 BY CounterAssumption, SMT
<1>2. a \in Int /\ r \in Int /\ x = W * a + r BY DivMod
<1>3. b \in Int /\ y = W * b + r BY DivMod
<1> HIDE DEF a, b, r
<1>4. y + d = x + d + W * (b - a) /\ b - a \in Int /\ x + d \in Int BY <1>1, <1>2, <1>3, SMT
<1> QED BY <1>4, ModShift

\* One more stretch of d cycles of a sample, on either machine.
LEMMA SampleMoves ==
  ASSUME Types, Sampling, pc \in {"f", "get"}, ShortRuns, NEW d \in Nat,
         tsc' = After(tsc, d), UNCHANGED <<platform, cyc_hi, cyc_lo>>,
         elapsed' = elapsed + d, elapsed' < W * W
  PROVE  /\ platform = "i386" => get_counter' = elapsed'
         /\ platform = "alpha" => cyc_hi' = 0 /\ lo(tsc') = Word(cyc_lo' + elapsed')
<1>1. /\ tsc \in 0..(W * W - 1) /\ cyc_hi \in 0..(W - 1) /\ cyc_lo \in 0..(W - 1)
      /\ elapsed \in Nat
  BY DEF Types, TypeOK
<1>2. CASE platform = "i386"
  <2>1. get_counter = elapsed BY <1>2 DEF Sampling
  <2>2. get_counter' = get_counter + d BY <1>1, <1>2, <2>1, CounterMoves
  <2> QED BY <1>2, <2>1, <2>2
<1>3. CASE platform = "alpha"
  <2>1. cyc_hi = 0 /\ lo(tsc) = Word(cyc_lo + elapsed) BY <1>3 DEF Sampling
  <2>2. lo(tsc') = Word(tsc + d) BY <1>1, LowMoves
  <2>3. tsc \in Int /\ cyc_lo \in Int /\ cyc_lo + elapsed \in Int /\ d \in Int
    BY <1>1, CounterAssumption
  <2>4. Word(tsc + d) = Word(cyc_lo + elapsed + d) BY <2>1, <2>3, ModAdd DEF lo, Word
  <2>5. cyc_lo + elapsed + d = cyc_lo' + elapsed' BY <2>3, <1>1
  <2> QED BY <1>3, <2>1, <2>2, <2>4, <2>5
<1> QED BY <1>2, <1>3

LEMMA SamplingKept ==
  ASSUME Types, Sampling, ShortRuns, [Next]_vars
  PROVE  Sampling'
<1> USE DEF params, sampler, calib, counterVars, Goto
<1>0. /\ Period \in Nat /\ Period > 0 /\ TickCost \in Nat /\ MaxWork \in Nat
      /\ tsc \in 0..(W * W - 1) /\ cyc_hi \in 0..(W - 1) /\ cyc_lo \in 0..(W - 1)
      /\ work \in 0..MaxWork /\ since \in 0..Period /\ ticks \in Nat /\ elapsed \in Nat
  BY FCycAssumption DEF Types, TypeOK
<1>1. W \in Nat /\ W > 0 /\ W * W \in Nat /\ W <= W * W BY CounterAssumption, SMT
<1>2. \A x \in Int : x < (IF "alpha" \in Platforms THEN W ELSE W * W) => x < W * W
  BY <1>1
<1>3. CASE StartCounter
  <2>1. /\ elapsed' = 0 /\ work' = 0 /\ UNCHANGED <<platform, tsc, ticks, since>>
        /\ pc' \in {"f", "exit"} /\ (pc' = "f" => platform # "other" /\ start_counter)
    BY <1>3 DEF StartCounter
  <2> SUFFICES ASSUME pc' = "f" PROVE Sampling' BY <2>1 DEF Sampling
  <2>2. 0 \in 0..ticks' /\ elapsed' = work' + 0 * TickCost /\ 0 * Period + since' <= work' + Period
    BY <1>0, <2>1
  <2>3. platform = "i386" => get_counter' = elapsed' BY <1>0, <2>1, CounterStarts
  <2>4. platform = "alpha" => cyc_hi' = 0 /\ lo(tsc') = Word(cyc_lo' + elapsed')
    <3>1. platform = "alpha" => cyc_hi' = 0 /\ cyc_lo' = lo(tsc)
      BY <2>1 DEF start_counter, access_counter_hi
    <3>2. tsc \in Int BY <1>0, <1>1
    <3>3. lo(tsc) \in Int /\ 0 <= lo(tsc) /\ lo(tsc) < W BY <3>2, DivMod DEF lo
    <3>4. Word(W * 0 + lo(tsc)) = lo(tsc) BY <3>3, Unique DEF Word
    <3>5. W * 0 + lo(tsc) = lo(tsc) + 0 BY <3>3, <1>1
    <3> QED BY <3>1, <3>4, <3>5, <2>1
  <2> QED BY <2>1, <2>2, <2>3, <2>4 DEF Sampling
<1>4. CASE f
  <2>1. /\ pc = "f" /\ pc' = "f" /\ UNCHANGED <<platform, cyc_hi, cyc_lo, ticks>>
        /\ work < MaxWork /\ since < Period /\ tsc' = After(tsc, 1)
        /\ work' = work + 1 /\ since' = since + 1 /\ elapsed' = elapsed + 1
    BY <1>4 DEF f, Cycle
  <2>2. PICK n \in 0..ticks :
          elapsed = work + n * TickCost /\ n * Period + since <= work + Period
    BY <2>1 DEF Sampling
  <2>3. n \in Nat /\ n * TickCost \in Int /\ n * Period \in Int BY <1>0, <2>2, SMT
  <2>4. elapsed' = work' + n * TickCost /\ n * Period + since' <= work' + Period
    BY <1>0, <2>1, <2>2, <2>3
  <2>5. work' \in 0..MaxWork /\ since' \in Nat BY <1>0, <2>1
  <2>6. elapsed' < W * W
    <3>1. elapsed' < (IF "alpha" \in Platforms THEN W ELSE W * W)
      BY <2>3, <2>4, <2>5, ElapsedBound
    <3> QED BY <1>0, <1>2, <2>1, <3>1
  <2>7. /\ platform = "i386" => get_counter' = elapsed'
        /\ platform = "alpha" => cyc_hi' = 0 /\ lo(tsc') = Word(cyc_lo' + elapsed')
    BY <2>1, <2>6, SampleMoves
  <2> QED BY <2>1, <2>2, <2>4, <2>7 DEF Sampling
<1>5. CASE Interrupt
  <2>0. UNCHANGED <<pc, platform>> BY <1>5 DEF Interrupt
  <2> SUFFICES ASSUME pc \in {"f", "get"} PROVE Sampling' BY <2>0 DEF Sampling
  <2>1. /\ UNCHANGED <<platform, cyc_hi, cyc_lo, work>>
        /\ since = Period /\ since' = 0 /\ tsc' = After(tsc, TickCost)
        /\ ticks' = ticks + 1 /\ elapsed' = elapsed + TickCost
    BY <1>5 DEF Interrupt
  <2>2. PICK n \in 0..ticks :
          elapsed = work + n * TickCost /\ n * Period + since <= work + Period
    BY DEF Sampling
  <2>3. n \in Nat /\ n * TickCost \in Int /\ n * Period \in Int BY <1>0, <2>2, SMT
  <2>4. (n + 1) * TickCost = n * TickCost + TickCost /\ (n + 1) * Period = n * Period + Period
    BY <1>0, <2>3, SMT
  <2>5. elapsed' = work' + (n + 1) * TickCost /\ (n + 1) * Period + since' <= work' + Period
    BY <1>0, <2>1, <2>2, <2>3, <2>4
  <2>6. n + 1 \in 0..ticks' /\ n + 1 \in Nat BY <1>0, <2>1, <2>2
  <2>7. elapsed' < W * W
    <3>1. work' \in 0..MaxWork /\ since' \in Nat BY <1>0, <2>1
    <3>2. elapsed' < (IF "alpha" \in Platforms THEN W ELSE W * W)
      BY <2>5, <2>6, <3>1, ElapsedBound
    <3> QED BY <1>0, <1>2, <2>1, <3>2
  <2>8. /\ platform = "i386" => get_counter' = elapsed'
        /\ platform = "alpha" => cyc_hi' = 0 /\ lo(tsc') = Word(cyc_lo' + elapsed')
    BY <1>0, <2>1, <2>7, SampleMoves
  <2> QED BY <2>0, <2>1, <2>5, <2>6, <2>8 DEF Sampling
<1>6. ASSUME UNCHANGED <<counterVars, elapsed, work, ticks, since>>, pc \in {"f", "get"}
      PROVE  Sampling'
  <2>1. get_counter' = get_counter /\ lo(tsc') = lo(tsc) BY <1>6 DEF get_counter, access_counter_hi
  <2> QED BY <1>6, <2>1 DEF Sampling
<1>7. CASE ReturnFromF BY <1>6, <1>7 DEF ReturnFromF
<1>8. CASE UNCHANGED vars
  <2>1. CASE pc \in {"f", "get"} BY <1>6, <1>8, <2>1 DEF vars
  <2>2. CASE pc \notin {"f", "get"} BY <1>8, <2>2 DEF vars, Sampling
  <2> QED BY <2>1, <2>2
<1>9. CASE Set
  <2>1. pc' = "idle"
    BY <1>9 DEF Set, Setting, set_fcyc_clear_cache, set_fcyc_compensate, set_fcyc_k,
         set_fcyc_maxsamples, set_fcyc_epsilon, set_fcyc_cache_block, set_fcyc_cache_size
  <2> QED BY <2>1 DEF Sampling
<1>10. CASE \/ init_sampler \/ \E allocated \in BOOLEAN : clear(allocated)
            \/ StartComp \/ StartTick \/ GetCounter \/ GetTicks \/ AddSample \/ Return
            \/ CalTimes \/ CalStart \/ CalOldt \/ CalRead \/ CalSpin \/ CalLook
  <2>1. pc' \notin {"f", "get"}
    BY <1>10 DEF init_sampler, clear, StartComp, StartTick, GetCounter, GetTicks, AddSample,
                 Return, CalTimes, CalStart, CalOldt, CalRead, CalSpin, CalLook
  <2> QED BY <2>1 DEF Sampling
<1> QED BY <1>3, <1>4, <1>5, <1>7, <1>8, <1>9, <1>10 DEF Next, Program

\* What the invariant says of the counter is what is promised of it.
LEMMA SamplingCounts ==
  ASSUME Types, Sampling, ShortRuns
  PROVE  CountsElapsed
<1> SUFFICES ASSUME pc \in {"f", "get"}
             PROVE  get_counter = IF platform = "alpha" /\ cyc_lo + elapsed >= W
                                  THEN W * W - W + elapsed ELSE elapsed
  BY DEF CountsElapsed
<1>1. platform \in Platforms /\ platform \in {"i386", "alpha"}
  BY CounterAssumption DEF Types, Sampling
<1>2. CASE platform = "i386" BY <1>2 DEF Sampling
<1>3. CASE platform = "alpha"
  <2>1. cyc_hi = 0 /\ lo(tsc) = Word(cyc_lo + elapsed) BY <1>3 DEF Sampling
  <2>2. PICK n \in 0..ticks :
          elapsed = work + n * TickCost /\ n * Period + since <= work + Period
    BY DEF Sampling
  <2>3. /\ tsc \in Int /\ cyc_lo \in 0..(W - 1) /\ elapsed \in Nat /\ n \in Nat
        /\ work \in 0..MaxWork /\ since \in Nat
    BY <2>2, FCycAssumption, CounterAssumption, SMT DEF Types, TypeOK
  <2>4. elapsed < W BY <1>1, <1>3, <2>2, <2>3, ElapsedBound
  <2>5. access_counter_hi = 0 BY <1>3 DEF access_counter_hi
  <2>6. get_counter = Reading(0, tsc, 0, cyc_lo) BY <2>1, <2>5, CounterReads
  <2> QED BY <1>3, <2>1, <2>3, <2>4, <2>6, AlphaReads
<1> QED BY <1>1, <1>2, <1>3

\* As many ticks are taken off a sample as interrupts fell into it, or more.
LEMMA ReadKept ==
  ASSUME Types, Sampling, Read, NeverOver, CallibratedRight, [Next]_vars
  PROVE  Read' /\ NeverOver'
<1> USE DEF params, sampler, calib, counterVars, Goto
<1>0. /\ TickCost \in Nat /\ work \in Nat /\ ticks \in Nat /\ cyc_per_tick \in Nat /\ time \in Int
  BY FCycAssumption DEF Types, TypeOK
<1>1. CASE GetCounter
  <2>1. /\ pc = "get" /\ time' = get_counter /\ UNCHANGED <<platform, work, ticks, compensate>>
        /\ pc' = IF compensate THEN "get_times" ELSE "add_sample"
    BY <1>1 DEF GetCounter
  <2>2. NeverOver' BY <2>1 DEF NeverOver
  <2>3. Read'
    <3> SUFFICES ASSUME platform = "i386" PROVE get_counter <= work + ticks * TickCost
      BY <2>1 DEF Read
    <3>1. PICK n \in 0..ticks : elapsed = work + n * TickCost
      BY <2>1 DEF Sampling
    <3>2. get_counter = elapsed BY <2>1 DEF Sampling
    <3>3. (ticks - n) * TickCost >= 0 /\ n \in Int BY <1>0, <3>1, SMT
    <3>4. ticks * TickCost >= n * TickCost /\ ticks * TickCost \in Int /\ n * TickCost \in Int
      BY <1>0, <3>3, SMT
    <3> QED BY <1>0, <3>1, <3>2, <3>4
  <2> QED BY <2>2, <2>3
<1>2. CASE GetTicks
  <2>1. /\ pc = "get_times" /\ pc' = "add_sample" /\ time' = time - ticks * cyc_per_tick
        /\ UNCHANGED <<platform, work, ticks, compensate, cyc_per_tick>>
    BY <1>2 DEF GetTicks
  <2>2. Read' BY <2>1 DEF Read
  <2>3. NeverOver'
    <3> SUFFICES ASSUME platform = "i386", cyc_per_tick > 0
                 PROVE  time - ticks * cyc_per_tick <= work
      BY <2>1 DEF NeverOver
    <3>1. TickCost <= cyc_per_tick BY <1>0 DEF CallibratedRight
    <3>2. time <= work + ticks * TickCost BY <2>1 DEF Read
    <3>3. ticks * (cyc_per_tick - TickCost) >= 0 BY <1>0, <3>1, SMT
    <3>4. /\ ticks * cyc_per_tick >= ticks * TickCost
          /\ ticks * cyc_per_tick \in Int /\ ticks * TickCost \in Int
      BY <1>0, <3>3, SMT
    <3> QED BY <1>0, <3>2, <3>4
  <2> QED BY <2>2, <2>3
<1>3. CASE Interrupt
  <2>1. /\ ticks' = ticks + 1
        /\ UNCHANGED <<pc, platform, work, time, compensate, cyc_per_tick>>
    BY <1>3 DEF Interrupt
  <2>2. NeverOver' BY <2>1 DEF NeverOver
  <2>3. ticks' * TickCost = ticks * TickCost + TickCost /\ ticks * TickCost \in Int
    BY <1>0, <2>1, SMT
  <2>4. Read' BY <1>0, <2>1, <2>3 DEF Read
  <2> QED BY <2>2, <2>4
<1>4. CASE UNCHANGED vars BY <1>4 DEF vars, Read, NeverOver
<1>5. CASE Set
  <2>1. pc' = "idle"
    BY <1>5 DEF Set, Setting, set_fcyc_clear_cache, set_fcyc_compensate, set_fcyc_k,
         set_fcyc_maxsamples, set_fcyc_epsilon, set_fcyc_cache_block, set_fcyc_cache_size
  <2> QED BY <2>1 DEF Read, NeverOver
<1>6. CASE \/ init_sampler \/ \E allocated \in BOOLEAN : clear(allocated)
           \/ StartComp \/ StartTick \/ StartCounter \/ f \/ ReturnFromF \/ AddSample \/ Return
           \/ CalTimes \/ CalStart \/ CalOldt \/ CalRead \/ CalSpin \/ CalLook
  <2>1. pc' \notin {"get_times", "add_sample"}
    BY <1>6 DEF init_sampler, clear, StartComp, StartTick, StartCounter, f, ReturnFromF, AddSample,
                Return, CalTimes, CalStart, CalOldt, CalRead, CalSpin, CalLook
  <2> QED BY <2>1 DEF Read, NeverOver
<1> QED BY <1>1, <1>2, <1>3, <1>4, <1>5, <1>6 DEF Next, Program

-----------------------------------------------------------------------------
(***************************************************************************)
(* The invariant is kept: callibrate.                                      *)
(***************************************************************************)

\* callibrate is over before the low word can start again.
LEMMA PacedBound ==
  ASSUME NEW g \in Int, NEW x \in 0..NEVENT, NEW t \in 0..1, NEW s \in 0..Period,
         g <= (x + t) * (Period + TickCost) + s
  PROVE  g + TickCost < W * W /\ g + 1 < W * W
<1> DEFINE u == Period + TickCost
<1>1. /\ u \in Nat /\ NEVENT \in Nat /\ Period \in Nat /\ TickCost \in Nat /\ x \in Nat /\ t \in Nat
      /\ x <= NEVENT /\ t <= 1 /\ s <= Period /\ s \in Nat /\ Period > 1
  BY FCycAssumption
<1>2. (NEVENT + 2) * u < W BY FCycAssumption
<1>3. W \in Nat /\ W > 0 /\ W <= W * W /\ W * W \in Nat BY CounterAssumption, SMT
<1>4. TickCost > 0 BY FCycAssumption
<1> HIDE DEF u
<1>5. (NEVENT + 1 - (x + t)) * u >= 0 BY <1>1, SMT
<1>6. /\ (x + t) * u <= (NEVENT + 1) * u
      /\ (NEVENT + 2) * u = (NEVENT + 1) * u + u
      /\ (NEVENT + 1) * u \in Int /\ (x + t) * u \in Int
  BY <1>1, <1>5, SMT
<1>7. g <= (x + t) * u + s BY DEF u
<1>8. g + u - Period < W BY <1>1, <1>2, <1>3, <1>6, <1>7
<1>9. u - Period = TickCost BY <1>1 DEF u
<1>10. g + TickCost < W BY <1>1, <1>3, <1>8, <1>9
<1> QED BY <1>1, <1>3, <1>4, <1>10

LEMMA PlatformStays ==
  ASSUME [Next]_vars
  PROVE  platform' = platform
<1> USE DEF counterVars
<1>1. CASE \/ init_sampler \/ \E allocated \in BOOLEAN : clear(allocated)
           \/ StartComp \/ StartTick \/ StartCounter \/ f \/ ReturnFromF \/ GetCounter
           \/ GetTicks \/ AddSample \/ Return
  BY <1>1 DEF init_sampler, clear, StartComp, StartTick, StartCounter, f, ReturnFromF, GetCounter,
              GetTicks, AddSample, Return
<1>2. CASE CalTimes \/ CalStart \/ CalOldt \/ CalRead \/ CalSpin \/ CalLook \/ Interrupt
  BY <1>2 DEF CalTimes, CalStart, CalOldt, CalRead, CalSpin, CalLook, CalRest, Interrupt
<1>3. CASE Set BY <1>3 DEF Set, Setting, set_fcyc_clear_cache, set_fcyc_compensate, set_fcyc_k,
         set_fcyc_maxsamples, set_fcyc_epsilon, set_fcyc_cache_block, set_fcyc_cache_size
<1>4. CASE UNCHANGED vars BY <1>4 DEF vars
<1> QED BY <1>1, <1>2, <1>3, <1>4 DEF Next, Program

\* What the steps of callibrate need to know of the state.
LEMMA CalFacts ==
  ASSUME Types, Calibrating, platform = "i386"
  PROVE  /\ get_counter \in Int /\ 0 <= get_counter
         /\ tsc \in 0..(W * W - 1) /\ cyc_hi \in 0..(W - 1) /\ cyc_lo \in 0..(W - 1)
         /\ oldt \in Int /\ newt \in Int /\ e \in 0..NEVENT /\ ticks \in Nat
         /\ since \in Int /\ 0 <= since /\ since <= Period /\ cyc_per_tick \in Nat
         /\ Period \in Int /\ TickCost \in Int /\ THRESHOLD \in Int /\ RECORDTHRESH \in Int
         /\ 0 < THRESHOLD /\ THRESHOLD < RECORDTHRESH /\ RECORDTHRESH < TickCost
         /\ THRESHOLD < Period /\ NEVENT \in Nat
         /\ pc \in {"cal_start", "cal_oldt", "cal_loop", "cal_spin", "cal_look"} => ticks \in 0..1
<1>1. /\ tsc \in 0..(W * W - 1) /\ cyc_hi \in 0..(W - 1) /\ cyc_lo \in 0..(W - 1)
      /\ oldt \in Int /\ newt \in Int /\ e \in 0..NEVENT /\ ticks \in Nat
      /\ since \in 0..Period /\ cyc_per_tick \in Nat
  BY DEF Types, TypeOK
<1>2. get_counter \in Int /\ 0 <= get_counter
  <2>1. W * W \in Int BY CounterAssumption, SMT
  <2>2. get_counter \in 0..(W * W - 1) BY <1>1, CounterType
  <2> QED BY <2>1, <2>2
<1>3. pc \in {"cal_start", "cal_oldt"} => ticks \in 0..1 BY DEF Calibrating
<1>4. pc \in {"cal_loop", "cal_spin", "cal_look"} => ticks \in 0..1 BY DEF Calibrating, Window
<1> QED BY <1>1, <1>2, <1>3, <1>4, FCycAssumption

LEMMA CalibratingKept ==
  ASSUME Types, Calibrating, CallibratedRight, [Next]_vars
  PROVE  Calibrating' /\ CallibratedRight'
<1> USE DEF params, sampler, calib, counterVars, Goto
<1>0. platform' = platform BY PlatformStays
<1> SUFFICES ASSUME platform = "i386"
             PROVE  Calibrating' /\ CallibratedRight'
  BY <1>0 DEF Calibrating, CallibratedRight
<1> DEFINE g == get_counter
<1>1. CASE CalTimes
  <2>1. pc' = "cal_start" /\ e' = 0 /\ ticks' = 0 /\ cyc_per_tick' = cyc_per_tick
    BY <1>1 DEF CalTimes, times
  <2> QED BY <2>1, <1>0 DEF Calibrating, CallibratedRight
<1>2. CASE CalStart
  <2>1. /\ pc = "cal_start" /\ pc' = "cal_oldt" /\ start_counter
        /\ UNCHANGED <<platform, tsc, since, e, ticks, cyc_per_tick>>
    BY <1>2 DEF CalStart, CalRest
  <2>2. get_counter' = 0 BY <2>1, CalFacts, CounterStarts
  <2>3. e = 0 /\ (ticks = 0 \/ (ticks = 1 /\ since = 0)) BY <2>1 DEF Calibrating
  <2>4. Paced'
    <3>1. (e + ticks) * (Period + TickCost) \in Nat
      <4>1. Period + TickCost \in Nat /\ e + ticks \in 0..1 BY <2>3, FCycAssumption
      <4> QED BY <4>1, SMT
    <3> QED BY <2>1, <2>2, <3>1, CalFacts DEF Paced
  <2> QED BY <2>1, <2>3, <2>4, <1>0 DEF Calibrating, CallibratedRight
<1>3. ASSUME UNCHANGED <<platform, tsc, cyc_hi, cyc_lo>>
      PROVE  get_counter' = get_counter
  BY <1>3 DEF get_counter, access_counter_hi
<1>4. CASE CalOldt
  <2>1. /\ pc = "cal_oldt" /\ pc' = "cal_loop" /\ oldt' = g
        /\ UNCHANGED <<platform, tsc, cyc_hi, cyc_lo, since, e, ticks, cyc_per_tick>>
    BY <1>4 DEF CalOldt, CalRest
  <2>2. get_counter' = g BY <1>3, <2>1
  <2>3. Paced' BY <2>1, <2>2 DEF Paced, Calibrating
  <2>4. Window(get_counter - oldt)'
    <3>1. get_counter' - oldt' = 0 BY <2>1, <2>2, CalFacts
    <3>2. ticks' = 0 \/ (ticks' = 1 /\ since' = 0) BY <2>1 DEF Calibrating
    <3> QED BY <2>1, <3>1, <3>2, CalFacts DEF Window
  <2> QED BY <2>1, <2>3, <2>4, <1>0 DEF Calibrating, CallibratedRight
<1>5. CASE CalRead
  <2>1. /\ pc = "cal_loop" /\ UNCHANGED <<platform, tsc, cyc_hi, cyc_lo, since, ticks, cyc_per_tick>>
        /\ pc' \in {"cal_look", "cal_spin", "times"}
        /\ pc' # "times" => newt' = g /\ oldt' = oldt /\ e' = e
        /\ pc' = "cal_look" => newt' - oldt >= THRESHOLD
        /\ pc' = "cal_spin" => ~(newt' - oldt >= THRESHOLD)
    BY <1>5 DEF CalRead, CalRest
  <2>2. get_counter' = g BY <1>3, <2>1
  <2>3. pc' # "times" => Paced' BY <2>1, <2>2 DEF Paced, Calibrating
  <2>4. Window(g - oldt) BY <2>1 DEF Calibrating
  <2> HIDE DEF g
  <2>5. CASE pc' = "cal_look"
    <3>1. get_counter' - oldt' = newt' - oldt' /\ newt' - oldt' = g - oldt /\ g - oldt >= THRESHOLD
      BY <2>1, <2>2, <2>5
    <3>2. Window(get_counter - oldt)' BY <2>1, <2>4, <2>5, <3>1, CalFacts DEF Window, g
    <3> QED BY <2>1, <2>3, <2>5, <3>2, <1>0 DEF Calibrating, CallibratedRight
  <2>6. CASE pc' = "cal_spin"
    <3>1. get_counter' - oldt' = g - oldt /\ ~(g - oldt >= THRESHOLD)
      BY <2>1, <2>2, <2>6
    <3>2. Window(get_counter - oldt)' BY <2>1, <2>4, <2>6, <3>1, CalFacts DEF Window, g
    <3> QED BY <2>1, <2>3, <2>6, <3>2, <1>0 DEF Calibrating, CallibratedRight
  <2>7. CASE pc' = "times" BY <2>1, <2>7, <1>0 DEF Calibrating, CallibratedRight
  <2> QED BY <2>1, <2>5, <2>6, <2>7
<1>6. CASE CalSpin
  <2>1. /\ pc = "cal_spin" /\ pc' = "cal_loop" /\ tsc' = After(tsc, 1)
        /\ since < Period /\ since' = since + 1
        /\ UNCHANGED <<platform, cyc_hi, cyc_lo, e, ticks, oldt, cyc_per_tick>>
    BY <1>6 DEF CalSpin, Cycle
  <2>2. Paced /\ Window(g - oldt) BY <2>1 DEF Calibrating
  <2>3. g + 1 < W * W
    <3>1. ticks \in 0..1 /\ since \in 0..Period /\ g \in Int /\ e \in 0..NEVENT BY <2>1, CalFacts
    <3> QED BY <2>2, <3>1, PacedBound DEF Paced
  <2>4. get_counter' = g + 1 BY <2>1, <2>3, CalFacts, CounterMoves
  <2>5. Paced'
    <3>1. (e + ticks) * (Period + TickCost) \in Int
      <4>1. Period + TickCost \in Nat /\ e + ticks \in Nat BY CalFacts, FCycAssumption
      <4> QED BY <4>1, SMT
    <3> QED BY <2>1, <2>2, <2>4, <3>1, CalFacts DEF Paced
  <2>6. Window(get_counter - oldt)'
    <3>1. get_counter' - oldt' = (g - oldt) + 1 BY <2>1, <2>4, CalFacts
    <3> QED BY <2>1, <2>2, <3>1, CalFacts DEF Window
  <2> QED BY <2>1, <2>5, <2>6, <1>0 DEF Calibrating, CallibratedRight
<1>7. CASE CalLook
  <2> DEFINE cpt == (newt - oldt) \div ticks
  <2>1. /\ pc = "cal_look" /\ pc' = "cal_spin" /\ oldt' = newt
        /\ UNCHANGED <<platform, tsc, cyc_hi, cyc_lo, since, newt>>
        /\ ticks = 0 => UNCHANGED <<cyc_per_tick, e, ticks>>
        /\ ticks > 0 => /\ e' = e + 1 /\ ticks' = 0
                        /\ cyc_per_tick' = IF Recorded(cpt) THEN cpt ELSE cyc_per_tick
    BY <1>7 DEF CalLook, CalRest
  <2>2. Paced /\ Window(g - oldt) BY <2>1 DEF Calibrating
  <2>3. get_counter' = g BY <1>3, <2>1
  <2>4. ticks \in 0..1 BY <2>1, CalFacts
  <2>5. Paced'
    <3>1. e' + ticks' = e + ticks BY <2>1, <2>4, CalFacts
    <3> QED BY <2>1, <2>2, <2>3, <3>1 DEF Paced
  <2>6. Window(get_counter - oldt)'
    <3>1. get_counter' - oldt' = g - newt /\ g - newt = (g - oldt) - (newt - oldt) /\ ticks' = 0
      BY <2>1, <2>3, <2>4, CalFacts
    <3> QED BY <2>1, <2>2, <3>1, CalFacts DEF Window
  <2>7. CallibratedRight'
    <3>1. CASE ticks = 0 BY <2>1, <3>1, <1>0 DEF CallibratedRight
    <3>2. CASE ticks = 1
      <4>1. cpt = newt - oldt BY <3>2, CalFacts
      <4>2. \/ TickCost <= newt - oldt /\ newt - oldt <= TickCost + THRESHOLD
            \/ newt - oldt = THRESHOLD
        BY <2>1, <2>2, <3>2 DEF Window
      <4> HIDE DEF cpt
      <4>3. CASE Recorded(cpt)
        <5>1. cpt > RECORDTHRESH BY <4>3 DEF Recorded
        <5>2. TickCost <= cpt /\ cpt <= TickCost + THRESHOLD BY <4>1, <4>2, <5>1, CalFacts
        <5> QED BY <2>1, <3>2, <4>3, <5>2 DEF CallibratedRight
      <4>4. CASE ~Recorded(cpt) BY <2>1, <3>2, <4>4, <1>0 DEF CallibratedRight
      <4> QED BY <4>3, <4>4
    <3> QED BY <2>4, <3>1, <3>2
  <2> QED BY <2>1, <2>5, <2>6, <2>7, <1>0 DEF Calibrating
<1>8. CASE Interrupt
  <2>1. /\ since = Period /\ since' = 0 /\ ticks' = ticks + 1 /\ tsc' = After(tsc, TickCost)
        /\ UNCHANGED <<pc, platform, cyc_hi, cyc_lo, e, oldt, newt, cyc_per_tick>>
    BY <1>8 DEF Interrupt
  <2>2. CallibratedRight' BY <2>1 DEF CallibratedRight
  <2>3. pc \in {"cal_start", "cal_oldt"} => e' = 0 /\ ticks' = 1 /\ since' = 0
    BY <2>1, CalFacts DEF Calibrating
  <2>4. CASE pc \in {"cal_oldt", "cal_loop", "cal_spin", "cal_look"}
    <3>1. Paced BY <2>4 DEF Calibrating
    <3>2. g + TickCost < W * W
      <4>1. ticks \in 0..1 /\ since \in 0..Period /\ g \in Int /\ e \in 0..NEVENT BY <2>4, CalFacts
      <4> QED BY <3>1, <4>1, PacedBound DEF Paced
    <3>3. get_counter' = g + TickCost
      <4>1. TickCost \in Nat BY FCycAssumption
      <4> QED BY <2>1, <3>2, <4>1, CalFacts, CounterMoves
    <3>4. Paced'
      <4> DEFINE u == Period + TickCost
                 n == e + ticks
      <4>1. u \in Nat /\ n \in Nat BY CalFacts, FCycAssumption
      <4>2. e' + ticks' = n + 1 BY <2>1, CalFacts
      <4>3. g <= n * u + Period BY <3>1, <2>1 DEF Paced
      <4>4. u = Period + TickCost OBVIOUS
      <4> HIDE DEF u, n
      <4>5. (n + 1) * u = n * u + u /\ n * u \in Int BY <4>1, SMT
      <4>6. g + TickCost <= (n + 1) * u + 0 BY <4>1, <4>3, <4>4, <4>5, CalFacts
      <4> QED BY <2>1, <3>3, <4>2, <4>6 DEF Paced, u
    <3>5. CASE pc \in {"cal_loop", "cal_spin", "cal_look"}
      <4>1. Window(g - oldt) BY <3>5 DEF Calibrating
      <4>2. get_counter' - oldt' = (g - oldt) + TickCost BY <2>1, <3>3, CalFacts
      <4>3. Window(get_counter - oldt)' BY <2>1, <3>5, <4>1, <4>2, CalFacts DEF Window
      <4> QED BY <2>1, <2>2, <2>3, <3>4, <4>3, <1>0 DEF Calibrating
    <3>6. CASE pc = "cal_oldt" BY <2>1, <2>2, <2>3, <3>4, <3>6, <1>0 DEF Calibrating
    <3> QED BY <2>4, <3>5, <3>6
  <2>5. CASE pc \notin {"cal_oldt", "cal_loop", "cal_spin", "cal_look"}
    BY <2>1, <2>2, <2>3, <2>5, <1>0 DEF Calibrating
  <2> QED BY <2>4, <2>5
<1>9. CASE UNCHANGED vars
  <2>1. UNCHANGED <<pc, platform, tsc, cyc_hi, cyc_lo, since, ticks, e, oldt, newt, cyc_per_tick>>
    BY <1>9 DEF vars
  <2>2. get_counter' = get_counter BY <1>3, <2>1
  <2> QED BY <2>1, <2>2 DEF Calibrating, Paced, Window, CallibratedRight
<1>10. ASSUME pc' \notin {"cal_start", "cal_oldt", "cal_loop", "cal_spin", "cal_look"},
              cyc_per_tick' = cyc_per_tick
       PROVE  Calibrating' /\ CallibratedRight'
  BY <1>10, <1>0 DEF Calibrating, CallibratedRight
<1>11. CASE Set
  BY <1>10, <1>11 DEF Set, Setting, set_fcyc_clear_cache, set_fcyc_compensate, set_fcyc_k,
       set_fcyc_maxsamples, set_fcyc_epsilon, set_fcyc_cache_block, set_fcyc_cache_size
<1>12. CASE \/ init_sampler \/ \E allocated \in BOOLEAN : clear(allocated)
            \/ StartComp \/ StartTick \/ StartCounter \/ f \/ ReturnFromF \/ GetCounter
            \/ GetTicks \/ AddSample \/ Return
  BY <1>10, <1>12 DEF init_sampler, clear, StartComp, StartTick, StartCounter, f, ReturnFromF,
       GetCounter, GetTicks, AddSample, Return
<1> QED BY <1>1, <1>2, <1>4, <1>5, <1>6, <1>7, <1>8, <1>9, <1>11, <1>12 DEF Next, Program

-----------------------------------------------------------------------------
(***************************************************************************)
(* The theorems.                                                           *)
(***************************************************************************)

LEMMA InitHolds ==
  ASSUME Init
  PROVE  IInv
<1>1. Types
  <2>1. 0 \in 0..(W - 1) /\ Starts \subseteq 0..(W * W - 1) BY CounterAssumption
  <2>2. 0 \in 0..NEVENT /\ 0 \in 0..MaxWork BY FCycAssumption
  <2>3. CACHE_BYTES \in CacheSizes BY FCycAssumption
  <2>4. /\ platform \in Platforms /\ tsc \in 0..(W * W - 1) /\ cyc_hi = 0 /\ cyc_lo = 0
    BY <2>1 DEF Init, InitCounter
  <2>5. samples \in Seq(Int) /\ values = <<>> BY DEF Init
  <2>6. TypeOK BY <2>1, <2>2, <2>3, <2>4, <2>5 DEF Init, TypeOK
  <2> QED BY <2>2, <2>4, <2>5, <2>6 DEF Init, Types
<1>2. pc = "idle" /\ cyc_per_tick = 0 /\ cache_buf = 0 BY DEF Init
<1> QED BY <1>1, <1>2 DEF IInv, BufferFits, Sampling, Read, NeverOver, Calibrating,
     CallibratedRight, Keeping, Stopping

\* The invariant of fcyc.c and clock.c: every cycle of a sample is f's or an
\* interrupt's that ticks has counted, callibrate sees one tick at a time, and the
\* values are the best of the samples so far.
THEOREM Invariance ==
  ASSUME ShortRuns
  PROVE  Spec => []IInv
<1>1. Init => IInv BY InitHolds
<1>2. IInv /\ [Next]_vars => IInv'
  <2> SUFFICES ASSUME IInv, [Next]_vars PROVE IInv' OBVIOUS
  <2>1. /\ Types /\ BufferFits /\ Sampling /\ Read /\ NeverOver /\ Calibrating
        /\ CallibratedRight /\ Keeping /\ Stopping
    BY DEF IInv
  <2>2. Types' BY <2>1, TypesKept
  <2>3. BufferFits' BY <2>1, BufferKept
  <2>4. Sampling' BY <2>1, SamplingKept
  <2>5. Read' /\ NeverOver' BY <2>1, ReadKept
  <2>6. Calibrating' /\ CallibratedRight' BY <2>1, CalibratingKept
  <2>7. Keeping' /\ Stopping' BY <2>1, KeepingKept
  <2> QED BY <2>2, <2>3, <2>4, <2>5, <2>6, <2>7 DEF IInv
<1> QED BY <1>1, <1>2, PTL DEF Spec

\* Every variable of fcyc.c and clock.c keeps its type: the values are kbest numbers
\* while a call is under way, and callibrate counts no more events than it waits for.
THEOREM TypeCorrect ==
  ASSUME ShortRuns
  PROVE  Spec => []TypeOK
<1>1. IInv => TypeOK BY DEF IInv, Types
<1> QED BY <1>1, Invariance, PTL

\* The buffer clear walks through has the size clear goes by, in whatever order
\* set_fcyc_cache_size and fcyc are called.
THEOREM BufferRight ==
  ASSUME ShortRuns
  PROVE  Spec => []BufferFits
<1>1. IInv => BufferFits BY DEF IInv
<1> QED BY <1>1, Invariance, PTL

\* While f runs, get_counter is the number of cycles since start_counter; on an alpha
\* as long as its one word has not started again.
THEOREM CountsRight ==
  ASSUME ShortRuns
  PROVE  Spec => []CountsElapsed
<1>1. IInv => CountsElapsed BY SamplingCounts DEF IInv
<1> QED BY <1>1, Invariance, PTL

\* callibrate's cost of a tick is never too small, and at most THRESHOLD too
\* big, wherever between its two readings the ticks come.
THEOREM TickCostRight ==
  ASSUME ShortRuns
  PROVE  Spec => []CallibratedRight
<1>1. IInv => CallibratedRight BY DEF IInv
<1> QED BY <1>1, Invariance, PTL

\* A compensated sample is at most the cycles of f itself.
THEOREM SampleNeverOver ==
  ASSUME ShortRuns
  PROVE  Spec => []NeverOver
<1>1. IInv => NeverOver BY DEF IInv
<1> QED BY <1>1, Invariance, PTL

\* The least of kbest and samplecount, as the property has it.
LEMMA MinKept ==
  ASSUME NEW k \in Nat, NEW n \in Nat
  PROVE  Min({k, n}) = Kept(k, n)
<1>1. Kept(k, n) \in {k, n} /\ Kept(k, n) <= k /\ Kept(k, n) <= n BY DEF Kept
<1>2. \E x \in {k, n} : \A y \in {k, n} : x <= y BY <1>1
<1>3. Min({k, n}) \in {k, n} /\ \A y \in {k, n} : Min({k, n}) <= y BY <1>2, Zenon DEF Min
<1>4. Min({k, n}) <= Kept(k, n) BY <1>1, <1>3
<1>5. Kept(k, n) <= Min({k, n}) BY <1>1, <1>3
<1> QED BY <1>1, <1>3, <1>4, <1>5

LEMMA KeptIsBest ==
  ASSUME Types, KeptBest
  PROVE  KBest
<1> DEFINE K == 1..Min({kbest, samplecount})
<1>1. kbest \in Nat /\ kbest > 0 /\ samplecount \in Nat /\ samples \in Seq(Int)
  BY FCycAssumption DEF Types, TypeOK
<1> SUFFICES ASSUME pc # "idle"
             PROVE  /\ Len(samples) = samplecount
                    /\ \A i, j \in K : i < j => values[i] <= values[j]
                    /\ \E from \in [K -> DOMAIN samples] :
                         /\ \A i, j \in K : from[i] = from[j] => i = j
                         /\ \A i \in K : values[i] = samples[from[i]]
                         /\ \A n \in DOMAIN samples : (\A i \in K : from[i] # n) =>
                              \A i \in K : values[i] <= samples[n]
  BY DEF KBest
<1> DEFINE m == Kept(kbest, samplecount)
<1>2. K = 1..m BY <1>1, MinKept
<1>3. Len(samples) = samplecount /\ DOMAIN samples = 1..samplecount BY <1>1 DEF KeptBest
<1>4. Ordered(values, m) BY DEF KeptBest
<1>5. PICK from \in [1..m -> 1..samplecount] : Best(values, kbest, samples, samplecount, from)
  BY DEF KeptBest
<1>6. m \in Nat /\ m <= kbest /\ (kbest <= samplecount => m = kbest) BY <1>1 DEF Kept
<1>7. values \in [1..kbest -> Int] BY DEF Types
<1> HIDE DEF K, m
<1>8. /\ \A i, j \in 1..m : from[i] = from[j] => i = j
      /\ \A i \in 1..m : values[i] = samples[from[i]]
      /\ \A x \in 1..samplecount : (\A i \in 1..m : from[i] # x) =>
           kbest <= samplecount /\ values[kbest] <= samples[x]
  BY <1>5 DEF Best, m
<1>9. ASSUME NEW n \in 1..samplecount, \A i \in 1..m : from[i] # n, NEW i \in 1..m
      PROVE  values[i] <= samples[n]
  <2>1. m = kbest /\ values[kbest] <= samples[n] BY <1>6, <1>8, <1>9
  <2>2. i <= kbest /\ values[i] \in Int /\ values[kbest] \in Int /\ samples[n] \in Int
    BY <1>1, <1>3, <1>6, <1>7
  <2>3. values[i] <= values[kbest]
    <3>1. CASE i = kbest BY <3>1, <2>2
    <3>2. CASE i # kbest
      <4>1. i < kbest /\ kbest \in 1..m BY <1>1, <2>1, <2>2, <3>2
      <4> QED BY <1>4, <4>1 DEF Ordered
    <3> QED BY <3>1, <3>2
  <2> QED BY <2>1, <2>2, <2>3
<1> QED BY <1>2, <1>3, <1>4, <1>5, <1>8, <1>9, ZenonT(30) DEF Ordered

\* The values add_sample keeps are the kbest smallest of all samples, in order.
THEOREM KeepsTheBest ==
  ASSUME ShortRuns
  PROVE  Spec => []KBest
<1>1. IInv => KBest BY KeptIsBest DEF IInv, Keeping, KBest
<1> QED BY <1>1, Invariance, PTL

LEMMA Scaled ==
  ASSUME NEW a \in Nat, NEW x \in Int, NEW y \in Int, x <= y
  PROVE  a * x \in Int /\ a * y \in Int /\ a * x <= a * y
<1>1. a * (y - x) >= 0 BY SMT
<1> QED BY <1>1, SMT

LEMMA SignKept ==
  ASSUME NEW a \in Nat, NEW v \in Int, a * v >= 0
  PROVE  v >= 0 \/ a = 0
<1>1. CASE v <= 0 - 1 /\ a >= 1
  <2>1. 0 - v \in Nat /\ 1 <= a BY <1>1
  <2>2. (0 - v) * 1 <= (0 - v) * a BY <2>1, Scaled
  <2>3. (0 - v) * a = 0 - a * v /\ a * v \in Int BY SMT
  <2> QED BY <1>1, <2>2, <2>3
<1> QED BY <1>1

LEMMA StopEarned ==
  ASSUME Types, KeptBest, Stopping
  PROVE  ResultEarned
<1> DEFINE m == Kept(kbest, samplecount)
           near == {n \in DOMAIN samples :
                      EpsDen * samples[n] <= (EpsDen + epsilon) * result}
<1> SUFFICES ASSUME pc = "return"
             PROVE  /\ result \in Range(samples)
                    /\ \A n \in DOMAIN samples : result <= samples[n]
                    /\ \/ Len(samples) >= maxsamples
                       \/ (result >= 0 \/ epsilon = 0) /\ Cardinality(near) >= kbest
  BY DEF ResultEarned
<1>1. /\ kbest \in Nat /\ kbest > 0 /\ samplecount \in Nat /\ samples \in Seq(Int)
      /\ values \in [1..kbest -> Int] /\ epsilon \in Nat /\ EpsDen \in Nat /\ EpsDen > 0
  BY FCycAssumption DEF Types, TypeOK
<1>2. Len(samples) = samplecount /\ DOMAIN samples = 1..samplecount BY <1>1 DEF KeptBest
<1>3. samplecount >= 1 /\ (has_converged(values, samplecount) \/ samplecount >= maxsamples)
  BY DEF Stopping
<1>4. Ordered(values, m) BY DEF KeptBest
<1>5. PICK from \in [1..m -> 1..samplecount] : Best(values, kbest, samples, samplecount, from)
  BY DEF KeptBest
<1>6. m \in Nat /\ m >= 1 /\ m <= kbest /\ (kbest <= samplecount => m = kbest)
  BY <1>1, <1>3 DEF Kept
<1> HIDE DEF m
<1>7. /\ \A i, j \in 1..m : from[i] = from[j] => i = j
      /\ \A i \in 1..m : values[i] = samples[from[i]]
      /\ \A x \in 1..samplecount : (\A i \in 1..m : from[i] # x) =>
           kbest <= samplecount /\ values[kbest] <= samples[x]
  BY <1>5 DEF Best, m
<1>8. \A i \in 1..m : from[i] \in 1..samplecount /\ values[i] \in Int BY <1>1, <1>5, <1>6
<1>9. \A n \in 1..samplecount : samples[n] \in Int BY <1>1, <1>2
<1>10. \A i, j \in 1..m : i <= j => values[i] <= values[j]
  <2> SUFFICES ASSUME NEW i \in 1..m, NEW j \in 1..m, i <= j PROVE values[i] <= values[j]
    OBVIOUS
  <2>1. CASE i = j BY <1>8, <2>1
  <2>2. CASE i < j BY <1>4, <2>2 DEF Ordered
  <2> QED BY <1>6, <2>1, <2>2
<1>11. result \in Range(samples)
  <2>1. 1 \in 1..m BY <1>6
  <2>2. result = samples[from[1]] /\ from[1] \in DOMAIN samples BY <2>1, <1>2, <1>7, <1>8 DEF result
  <2> QED BY <2>2, Zenon DEF Range
<1>12. ASSUME NEW n \in DOMAIN samples
       PROVE  result <= samples[n]
  <2>1. 1 \in 1..m /\ n \in 1..samplecount /\ values[1] \in Int /\ samples[n] \in Int
    BY <1>2, <1>6, <1>8, <1>9
  <2>2. CASE \E i \in 1..m : from[i] = n
    <3>1. PICK i \in 1..m : from[i] = n BY <2>2
    <3>2. values[i] = samples[n] BY <3>1, <1>7
    <3>3. 1 <= i BY <1>6
    <3> QED BY <2>1, <3>2, <3>3, <1>10 DEF result
  <2>3. CASE \A i \in 1..m : from[i] # n
    <3>1. m = kbest /\ values[kbest] <= samples[n] BY <2>1, <2>3, <1>6, <1>7
    <3>2. kbest \in 1..m /\ 1 <= kbest BY <3>1, <1>1
    <3>3. values[1] <= values[kbest] /\ values[kbest] \in Int BY <2>1, <3>2, <1>8, <1>10
    <3> QED BY <2>1, <3>1, <3>3 DEF result
  <2> QED BY <2>2, <2>3
<1>13. CASE samplecount >= maxsamples BY <1>2, <1>11, <1>12, <1>13
<1>14. CASE has_converged(values, samplecount)
  <2> DEFINE limit == (EpsDen + epsilon) * values[1]
  <2>1. samplecount >= kbest /\ limit >= EpsDen * values[kbest] BY <1>14 DEF has_converged
  <2>2. m = kbest /\ 1 \in 1..m /\ kbest \in 1..m BY <1>1, <1>6, <2>1
  <2>3. values[1] \in Int /\ values[kbest] \in Int /\ values[1] <= values[kbest]
    BY <1>1, <1>8, <1>10, <2>2
  <2>4. values[1] >= 0 \/ epsilon = 0
    <3>1. /\ EpsDen * values[1] <= EpsDen * values[kbest]
          /\ EpsDen * values[1] \in Int /\ EpsDen * values[kbest] \in Int
      BY <1>1, <2>3, Scaled
    <3>2. limit = EpsDen * values[1] + epsilon * values[1] BY <1>1, <2>3, SMT
    <3>3. epsilon * values[1] \in Int BY <1>1, <2>3, SMT
    <3>4. epsilon * values[1] >= 0 BY <2>1, <3>1, <3>2, <3>3
    <3> QED BY <1>1, <2>3, <3>4, SignKept
  <2>5. ASSUME NEW i \in 1..kbest
        PROVE  from[i] \in near
    <3>1. /\ from[i] \in DOMAIN samples /\ samples[from[i]] = values[i] /\ values[i] \in Int
          /\ i <= kbest
      BY <1>1, <1>2, <1>7, <1>8, <2>2
    <3>2. values[i] <= values[kbest] BY <1>10, <2>2, <3>1
    <3>3. /\ EpsDen * values[i] <= EpsDen * values[kbest]
          /\ EpsDen * values[kbest] \in Int /\ EpsDen * values[i] \in Int
      BY <1>1, <2>3, <3>1, <3>2, Scaled
    <3>4. limit \in Int BY <1>1, <2>3, SMT
    <3>5. EpsDen * values[i] <= limit
      <4> HIDE DEF limit
      <4> QED BY <2>1, <3>3, <3>4
    <3>6. EpsDen * samples[from[i]] <= (EpsDen + epsilon) * result BY <3>1, <3>5 DEF result
    <3> QED BY <3>1, <3>6
  <2> HIDE DEF near
  <2>6. from \in Injection(1..kbest, near)
    <3>1. from \in [1..kbest -> near] BY <2>2, <2>5
    <3>2. \A i, j \in 1..kbest : from[i] = from[j] => i = j BY <1>7, <2>2
    <3> QED BY <3>1, <3>2, Zenon DEF Injection, IsInjective
  <2>7. IsFiniteSet(near) /\ Cardinality(near) \in Nat
    <3>1. IsFiniteSet(1..samplecount)
      <4>1. 1 \in Int /\ samplecount \in Int BY <1>1
      <4> QED BY <4>1, FS_Interval
    <3>2. near \subseteq 1..samplecount BY <1>2 DEF near
    <3> QED BY <3>1, <3>2, FS_Subset, FS_CardinalityType
  <2>8. Cardinality(1..kbest) <= Cardinality(near) BY <2>6, <2>7, FS_Injection
  <2>9. Cardinality(1..kbest) = kbest
    <3>1. 1 \in Int /\ kbest \in Int /\ ~(1 > kbest) BY <1>1
    <3>2. Cardinality(1..kbest) = kbest - 1 + 1 BY <3>1, FS_Interval, Zenon
    <3> QED BY <3>2, <1>1
  <2> QED BY <1>11, <1>12, <2>4, <2>7, <2>8, <2>9, <1>1 DEF result
<1> QED BY <1>3, <1>13, <1>14

\* fcyc returns the least of its samples, and stops early only with kbest of them
\* within epsilon of it.
THEOREM ResultRight ==
  ASSUME ShortRuns
  PROVE  Spec => []ResultEarned
<1>1. IInv => ResultEarned BY StopEarned DEF IInv, Keeping, ResultEarned
<1> QED BY <1>1, Invariance, PTL

=============================================================================
