--------------------------- MODULE FltIndexProofs ---------------------------
(***************************************************************************)
(* flt_index computes the documented size classes, for every positive int. *)
(***************************************************************************)
EXTENDS FltIndex, TLAPS

LEMMA PowFacts ==
  Pow(0) = 1 /\ Pow(1) = 2 /\ Pow(2) = 4 /\ Pow(4) = 16 /\ Pow(8) = 256 /\ Pow(16) = 65536
BY SMT DEF Pow

\* What one turn of the loop does to v, with the mask for a shift by s: v is
\* shifted by s or not at all, to at most s bits, and keeps its highest bit.
Turned(v, s) ==
  LET w == Shr(v, Shift(v, s))
  IN  /\ w \in Int /\ 1 <= w /\ w < Pow(s)
      /\ \/ Shift(v, s) = 0 /\ w = v
         \/ Shift(v, s) = s /\ Pow(s) * w <= v /\ v < Pow(s) * w + Pow(s)

\* A v of at most 2 s bits, cut by 2^s.
LEMMA Halves ==
  ASSUME NEW s \in {1, 2, 4, 8, 16}, NEW v \in Int, 1 <= v, v < Pow(s) * Pow(s), v <= MAX_INT
  PROVE  LET q == v \div Pow(s)
         IN  /\ q \in Int /\ 0 <= q /\ q < Pow(s) /\ q % Pow(s) = q
             /\ Pow(s) * q <= v /\ v < Pow(s) * q + Pow(s)
             /\ q = 0 => v < Pow(s)
<1>1. CASE s = 1 BY <1>1, PowFacts, SMT
<1>2. CASE s = 2 BY <1>2, PowFacts, SMT
<1>3. CASE s = 4 BY <1>3, PowFacts, SMT
<1>4. CASE s = 8 BY <1>4, PowFacts, SMT
<1>5. CASE s = 16 BY <1>5, PowFacts, SMT
<1> QED BY <1>1, <1>2, <1>3, <1>4, <1>5, SMT

LEMMA Turn ==
  ASSUME NEW s \in {1, 2, 4, 8, 16}, NEW v \in Int, 1 <= v, v < Pow(s) * Pow(s), v <= MAX_INT
  PROVE  Turned(v, s)
<1>1. CASE v \div Pow(s) = 0
  <2>1. Shift(v, s) = 0 BY <1>1, Halves, SMT DEF Shift
  <2>2. Shr(v, 0) = v BY PowFacts, SMT DEF Shr
  <2> QED BY <1>1, <2>1, <2>2, Halves, SMT DEF Turned
<1>2. CASE v \div Pow(s) # 0
  <2>1. Shift(v, s) = s BY <1>2, Halves, SMT DEF Shift
  <2>2. Shr(v, s) = v \div Pow(s) BY SMT DEF Shr
  <2> QED BY <1>2, <2>1, <2>2, Halves, SMT DEF Turned
<1> QED BY <1>1, <1>2, SMT

\* The loop finds the highest set bit, which is 2^log2(v).
LEMMA HighestBitFound ==
  ASSUME NEW v \in Int, 1 <= v, v <= MAX_INT
  PROVE  /\ HighestBit(v) \in Int /\ HighestBit(v) <= v /\ v < 2 * HighestBit(v)
         /\ \/ log2(v) = 0 /\ HighestBit(v) = 1
            \/ log2(v) = 1 /\ HighestBit(v) = 2
            \/ log2(v) = 2 /\ HighestBit(v) = 4
            \/ log2(v) = 3 /\ HighestBit(v) = 8
            \/ log2(v) = 4 /\ HighestBit(v) = 16
            \/ log2(v) = 5 /\ HighestBit(v) = 32
            \/ log2(v) = 6 /\ HighestBit(v) = 64
            \/ log2(v) = 7 /\ HighestBit(v) = 128
            \/ log2(v) = 8 /\ HighestBit(v) = 256
            \/ log2(v) = 9 /\ HighestBit(v) = 512
            \/ log2(v) = 10 /\ HighestBit(v) = 1024
            \/ log2(v) = 11 /\ HighestBit(v) = 2048
            \/ log2(v) = 12 /\ HighestBit(v) = 4096
            \/ log2(v) \in Int /\ log2(v) > 12 /\ HighestBit(v) >= 8192
<1> DEFINE s4 == Shift(v, 16)  v4 == Shr(v, s4)
           s3 == Shift(v4, 8)  v3 == Shr(v4, s3)
           s2 == Shift(v3, 4)  v2 == Shr(v3, s2)
           s1 == Shift(v2, 2)  v1 == Shr(v2, s1)
           s0 == Shift(v1, 1)  v0 == Shr(v1, s0)
<1>1. Turned(v, 16) BY Turn, PowFacts, SMT DEF MAX_INT
<1>2. v4 \in Int /\ 1 <= v4 /\ v4 < 65536
        /\ ((s4 = 0 /\ v4 = v) \/ (s4 = 16 /\ 65536 * v4 <= v /\ v < 65536 * v4 + 65536))
  BY <1>1, PowFacts, SMT DEF Turned
<1> HIDE DEF s4, v4
<1>3. Turned(v4, 8) BY <1>2, Turn, PowFacts, SMT DEF MAX_INT
<1>4. v3 \in Int /\ 1 <= v3 /\ v3 < 256
        /\ ((s3 = 0 /\ v3 = v4) \/ (s3 = 8 /\ 256 * v3 <= v4 /\ v4 < 256 * v3 + 256))
  BY <1>3, PowFacts, SMT DEF Turned
<1> HIDE DEF s3, v3
<1>5. Turned(v3, 4) BY <1>4, Turn, PowFacts, SMT DEF MAX_INT
<1>6. v2 \in Int /\ 1 <= v2 /\ v2 < 16
        /\ ((s2 = 0 /\ v2 = v3) \/ (s2 = 4 /\ 16 * v2 <= v3 /\ v3 < 16 * v2 + 16))
  BY <1>5, PowFacts, SMT DEF Turned
<1> HIDE DEF s2, v2
<1>7. Turned(v2, 2) BY <1>6, Turn, PowFacts, SMT DEF MAX_INT
<1>8. v1 \in Int /\ 1 <= v1 /\ v1 < 4
        /\ ((s1 = 0 /\ v1 = v2) \/ (s1 = 2 /\ 4 * v1 <= v2 /\ v2 < 4 * v1 + 4))
  BY <1>7, PowFacts, SMT DEF Turned
<1> HIDE DEF s1, v1
<1>9. Turned(v1, 1) BY <1>8, Turn, PowFacts, SMT DEF MAX_INT
<1>10. v0 = 1 /\ ((s0 = 0 /\ v1 = 1) \/ (s0 = 1 /\ 2 <= v1 /\ v1 < 4))
  BY <1>9, PowFacts, SMT DEF Turned
<1> HIDE DEF s0, v0
<1>11. Shifts(v) = <<s4, s3, s2, s1, s0>>
  BY SMT DEF Shifts, s4, v4, s3, v3, s2, v2, s1, v1, s0
<1>12. /\ log2(v) = s4 + s3 + s2 + s1 + s0
       /\ HighestBit(v) = Pow(s4) * Pow(s3) * Pow(s2) * Pow(s1) * Pow(s0)
  BY <1>11, SMT DEF log2, HighestBit
<1>13. CASE s4 = 0 /\ s3 = 0
  BY <1>13, <1>2, <1>4, <1>6, <1>8, <1>10, <1>12, PowFacts, SMTT(60)
<1>14. CASE s4 = 0 /\ s3 = 8
  BY <1>14, <1>2, <1>4, <1>6, <1>8, <1>10, <1>12, PowFacts, SMTT(60)
<1>15. CASE s4 = 16 /\ s3 = 0
  BY <1>15, <1>2, <1>4, <1>6, <1>8, <1>10, <1>12, PowFacts, SMTT(60)
<1>16. CASE s4 = 16 /\ s3 = 8
  BY <1>16, <1>2, <1>4, <1>6, <1>8, <1>10, <1>12, PowFacts, SMTT(60)
<1> QED BY <1>13, <1>14, <1>15, <1>16, <1>2, <1>4, SMT

LEMMA ClassEndFacts ==
  /\ ClassEnd[1] = 8 /\ ClassEnd[2] = 16 /\ ClassEnd[3] = 32 /\ ClassEnd[4] = 64
  /\ ClassEnd[5] = 128 /\ ClassEnd[6] = 256 /\ ClassEnd[7] = 512 /\ ClassEnd[8] = 1024
  /\ ClassEnd[9] = 2048 /\ ClassEnd[10] = 4096
BY SMT DEF ClassEnd

\* For every positive int and any number of slots up to the code's 11, flt_index is
\* the class segregate_mm_init documents: powers of two end a class, what is above
\* the last end is in the last class.
THEOREM ClassAsDocumented ==
  ASSUME NEW v \in Int, 1 <= v, v <= MAX_INT
  PROVE  InClass(v, flt_index(v))
<1> DEFINE ret == log2(v) - 3 + (IF ManyBits(v) THEN 1 ELSE 0)
           k   == flt_index(v)
<1>1. FLT_SLOT_NUM \in 1..11 BY SlotAssumption
<1>2. log2(v) \in Int BY HighestBitFound, SMT
<1>3. ret = log2(v) - 3 + (IF v = HighestBit(v) THEN 0 ELSE 1) BY SMT DEF ManyBits
<1>4. k = IF ret < 0 THEN 0 ELSE IF ret > FLT_SLOT_NUM - 1 THEN FLT_SLOT_NUM - 1 ELSE ret
  BY SMT DEF flt_index
<1>5. ret \in Int BY <1>2, <1>3, SMT
<1> HIDE DEF ret, k
<1>6. k \in 0..(FLT_SLOT_NUM - 1) BY <1>1, <1>4, <1>5, SMT
<1>7. k > 0 => v > ClassEnd[k]
  BY <1>1, <1>3, <1>4, <1>5, <1>6, HighestBitFound, ClassEndFacts, SMTT(60)
<1>8. k < FLT_SLOT_NUM - 1 => v <= ClassEnd[k + 1]
  BY <1>1, <1>3, <1>4, <1>5, <1>6, HighestBitFound, ClassEndFacts, SMTT(60)
<1> QED BY <1>6, <1>7, <1>8, SMT DEF InClass, k

\* The documented classes do not overlap.
LEMMA ClassUnique ==
  ASSUME NEW v \in Int, NEW k, NEW l, InClass(v, k), InClass(v, l)
  PROVE  ~(l < k)
<1>1. FLT_SLOT_NUM \in 1..11 BY SlotAssumption
<1>2. SUFFICES ASSUME l < k PROVE FALSE OBVIOUS
<1>3. l \in 0..9 /\ k \in 1..10 /\ v > ClassEnd[k] /\ v <= ClassEnd[l + 1]
  BY <1>1, <1>2, SMT DEF InClass
<1>4. /\ ClassEnd[k] \in Int /\ ClassEnd[l + 1] \in Int
      /\ ClassEnd[l + 1] <= ClassEnd[k]
  BY <1>2, <1>3, ClassEndFacts, SMTT(60)
<1> QED BY <1>3, <1>4, SMT

\* The classes are disjoint and in order, so a search that starts in the class of the
\* request and goes up meets every free block that is big enough.
THEOREM ClassesMonotone ==
  ASSUME NEW v \in Int, 1 <= v, NEW w \in Int, v <= w, w <= MAX_INT
  PROVE  flt_index(v) <= flt_index(w)
<1> DEFINE k == flt_index(v)  l == flt_index(w)
<1>1. FLT_SLOT_NUM \in 1..11 BY SlotAssumption
<1>2. v <= MAX_INT /\ 1 <= w BY SMT DEF MAX_INT
<1>3. InClass(v, k) BY <1>2, ClassAsDocumented
<1>4. InClass(w, l) BY <1>2, ClassAsDocumented
<1> HIDE DEF k, l
<1>5. k \in Int /\ l \in Int BY <1>1, <1>3, <1>4, SMT DEF InClass
<1>6. SUFFICES ASSUME l < k PROVE FALSE BY <1>5, SMT DEF k, l
<1>7. l \in 0..9 /\ k \in 1..10 /\ v > ClassEnd[k] /\ w <= ClassEnd[l + 1]
  BY <1>1, <1>3, <1>4, <1>6, SMT DEF InClass
<1>8. /\ ClassEnd[k] \in Int /\ ClassEnd[l + 1] \in Int
      /\ ClassEnd[l + 1] <= ClassEnd[k]
  BY <1>6, <1>7, ClassEndFacts, SMTT(60)
<1> QED BY <1>7, <1>8, SMT
=============================================================================
