------------------------------ MODULE FltIndex ------------------------------
(***************************************************************************)
(* flt_index of segregate.c: the size class of v bytes, by the bit-twiddled*)
(* binary search for the highest set bit.                                  *)
(***************************************************************************)
EXTENDS Integers

CONSTANT FLT_SLOT_NUM    \* size classes (11 in the code)

ASSUME SlotAssumption == FLT_SLOT_NUM \in 1..11

\* Values of an int that are no sizes are left out.
MAX_INT == 2147483647

\* 2^s for the shifts of the code; written out so that provers need no powers.
Pow(s) ==
  IF s = 16 THEN 65536 ELSE IF s = 8 THEN 256 ELSE IF s = 4 THEN 16
  ELSE IF s = 2 THEN 4 ELSE IF s = 1 THEN 2 ELSE 1

\* One turn of the loop: S[i] if one of the bits S[i] .. 2*S[i]-1 of v is set,
\* the mask b[i] being exactly these bits, and 0 otherwise.
Shift(v, s) == IF (v \div Pow(s)) % Pow(s) # 0 THEN s ELSE 0

\* v >>= S[i]
Shr(v, s) == v \div Pow(s)

\* The shifts of the five turns.
Shifts(v) ==
  LET s4 == Shift(v, 16)  v4 == Shr(v, s4)
      s3 == Shift(v4, 8)  v3 == Shr(v4, s3)
      s2 == Shift(v3, 4)  v2 == Shr(v3, s2)
      s1 == Shift(v2, 2)  v1 == Shr(v2, s1)
      s0 == Shift(v1, 1)
  IN  <<s4, s3, s2, s1, s0>>

\* The bits or-ed into r are distinct, so that r is the sum of the shifts.
log2(v) == LET s == Shifts(v) IN s[1] + s[2] + s[3] + s[4] + s[5]

\* 2^log2(v)
HighestBit(v) ==
  LET s == Shifts(v) IN Pow(s[1]) * Pow(s[2]) * Pow(s[3]) * Pow(s[4]) * Pow(s[5])

\* (v & (v - 1)) != 0: more than one bit of v is set.
ManyBits(v) == v # 0 /\ v # HighestBit(v)

flt_index(v) ==
  LET ret == log2(v) - 3 + (IF ManyBits(v) THEN 1 ELSE 0)
  IN  IF ret < 0 THEN 0
      ELSE IF ret > FLT_SLOT_NUM - 1 THEN FLT_SLOT_NUM - 1 ELSE ret

-----------------------------------------------------------------------------
\* The table segregate_mm_init documents: class 0 is 1-8 bytes, the next 9-16,
\* 17-32 and so on; the last class has no upper end.
ClassEnd == <<8, 16, 32, 64, 128, 256, 512, 1024, 2048, 4096>>

InClass(v, k) ==
  /\ k \in 0..(FLT_SLOT_NUM - 1)
  /\ k > 0 => v > ClassEnd[k]
  /\ k < FLT_SLOT_NUM - 1 => v <= ClassEnd[k + 1]
=============================================================================
