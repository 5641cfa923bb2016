---------------------------- MODULE DriverProofs ----------------------------
(***************************************************************************)
(* What the driver says of an allocator is right, whatever the allocator   *)
(* does: its range list, its verdicts, its measure of space, its errors    *)
(* and the state each of its runs starts from.                             *)
(***************************************************************************)
EXTENDS Driver, TLAPS, FiniteSetTheorems, SequenceTheorems

-----------------------------------------------------------------------------
(***************************************************************************)
(* The inductive invariant.                                                *)
(***************************************************************************)

Phases == {"read", "start_valid", "valid", "start_util", "util", "start_speed", "speed",
           "libc_read", "libc_valid", "libc_speed", "exit", "index", "errors", "undefined"}

\* The phases between read_trace and free_trace.
WithTrace == {"start_valid", "valid", "start_util", "util", "start_speed", "speed",
              "libc_valid", "libc_speed"}

Control ==
  /\ phase \in Phases
  /\ trace \in Traces \cup {<<>>}
  /\ phase \in WithTrace => trace \in Traces
  /\ i \in 1..(Len(trace) + 1)
  /\ phase \in {"read", "libc_read"} => i = 1
  /\ runs \in 0..Runs
  /\ phase \in {"start_speed", "speed", "libc_speed"} => runs < Runs

\* No payload reaches the word below the region, which mem_clear leaves alone.
Memory ==
  /\ mem \in [Addr -> {0, Tag} \cup Ids]
  /\ mem[mem_start_brk - 4] = 0
  /\ mem_brk \in mem_start_brk..mem_max_addr

\* What is kept for each id is what the requests before k say of it.
Kept(b, bs, t, k) ==
  \A id \in Ids :
    /\ Uses(t, id, k) = {} => b[id] = NULL /\ bs[id] = 0
    /\ HoldsAt(t, id, k) => bs[id] = LastUse(t, id, k).size

Held ==
  /\ blocks \in [Ids -> Nat] /\ block_sizes \in [Ids -> Nat]
  /\ phase = "start_valid" => /\ blocks = [id \in Ids |-> NULL]
                              /\ block_sizes = [id \in Ids |-> 0]
  /\ phase = "start_util" => block_sizes = [id \in Ids |-> 0]
  /\ phase \in {"valid", "util"} => Kept(blocks, block_sizes, trace, i)

\* own says which of the ids in H has the k-th of n records.
Owners(own, n, H) ==
  /\ own \in [1..n -> H]
  /\ \A k, l \in 1..n : own[k] = own[l] => k = l
  /\ \A id \in H : \E k \in 1..n : own[k] = id

Record(b, bs, id) == [lo |-> b[id], hi |-> b[id] + bs[id] - 1]

Owned(rs, b, bs, H) ==
  \E own : Owners(own, Len(rs), H) /\ \A k \in 1..Len(rs) : rs[k] = Record(b, bs, own[k])

\* A record passed add_range's test against the older ones, which come after it.
Tested(rs) ==
  \A k, l \in 1..Len(rs) : k < l => ~Overlaps(rs[k].lo, rs[k].hi, rs[l])

Placed(rs, brk) ==
  \A k \in 1..Len(rs) : rs[k].lo % ALIGNMENT = 0 /\ Within(brk, rs[k].lo, rs[k].hi)

Records == Seq([lo : Int, hi : Int])

ListOK(rs, brk, b, bs, H) ==
  rs \in Records /\ Tested(rs) /\ Placed(rs, brk) /\ Owned(rs, b, bs, H)

Listed ==
  phase = "valid" => ListOK(ranges, mem_brk, blocks, block_sizes, HeldAt(trace, i))

\* The number of bytes in use is that of a finite set, and the most there were is
\* the greatest such number so far.
Measured ==
  /\ total_size \in Int /\ max_total_size \in Nat
  /\ phase = "util" =>
       /\ IsFiniteSet(BytesAt(trace, i))
       /\ total_size = Needed(trace, i)
       /\ \E k \in 1..i : max_total_size = Needed(trace, k)
       /\ \A k \in 1..i : Needed(trace, k) \in Nat /\ Needed(trace, k) <= max_total_size

Invalid(v) == {k \in 1..Len(v) : ~v[k]}

\* Errors are counted trace by trace until the program gives up.
Judged ==
  /\ valid \in Seq(BOOLEAN) /\ errors \in Nat
  /\ phase \notin {"exit", "undefined"} =>
       errors = Cardinality(Invalid(valid))
  /\ phase = "index" => errors = 0

IInv == Control /\ Memory /\ Held /\ Listed /\ Measured /\ RunsStartClean /\ Judged

-----------------------------------------------------------------------------
(***************************************************************************)
(* Traces.                                                                 *)
(***************************************************************************)

LEMMA TraceShape ==
  ASSUME NEW t \in Traces
  PROVE  /\ Len(t) \in 1..MaxOps
         /\ \A k \in 1..Len(t) : /\ t[k] \in Ops
                                 /\ t[k].index \in Ids /\ t[k].size \in Nat
                                 /\ t[k].type \in {"ALLOC", "REALLOC", "FREE"}
         /\ Legal(t)
<1>1. Legal(t) /\ t \in UNION {[1..n -> Ops] : n \in 1..MaxOps} BY DEF Traces
<1>2. PICK n \in 1..MaxOps : t \in [1..n -> Ops] BY <1>1
<1>3. n \in Nat BY <1>2, DriverAssumption
<1>4. Len(t) = n BY <1>2, <1>3
<1>5. \A op \in Ops : /\ op.index \in Ids /\ op.size \in Nat
                      /\ op.type \in {"ALLOC", "REALLOC", "FREE"}
  <2>1. ASSUME NEW op \in [type : {"ALLOC", "REALLOC"}, index : Ids, size : Sizes]
        PROVE  op.index \in Ids /\ op.size \in Nat /\ op.type \in {"ALLOC", "REALLOC"}
    BY DriverAssumption
  <2>2. ASSUME NEW op \in [type : {"REALLOC", "FREE"}, index : Ids, size : {0}]
        PROVE  op.index \in Ids /\ op.size \in Nat /\ op.type \in {"REALLOC", "FREE"}
    OBVIOUS
  <2> QED BY <2>1, <2>2 DEF Ops
<1> QED BY <1>1, <1>2, <1>4, <1>5

LEMMA UsesStep ==
  ASSUME NEW t, NEW k \in Nat \ {0}, NEW id
  PROVE  Uses(t, id, k + 1) = IF t[k].index = id THEN Uses(t, id, k) \cup {k} ELSE Uses(t, id, k)
<1>1. 1..((k + 1) - 1) = (1..(k - 1)) \cup {k} OBVIOUS
<1> QED BY <1>1 DEF Uses

LEMMA LastUseStep ==
  ASSUME NEW t, NEW k \in Nat \ {0}
  PROVE  /\ LastUse(t, t[k].index, k + 1) = t[k]
         /\ \A id : id # t[k].index => LastUse(t, id, k + 1) = LastUse(t, id, k)
<1>1. ASSUME NEW id, id # t[k].index PROVE LastUse(t, id, k + 1) = LastUse(t, id, k)
  BY <1>1, UsesStep DEF LastUse
<1> DEFINE U == Uses(t, t[k].index, k + 1)
<1>2. U = Uses(t, t[k].index, k) \cup {k} BY UsesStep
<1>3. k \in U /\ \A j \in U : j \in Nat /\ j <= k BY <1>2 DEF Uses
<1> HIDE DEF U
<1>4. Max(U) = k
  <2>1. \A y \in U : k >= y BY <1>3
  <2>2. Max(U) \in U /\ \A y \in U : Max(U) >= y BY <1>3, <2>1, Zenon DEF Max
  <2>3. Max(U) \in Nat /\ Max(U) <= k BY <1>3, <2>2
  <2>4. Max(U) >= k BY <1>3, <2>2
  <2> QED BY <2>3, <2>4
<1> QED BY <1>1, <1>4 DEF LastUse, U

LEMMA HoldsStep ==
  ASSUME NEW t, NEW k \in Nat \ {0}, NEW id
  PROVE  HoldsAt(t, id, k + 1) <=> IF t[k].index = id THEN t[k].type # "FREE" ELSE HoldsAt(t, id, k)
<1>1. CASE t[k].index = id
  <2>1. Uses(t, id, k + 1) = Uses(t, id, k) \cup {k} BY <1>1, UsesStep
  <2>2. Uses(t, id, k + 1) # {} BY <2>1
  <2>3. LastUse(t, id, k + 1) = t[k] BY <1>1, LastUseStep
  <2> QED BY <1>1, <2>2, <2>3 DEF HoldsAt
<1>2. CASE t[k].index # id
  <2>1. Uses(t, id, k + 1) = Uses(t, id, k) BY <1>2, UsesStep
  <2>2. LastUse(t, id, k + 1) = LastUse(t, id, k) BY <1>2, LastUseStep
  <2> QED BY <1>2, <2>1, <2>2 DEF HoldsAt
<1> QED BY <1>1, <1>2

LEMMA HeldStep ==
  ASSUME NEW t, NEW k \in Nat \ {0}, t[k].index \in Ids
  PROVE  HeldAt(t, k + 1) = IF t[k].type = "FREE" THEN HeldAt(t, k) \ {t[k].index}
                            ELSE HeldAt(t, k) \cup {t[k].index}
<1>1. \A id \in Ids : HoldsAt(t, id, k + 1)
                        <=> IF t[k].index = id THEN t[k].type # "FREE" ELSE HoldsAt(t, id, k)
  BY HoldsStep
<1> QED BY <1>1 DEF HeldAt

LEMMA NothingHeldAtFirst ==
  ASSUME NEW t
  PROVE  /\ \A id : Uses(t, id, 1) = {} /\ ~HoldsAt(t, id, 1)
         /\ HeldAt(t, 1) = {}
<1>1. \A id : Uses(t, id, 1) = {} BY DEF Uses
<1> QED BY <1>1 DEF HoldsAt, HeldAt

LEMMA LegalAt ==
  ASSUME NEW t \in Traces, NEW k \in 1..Len(t)
  PROVE  /\ t[k].type = "ALLOC" => ~HoldsAt(t, t[k].index, k)
         /\ t[k].type = "FREE" => Filled(t, t[k].index, k)
         /\ t[k].type = "REALLOC" => Filled(t, t[k].index, k) \/ Uses(t, t[k].index, k) = {}
<1>1. Legal(t) BY TraceShape
<1> QED BY <1>1 DEF Legal

\* A request that was served, and a free, keep the books right.
LEMMA KeptAfterRequest ==
  ASSUME NEW t \in Traces, NEW k \in 1..Len(t), t[k].type # "FREE",
         NEW b \in [Ids -> Nat], NEW bs \in [Ids -> Nat], Kept(b, bs, t, k), NEW ptr \in Nat
  PROVE  Kept([b EXCEPT ![t[k].index] = ptr], [bs EXCEPT ![t[k].index] = t[k].size], t, k + 1)
<1> DEFINE x == t[k].index
           b2 == [b EXCEPT ![x] = ptr]
           bs2 == [bs EXCEPT ![x] = t[k].size]
<1>1. k \in Nat \ {0} /\ x \in Ids BY TraceShape
<1>2. Uses(t, x, k + 1) # {} /\ LastUse(t, x, k + 1) = t[k]
  <2>1. Uses(t, x, k + 1) = Uses(t, x, k) \cup {k} BY <1>1, UsesStep
  <2> QED BY <1>1, <2>1, LastUseStep
<1>3. \A id \in Ids : id # x =>
        /\ Uses(t, id, k + 1) = Uses(t, id, k) /\ LastUse(t, id, k + 1) = LastUse(t, id, k)
        /\ HoldsAt(t, id, k + 1) <=> HoldsAt(t, id, k)
  BY <1>1, UsesStep, LastUseStep, HoldsStep
<1>4. /\ bs2[x] = t[k].size
      /\ \A id \in Ids : id # x => b2[id] = b[id] /\ bs2[id] = bs[id]
  BY <1>1
<1> HIDE DEF x, b2, bs2
<1>5. Kept(b2, bs2, t, k + 1) BY <1>2, <1>3, <1>4 DEF Kept
<1> QED BY <1>5 DEF x, b2, bs2

LEMMA KeptAfterFree ==
  ASSUME NEW t \in Traces, NEW k \in 1..Len(t), t[k].type = "FREE", NEW b, NEW bs,
         Kept(b, bs, t, k)
  PROVE  Kept(b, bs, t, k + 1)
<1> DEFINE x == t[k].index
<1>1. k \in Nat \ {0} /\ x \in Ids BY TraceShape
<1>2. Uses(t, x, k + 1) # {} /\ ~HoldsAt(t, x, k + 1) BY <1>1, UsesStep, HoldsStep
<1>3. \A id \in Ids : id # x =>
        /\ Uses(t, id, k + 1) = Uses(t, id, k) /\ LastUse(t, id, k + 1) = LastUse(t, id, k)
        /\ HoldsAt(t, id, k + 1) <=> HoldsAt(t, id, k)
  BY <1>1, UsesStep, LastUseStep, HoldsStep
<1> HIDE DEF x
<1> QED BY <1>2, <1>3 DEF Kept

-----------------------------------------------------------------------------
(***************************************************************************)
(* The range list.                                                         *)
(***************************************************************************)

LEMMA AddedFirst ==
  ASSUME NEW rs \in Records, NEW lo \in Nat, NEW n \in Nat
  PROVE  LET r2 == add_range(rs, lo, n)
         IN  /\ r2 \in Records
             /\ Len(rs) \in Nat /\ Len(r2) = Len(rs) + 1
             /\ r2[1] = [lo |-> lo, hi |-> lo + n - 1]
             /\ \A k \in 1..Len(rs) : r2[k + 1] = rs[k]
<1> DEFINE R == [lo : Int, hi : Int]
           e == [lo |-> lo, hi |-> lo + n - 1]
           r2 == <<e>> \o rs
<1>1. e \in R /\ rs \in Seq(R) BY DEF Records
<1>2. /\ <<e>> \in Seq(R) /\ Len(<<e>>) = 1 /\ <<e>>[1] = e
      /\ Len(rs) \in Nat
  <2> HIDE DEF e, R
  <2> QED BY <1>1
<1>3. /\ r2 \in Seq(R) /\ Len(r2) = 1 + Len(rs)
      /\ \A k \in 1..(1 + Len(rs)) : r2[k] = IF k <= 1 THEN <<e>>[k] ELSE rs[k - 1]
  <2> HIDE DEF e, R
  <2> QED BY <1>1, <1>2, ConcatProperties
<1>4. r2[1] = e /\ \A k \in 1..Len(rs) : r2[k + 1] = rs[k]
  <2> HIDE DEF e, R, r2
  <2> QED BY <1>2, <1>3
<1>5. r2 \in Records BY <1>3 DEF Records
<1>6. r2 = add_range(rs, lo, n) BY DEF add_range
<1>7. Len(r2) = Len(rs) + 1
  <2> HIDE DEF e, R, r2
  <2> QED BY <1>2, <1>3
<1> HIDE DEF e, r2
<1>8. r2[1] = [lo |-> lo, hi |-> lo + n - 1] BY <1>4 DEF e
<1> QED BY <1>2, <1>4, <1>5, <1>6, <1>7, <1>8, Zenon

LEMMA RemovedAt ==
  ASSUME NEW rs \in Records, NEW j \in 1..Len(rs)
  PROVE  LET r2 == RemoveAt(rs, j)
         IN  /\ r2 \in Records
             /\ Len(rs) \in Nat /\ Len(r2) = Len(rs) - 1
             /\ \A k \in 1..(Len(rs) - 1) : r2[k] = IF k < j THEN rs[k] ELSE rs[k + 1]
<1> DEFINE R == [lo : Int, hi : Int]
           n == Len(rs)
           s1 == SubSeq(rs, 1, j - 1)
           s2 == SubSeq(rs, j + 1, n)
           r2 == s1 \o s2
<1>1. n \in Nat /\ rs \in Seq(R) /\ \A k \in 1..n : rs[k] \in R
  <2> HIDE DEF R
  <2>1. rs \in Seq(R) BY DEF Records, R
  <2> QED BY <2>1, LenProperties, ElementOfSeq
<1> HIDE DEF R
<1>2. /\ s1 \in Seq(R) /\ Len(s1) = j - 1
      /\ \A k \in 1..(j - 1) : s1[k] = rs[k]
  <2>1. 1 \in Int /\ j - 1 \in Int /\ \A k \in 1..(j - 1) : rs[k] \in R BY <1>1
  <2>2. /\ s1 \in Seq(R) /\ Len(s1) = IF 1 <= j - 1 THEN (j - 1) - 1 + 1 ELSE 0
        /\ \A k \in 1..((j - 1) - 1 + 1) : s1[k] = rs[1 + k - 1]
    BY <2>1, SubSeqProperties
  <2> HIDE DEF s1, n
  <2> QED BY <1>1, <2>2 DEF n
<1>3. /\ s2 \in Seq(R) /\ Len(s2) = n - j
      /\ \A k \in 1..(n - j) : s2[k] = rs[j + k]
  <2>1. j + 1 \in Int /\ n \in Int /\ \A k \in (j + 1)..n : rs[k] \in R BY <1>1
  <2>2. /\ s2 \in Seq(R) /\ Len(s2) = IF j + 1 <= n THEN n - (j + 1) + 1 ELSE 0
        /\ \A k \in 1..(n - (j + 1) + 1) : s2[k] = rs[(j + 1) + k - 1]
    BY <2>1, SubSeqProperties
  <2>3. n \in Nat /\ j \in 1..n BY <1>1
  <2> HIDE DEF s2, n
  <2>4. Len(s2) = n - j BY <2>2, <2>3
  <2>5. ASSUME NEW k \in 1..(n - j) PROVE s2[k] = rs[j + k]
    <3>1. k \in 1..(n - (j + 1) + 1) /\ (j + 1) + k - 1 = j + k BY <2>3
    <3> QED BY <3>1, <2>2
  <2> QED BY <2>2, <2>4, <2>5
<1> HIDE DEF s1, s2
<1>4. /\ r2 \in Seq(R) /\ Len(r2) = (j - 1) + (n - j)
      /\ \A k \in 1..((j - 1) + (n - j)) : r2[k] = IF k <= j - 1 THEN s1[k] ELSE s2[k - (j - 1)]
  <2>1. /\ r2 \in Seq(R) /\ Len(r2) = Len(s1) + Len(s2)
        /\ \A k \in 1..(Len(s1) + Len(s2)) : r2[k] = IF k <= Len(s1) THEN s1[k] ELSE s2[k - Len(s1)]
    BY <1>2, <1>3, ConcatProperties
  <2> HIDE DEF r2
  <2> QED BY <2>1, <1>2, <1>3
<1> HIDE DEF r2
<1>5. ASSUME NEW k \in 1..(n - 1) PROVE r2[k] = IF k < j THEN rs[k] ELSE rs[k + 1]
  <2>1. CASE k < j BY <2>1, <1>1, <1>2, <1>4, SMTT(30) DEF n
  <2>2. CASE ~(k < j)
    <3>1. k - (j - 1) \in 1..(n - j) /\ j + (k - (j - 1)) = k + 1 BY <2>2, <1>1 DEF n
    <3>2. r2[k] = s2[k - (j - 1)] BY <2>2, <1>1, <1>4 DEF n
    <3> QED BY <3>1, <3>2, <2>2, <1>3
  <2> QED BY <2>1, <2>2
<1>6. r2 = RemoveAt(rs, j) BY DEF r2, s1, s2, n, RemoveAt
<1> QED BY <1>1, <1>4, <1>5, <1>6 DEF Records, R, n

LEMMA RemovesFirst ==
  ASSUME NEW rs \in Records, NEW lo, NEW j \in 1..Len(rs), rs[j].lo = lo,
         \A k \in 1..Len(rs) : k < j => rs[k].lo # lo
  PROVE  remove_range(rs, lo) = RemoveAt(rs, j)
<1> DEFINE I == {k \in 1..Len(rs) : rs[k].lo = lo}
<1>1. Len(rs) \in Nat BY LenProperties DEF Records
<1>2. j \in I /\ \A k \in I : j <= k /\ k \in Nat BY <1>1
<1>3. Min(I) = j
  <2> HIDE DEF I
  <2>1. Min(I) \in I /\ \A y \in I : Min(I) <= y BY <1>2, Zenon DEF Min
  <2>2. Min(I) \in Nat /\ j <= Min(I) BY <1>2, <2>1
  <2>3. Min(I) <= j BY <1>2, <2>1
  <2> QED BY <2>2, <2>3
<1> QED BY <1>2, <1>3 DEF remove_range, RemoveFirstMatch, SelectInSeq

LEMMA RemovesNothing ==
  ASSUME NEW rs \in Records, NEW lo, \A k \in 1..Len(rs) : rs[k].lo # lo
  PROVE  remove_range(rs, lo) = rs
BY DEF remove_range, RemoveFirstMatch, SelectInSeq

LEMMA OwnersWithout ==
  ASSUME NEW n \in Nat, NEW H, NEW own, Owners(own, n, H), NEW j \in 1..n
  PROVE  Owners([k \in 1..(n - 1) |-> IF k < j THEN own[k] ELSE own[k + 1]], n - 1, H \ {own[j]})
<1> DEFINE at(k) == IF k < j THEN k ELSE k + 1
           own2 == [k \in 1..(n - 1) |-> IF k < j THEN own[k] ELSE own[k + 1]]
<1>1. \A k \in 1..(n - 1) : at(k) \in 1..n /\ at(k) # j /\ own2[k] = own[at(k)] OBVIOUS
<1>2. \A k, l \in 1..(n - 1) : at(k) = at(l) => k = l OBVIOUS
<1>3. \A l \in 1..n : l # j => \E k \in 1..(n - 1) : at(k) = l
  <2> SUFFICES ASSUME NEW l \in 1..n, l # j PROVE \E k \in 1..(n - 1) : at(k) = l OBVIOUS
  <2>1. CASE l < j
    <3>1. l \in 1..(n - 1) /\ at(l) = l BY <2>1
    <3> QED BY <3>1
  <2>2. CASE l > j
    <3>1. l - 1 \in 1..(n - 1) /\ at(l - 1) = l BY <2>2
    <3> QED BY <3>1
  <2> QED BY <2>1, <2>2
<1>4. DOMAIN own2 = 1..(n - 1) /\ own2 = [k \in 1..(n - 1) |-> own2[k]] OBVIOUS
<1> HIDE DEF at, own2
<1>5. \A k \in 1..(n - 1) : own2[k] \in H \ {own[j]} BY <1>1 DEF Owners
<1>6. own2 \in [1..(n - 1) -> H \ {own[j]}] BY <1>4, <1>5
<1>7. \A k, l \in 1..(n - 1) : own2[k] = own2[l] => k = l BY <1>1, <1>2 DEF Owners
<1>8. ASSUME NEW id \in H \ {own[j]} PROVE \E k \in 1..(n - 1) : own2[k] = id
  <2>1. PICK l \in 1..n : own[l] = id BY DEF Owners
  <2>2. PICK k \in 1..(n - 1) : at(k) = l BY <2>1, <1>3
  <2> QED BY <2>1, <2>2, <1>1
<1> QED BY <1>6, <1>7, <1>8 DEF Owners, own2

LEMMA OwnersWith ==
  ASSUME NEW n \in Nat, NEW H, NEW own, Owners(own, n, H), NEW id, id \notin H
  PROVE  Owners([k \in 1..(n + 1) |-> IF k = 1 THEN id ELSE own[k - 1]], n + 1, H \cup {id})
<1> DEFINE own2 == [k \in 1..(n + 1) |-> IF k = 1 THEN id ELSE own[k - 1]]
<1>1. /\ own2[1] = id
      /\ \A k \in 1..(n + 1) : k # 1 => k - 1 \in 1..n /\ own2[k] = own[k - 1]
  OBVIOUS
<1>2. \A k \in 1..n : k + 1 \in 1..(n + 1) /\ own2[k + 1] = own[k] OBVIOUS
<1>3. own2 = [k \in 1..(n + 1) |-> own2[k]] OBVIOUS
<1> HIDE DEF own2
<1>4. \A k \in 1..n : own[k] \in H BY DEF Owners
<1>5. own2 \in [1..(n + 1) -> H \cup {id}] BY <1>1, <1>3, <1>4
<1>6. \A k, l \in 1..(n + 1) : own2[k] = own2[l] => k = l
  <2> SUFFICES ASSUME NEW k \in 1..(n + 1), NEW l \in 1..(n + 1), own2[k] = own2[l]
               PROVE  k = l
    OBVIOUS
  <2>1. CASE k # 1 /\ l # 1
    <3>1. k - 1 = l - 1 BY <2>1, <1>1 DEF Owners
    <3> QED BY <3>1
  <2> QED BY <2>1, <1>1, <1>4
<1>7. ASSUME NEW x \in H \cup {id} PROVE \E k \in 1..(n + 1) : own2[k] = x
  <2>1. CASE x = id
    <3>1. 1 \in 1..(n + 1) OBVIOUS
    <3> QED BY <2>1, <3>1, <1>1
  <2>2. CASE x \in H
    <3>1. PICK k \in 1..n : own[k] = x BY <2>2 DEF Owners
    <3> QED BY <3>1, <1>2
  <2> QED BY <2>1, <2>2
<1> QED BY <1>5, <1>6, <1>7 DEF Owners, own2

\* The record of a block of some bytes is the first with its low end: any newer one
\* would have failed add_range's test.
LEMMA RemoveOwned ==
  ASSUME NEW rs, NEW brk, NEW b \in [Ids -> Nat], NEW bs \in [Ids -> Nat], NEW H \in SUBSET Ids,
         ListOK(rs, brk, b, bs, H), NEW id \in H, bs[id] > 0
  PROVE  ListOK(remove_range(rs, b[id]), brk, b, bs, H \ {id})
<1> DEFINE n == Len(rs)
           rest == remove_range(rs, b[id])
<1>1. rs \in Records /\ n \in Nat BY LenProperties DEF ListOK, Records
<1>2. PICK own : Owners(own, n, H) /\ \A k \in 1..n : rs[k] = Record(b, bs, own[k])
  BY DEF ListOK, Owned
<1>3. PICK j \in 1..n : own[j] = id BY <1>2 DEF Owners
<1>4. rs[j].lo = b[id] /\ rs[j].hi = b[id] + bs[id] - 1
  <2>1. rs[j] = Record(b, bs, id) BY <1>2, <1>3
  <2> QED BY <2>1 DEF Record
<1>5. ASSUME NEW k \in 1..n, k < j PROVE rs[k].lo # b[id]
  <2>1. ~Overlaps(rs[k].lo, rs[k].hi, rs[j]) BY <1>5 DEF ListOK, Tested
  <2>2. b[id] \in Nat /\ bs[id] \in Nat OBVIOUS
  <2> QED BY <2>1, <2>2, <1>4 DEF Overlaps
<1>6. rest = RemoveAt(rs, j) BY <1>1, <1>3, <1>4, <1>5, RemovesFirst
<1>7. /\ rest \in Records /\ Len(rest) = n - 1
      /\ \A k \in 1..(n - 1) : rest[k] = IF k < j THEN rs[k] ELSE rs[k + 1]
  BY <1>1, <1>6, RemovedAt
<1> DEFINE at(k) == IF k < j THEN k ELSE k + 1
<1>8. /\ \A k \in 1..(n - 1) : at(k) \in 1..n /\ rest[k] = rs[at(k)]
      /\ \A k, l \in 1..(n - 1) : k < l => at(k) < at(l)
  <2> HIDE DEF rest, n
  <2> QED BY <1>1, <1>7
<1> HIDE DEF rest, n, at
<1>9. Tested(rest)
  <2>1. \A k, l \in 1..n : k < l => ~Overlaps(rs[k].lo, rs[k].hi, rs[l]) BY DEF ListOK, Tested, n
  <2> QED BY <2>1, <1>7, <1>8 DEF Tested
<1>10. Placed(rest, brk)
  <2>1. \A k \in 1..n : rs[k].lo % ALIGNMENT = 0 /\ Within(brk, rs[k].lo, rs[k].hi)
    BY DEF ListOK, Placed, n
  <2> QED BY <2>1, <1>7, <1>8 DEF Placed
<1>11. Owned(rest, b, bs, H \ {id})
  <2> DEFINE own2 == [k \in 1..(n - 1) |-> IF k < j THEN own[k] ELSE own[k + 1]]
  <2>1. Owners(own2, n - 1, H \ {id}) BY <1>1, <1>2, <1>3, OwnersWithout
  <2>2. \A k \in 1..(n - 1) : own2[k] = own[at(k)] BY DEF at
  <2> HIDE DEF own2
  <2>3. \A k \in 1..(n - 1) : rest[k] = Record(b, bs, own2[k]) BY <2>2, <1>2, <1>8
  <2> QED BY <2>1, <2>3, <1>7 DEF Owned
<1> QED BY <1>7, <1>9, <1>10, <1>11 DEF ListOK, rest

LEMMA RemoveNull ==
  ASSUME NEW rs, NEW brk, NEW b, NEW bs, NEW H, ListOK(rs, brk, b, bs, H)
  PROVE  remove_range(rs, NULL) = rs
<1>1. \A k \in 1..Len(rs) : rs[k].lo # NULL
  BY RegionAssumption DEF ListOK, Placed, Within, NULL
<1> QED BY <1>1, RemovesNothing DEF ListOK

LEMMA AddOwned ==
  ASSUME NEW rs, NEW brk \in Nat, NEW b \in [Ids -> Nat], NEW bs \in [Ids -> Nat],
         NEW H \in SUBSET Ids, ListOK(rs, brk, b, bs, H), NEW id \in Ids \ H,
         NEW brk2 \in Nat, brk2 >= brk, NEW ptr \in Nat, NEW n \in Nat,
         add_range_ok(rs, brk2, ptr, n)
  PROVE  ListOK(add_range(rs, ptr, n), brk2, [b EXCEPT ![id] = ptr], [bs EXCEPT ![id] = n], H \cup {id})
<1> DEFINE len == Len(rs)
           r2 == add_range(rs, ptr, n)
           b2 == [b EXCEPT ![id] = ptr]
           bs2 == [bs EXCEPT ![id] = n]
           e == [lo |-> ptr, hi |-> ptr + n - 1]
<1>1. rs \in Records /\ len \in Nat BY LenProperties DEF ListOK, Records
<1>2. /\ r2 \in Records /\ Len(r2) = len + 1 /\ r2[1] = e
      /\ \A k \in 1..len : r2[k + 1] = rs[k]
  <2>1. r2 \in Records /\ Len(r2) = Len(rs) + 1 BY <1>1, AddedFirst
  <2>2. r2[1] = e BY <1>1, AddedFirst
  <2>3. \A k \in 1..len : r2[k + 1] = rs[k] BY <1>1, AddedFirst, ZenonT(30)
  <2> QED BY <2>1, <2>2, <2>3
<1>3. /\ e.lo = ptr /\ e.hi = ptr + n - 1
      /\ Record(b2, bs2, id) = e
      /\ \A x \in H : Record(b2, bs2, x) = Record(b, bs, x)
  BY DEF Record
<1> HIDE DEF len, r2, b2, bs2, e
<1>4. \A k \in 1..(len + 1) : k # 1 => k - 1 \in 1..len /\ r2[k] = rs[k - 1]
  <2> SUFFICES ASSUME NEW k \in 1..(len + 1), k # 1 PROVE k - 1 \in 1..len /\ r2[k] = rs[k - 1]
    OBVIOUS
  <2>1. k - 1 \in 1..len /\ (k - 1) + 1 = k BY <1>1
  <2> QED BY <2>1, <1>2
<1>5. Tested(r2)
  <2> SUFFICES ASSUME NEW k \in 1..(len + 1), NEW l \in 1..(len + 1), k < l
               PROVE  ~Overlaps(r2[k].lo, r2[k].hi, r2[l])
    BY <1>2 DEF Tested
  <2>1. l - 1 \in 1..len /\ r2[l] = rs[l - 1] BY <1>1, <1>4
  <2>2. CASE k = 1 BY <2>1, <2>2, <1>2, <1>3 DEF add_range_ok, len
  <2>3. CASE k # 1
    <3>1. k - 1 \in 1..len /\ r2[k] = rs[k - 1] /\ k - 1 < l - 1 BY <2>3, <1>1, <1>4
    <3> QED BY <3>1, <2>1 DEF ListOK, Tested, len
  <2> QED BY <2>2, <2>3
<1>6. Placed(r2, brk2)
  <2> SUFFICES ASSUME NEW k \in 1..(len + 1)
               PROVE  r2[k].lo % ALIGNMENT = 0 /\ Within(brk2, r2[k].lo, r2[k].hi)
    BY <1>2 DEF Placed
  <2>1. CASE k = 1 BY <2>1, <1>2, <1>3 DEF add_range_ok
  <2>2. CASE k # 1
    <3>1. k - 1 \in 1..len /\ r2[k] = rs[k - 1] BY <2>2, <1>4
    <3>2. r2[k].lo % ALIGNMENT = 0 /\ Within(brk, r2[k].lo, r2[k].hi)
      BY <3>1 DEF ListOK, Placed, len
    <3>3. r2[k].lo \in Int /\ r2[k].hi \in Int
      <4>1. r2[k] \in [lo : Int, hi : Int] BY <1>2, ElementOfSeq DEF Records
      <4> QED BY <4>1
    <3> QED BY <3>2, <3>3 DEF Within
  <2> QED BY <2>1, <2>2
<1>7. Owned(r2, b2, bs2, H \cup {id})
  <2>1. PICK own : Owners(own, len, H) /\ \A k \in 1..len : rs[k] = Record(b, bs, own[k])
    BY DEF ListOK, Owned, len
  <2> DEFINE own2 == [k \in 1..(len + 1) |-> IF k = 1 THEN id ELSE own[k - 1]]
  <2>2. Owners(own2, len + 1, H \cup {id}) BY <2>1, <1>1, OwnersWith
  <2>3. own2[1] = id /\ \A k \in 1..(len + 1) : k # 1 => own2[k] = own[k - 1] BY <1>1
  <2>4. \A k \in 1..len : own[k] \in H BY <2>1 DEF Owners
  <2> HIDE DEF own2
  <2>5. ASSUME NEW k \in 1..(len + 1) PROVE r2[k] = Record(b2, bs2, own2[k])
    <3>1. CASE k = 1 BY <3>1, <2>3, <1>2, <1>3
    <3>2. CASE k # 1
      <4>1. k - 1 \in 1..len /\ r2[k] = rs[k - 1] BY <3>2, <1>4
      <4>2. rs[k - 1] = Record(b, bs, own[k - 1]) /\ own[k - 1] \in H BY <4>1, <2>1, <2>4
      <4> QED BY <4>1, <4>2, <3>2, <2>3, <1>3
    <3> QED BY <3>1, <3>2
  <2> QED BY <2>2, <2>5, <1>2 DEF Owned
<1> QED BY <1>2, <1>5, <1>6, <1>7 DEF ListOK, r2, b2, bs2

LEMMA ListIsExact ==
  ASSUME NEW rs, NEW brk, NEW b, NEW bs, NEW H, ListOK(rs, brk, b, bs, H)
  PROVE  /\ {rs[k] : k \in 1..Len(rs)} = {Record(b, bs, id) : id \in H}
         /\ Len(rs) = Cardinality(H)
<1>1. Len(rs) \in Nat BY LenProperties DEF ListOK, Records
<1>2. PICK own : Owners(own, Len(rs), H) /\ \A k \in 1..Len(rs) : rs[k] = Record(b, bs, own[k])
  BY DEF ListOK, Owned
<1>3. \A k \in 1..Len(rs) : own[k] \in H BY <1>2 DEF Owners
<1>4. {rs[k] : k \in 1..Len(rs)} \subseteq {Record(b, bs, id) : id \in H} BY <1>2, <1>3
<1>5. ASSUME NEW id \in H PROVE Record(b, bs, id) \in {rs[k] : k \in 1..Len(rs)}
  <2>1. PICK k \in 1..Len(rs) : own[k] = id BY <1>2 DEF Owners
  <2> QED BY <2>1, <1>2
<1>6. own \in Bijection(1..Len(rs), H)
  BY <1>2 DEF Owners, Bijection, Injection, Surjection, IsInjective
<1>7. ExistsBijection(1..Len(rs), H) BY <1>6 DEF ExistsBijection
<1>8. Cardinality(H) = Len(rs) BY <1>1, <1>7, FS_CountingElements
<1> QED BY <1>4, <1>5, <1>8

\* Neither end of the newer payload lies in the older one, so that a shared byte
\* leaves the newer one no choice but to begin before and to end after it.
LEMMA OnlyEnclosing ==
  ASSUME NEW rs, NEW brk \in Nat, NEW b, NEW bs, NEW H, ListOK(rs, brk, b, bs, H)
  PROVE  /\ \A k \in 1..Len(rs) : rs[k].lo..rs[k].hi \subseteq mem_start_brk..(brk - 1)
         /\ \A k, l \in 1..Len(rs) :
              (k < l /\ (rs[k].lo..rs[k].hi) \cap (rs[l].lo..rs[l].hi) # {})
                => rs[k].lo < rs[l].lo /\ rs[l].hi < rs[k].hi
<1>1. \A k \in 1..Len(rs) : rs[k].lo \in Int /\ rs[k].hi \in Int
  <2>1. \A k \in 1..Len(rs) : rs[k] \in [lo : Int, hi : Int]
    BY ElementOfSeq DEF ListOK, Records
  <2> QED BY <2>1
<1>2. ASSUME NEW k \in 1..Len(rs) PROVE rs[k].lo..rs[k].hi \subseteq mem_start_brk..(brk - 1)
  <2>1. Within(brk, rs[k].lo, rs[k].hi) BY DEF ListOK, Placed
  <2> QED BY <2>1, <1>1, RegionAssumption DEF Within
<1>3. ASSUME NEW k \in 1..Len(rs), NEW l \in 1..Len(rs), k < l,
             (rs[k].lo..rs[k].hi) \cap (rs[l].lo..rs[l].hi) # {}
      PROVE  rs[k].lo < rs[l].lo /\ rs[l].hi < rs[k].hi
  <2>1. PICK x \in Int : /\ rs[k].lo <= x /\ x <= rs[k].hi
                         /\ rs[l].lo <= x /\ x <= rs[l].hi
    BY <1>1, <1>3
  <2>2. ~Overlaps(rs[k].lo, rs[k].hi, rs[l]) BY <1>3 DEF ListOK, Tested
  <2> QED BY <2>1, <2>2, <1>1 DEF Overlaps
<1> QED BY <1>2, <1>3

-----------------------------------------------------------------------------
(***************************************************************************)
(* Memory.                                                                 *)
(***************************************************************************)

MemOK(m) == m \in [Addr -> {0, Tag} \cup Ids] /\ m[mem_start_brk - 4] = 0

LEMMA Region ==
  /\ mem_start_brk \in Nat /\ mem_max_addr \in Nat /\ MAX_HEAP \in Nat
  /\ mem_max_addr = mem_start_brk + MAX_HEAP
  /\ mem_start_brk \in Addr /\ mem_start_brk - 4 \in Addr
  /\ mem_start_brk <= mem_max_addr
  /\ \A a \in Addr : /\ a \in Nat /\ a >= mem_start_brk - 4
                     /\ a # mem_start_brk - 4 => a >= mem_start_brk
                     /\ a < mem_max_addr
  /\ \A brk \in Breaks : brk \in mem_start_brk..mem_max_addr /\ brk \in Nat
<1>1. MAX_HEAP \in Nat /\ MAX_HEAP > 0 /\ MAX_HEAP % 8 = 0 BY RegionAssumption, DriverAssumption
<1>2. mem_start_brk \in Nat /\ mem_start_brk % 8 = 0 /\ mem_start_brk >= 8 BY RegionAssumption
<1>3. MAX_HEAP >= 8 BY <1>1
<1> QED BY <1>1, <1>2, <1>3, DriverAssumption DEF mem_max_addr, Addr

LEMMA InitWrites ==
  ASSUME NEW m, MemOK(m)
  PROVE  MemOK(SET(m, mem_start_brk, Tag))
<1>1. DOMAIN m \cup {mem_start_brk} = Addr BY Region DEF MemOK
<1> QED BY <1>1, Region DEF MemOK, SET

LEMMA FillWrites ==
  ASSUME NEW m, MemOK(m), NEW lo \in Nat, lo >= mem_start_brk, NEW id \in Ids, NEW n \in Nat
  PROVE  MemOK(memset(m, lo, id, n))
<1>1. mem_start_brk - 4 < lo BY Region
<1> QED BY <1>1, Region DEF MemOK, memset

LEMMA CopyWrites ==
  ASSUME NEW m, MemOK(m), NEW dst \in Nat, NEW src \in Nat, NEW n \in Nat,
         dst >= mem_start_brk, dst % 8 = 0, src >= mem_start_brk, src % 8 = 0,
         src + n <= mem_max_addr
  PROVE  MemOK(memcpy(m, dst, src, n))
<1>1. MAX_HEAP % 8 = 0 /\ mem_start_brk % 8 = 0 BY RegionAssumption
<1>2. ASSUME NEW a \in Addr, dst <= a, a < dst + n PROVE a - dst + src \in Addr
  <2>1. a \in Nat /\ a % 4 = 0 BY Region DEF Addr
  <2>2. (a - dst + src) % 4 = 0 BY <2>1
  <2>3. a - dst + src >= mem_start_brk - 4 BY <1>2, <2>1, Region
  <2>4. a - dst + src < mem_max_addr BY <1>2, <2>1, Region
  <2>5. mem_max_addr % 4 = 0 BY <1>1, Region
  <2>6. a - dst + src <= mem_max_addr - 4 BY <2>1, <2>2, <2>4, <2>5, Region
  <2> QED BY <2>1, <2>2, <2>3, <2>6, Region DEF Addr
<1>3. mem_start_brk - 4 < dst BY Region
<1> QED BY <1>2, <1>3, Region DEF MemOK, memcpy

LEMMA ClearZeroes ==
  ASSUME NEW m, MemOK(m)
  PROVE  Zeroed(m) = [a \in Addr |-> 0] /\ MemOK(Zeroed(m))
<1>1. DOMAIN m = Addr BY DEF MemOK
<1>2. \A a \in Addr : a # mem_start_brk - 4 => mem_start_brk <= a /\ a < mem_start_brk + MAX_HEAP
  BY Region
<1>3. Zeroed(m) = [a \in Addr |-> 0] BY <1>1, <1>2 DEF Zeroed, memset, MemOK
<1> QED BY <1>3, Region DEF MemOK

-----------------------------------------------------------------------------
(***************************************************************************)
(* The bytes a trace holds.                                                *)
(***************************************************************************)

LEMMA BytesOfBlock ==
  ASSUME NEW id, NEW n \in Nat
  PROVE  IsFiniteSet({id} \X (1..n)) /\ Cardinality({id} \X (1..n)) = n
<1>1. IsFiniteSet({id}) /\ Cardinality({id}) = 1 BY FS_Singleton
<1>2. IsFiniteSet(1..n) /\ Cardinality(1..n) = n
  <2>1. 1 \in Int /\ n \in Int OBVIOUS
  <2>2. IsFiniteSet(1..n) /\ Cardinality(1..n) = IF 1 > n THEN 0 ELSE n - 1 + 1 BY <2>1, FS_Interval
  <2> QED BY <2>2
<1>3. /\ IsFiniteSet({id} \X (1..n))
      /\ Cardinality({id} \X (1..n)) = Cardinality({id}) * Cardinality(1..n)
  BY <1>1, <1>2, FS_Product, Zenon
<1>4. 1 * n = n OBVIOUS
<1> QED BY <1>1, <1>2, <1>3, <1>4, Zenon

LEMMA JoinBytes ==
  ASSUME NEW S, IsFiniteSet(S), NEW id, NEW n \in Nat, S \cap ({id} \X (1..n)) = {}
  PROVE  /\ IsFiniteSet(S \cup ({id} \X (1..n)))
         /\ Cardinality(S) \in Nat
         /\ Cardinality(S \cup ({id} \X (1..n))) = Cardinality(S) + n
<1> DEFINE B == {id} \X (1..n)
<1>1. IsFiniteSet(B) /\ Cardinality(B) = n BY BytesOfBlock
<1>2. S \cap B = {} OBVIOUS
<1> HIDE DEF B
<1>3. /\ IsFiniteSet(S \cup B)
      /\ Cardinality(S \cup B) = Cardinality(S) + Cardinality(B) - Cardinality(S \cap B)
  BY <1>1, FS_Union, Zenon
<1>4. Cardinality(S) \in Nat /\ Cardinality({}) = 0 BY FS_CardinalityType, FS_EmptySet
<1>5. Cardinality(S \cap B) = 0 BY <1>2, <1>4, Zenon
<1>6. IsFiniteSet(S \cup B) /\ Cardinality(S) \in Nat /\ Cardinality(S \cup B) = Cardinality(S) + n
  BY <1>1, <1>3, <1>4, <1>5
<1> QED BY <1>6 DEF B

\* What a request adds to the bytes held, and takes from them.
LEMMA BytesStep ==
  ASSUME NEW t \in Traces, NEW k \in 1..Len(t), IsFiniteSet(BytesAt(t, k)), NEW old \in Nat,
         t[k].index \in HeldAt(t, k) => LastUse(t, t[k].index, k).size = old,
         t[k].index \notin HeldAt(t, k) => old = 0
  PROVE  /\ IsFiniteSet(BytesAt(t, k + 1))
         /\ Cardinality(BytesAt(t, k)) \in Nat /\ Cardinality(BytesAt(t, k + 1)) \in Nat
         /\ Cardinality(BytesAt(t, k + 1))
              = Cardinality(BytesAt(t, k)) - old + (IF t[k].type = "FREE" THEN 0 ELSE t[k].size)
<1> DEFINE x == t[k].index
           new == IF t[k].type = "FREE" THEN 0 ELSE t[k].size
           part(id) == {id} \X (1..LastUse(t, id, k).size)
           O == UNION {part(id) : id \in HeldAt(t, k) \ {x}}
<1>1. k \in Nat \ {0} /\ x \in Ids /\ new \in Nat BY TraceShape
<1>2. HeldAt(t, k + 1) \ {x} = HeldAt(t, k) \ {x}
  BY <1>1, HeldStep, ZenonT(30)
<1>3. x \in HeldAt(t, k + 1) <=> t[k].type # "FREE" BY <1>1, HeldStep, ZenonT(30)
<1>4. \A id \in HeldAt(t, k) \ {x} : LastUse(t, id, k + 1) = LastUse(t, id, k)
  BY <1>1, LastUseStep
<1>5. BytesAt(t, k) = O \cup (IF x \in HeldAt(t, k) THEN part(x) ELSE {})
  BY DEF BytesAt
<1>6. {x} \X (1..0) = {} OBVIOUS
<1>7. BytesAt(t, k) = O \cup ({x} \X (1..old)) BY <1>5, <1>6
<1>8. BytesAt(t, k + 1) = O \cup ({x} \X (1..new))
  <2>1. O = UNION {{id} \X (1..LastUse(t, id, k + 1).size) : id \in HeldAt(t, k + 1) \ {x}}
    BY <1>2, <1>4
  <2>2. CASE t[k].type = "FREE"
    <3>1. BytesAt(t, k + 1) = O BY <2>1, <2>2, <1>3 DEF BytesAt
    <3> QED BY <3>1, <2>2, <1>6
  <2>3. CASE t[k].type # "FREE"
    <3>1. LastUse(t, x, k + 1) = t[k] BY <1>1, LastUseStep
    <3> QED BY <3>1, <2>1, <2>3, <1>3 DEF BytesAt
  <2> QED BY <2>2, <2>3
<1>9. \A n : O \cap ({x} \X (1..n)) = {} OBVIOUS
<1>10. IsFiniteSet(O)
  <2>1. O \in SUBSET BytesAt(t, k) BY <1>7
  <2> QED BY <2>1, FS_Subset
<1> HIDE DEF x, new, part, O
<1>11. Cardinality(O) \in Nat /\ Cardinality(BytesAt(t, k)) = Cardinality(O) + old
  <2>1. O \cap ({x} \X (1..old)) = {} BY <1>9, Zenon
  <2>2. Cardinality(O) \in Nat /\ Cardinality(O \cup ({x} \X (1..old))) = Cardinality(O) + old
    BY <2>1, <1>10, JoinBytes, Zenon
  <2> QED BY <2>2, <1>7, Zenon
<1>12. IsFiniteSet(BytesAt(t, k + 1)) /\ Cardinality(BytesAt(t, k + 1)) = Cardinality(O) + new
  <2>1. O \cap ({x} \X (1..new)) = {} BY <1>9, Zenon
  <2>2. /\ IsFiniteSet(O \cup ({x} \X (1..new)))
        /\ Cardinality(O \cup ({x} \X (1..new))) = Cardinality(O) + new
    BY <2>1, <1>1, <1>10, JoinBytes, Zenon
  <2> QED BY <2>2, <1>8, Zenon
<1> QED BY <1>1, <1>11, <1>12 DEF new

-----------------------------------------------------------------------------
(***************************************************************************)
(* The steps.                                                              *)
(***************************************************************************)

\* What i and the request at hand are, while there is a trace.
LEMMA AtRequest ==
  ASSUME Control, phase \in WithTrace
  PROVE  /\ trace \in Traces /\ Len(trace) \in Nat /\ i \in Nat \ {0}
         /\ Len(trace) <= MaxOps
         /\ More => /\ i \in 1..Len(trace) /\ index \in Ids /\ size \in Nat
                    /\ type \in {"ALLOC", "REALLOC", "FREE"}
<1>1. trace \in Traces BY DEF Control
<1>2. Len(trace) \in 1..MaxOps BY <1>1, TraceShape
<1>3. Len(trace) \in Nat /\ Len(trace) <= MaxOps BY <1>2, DriverAssumption
<1>4. i \in Nat \ {0} BY <1>3 DEF Control
<1>5. ASSUME More PROVE i \in 1..Len(trace) BY <1>3, <1>4, <1>5 DEF More
<1> QED BY <1>1, <1>3, <1>4, <1>5, TraceShape DEF index, size, type

LEMMA Initially == Init => IInv
<1> SUFFICES ASSUME Init PROVE IInv OBVIOUS
<1>1. Control
  <2>1. Len(<<>>) = 0 OBVIOUS
  <2>2. phase \in {"libc_read", "read"} BY DEF Init
  <2> QED BY <2>1, <2>2, DriverAssumption DEF Init, Control, Phases, WithTrace
<1>2. Memory BY Region DEF Init, mem_init, Memory
<1>3. phase \in {"libc_read", "read"} BY DEF Init
<1>4. Held BY <1>3 DEF Init, Held, NULL
<1>5. Listed /\ Measured /\ RunsStartClean BY <1>3 DEF Init, Listed, Measured, RunsStartClean
<1>6. Judged
  <2>1. valid \in Seq(BOOLEAN) /\ Len(valid) = 0 /\ errors = 0 BY DEF Init
  <2>2. Invalid(valid) = {} BY <2>1 DEF Invalid
  <2>3. Cardinality({}) = 0 BY FS_EmptySet
  <2> QED BY <1>3, <2>1, <2>2, <2>3 DEF Judged
<1> QED BY <1>1, <1>2, <1>4, <1>5, <1>6 DEF IInv

LEMMA StepReadTrace == IInv /\ read_trace => IInv'
<1> SUFFICES ASSUME IInv, read_trace PROVE IInv' OBVIOUS
<1>1. /\ phase \in {"read", "libc_read"} /\ phase' \in {"start_valid", "libc_valid"}
      /\ trace' \in Traces /\ i = 1 /\ i' = 1 /\ runs \in 0..Runs /\ runs' = runs
  BY DEF IInv, Control, read_trace
<1>2. Len(trace') \in Nat BY <1>1, TraceShape, DriverAssumption
<1>3. Control' BY <1>1, <1>2 DEF Control, Phases, WithTrace
<1>4. Memory' BY DEF IInv, Memory, read_trace, memVars
<1>5. Held' BY <1>1 DEF read_trace, Held, NULL
<1>6. Listed' /\ Measured' /\ RunsStartClean'
  BY <1>1 DEF IInv, read_trace, Listed, Measured, RunsStartClean
<1>7. Judged' BY <1>1 DEF IInv, read_trace, Judged
<1> QED BY <1>3, <1>4, <1>5, <1>6, <1>7 DEF IInv

LEMMA StepFrees == IInv /\ (SpeedFree \/ LibcFree) => IInv'
<1> SUFFICES ASSUME IInv, SpeedFree \/ LibcFree PROVE IInv' OBVIOUS
<1>1. /\ phase \in {"speed", "libc_valid", "libc_speed"} /\ phase' = phase /\ More
      /\ i' = i + 1
      /\ UNCHANGED <<mem, mem_brk, trace, blocks, block_sizes, total_size, max_total_size,
                     runs, valid, errors>>
  BY DEF SpeedFree, LibcFree, memVars, heldVars, libcVars, mmVars
<1>2. Control'
  <2>1. i \in 1..Len(trace) /\ Len(trace) \in Nat BY <1>1, AtRequest DEF IInv, WithTrace
  <2> QED BY <1>1, <2>1 DEF IInv, Control
<1>3. Memory' /\ Held' BY <1>1 DEF IInv, Memory, Held
<1>4. Listed' /\ Measured' /\ RunsStartClean'
  BY <1>1 DEF IInv, Listed, Measured, RunsStartClean
<1>5. Judged' BY <1>1 DEF IInv, Judged
<1> QED BY <1>2, <1>3, <1>4, <1>5 DEF IInv

\* A verdict counts one error or none.
LEMMA Verdict ==
  ASSUME NEW v \in Seq(BOOLEAN), NEW good \in BOOLEAN, NEW n \in Nat,
         n = Cardinality(Invalid(v))
  PROVE  /\ Append(v, good) \in Seq(BOOLEAN)
         /\ Cardinality(Invalid(Append(v, good))) = IF good THEN n ELSE n + 1
<1> DEFINE len == Len(v)
           w == Append(v, good)
           F == {k \in 1..len : ~v[k]}
<1>1. /\ w \in Seq(BOOLEAN) /\ Len(w) = len + 1 /\ len \in Nat
      /\ \A k \in 1..len : w[k] = v[k]
      /\ w[len + 1] = good
  BY AppendProperties, LenProperties
<1>2. IsFiniteSet(F)
  <2>1. 1 \in Int /\ len \in Int BY <1>1
  <2>2. IsFiniteSet(1..len) BY <2>1, FS_Interval
  <2>3. F \in SUBSET (1..len) OBVIOUS
  <2> QED BY <2>2, <2>3, FS_Subset
<1>3. \A k \in 1..(len + 1) : k \in 1..len \/ k = len + 1 BY <1>1
<1>4. 1..len \subseteq 1..(len + 1) /\ len + 1 \in 1..(len + 1) /\ len + 1 \notin 1..len BY <1>1
<1> HIDE DEF len, w
<1>5. {k \in 1..(len + 1) : ~w[k]} = IF good THEN F ELSE F \cup {len + 1}
  BY <1>1, <1>3, <1>4
<1>6. len + 1 \notin F BY <1>4
<1> HIDE DEF F
<1>7. Cardinality(F \cup {len + 1}) = Cardinality(F) + 1 BY <1>2, <1>6, FS_AddElement, Zenon
<1>8. Cardinality(F) = n BY DEF F, len, Invalid
<1>9. Cardinality({k \in 1..Len(w) : ~w[k]}) = IF good THEN n ELSE n + 1
  <2>1. CASE good BY <2>1, <1>1, <1>5, <1>8
  <2>2. CASE ~good BY <2>2, <1>1, <1>5, <1>7, <1>8
  <2> QED BY <2>1, <2>2
<1> QED BY <1>1, <1>9 DEF w, Invalid

LEMMA StepReject ==
  ASSUME IInv, Reject, phase \in {"start_valid", "valid"}, Memory'
  PROVE  IInv'
<1>1. Control'
  <2>1. Len(<<>>) = 0 OBVIOUS
  <2> QED BY <2>1 DEF IInv, Reject, Control, Phases, WithTrace
<1>2. Held' BY DEF IInv, Reject, Held, heldVars
<1>3. Listed' /\ Measured' /\ RunsStartClean'
  BY DEF IInv, Reject, Listed, Measured, RunsStartClean
<1>4. Judged'
  <2>1. /\ valid \in Seq(BOOLEAN) /\ errors \in Nat
        /\ errors = Cardinality(Invalid(valid))
    BY DEF IInv, Judged
  <2>2. /\ Append(valid, FALSE) \in Seq(BOOLEAN)
        /\ Cardinality(Invalid(Append(valid, FALSE))) = errors + 1
    BY <2>1, Verdict
  <2>3. valid' = Append(valid, FALSE) /\ errors' = errors + 1 /\ phase' = "read" BY DEF Reject
  <2>4. valid' \in Seq(BOOLEAN) /\ errors' = Cardinality(Invalid(valid')) BY <2>2, <2>3, Zenon
  <2>5. errors' \in Nat BY <2>1, <2>3
  <2> QED BY <2>3, <2>4, <2>5 DEF Judged
<1> QED BY <1>1, <1>2, <1>3, <1>4 DEF IInv

LEMMA StepStartValid ==
  ASSUME IInv, NEW initialized \in BOOLEAN, NEW brk \in Breaks, StartValid(initialized, brk)
  PROVE  IInv'
<1>1. CASE ~initialized
  <2>1. Memory' BY <1>1, Region DEF IInv, Memory, StartValid, mem_reset_brk
  <2> QED BY <1>1, <2>1, StepReject DEF StartValid
<1>2. CASE initialized
  <2>1. /\ phase = "start_valid" /\ phase' = "valid" /\ i' = 1 /\ ranges' = <<>>
        /\ mem' = SET(mem, mem_start_brk, Tag) /\ mem_brk' = brk
        /\ UNCHANGED <<trace, blocks, block_sizes, total_size, max_total_size, runs, valid, errors>>
    BY <1>2 DEF StartValid, heldVars
  <2>2. Control'
    <3>1. trace \in Traces /\ Len(trace) \in Nat BY <2>1, AtRequest DEF IInv, WithTrace
    <3> QED BY <2>1, <3>1 DEF IInv, Control, Phases
  <2>3. Memory' BY <2>1, InitWrites, Region DEF IInv, Memory, MemOK
  <2>4. Held'
    <3>1. Kept(blocks, block_sizes, trace, 1)
      BY <2>1, NothingHeldAtFirst DEF IInv, Held, Kept
    <3> QED BY <2>1, <3>1 DEF IInv, Held
  <2>5. Listed'
    <3>1. <<>> \in Records /\ Len(<<>>) = 0 BY DEF Records
    <3>2. Owners(<<>>, 0, {}) BY DEF Owners
    <3>3. ListOK(<<>>, mem_brk', blocks', block_sizes', {})
      BY <3>1, <3>2 DEF ListOK, Tested, Placed, Owned
    <3> QED BY <2>1, <3>3, NothingHeldAtFirst DEF Listed
  <2>6. Measured' /\ RunsStartClean' /\ Judged'
    BY <2>1 DEF IInv, Measured, RunsStartClean, Judged
  <2> QED BY <2>2, <2>3, <2>4, <2>5, <2>6 DEF IInv
<1> QED BY <1>1, <1>2

LEMMA StepAccept ==
  ASSUME IInv, NEW rs, NEW m, NEW ptr \in Nat, Accept(rs, m, ptr), phase = "valid", More,
         type # "FREE", MemOK(m), mem_brk' \in mem_start_brk..mem_max_addr, mem_brk' >= mem_brk,
         add_range_ok(rs, mem_brk', ptr, size),
         ListOK(rs, mem_brk, blocks, block_sizes, HeldAt(trace, i) \ {index})
  PROVE  IInv'
<1>1. /\ trace \in Traces /\ i \in 1..Len(trace) /\ Len(trace) \in Nat /\ i \in Nat \ {0}
      /\ index \in Ids /\ size \in Nat
  BY AtRequest DEF IInv, WithTrace
<1>2. /\ ranges' = add_range(rs, ptr, size) /\ mem' = memset(m, ptr, index, size)
      /\ blocks' = [blocks EXCEPT ![index] = ptr]
      /\ block_sizes' = [block_sizes EXCEPT ![index] = size]
      /\ i' = i + 1 /\ phase' = "valid"
      /\ UNCHANGED <<trace, total_size, max_total_size, runs, valid, errors>>
  BY DEF Accept
<1>3. Control' BY <1>1, <1>2 DEF IInv, Control
<1>4. blocks \in [Ids -> Nat] /\ block_sizes \in [Ids -> Nat] BY DEF IInv, Held
<1>5. Memory'
  <2>1. ptr >= mem_start_brk BY DEF add_range_ok, Within
  <2>2. MemOK(mem') BY <1>1, <1>2, <2>1, FillWrites
  <2> QED BY <2>2 DEF Memory, MemOK
<1>6. Held'
  <2>1. Kept(blocks, block_sizes, trace, i) BY DEF IInv, Held
  <2>2. Kept(blocks', block_sizes', trace, i + 1)
    BY <1>1, <1>2, <1>4, <2>1, KeptAfterRequest DEF index, size, type
  <2> QED BY <1>1, <1>2, <1>4, <2>2 DEF Held
<1>7. Listed'
  <2> DEFINE H == HeldAt(trace, i) \ {index}
  <2>1. H \in SUBSET Ids /\ index \in Ids \ H BY <1>1 DEF HeldAt
  <2>2. mem_brk \in Nat /\ mem_brk' \in Nat BY Region DEF IInv, Memory
  <2>3. H \cup {index} = HeldAt(trace, i + 1) BY <1>1, HeldStep DEF index, type
  <2> HIDE DEF H
  <2>4. ListOK(ranges', mem_brk', blocks', block_sizes', H \cup {index})
    BY <1>1, <1>2, <1>4, <2>1, <2>2, AddOwned DEF H
  <2> QED BY <1>2, <2>3, <2>4 DEF Listed
<1>8. Measured' /\ RunsStartClean' /\ Judged'
  BY <1>2 DEF IInv, Measured, RunsStartClean, Judged
<1> QED BY <1>3, <1>5, <1>6, <1>7, <1>8 DEF IInv

LEMMA StepValidAlloc ==
  ASSUME IInv, NEW ptr \in Ptrs \cup {NULL}, NEW brk \in Breaks, ValidAlloc(ptr, brk)
  PROVE  IInv'
<1>1. /\ phase = "valid" /\ More /\ type = "ALLOC" /\ brk >= mem_brk /\ mem_brk' = brk
      /\ ptr \in Nat /\ mem_brk' \in mem_start_brk..mem_max_addr
  BY Region, DriverAssumption DEF ValidAlloc, NULL
<1>2. CASE ptr # NULL /\ add_range_ok(ranges, brk, ptr, size)
  <2>1. trace \in Traces /\ i \in 1..Len(trace) BY <1>1, AtRequest DEF IInv, WithTrace
  <2>2. index \notin HeldAt(trace, i) BY <1>1, <2>1, LegalAt DEF HeldAt, index, type
  <2>3. HeldAt(trace, i) \ {index} = HeldAt(trace, i) BY <2>2
  <2>4. ListOK(ranges, mem_brk, blocks, block_sizes, HeldAt(trace, i) \ {index})
    BY <1>1, <2>3 DEF IInv, Listed
  <2>5. MemOK(mem) BY DEF IInv, Memory, MemOK
  <2>6. Accept(ranges, mem, ptr) BY <1>2 DEF ValidAlloc
  <2> QED BY <1>1, <1>2, <2>4, <2>5, <2>6, StepAccept
<1>3. CASE ~(ptr # NULL /\ add_range_ok(ranges, brk, ptr, size))
  <2>1. Reject /\ mem' = mem BY <1>3 DEF ValidAlloc
  <2>2. Memory' BY <1>1, <2>1 DEF IInv, Memory
  <2> QED BY <1>1, <2>1, <2>2, StepReject
<1> QED BY <1>2, <1>3

\* After remove_range the list has the blocks of the other ids.
LEMMA OldRangeRemoved ==
  ASSUME IInv, phase = "valid", More, type \in {"REALLOC", "FREE"}
  PROVE  ListOK(remove_range(ranges, blocks[index]), mem_brk, blocks, block_sizes,
                HeldAt(trace, i) \ {index})
<1>1. /\ trace \in Traces /\ i \in 1..Len(trace) /\ index \in Ids
      /\ blocks \in [Ids -> Nat] /\ block_sizes \in [Ids -> Nat]
  BY AtRequest DEF IInv, WithTrace, Held
<1>2. /\ Kept(blocks, block_sizes, trace, i)
      /\ ListOK(ranges, mem_brk, blocks, block_sizes, HeldAt(trace, i))
  BY DEF IInv, Held, Listed
<1>3. HeldAt(trace, i) \in SUBSET Ids BY DEF HeldAt
<1>4. CASE Filled(trace, index, i)
  <2>1. index \in HeldAt(trace, i) BY <1>1, <1>4 DEF Filled, HeldAt
  <2>2. block_sizes[index] > 0 BY <1>1, <1>2, <1>4 DEF Filled, Kept
  <2> QED BY <1>1, <1>2, <1>3, <2>1, <2>2, RemoveOwned
<1>5. CASE Uses(trace, index, i) = {}
  <2>1. blocks[index] = NULL BY <1>1, <1>2, <1>5 DEF Kept
  <2>2. index \notin HeldAt(trace, i) BY <1>5 DEF HeldAt, HoldsAt
  <2>3. HeldAt(trace, i) \ {index} = HeldAt(trace, i) BY <2>2
  <2> QED BY <1>2, <2>1, <2>3, RemoveNull
<1>6. Filled(trace, index, i) \/ Uses(trace, index, i) = {} BY <1>1, LegalAt DEF index, type
<1> QED BY <1>4, <1>5, <1>6

LEMMA HeldPlaced ==
  ASSUME NEW rs, NEW brk, NEW b, NEW bs, NEW H, ListOK(rs, brk, b, bs, H), NEW id \in H
  PROVE  b[id] % ALIGNMENT = 0 /\ Within(brk, b[id], b[id] + bs[id] - 1)
<1>1. PICK own : Owners(own, Len(rs), H) /\ \A k \in 1..Len(rs) : rs[k] = Record(b, bs, own[k])
  BY DEF ListOK, Owned
<1>2. PICK k \in 1..Len(rs) : own[k] = id BY <1>1 DEF Owners
<1>3. rs[k] = Record(b, bs, id) BY <1>1, <1>2
<1>4. rs[k].lo = b[id] /\ rs[k].hi = b[id] + bs[id] - 1 BY <1>3 DEF Record
<1> QED BY <1>4 DEF ListOK, Placed

LEMMA ReallocCopies ==
  ASSUME IInv, phase = "valid", More, type = "REALLOC", blocks[index] # NULL,
         NEW ptr \in Nat, NEW rs, NEW brk, add_range_ok(rs, brk, ptr, size)
  PROVE  MemOK(memcpy(mem, ptr, blocks[index], oldsize))
<1>1. /\ trace \in Traces /\ i \in 1..Len(trace) /\ index \in Ids /\ size \in Nat
      /\ blocks \in [Ids -> Nat] /\ block_sizes \in [Ids -> Nat]
  BY AtRequest DEF IInv, WithTrace, Held
<1>2. /\ Kept(blocks, block_sizes, trace, i)
      /\ ListOK(ranges, mem_brk, blocks, block_sizes, HeldAt(trace, i))
  BY DEF IInv, Held, Listed
<1>3. Uses(trace, index, i) # {} BY <1>1, <1>2 DEF Kept
<1>4. Filled(trace, index, i) BY <1>1, <1>3, LegalAt DEF index, type
<1>5. index \in HeldAt(trace, i) BY <1>1, <1>4 DEF Filled, HeldAt
<1>6. /\ blocks[index] % 8 = 0 /\ blocks[index] >= mem_start_brk
      /\ blocks[index] + block_sizes[index] - 1 <= mem_brk - 1
  BY <1>2, <1>5, HeldPlaced DEF Within, ALIGNMENT
<1>7. oldsize \in Nat /\ oldsize <= block_sizes[index] BY <1>1 DEF oldsize, Smaller
<1>8. blocks[index] \in Nat /\ block_sizes[index] \in Nat /\ mem_brk \in Nat /\ mem_brk <= mem_max_addr
  BY <1>1, Region DEF IInv, Memory
<1>9. blocks[index] + oldsize <= mem_max_addr BY <1>6, <1>7, <1>8, Region
<1>10. ptr >= mem_start_brk /\ ptr % 8 = 0 BY DEF add_range_ok, Within, ALIGNMENT
<1>11. MemOK(mem) BY DEF IInv, Memory, MemOK
<1> QED BY <1>6, <1>7, <1>8, <1>9, <1>10, <1>11, CopyWrites

LEMMA StepValidRealloc ==
  ASSUME IInv, NEW ptr \in Ptrs \cup {NULL}, NEW brk \in Breaks, NEW copied \in BOOLEAN,
         ValidRealloc(ptr, brk, copied)
  PROVE  IInv'
<1> DEFINE oldp == blocks[index]
           rest == remove_range(ranges, oldp)
           m    == IF copied /\ oldp # NULL THEN memcpy(mem, ptr, oldp, oldsize) ELSE mem
<1>1. /\ phase = "valid" /\ More /\ type = "REALLOC" /\ brk >= mem_brk /\ mem_brk' = brk
      /\ ptr \in Nat /\ mem_brk' \in mem_start_brk..mem_max_addr
  BY Region, DriverAssumption DEF ValidRealloc, NULL
<1>2. CASE ptr # NULL /\ add_range_ok(rest, brk, ptr, size)
  <2>1. MemOK(mem) BY DEF IInv, Memory, MemOK
  <2>2. MemOK(m)
    <3>1. CASE copied /\ oldp # NULL BY <3>1, <1>1, <1>2, ReallocCopies
    <3>2. CASE ~(copied /\ oldp # NULL) BY <3>2, <2>1
    <3> QED BY <3>1, <3>2
  <2>3. CASE KeepsData(m, ptr)
    <3>1. Accept(rest, m, ptr) BY <1>2, <2>3 DEF ValidRealloc
    <3>2. ListOK(rest, mem_brk, blocks, block_sizes, HeldAt(trace, i) \ {index})
      BY <1>1, OldRangeRemoved
    <3> HIDE DEF m, rest
    <3> QED BY <1>1, <1>2, <2>2, <3>1, <3>2, StepAccept
  <2>4. CASE ~KeepsData(m, ptr)
    <3>1. Reject /\ mem' = m BY <1>2, <2>4 DEF ValidRealloc
    <3>2. Memory' BY <1>1, <2>2, <3>1 DEF MemOK, Memory
    <3> QED BY <1>1, <3>1, <3>2, StepReject
  <2> QED BY <2>3, <2>4
<1>3. CASE ~(ptr # NULL /\ add_range_ok(rest, brk, ptr, size))
  <2>1. Reject /\ mem' = mem BY <1>3 DEF ValidRealloc
  <2>2. Memory' BY <1>1, <2>1 DEF IInv, Memory
  <2> QED BY <1>1, <2>1, <2>2, StepReject
<1> QED BY <1>2, <1>3

LEMMA StepValidFree == IInv /\ ValidFree => IInv'
<1> SUFFICES ASSUME IInv, ValidFree PROVE IInv' OBVIOUS
<1>1. /\ phase = "valid" /\ phase' = "valid" /\ More /\ type = "FREE" /\ i' = i + 1
      /\ ranges' = remove_range(ranges, blocks[index])
      /\ UNCHANGED <<mem, mem_brk, trace, blocks, block_sizes, total_size, max_total_size,
                     runs, valid, errors>>
  BY DEF ValidFree, memVars, heldVars
<1>2. trace \in Traces /\ i \in 1..Len(trace) /\ Len(trace) \in Nat /\ i \in Nat \ {0} /\ index \in Ids
  BY <1>1, AtRequest DEF IInv, WithTrace
<1>3. Control' BY <1>1, <1>2 DEF IInv, Control
<1>4. Memory' BY <1>1 DEF IInv, Memory
<1>5. Held'
  <2>1. Kept(blocks, block_sizes, trace, i + 1)
    BY <1>1, <1>2, KeptAfterFree DEF IInv, Held, type
  <2> QED BY <1>1, <2>1 DEF IInv, Held
<1>6. Listed'
  <2>1. HeldAt(trace, i + 1) = HeldAt(trace, i) \ {index} BY <1>1, <1>2, HeldStep DEF index, type
  <2> QED BY <1>1, <2>1, OldRangeRemoved DEF Listed
<1>7. Measured' /\ RunsStartClean' /\ Judged'
  BY <1>1 DEF IInv, Measured, RunsStartClean, Judged
<1> QED BY <1>3, <1>4, <1>5, <1>6, <1>7 DEF IInv

LEMMA StepEndValid == IInv /\ EndValid => IInv'
<1> SUFFICES ASSUME IInv, EndValid PROVE IInv' OBVIOUS
<1>1. /\ phase = "valid" /\ phase' = "start_util" /\ valid' = Append(valid, TRUE)
      /\ mem' = Zeroed(mem) /\ mem_brk' = mem_start_brk
      /\ blocks' = [id \in Ids |-> NULL] /\ block_sizes' = [id \in Ids |-> 0]
      /\ UNCHANGED <<trace, i, total_size, max_total_size, runs, errors>>
  BY DEF EndValid, clean_up, mem_clear, mem_reset_brk
<1>2. Control' BY <1>1 DEF IInv, Control, Phases, WithTrace
<1>3. MemOK(mem) BY DEF IInv, Memory, MemOK
<1>4. Memory' /\ mem' = [a \in Addr |-> 0] BY <1>1, <1>3, ClearZeroes, Region DEF Memory, MemOK
<1>5. Held' /\ Listed' /\ Measured' /\ RunsStartClean'
  BY <1>1, <1>4 DEF IInv, Held, Listed, Measured, RunsStartClean, NULL
<1>6. Judged'
  <2>1. valid \in Seq(BOOLEAN) /\ errors \in Nat /\ errors = Cardinality(Invalid(valid))
    BY <1>1 DEF IInv, Judged
  <2>2. Append(valid, TRUE) \in Seq(BOOLEAN) /\ Cardinality(Invalid(Append(valid, TRUE))) = errors
    BY <2>1, Verdict
  <2>3. valid' \in Seq(BOOLEAN) /\ errors' = Cardinality(Invalid(valid')) BY <1>1, <2>2, Zenon
  <2> QED BY <1>1, <2>1, <2>3 DEF Judged
<1> QED BY <1>2, <1>4, <1>5, <1>6 DEF IInv

LEMMA StepStart ==
  ASSUME IInv, NEW now, NEW next, <<now, next>> \in {<<"start_util", "util">>, <<"start_speed", "speed">>},
         NEW initialized \in BOOLEAN, NEW brk \in Breaks, Start(now, next, initialized, brk)
  PROVE  IInv'
<1>1. /\ phase = now /\ i' \in {i, 1} /\ phase' \in {next, "exit"} /\ (phase' = next => i' = 1)
      /\ total_size' = 0 /\ max_total_size' = 0
      /\ UNCHANGED <<trace, blocks, block_sizes, ranges, runs, valid, errors>>
  BY DEF Start, memVars, heldVars
<1>2. \/ now = "start_util" /\ next = "util"
      \/ now = "start_speed" /\ next = "speed"
  OBVIOUS
<1>3. trace \in Traces /\ Len(trace) \in Nat BY <1>1, <1>2, AtRequest DEF IInv, WithTrace
<1>4. Control' BY <1>1, <1>2, <1>3 DEF IInv, Control, Phases, WithTrace
<1>5. Memory'
  <2>1. CASE initialized
    <3>1. mem' = SET(mem, mem_start_brk, Tag) /\ mem_brk' = brk BY <2>1 DEF Start
    <3> QED BY <3>1, InitWrites, Region DEF IInv, Memory, MemOK
  <2>2. CASE ~initialized BY <2>2 DEF IInv, Start, memVars, Memory
  <2> QED BY <2>1, <2>2
<1>6. Held'
  <2>1. CASE phase' = "util"
    <3>1. blocks = [id \in Ids |-> NULL] /\ block_sizes = [id \in Ids |-> 0]
      BY <1>1, <1>2, <2>1 DEF IInv, Held, RunsStartClean
    <3>2. Kept(blocks, block_sizes, trace, 1) BY <3>1, NothingHeldAtFirst DEF Kept
    <3> QED BY <1>1, <2>1, <3>2 DEF IInv, Held
  <2>2. CASE phase' # "util" BY <1>1, <1>2, <2>2 DEF IInv, Held
  <2> QED BY <2>1, <2>2
<1>7. Measured'
  <2>1. CASE phase' = "util"
    <3>1. BytesAt(trace', 1) = {} BY NothingHeldAtFirst DEF BytesAt
    <3>2. IsFiniteSet(BytesAt(trace', 1)) /\ Cardinality(BytesAt(trace', 1)) = 0
      BY <3>1, FS_EmptySet
    <3>3. \A k \in 1..1 : k = 1 OBVIOUS
    <3> QED BY <1>1, <2>1, <3>2, <3>3 DEF Measured, Needed
  <2>2. CASE phase' # "util" BY <1>1, <2>2 DEF Measured
  <2> QED BY <2>1, <2>2
<1>8. Listed' /\ RunsStartClean' /\ Judged'
  BY <1>1, <1>2 DEF IInv, Listed, RunsStartClean, Judged
<1> QED BY <1>4, <1>5, <1>6, <1>7, <1>8 DEF IInv

\* What a request of phase "util" does to the measure.
LEMMA MeasuredAfter ==
  ASSUME IInv, phase = "util", More, NEW change \in Int,
         change = (IF type = "FREE" THEN 0 ELSE size)
                    - (IF type = "ALLOC" THEN 0 ELSE block_sizes[index])
  PROVE  /\ IsFiniteSet(BytesAt(trace, i + 1))
         /\ total_size \in Nat /\ Needed(trace, i + 1) \in Nat /\ Needed(trace, i + 1) = total_size + change
<1> DEFINE old == IF type = "ALLOC" THEN 0 ELSE block_sizes[index]
<1>1. /\ trace \in Traces /\ i \in 1..Len(trace) /\ index \in Ids /\ size \in Nat
      /\ type \in {"ALLOC", "REALLOC", "FREE"}
      /\ blocks \in [Ids -> Nat] /\ block_sizes \in [Ids -> Nat]
      /\ Kept(blocks, block_sizes, trace, i)
  BY AtRequest DEF IInv, WithTrace, Held
<1>2. IsFiniteSet(BytesAt(trace, i)) /\ total_size = Cardinality(BytesAt(trace, i))
  BY DEF IInv, Measured, Needed
<1>3. old \in Nat BY <1>1
<1>4. /\ type = "ALLOC" => index \notin HeldAt(trace, i)
      /\ type = "FREE" => index \in HeldAt(trace, i)
      /\ type = "REALLOC" => index \in HeldAt(trace, i) \/ Uses(trace, index, i) = {}
  BY <1>1, LegalAt DEF Filled, HeldAt, index, type
<1>5. index \in HeldAt(trace, i) => LastUse(trace, index, i).size = old
  BY <1>1, <1>4 DEF Kept, HeldAt
<1>6. index \notin HeldAt(trace, i) => old = 0
  BY <1>1, <1>4 DEF Kept
<1> HIDE DEF old
<1>7. /\ IsFiniteSet(BytesAt(trace, i + 1))
      /\ Cardinality(BytesAt(trace, i)) \in Nat /\ Cardinality(BytesAt(trace, i + 1)) \in Nat
      /\ Cardinality(BytesAt(trace, i + 1))
           = Cardinality(BytesAt(trace, i)) - old + (IF type = "FREE" THEN 0 ELSE size)
  BY <1>1, <1>2, <1>3, <1>5, <1>6, BytesStep DEF index, size, type
<1>8. change = (IF type = "FREE" THEN 0 ELSE size) - old BY DEF old
<1> DEFINE c1 == Cardinality(BytesAt(trace, i))
           c2 == Cardinality(BytesAt(trace, i + 1))
           new == IF type = "FREE" THEN 0 ELSE size
<1>9. new \in Nat BY <1>1
<1>10. c2 = c1 - old + new /\ change = new - old /\ c1 \in Nat /\ c2 \in Nat BY <1>7, <1>8
<1> HIDE DEF c1, c2, new
<1>11. c2 = c1 + change BY <1>3, <1>9, <1>10
<1> QED BY <1>2, <1>7, <1>10, <1>11 DEF c1, c2, Needed

LEMMA StepUtilRequest ==
  ASSUME IInv, NEW ptr \in Ptrs \cup {NULL}, NEW brk \in Breaks, UtilRequest(ptr, brk)
  PROVE  IInv'
<1>1. /\ phase = "util" /\ More /\ type # "FREE" /\ mem_brk' = brk /\ ptr \in Nat
      /\ UNCHANGED <<mem, trace, ranges, runs, valid>>
  BY DriverAssumption DEF UtilRequest, NULL
<1>2. /\ trace \in Traces /\ i \in 1..Len(trace) /\ Len(trace) \in Nat /\ i \in Nat \ {0}
      /\ index \in Ids /\ size \in Nat /\ type \in {"ALLOC", "REALLOC"}
      /\ blocks \in [Ids -> Nat] /\ block_sizes \in [Ids -> Nat]
  BY <1>1, AtRequest DEF IInv, WithTrace, Held
<1>3. Memory' BY <1>1, Region DEF IInv, Memory
<1>4. CASE ptr = NULL
  <2>1. /\ phase' = "exit" /\ errors' \in {errors, errors + 1}
        /\ UNCHANGED <<i, blocks, block_sizes, total_size, max_total_size>>
    BY <1>4 DEF IInv, Judged, UtilRequest, GiveUp, heldVars
  <2>2. Control' BY <1>1, <2>1 DEF IInv, Control, Phases, WithTrace
  <2>3. Held' /\ Listed' /\ Measured' /\ RunsStartClean'
    BY <2>1 DEF IInv, Held, Listed, Measured, RunsStartClean
  <2>4. Judged' BY <1>1, <2>1 DEF IInv, Judged
  <2> QED BY <1>3, <2>2, <2>3, <2>4 DEF IInv
<1>5. CASE ptr # NULL
  <2> DEFINE change == IF type = "ALLOC" THEN size ELSE size - block_sizes[index]
  <2>1. /\ blocks' = [blocks EXCEPT ![index] = ptr]
        /\ block_sizes' = [block_sizes EXCEPT ![index] = size]
        /\ total_size' = total_size + change
        /\ max_total_size' = IF total_size' > max_total_size THEN total_size' ELSE max_total_size
        /\ i' = i + 1 /\ phase' = "util" /\ errors' = errors
    BY <1>1, <1>5 DEF UtilRequest, Count
  <2>2. Control' BY <1>1, <1>2, <2>1 DEF IInv, Control
  <2>3. Held'
    <3>1. Kept(blocks', block_sizes', trace, i + 1)
      BY <1>1, <1>2, <2>1, KeptAfterRequest DEF IInv, Held, index, size, type
    <3> QED BY <1>1, <1>2, <2>1, <3>1 DEF Held
  <2>4. Measured'
    <3>1. change \in Int /\ change = (IF type = "FREE" THEN 0 ELSE size)
                                       - (IF type = "ALLOC" THEN 0 ELSE block_sizes[index])
      BY <1>1, <1>2
    <3> HIDE DEF change
    <3>2. /\ IsFiniteSet(BytesAt(trace, i + 1)) /\ total_size \in Nat
          /\ Needed(trace, i + 1) \in Nat /\ Needed(trace, i + 1) = total_size + change
      BY <1>1, <3>1, MeasuredAfter
    <3>3. /\ max_total_size \in Nat
          /\ \E k \in 1..i : max_total_size = Needed(trace, k)
          /\ \A k \in 1..i : Needed(trace, k) \in Nat /\ Needed(trace, k) <= max_total_size
      BY <1>1 DEF IInv, Measured
    <3>4. total_size' = Needed(trace, i + 1) /\ total_size' \in Nat BY <2>1, <3>2
    <3>5. max_total_size' \in Nat /\ max_total_size <= max_total_size' /\ total_size' <= max_total_size'
      BY <2>1, <3>3, <3>4
    <3>6. \A k \in 1..(i + 1) : k \in 1..i \/ k = i + 1 BY <1>2
    <3>7. \A k \in 1..(i + 1) : Needed(trace, k) \in Nat /\ Needed(trace, k) <= max_total_size'
      BY <3>2, <3>3, <3>4, <3>5, <3>6
    <3>8. \E k \in 1..(i + 1) : max_total_size' = Needed(trace, k)
      <4>1. 1..i \subseteq 1..(i + 1) /\ i + 1 \in 1..(i + 1) BY <1>2
      <4>2. CASE total_size' > max_total_size BY <4>1, <4>2, <2>1, <3>4
      <4>3. CASE ~(total_size' > max_total_size) BY <4>1, <4>3, <2>1, <3>3
      <4> QED BY <4>2, <4>3
    <3> QED BY <1>1, <2>1, <3>2, <3>4, <3>5, <3>7, <3>8 DEF Measured
  <2>5. Listed' /\ RunsStartClean' /\ Judged'
    BY <1>1, <2>1 DEF IInv, Listed, RunsStartClean, Judged
  <2> QED BY <1>3, <2>2, <2>3, <2>4, <2>5 DEF IInv
<1> QED BY <1>4, <1>5

LEMMA StepUtilFree == IInv /\ UtilFree => IInv'
<1> SUFFICES ASSUME IInv, UtilFree PROVE IInv' OBVIOUS
<1>1. /\ phase = "util" /\ phase' = "util" /\ More /\ type = "FREE" /\ i' = i + 1
      /\ total_size' = total_size - block_sizes[index]
      /\ UNCHANGED <<mem, mem_brk, trace, blocks, block_sizes, max_total_size, runs, valid, errors>>
  BY DEF UtilFree, memVars, heldVars
<1>2. /\ trace \in Traces /\ i \in 1..Len(trace) /\ Len(trace) \in Nat /\ i \in Nat \ {0}
      /\ index \in Ids /\ block_sizes \in [Ids -> Nat]
  BY <1>1, AtRequest DEF IInv, WithTrace, Held
<1>3. Control' BY <1>1, <1>2 DEF IInv, Control
<1>4. Memory' BY <1>1 DEF IInv, Memory
<1>5. Held'
  <2>1. Kept(blocks, block_sizes, trace, i + 1)
    BY <1>1, <1>2, KeptAfterFree DEF IInv, Held, type
  <2> QED BY <1>1, <2>1 DEF IInv, Held
<1>6. Measured'
  <2> DEFINE change == 0 - block_sizes[index]
  <2>1. change \in Int /\ change = (IF type = "FREE" THEN 0 ELSE size)
                                     - (IF type = "ALLOC" THEN 0 ELSE block_sizes[index])
    BY <1>1, <1>2
  <2> HIDE DEF change
  <2>2. /\ IsFiniteSet(BytesAt(trace, i + 1)) /\ total_size \in Nat
        /\ Needed(trace, i + 1) \in Nat /\ Needed(trace, i + 1) = total_size + change
    BY <1>1, <2>1, MeasuredAfter
  <2>3. total_size' = Needed(trace, i + 1) /\ total_size' <= total_size
    BY <1>1, <1>2, <2>2 DEF change
  <2>4. /\ max_total_size \in Nat
        /\ \E k \in 1..i : max_total_size = Needed(trace, k)
        /\ \A k \in 1..i : Needed(trace, k) \in Nat /\ Needed(trace, k) <= max_total_size
        /\ total_size = Needed(trace, i)
    BY <1>1 DEF IInv, Measured
  <2>5. /\ 1..i \subseteq 1..(i + 1) /\ i \in 1..i
        /\ \A k \in 1..(i + 1) : k \in 1..i \/ k = i + 1
    BY <1>2
  <2>6. Needed(trace, i + 1) <= max_total_size BY <2>2, <2>3, <2>4, <2>5
  <2>7. /\ \E k \in 1..(i + 1) : max_total_size = Needed(trace, k)
        /\ \A k \in 1..(i + 1) : Needed(trace, k) \in Nat /\ Needed(trace, k) <= max_total_size
    BY <2>2, <2>4, <2>5, <2>6
  <2> QED BY <1>1, <2>2, <2>3, <2>4, <2>7 DEF Measured
<1>7. Listed' /\ RunsStartClean' /\ Judged'
  BY <1>1 DEF IInv, Listed, RunsStartClean, Judged
<1> QED BY <1>3, <1>4, <1>5, <1>6, <1>7 DEF IInv

LEMMA StepEndUtil == IInv /\ EndUtil => IInv'
<1> SUFFICES ASSUME IInv, EndUtil PROVE IInv' OBVIOUS
<1>1. /\ phase = "util" /\ phase' = "start_speed" /\ runs' = 0
      /\ mem' = Zeroed(mem) /\ mem_brk' = mem_start_brk
      /\ blocks' = [id \in Ids |-> NULL] /\ block_sizes' = [id \in Ids |-> 0]
      /\ UNCHANGED <<trace, i, total_size, max_total_size, valid, errors>>
  BY DEF EndUtil, clean_up, mem_clear, mem_reset_brk
<1>2. Control' BY <1>1, DriverAssumption DEF IInv, Control, Phases, WithTrace
<1>3. MemOK(mem) BY DEF IInv, Memory, MemOK
<1>4. Memory' /\ mem' = [a \in Addr |-> 0] BY <1>1, <1>3, ClearZeroes, Region DEF Memory, MemOK
<1>5. Held' /\ Listed' /\ Measured' /\ RunsStartClean' /\ Judged'
  BY <1>1, <1>4 DEF IInv, Held, Listed, Measured, RunsStartClean, Judged, NULL
<1> QED BY <1>2, <1>4, <1>5 DEF IInv

LEMMA StepSpeedRequest ==
  ASSUME IInv, NEW ptr \in Ptrs \cup {NULL}, NEW brk \in Breaks, SpeedRequest(ptr, brk)
  PROVE  IInv'
<1>1. /\ phase = "speed" /\ More /\ type # "FREE" /\ mem_brk' = brk /\ ptr \in Nat
      /\ UNCHANGED <<mem, trace, ranges, runs, valid>>
  BY DriverAssumption DEF SpeedRequest, NULL
<1>2. /\ i \in 1..Len(trace) /\ Len(trace) \in Nat /\ index \in Ids /\ errors \in Nat
      /\ blocks \in [Ids -> Nat]
  BY <1>1, AtRequest DEF IInv, WithTrace, Held, Judged
<1>3. \/ /\ phase' = "exit" /\ errors' \in {errors, errors + 1}
         /\ UNCHANGED <<i, blocks, block_sizes, total_size, max_total_size>>
      \/ /\ phase' = "speed" /\ i' = i + 1 /\ blocks' = [blocks EXCEPT ![index] = ptr]
         /\ UNCHANGED <<errors, block_sizes, total_size, max_total_size>>
  BY <1>1, <1>2 DEF SpeedRequest, GiveUp, heldVars
<1>4. Control' BY <1>1, <1>2, <1>3 DEF IInv, Control, Phases, WithTrace
<1>5. Memory' BY <1>1, Region DEF IInv, Memory
<1>6. Held' BY <1>1, <1>2, <1>3 DEF IInv, Held
<1>7. Listed' /\ Measured' /\ RunsStartClean' /\ Judged'
  BY <1>1, <1>2, <1>3 DEF IInv, Listed, Measured, RunsStartClean, Judged
<1> QED BY <1>4, <1>5, <1>6, <1>7 DEF IInv

LEMMA StepEndSpeed == IInv /\ EndSpeed => IInv'
<1> SUFFICES ASSUME IInv, EndSpeed PROVE IInv' OBVIOUS
<1>1. /\ phase = "speed" /\ i' = 1 /\ runs' = runs + 1
      /\ \/ runs' < Runs /\ phase' = "start_speed" /\ trace' = trace
         \/ ~(runs' < Runs) /\ phase' = "read" /\ trace' = <<>>
      /\ UNCHANGED <<method, total_size, max_total_size, valid, errors>>
  BY DEF EndSpeed, Repeat, libcVars
<1>2. runs \in Nat /\ runs < Runs /\ Runs \in Nat BY <1>1, DriverAssumption DEF IInv, Control
<1>3. trace \in Traces /\ Len(trace) \in Nat BY <1>1, AtRequest DEF IInv, WithTrace
<1>4. Control'
  <2>1. Len(<<>>) = 0 OBVIOUS
  <2> QED BY <1>1, <1>2, <1>3, <2>1 DEF IInv, Control, Phases, WithTrace
<1>5. \/ /\ method = "GETTOD" /\ mem' = Zeroed(mem) /\ mem_brk' = mem_start_brk
         /\ blocks' = [id \in Ids |-> NULL] /\ block_sizes' = [id \in Ids |-> 0]
      \/ method # "GETTOD" /\ UNCHANGED <<mem, mem_brk, blocks, block_sizes>>
  BY DEF EndSpeed, CleanAfterRun, clean_up, mem_clear, mem_reset_brk, memVars, heldVars
<1>6. MemOK(mem) BY DEF IInv, Memory, MemOK
<1>7. Memory' /\ (method = "GETTOD" => mem' = [a \in Addr |-> 0])
  BY <1>5, <1>6, ClearZeroes, Region DEF IInv, Memory, MemOK
<1>8. Held' BY <1>1, <1>5 DEF IInv, Held, NULL
<1>9. RunsStartClean' BY <1>1, <1>2, <1>5, <1>7 DEF RunsStartClean
<1>10. Listed' /\ Measured' /\ Judged' BY <1>1 DEF IInv, Listed, Measured, Judged
<1> QED BY <1>4, <1>7, <1>8, <1>9, <1>10 DEF IInv

LEMMA StepLibcRequest ==
  ASSUME IInv, NEW ptr \in {LibcBlock, NULL}, LibcRequest(ptr)
  PROVE  IInv'
<1>1. /\ phase \in {"libc_valid", "libc_speed"} /\ More /\ ptr \in Nat
      /\ UNCHANGED <<mem, mem_brk, block_sizes, trace, total_size, max_total_size, runs, valid>>
  BY DEF LibcRequest, mmVars, memVars, LibcBlock, NULL
<1>2. /\ i \in 1..Len(trace) /\ Len(trace) \in Nat /\ index \in Ids /\ errors \in Nat
      /\ blocks \in [Ids -> Nat]
  BY <1>1, AtRequest DEF IInv, WithTrace, Held, Judged
<1>3. \/ /\ phase' \in {"exit", "undefined"} /\ errors' \in {errors, errors + 1}
         /\ UNCHANGED <<i, blocks>>
      \/ /\ phase' = phase /\ i' = i + 1 /\ blocks' = [blocks EXCEPT ![index] = ptr]
         /\ UNCHANGED errors
  BY <1>2 DEF LibcRequest
<1>4. Control' BY <1>1, <1>2, <1>3 DEF IInv, Control, Phases, WithTrace
<1>5. Memory' BY <1>1 DEF IInv, Memory
<1>6. Held' BY <1>1, <1>2, <1>3 DEF IInv, Held
<1>7. Listed' /\ Measured' /\ RunsStartClean' /\ Judged'
  BY <1>1, <1>2, <1>3 DEF IInv, Listed, Measured, RunsStartClean, Judged
<1> QED BY <1>4, <1>5, <1>6, <1>7 DEF IInv

LEMMA StepEndLibc == IInv /\ (EndLibcValid \/ EndLibcSpeed) => IInv'
<1> SUFFICES ASSUME IInv, EndLibcValid \/ EndLibcSpeed PROVE IInv' OBVIOUS
<1>1. /\ phase \in {"libc_valid", "libc_speed"}
      /\ UNCHANGED <<mem, mem_brk, blocks, block_sizes, total_size, max_total_size, valid, errors>>
  BY DEF EndLibcValid, EndLibcSpeed, mmVars, memVars
<1>2. trace \in Traces /\ Len(trace) \in Nat BY <1>1, AtRequest DEF IInv, WithTrace
<1>3. \/ phase' = "libc_speed" /\ i' = 1 /\ runs' = 0 /\ trace' = trace
      \/ phase' = "undefined" /\ UNCHANGED <<runs, trace, i>>
      \/ /\ phase = "libc_speed" /\ i' = 1 /\ runs' = runs + 1
         /\ \/ runs' < Runs /\ phase' = "libc_speed" /\ trace' = trace
            \/ ~(runs' < Runs) /\ phase' = "libc_read" /\ trace' = <<>>
  BY DEF EndLibcValid, EndLibcSpeed, Repeat, libcVars
<1>4. Control'
  <2>1. Len(<<>>) = 0 OBVIOUS
  <2> QED BY <1>1, <1>2, <1>3, <2>1, DriverAssumption DEF IInv, Control, Phases, WithTrace
<1>5. Memory' /\ Held' BY <1>1, <1>3 DEF IInv, Memory, Held
<1>6. Listed' /\ Measured' /\ RunsStartClean' /\ Judged'
  BY <1>1, <1>3 DEF IInv, Listed, Measured, RunsStartClean, Judged
<1> QED BY <1>4, <1>5, <1>6 DEF IInv

LEMMA StepMemInit == IInv /\ MemInit => IInv'
<1> SUFFICES ASSUME IInv, MemInit PROVE IInv' OBVIOUS
<1>1. /\ phase = "libc_read" /\ phase' = "read"
      /\ UNCHANGED <<trace, i, blocks, block_sizes, total_size, max_total_size, runs, valid, errors>>
  BY DEF MemInit, heldVars
<1>2. Control' BY <1>1 DEF IInv, Control, Phases, WithTrace
<1>3. Memory' BY Region DEF MemInit, Memory
<1>4. Held' /\ Listed' /\ Measured' /\ RunsStartClean' /\ Judged'
  BY <1>1 DEF IInv, Held, Listed, Measured, RunsStartClean, Judged
<1> QED BY <1>2, <1>3, <1>4 DEF IInv

LEMMA StepReport == IInv /\ Report => IInv'
<1> SUFFICES ASSUME IInv, Report PROVE IInv' OBVIOUS
<1>1. /\ phase = "read" /\ phase' = IF errors = 0 THEN "index" ELSE "errors"
      /\ UNCHANGED <<mem, mem_brk, trace, i, blocks, block_sizes, total_size, max_total_size,
                     runs, valid, errors>>
  BY DEF Report, memVars, heldVars
<1>2. Control' BY <1>1 DEF IInv, Control, Phases, WithTrace
<1>3. Memory' BY <1>1 DEF IInv, Memory
<1>4. Held' /\ Listed' /\ Measured' /\ RunsStartClean' /\ Judged'
  BY <1>1 DEF IInv, Held, Listed, Measured, RunsStartClean, Judged
<1> QED BY <1>2, <1>3, <1>4 DEF IInv

LEMMA Stutters == IInv /\ UNCHANGED vars => IInv'
<1> SUFFICES ASSUME IInv, UNCHANGED vars PROVE IInv' OBVIOUS
<1>1. UNCHANGED <<mem, mem_brk, method, phase, libc, trace, i, blocks, block_sizes, ranges, p,
                  total_size, max_total_size, runs, valid, errors>>
  BY DEF vars
<1>2. Control' /\ Memory' /\ Held' BY <1>1 DEF IInv, Control, Memory, Held
<1>3. Listed' /\ Measured' /\ RunsStartClean' /\ Judged'
  BY <1>1 DEF IInv, Listed, Measured, RunsStartClean, Judged
<1> QED BY <1>2, <1>3 DEF IInv

LEMMA NextKeeps == IInv /\ [Next]_vars => IInv'
<1> SUFFICES ASSUME IInv, [Next]_vars PROVE IInv' OBVIOUS
<1>1. CASE read_trace BY <1>1, StepReadTrace
<1>2. CASE ValidFree BY <1>2, StepValidFree
<1>3. CASE EndValid BY <1>3, StepEndValid
<1>4. CASE UtilFree BY <1>4, StepUtilFree
<1>5. CASE EndUtil BY <1>5, StepEndUtil
<1>6. CASE SpeedFree \/ LibcFree BY <1>6, StepFrees
<1>7. CASE EndSpeed BY <1>7, StepEndSpeed
<1>8. CASE Report BY <1>8, StepReport
<1>9. CASE EndLibcValid \/ EndLibcSpeed BY <1>9, StepEndLibc
<1>10. CASE MemInit BY <1>10, StepMemInit
<1>11. ASSUME NEW ptr \in {LibcBlock, NULL}, LibcRequest(ptr) PROVE IInv'
  BY <1>11, StepLibcRequest
<1>12. ASSUME NEW initialized \in BOOLEAN, NEW brk \in Breaks, StartValid(initialized, brk)
       PROVE  IInv'
  BY <1>12, StepStartValid
<1>13. ASSUME NEW initialized \in BOOLEAN, NEW brk \in Breaks,
              Start("start_util", "util", initialized, brk)
       PROVE  IInv'
  BY <1>13, StepStart
<1>14. ASSUME NEW initialized \in BOOLEAN, NEW brk \in Breaks,
              Start("start_speed", "speed", initialized, brk)
       PROVE  IInv'
  BY <1>14, StepStart
<1>15. ASSUME NEW ptr \in Ptrs \cup {NULL}, NEW brk \in Breaks, ValidAlloc(ptr, brk)
       PROVE  IInv'
  BY <1>15, StepValidAlloc
<1>16. ASSUME NEW ptr \in Ptrs \cup {NULL}, NEW brk \in Breaks, NEW copied \in BOOLEAN,
              ValidRealloc(ptr, brk, copied)
       PROVE  IInv'
  BY <1>16, StepValidRealloc
<1>17. ASSUME NEW ptr \in Ptrs \cup {NULL}, NEW brk \in Breaks, UtilRequest(ptr, brk)
       PROVE  IInv'
  BY <1>17, StepUtilRequest
<1>18. ASSUME NEW ptr \in Ptrs \cup {NULL}, NEW brk \in Breaks, SpeedRequest(ptr, brk)
       PROVE  IInv'
  BY <1>18, StepSpeedRequest
<1>19. CASE UNCHANGED vars BY <1>19, Stutters
<1> QED
  BY <1>1, <1>2, <1>3, <1>4, <1>5, <1>6, <1>7, <1>8, <1>9, <1>10, <1>11, <1>12, <1>13, <1>14,
     <1>15, <1>16, <1>17, <1>18, <1>19
  DEF Next

-----------------------------------------------------------------------------
(***************************************************************************)
(* The theorems.                                                           *)
(***************************************************************************)

\* The driver's books agree with the trace and with one another after any sequence
\* of traces, runs and answers of the allocator (the loop of main, eval_mm_valid,
\* eval_mm_util, eval_mm_speed and their counterparts for libc).
THEOREM Invariance == Spec => []IInv
BY Initially, NextKeeps, PTL DEF Spec

\* Whatever pointers the allocator returns, the driver writes its fill patterns into
\* the region only, and its counters stay in their bounds.
THEOREM TypeCorrect == Spec => []TypeOK
<1>1. IInv => TypeOK
  <2> SUFFICES ASSUME IInv PROVE TypeOK OBVIOUS
  <2>1. i \in 1..(MaxOps + 1)
    <3>1. CASE trace = <<>> BY <3>1, DriverAssumption DEF IInv, Control
    <3>2. CASE trace \in Traces
      <4>1. Len(trace) \in 1..MaxOps BY <3>2, TraceShape
      <4> QED BY <4>1, DriverAssumption DEF IInv, Control
    <3> QED BY <3>1, <3>2 DEF IInv, Control
  <2> QED BY <2>1 DEF IInv, TypeOK, Control, Phases, Memory, Held, Measured, Judged
<1> QED BY <1>1, Invariance, PTL

\* add_range and remove_range keep the list exactly what the trace holds, although
\* remove_range takes the first record with the low end it is given, and a block of
\* no bytes can share its low end with another.
THEOREM ListExact == Spec => []RangesExact
<1>1. IInv => RangesExact
  BY ListIsExact DEF IInv, Listed, RangesExact, Extent, Record
<1> QED BY <1>1, Invariance, PTL

\* add_range lets no payload pass that leaves the heap, and of those that share a
\* byte with a block held only one that has it strictly inside.
THEOREM OverlapsFound == Spec => []MissesOnlyEnclosing
<1>1. IInv => MissesOnlyEnclosing
  <2>1. IInv => mem_brk \in Nat BY Region DEF IInv, Memory
  <2> QED BY <2>1, OnlyEnclosing DEF IInv, Listed, MissesOnlyEnclosing
<1> QED BY <1>1, Invariance, PTL

\* eval_mm_util's running total is the number of bytes the trace holds, and its
\* maximum the most the trace has held.
THEOREM UtilRight == Spec => []UtilIsHighWater
<1>1. IInv => UtilIsHighWater
  <2> SUFFICES ASSUME IInv, phase = "util"
               PROVE  total_size = Needed(trace, i)
                      /\ max_total_size = Max({Needed(trace, k) : k \in 1..i})
    BY DEF UtilIsHighWater
  <2> DEFINE S == {Needed(trace, k) : k \in 1..i}
  <2>1. /\ total_size = Needed(trace, i) /\ max_total_size \in S
        /\ \A n \in S : n \in Nat /\ n <= max_total_size
    BY DEF IInv, Measured
  <2> HIDE DEF S
  <2>2. \A n \in S : max_total_size >= n BY <2>1
  <2>3. Max(S) \in S /\ \A n \in S : Max(S) >= n BY <2>1, <2>2, Zenon DEF Max
  <2>4. Max(S) \in Nat /\ max_total_size \in Nat /\ Max(S) <= max_total_size /\ Max(S) >= max_total_size
    BY <2>1, <2>3
  <2>5. max_total_size = Max(S) BY <2>4
  <2> QED BY <2>1, <2>5 DEF S
<1> QED BY <1>1, Invariance, PTL

\* clean_up gives eval_mm_util, and the timed runs that follow a clean-up, an empty
\* heap and zeroed memory, the word below the region included.
THEOREM StartsClean == Spec => []RunsStartClean
<1>1. IInv => RunsStartClean BY DEF IInv
<1> QED BY <1>1, Invariance, PTL

\* main prints an index only if eval_mm_valid accepted every trace; the number of
\* errors it prints otherwise is that of the traces rejected.
THEOREM IndexEarned == Spec => []IndexOnlyIfAllValid
<1>1. IInv => IndexOnlyIfAllValid
  <2> SUFFICES ASSUME IInv PROVE IndexOnlyIfAllValid OBVIOUS
  <2>1. CASE phase = "errors" BY <2>1 DEF IInv, Judged, IndexOnlyIfAllValid, Invalid
  <2>2. CASE phase = "index"
    <3>1. Cardinality(Invalid(valid)) = 0 /\ valid \in Seq(BOOLEAN) BY <2>2 DEF IInv, Judged
    <3>2. IsFiniteSet(Invalid(valid))
      <4>1. 1 \in Int /\ Len(valid) \in Int BY <3>1, LenProperties
      <4>2. IsFiniteSet(1..Len(valid)) BY <4>1, FS_Interval
      <4>3. Invalid(valid) \in SUBSET (1..Len(valid)) BY DEF Invalid
      <4> QED BY <4>2, <4>3, FS_Subset
    <3>3. Invalid(valid) = {} BY <3>1, <3>2, FS_EmptySet
    <3>4. \A k \in 1..Len(valid) : valid[k] BY <3>3, Zenon DEF Invalid
    <3> QED BY <2>2, <3>4 DEF IndexOnlyIfAllValid
  <2> QED BY <2>1, <2>2 DEF IndexOnlyIfAllValid
<1> QED BY <1>1, Invariance, PTL

\* The request of a block that add_range turns down is one the allocator answered
\* wrongly: the block is not aligned, leaves the heap or shares a byte with one held.
LEMMA RefusedForCause ==
  ASSUME NEW rs, NEW brk \in Nat, NEW b \in [Ids -> Nat], NEW bs \in [Ids -> Nat],
         NEW H \in SUBSET Ids, ListOK(rs, brk, b, bs, H),
         NEW brk2 \in Nat, NEW ptr \in Nat, NEW n \in Nat, n > 0,
         ~add_range_ok(rs, brk2, ptr, n)
  PROVE  \/ ptr % ALIGNMENT # 0
         \/ ~(Bytes(ptr, n) \subseteq mem_start_brk..(brk2 - 1))
         \/ \E id \in H : Bytes(ptr, n) \cap Bytes(b[id], bs[id]) # {}
<1>1. CASE ptr % ALIGNMENT # 0 BY <1>1
<1>2. CASE ~Within(brk2, ptr, ptr + n - 1)
  <2>1. ptr \in Bytes(ptr, n) /\ ptr + n - 1 \in Bytes(ptr, n) BY DEF Bytes
  <2>2. ~(ptr \in mem_start_brk..(brk2 - 1) /\ ptr + n - 1 \in mem_start_brk..(brk2 - 1))
    BY <1>2, Region DEF Within
  <2> QED BY <2>1, <2>2
<1>3. CASE \E k \in 1..Len(rs) : Overlaps(ptr, ptr + n - 1, rs[k])
  <2>1. PICK k \in 1..Len(rs) : Overlaps(ptr, ptr + n - 1, rs[k]) BY <1>3
  <2>2. PICK own : Owners(own, Len(rs), H) /\ rs[k] = Record(b, bs, own[k])
    BY DEF ListOK, Owned
  <2> DEFINE id == own[k]
  <2>3. id \in H BY <2>2 DEF Owners
  <2>4. rs[k].lo = b[id] /\ rs[k].hi = b[id] + bs[id] - 1 BY <2>2 DEF Record
  <2> HIDE DEF id
  <2>5. b[id] \in Nat /\ bs[id] \in Nat BY <2>3
  <2>6. PICK x \in {ptr, ptr + n - 1} : b[id] <= x /\ x <= b[id] + bs[id] - 1
    BY <2>1, <2>4 DEF Overlaps
  <2>7. x \in Bytes(ptr, n) /\ x \in Bytes(b[id], bs[id]) BY <2>5, <2>6 DEF Bytes
  <2> QED BY <2>3, <2>7
<1> QED BY <1>1, <1>2, <1>3 DEF add_range_ok

\* What NoFalseAlarm says of one step.
Alarm ==
  \/ p' = NULL
  \/ p' % ALIGNMENT # 0
  \/ ~(Bytes(p', size) \subseteq mem_start_brk..(mem_brk' - 1))
  \/ \E id \in HeldAt(trace, i) \ {index} :
       Bytes(p', size) \cap Bytes(blocks[id], block_sizes[id]) # {}
  \/ type = "REALLOC" /\ \E a \in Addr \cap Bytes(p', oldsize) : mem'[a] # index

LEMMA AllocAlarm ==
  ASSUME IInv, size > 0, errors' # errors, NEW ptr \in Ptrs \cup {NULL}, NEW brk \in Breaks,
         ValidAlloc(ptr, brk)
  PROVE  Alarm
<1>1. phase = "valid" /\ More /\ type = "ALLOC" /\ mem_brk' = brk /\ p' = ptr /\ ptr \in Nat
  BY DriverAssumption DEF ValidAlloc, NULL
<1>2. CASE ptr # NULL
  <2>1. ~add_range_ok(ranges, brk, ptr, size) BY <1>2 DEF ValidAlloc, Accept
  <2>2. /\ trace \in Traces /\ i \in 1..Len(trace) /\ size \in Nat
        /\ blocks \in [Ids -> Nat] /\ block_sizes \in [Ids -> Nat]
        /\ mem_brk \in Nat /\ brk \in Nat
    BY <1>1, AtRequest, Region DEF IInv, WithTrace, Held, Memory
  <2>3. index \notin HeldAt(trace, i) BY <1>1, <2>2, LegalAt DEF HeldAt, index, type
  <2> DEFINE H == HeldAt(trace, i)
  <2>4. H \ {index} = H /\ H \in SUBSET Ids BY <2>3 DEF HeldAt
  <2>5. ListOK(ranges, mem_brk, blocks, block_sizes, H) BY <1>1 DEF IInv, Listed
  <2> HIDE DEF H
  <2>6. \/ ptr % ALIGNMENT # 0
        \/ ~(Bytes(ptr, size) \subseteq mem_start_brk..(brk - 1))
        \/ \E id \in H : Bytes(ptr, size) \cap Bytes(blocks[id], block_sizes[id]) # {}
    BY <1>1, <2>1, <2>2, <2>4, <2>5, RefusedForCause
  <2> QED BY <1>1, <2>4, <2>6 DEF Alarm, H
<1> QED BY <1>1, <1>2 DEF Alarm

LEMMA ReallocAlarm ==
  ASSUME IInv, size > 0, errors' # errors, NEW ptr \in Ptrs \cup {NULL}, NEW brk \in Breaks,
         NEW copied \in BOOLEAN, ValidRealloc(ptr, brk, copied)
  PROVE  Alarm
<1> DEFINE oldp == blocks[index]
           rest == remove_range(ranges, oldp)
           m    == IF copied /\ oldp # NULL THEN memcpy(mem, ptr, oldp, oldsize) ELSE mem
           H    == HeldAt(trace, i) \ {index}
<1>1. phase = "valid" /\ More /\ type = "REALLOC" /\ mem_brk' = brk /\ p' = ptr /\ ptr \in Nat
  BY DriverAssumption DEF ValidRealloc, NULL
<1>2. /\ size \in Nat /\ blocks \in [Ids -> Nat] /\ block_sizes \in [Ids -> Nat]
      /\ mem_brk \in Nat /\ brk \in Nat /\ index \in Ids
  BY <1>1, AtRequest, Region DEF IInv, WithTrace, Held, Memory
<1>3. CASE ptr # NULL /\ ~add_range_ok(rest, brk, ptr, size)
  <2>1. ListOK(rest, mem_brk, blocks, block_sizes, H) BY <1>1, OldRangeRemoved
  <2>2. H \in SUBSET Ids BY DEF HeldAt
  <2> HIDE DEF H, rest
  <2>3. \/ ptr % ALIGNMENT # 0
        \/ ~(Bytes(ptr, size) \subseteq mem_start_brk..(brk - 1))
        \/ \E id \in H : Bytes(ptr, size) \cap Bytes(blocks[id], block_sizes[id]) # {}
    BY <1>1, <1>2, <1>3, <2>1, <2>2, RefusedForCause
  <2> QED BY <1>1, <2>3 DEF Alarm, H
<1>4. CASE ptr # NULL /\ add_range_ok(rest, brk, ptr, size)
  <2>1. ~KeepsData(m, ptr) /\ mem' = m BY <1>4 DEF ValidRealloc, Accept
  <2>2. PICK a \in Addr : ptr <= a /\ a < ptr + oldsize /\ m[a] # index
    BY <2>1 DEF KeepsData
  <2>3. a \in Nat BY Region
  <2>4. oldsize \in Nat BY <1>2 DEF oldsize, Smaller
  <2>5. a \in Bytes(ptr, oldsize) BY <1>1, <2>2, <2>3, <2>4 DEF Bytes
  <2> HIDE DEF m
  <2> QED BY <1>1, <2>1, <2>2, <2>5 DEF Alarm
<1> QED BY <1>1, <1>3, <1>4 DEF Alarm

\* eval_mm_valid rejects a request for bytes only if the allocator is at fault; no
\* stale record of the list and no free before it can make a right answer wrong.
THEOREM AlarmsEarned == Spec => NoFalseAlarm
<1>1. ASSUME IInv, Next, phase = "valid", errors' # errors, size > 0
      PROVE  Alarm
  <2>1. CASE read_trace \/ ValidFree \/ EndValid \/ Report \/ MemInit
    BY <2>1, <1>1 DEF read_trace, ValidFree, EndValid, Report, MemInit
  <2>2. CASE UtilFree \/ EndUtil \/ SpeedFree \/ EndSpeed \/ LibcFree \/ EndLibcValid \/ EndLibcSpeed
    BY <2>2, <1>1
    DEF UtilFree, EndUtil, SpeedFree, EndSpeed, LibcFree, EndLibcValid, EndLibcSpeed
  <2>3. CASE \E ptr \in {LibcBlock, NULL} : LibcRequest(ptr) BY <2>3, <1>1 DEF LibcRequest
  <2>4. ASSUME NEW initialized \in BOOLEAN, NEW brk \in Breaks,
               \/ StartValid(initialized, brk)
               \/ Start("start_util", "util", initialized, brk)
               \/ Start("start_speed", "speed", initialized, brk)
        PROVE  FALSE
    BY <2>4, <1>1 DEF StartValid, Start
  <2>5. ASSUME NEW ptr \in Ptrs \cup {NULL}, NEW brk \in Breaks,
               UtilRequest(ptr, brk) \/ SpeedRequest(ptr, brk)
        PROVE  FALSE
    BY <2>5, <1>1 DEF UtilRequest, SpeedRequest
  <2>6. ASSUME NEW ptr \in Ptrs \cup {NULL}, NEW brk \in Breaks, ValidAlloc(ptr, brk)
        PROVE  Alarm
    BY <2>6, <1>1, AllocAlarm
  <2>7. ASSUME NEW ptr \in Ptrs \cup {NULL}, NEW brk \in Breaks, NEW copied \in BOOLEAN,
               ValidRealloc(ptr, brk, copied)
        PROVE  Alarm
    BY <2>7, <1>1, ReallocAlarm
  <2> QED BY <1>1, <2>1, <2>2, <2>3, <2>4, <2>5, <2>6, <2>7 DEF Next
<1>2. IInv /\ [Next]_vars =>
        [(phase = "valid" /\ errors' # errors /\ size > 0) => Alarm]_vars
  BY <1>1
<1> QED BY <1>2, Invariance, PTL DEF Spec, NoFalseAlarm, Alarm

=============================================================================
