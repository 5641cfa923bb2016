------------------------- MODULE SegregateHeapProofs ------------------------
(***************************************************************************)
(* What the operations of segregate.c on memory do to a well-formed heap   *)
(* with well-formed lists of free blocks: each leaves such a heap, with    *)
(* every free block on the list of its class, and keeps the tags and the   *)
(* contents of every allocated block that is not its own to change.        *)
(***************************************************************************)
EXTENDS Segregate, TraceClientProofs, FltIndexProofs

\* Constants of the layout.
LEMMA Layout ==
  /\ heap_listp \in Nat /\ heap_listp = mem_start_brk + 8 * FLT_SLOT_NUM + 8
  /\ heap_listp % 8 = 0 /\ heap_listp >= 32
  /\ FLT_SLOT_NUM \in 2..11
  /\ mem_start_brk \in Nat /\ mem_start_brk % 8 = 0 /\ mem_start_brk >= 8
  /\ mem_max_addr \in Nat /\ mem_max_addr % 8 = 0
  /\ heap_listp + 8 <= mem_max_addr
  /\ mem_max_addr = mem_start_brk + MAX_HEAP
  /\ BLK_MIN_SIZE = 16
  /\ Nat \subseteq Word
<1>1. FLT_SLOT_NUM \in 2..11
  BY SlotAssumption, SegregateAssumption
<1>. QED
  BY <1>1, RegionAssumption, SegregateAssumption
  DEF heap_listp, freelist_table, FLT_SIZE, WSIZE, ALIGNMENT, BLK_MIN_SIZE, mem_max_addr, Word

\* Aligned addresses of the region are word addresses.
LEMMA AddrFacts ==
  ASSUME NEW a \in Int, a % 8 = 0, mem_start_brk <= a
  PROVE  /\ a <= mem_max_addr => a - 4 \in Addr
         /\ a < mem_max_addr => a \in Addr /\ a + 4 \in Addr
BY RegionAssumption DEF Addr, mem_max_addr

\* A store of a pointer changes the two words at the address and nothing else.
LEMMA SetPtrFacts ==
  ASSUME NEW m \in Memory, NEW a \in Int, a % 8 = 0, mem_start_brk <= a, a < mem_max_addr,
         NEW v \in Word
  PROVE  /\ SetPtr(m, a, v) \in Memory
         /\ SetPtr(m, a, v)[a] = v
         /\ \A w \in Addr : w # a /\ w # a + 4 => SetPtr(m, a, v)[w] = m[w]
<1>. DEFINE m1 == SET(m, a, v)
            c  == a + 4
            m2 == SET(m1, c, 0)
<1>1. a \in Addr /\ c \in Addr /\ a # c /\ 0 \in Word
  BY AddrFacts, Layout
<1>2. SetPtr(m, a, v) = m2
  BY DEF SetPtr
<1>. HIDE DEF c
<1>3. m1 \in Memory /\ m1[a] = v /\ \A w \in Addr : w # a => m1[w] = m[w]
  BY <1>1 DEF SET, Memory
<1>. HIDE DEF m1
<1>4. m2 \in Memory /\ m2[c] = 0 /\ \A w \in Addr : w # c => m2[w] = m1[w]
  BY <1>1, <1>3 DEF SET, Memory
<1>. HIDE DEF m2
<1>. QED  BY <1>1, <1>2, <1>3, <1>4 DEF c

(***************************************************************************)
(* The lists.  A list starts in a slot of the table; class 0 is left out:  *)
(* no block of its size is ever unlinked, so that its list also holds      *)
(* pointers to blocks long gone.  F is the set of the blocks on the lists. *)
(***************************************************************************)
Heads    == {Slot(k) : k \in 1..(FLT_SLOT_NUM - 1)}
Nodes(F) == F \cup Heads

\* Blocks of more than the smallest size, none reaching into another.
Spread(F) ==
  \A b \in F :
    /\ b \in Nat /\ b % 8 = 0 /\ heap_listp + 8 <= b /\ b + 16 < mem_max_addr
    /\ \A c \in F : b < c => b + 24 <= c

\* The class of the list a node belongs to.
Class(m, x) == IF x < heap_listp THEN (x - freelist_table) \div 8
               ELSE flt_index(BLK_AVAL_SIZE(m, x))

\* next and prev are inverse, and a list stays within its class.
NextOK(m, F, x) ==
  NEXT_FREE_BLKP(m, x) # NULL =>
    /\ NEXT_FREE_BLKP(m, x) \in F
    /\ PREV_FREE_BLKP(m, NEXT_FREE_BLKP(m, x)) = x
    /\ Class(m, NEXT_FREE_BLKP(m, x)) = Class(m, x)

PrevOK(m, F, b) ==
  /\ PREV_FREE_BLKP(m, b) \in Nodes(F)
  /\ NEXT_FREE_BLKP(m, PREV_FREE_BLKP(m, b)) = b

Linked(m, F) == (\A x \in Nodes(F) : NextOK(m, F, x)) /\ (\A b \in F : PrevOK(m, F, b))

\* No list runs in a circle: there is a number for each block that grows on the
\* way along a list.
Ranked(m, F, rank) ==
  \A b \in F : NEXT_FREE_BLKP(m, b) # NULL => rank[b] < rank[NEXT_FREE_BLKP(m, b)]

Lists(m, F) == Linked(m, F) /\ \E rank \in [F -> Nat] : Ranked(m, F, rank)

\* The words of the blocks in F that hold next and prev, and the table.
Touched(m, n, F) ==
  \A w \in Addr :
    n[w] = m[w] \/ w < heap_listp - 8 \/ \E b \in F : b <= w /\ w < b + 16

\* Slots lie under the heap.
LEMMA SlotFacts ==
  ASSUME NEW k \in 0..(FLT_SLOT_NUM - 1)
  PROVE  /\ Slot(k) \in Nat /\ Slot(k) % 8 = 0 /\ mem_start_brk <= Slot(k)
         /\ Slot(k) + 16 <= heap_listp
         /\ (Slot(k) - freelist_table) \div 8 = k
BY Layout DEF Slot, freelist_table

\* Where the pointers of a node are: no two share a word, and none is a header.
LEMMA NodeFacts ==
  ASSUME NEW F, Spread(F), NEW x \in Nodes(F)
  PROVE  /\ x \in Nat /\ x % 8 = 0 /\ mem_start_brk <= x /\ x < mem_max_addr /\ x # NULL
         /\ x \in Word
         /\ x \in F => x \notin Heads /\ heap_listp + 8 <= x /\ x + 16 < mem_max_addr
         /\ x \in Heads => x + 16 <= heap_listp
         /\ \A b \in F : x # b + 8 /\ x # b - 8 /\ x + 8 # b - 8
<1>1. CASE x \in F
  <2>1. /\ x \in Nat /\ x % 8 = 0 /\ heap_listp + 8 <= x /\ x + 16 < mem_max_addr
        /\ \A c \in F : x < c => x + 24 <= c
    BY <1>1 DEF Spread
  <2>2. x \notin Heads
    <3>1. \A k \in 1..(FLT_SLOT_NUM - 1) : Slot(k) < heap_listp
      BY SlotFacts, Layout
    <3>. QED  BY <2>1, <3>1, Layout DEF Heads
  <2>3. \A b \in F : x # b + 8 /\ x # b - 8 /\ x + 8 # b - 8
    <3>. SUFFICES ASSUME NEW b \in F
                  PROVE  x # b + 8 /\ x # b - 8 /\ x + 8 # b - 8
      OBVIOUS
    <3>1. b \in Nat /\ (b < x => b + 24 <= x)
      BY <1>1 DEF Spread
    <3>. QED  BY <2>1, <3>1
  <2>. QED  BY <1>1, <2>1, <2>2, <2>3, Layout DEF NULL
<1>2. CASE x \in Heads
  <2>1. PICK k \in 1..(FLT_SLOT_NUM - 1) : x = Slot(k)
    BY <1>2 DEF Heads
  <2>2. x \in Nat /\ x % 8 = 0 /\ mem_start_brk <= x /\ x + 16 <= heap_listp
    BY <2>1, SlotFacts, Layout
  <2>3. \A b \in F : b \in Nat /\ heap_listp + 8 <= b
    BY DEF Spread
  <2>4. x \notin F
    BY <2>2, <2>3, Layout
  <2>5. \A b \in F : x # b + 8 /\ x # b - 8 /\ x + 8 # b - 8
    BY <2>2, <2>3, Layout
  <2>6. x < mem_max_addr /\ x # NULL /\ x \in Word
    BY <2>2, Layout DEF NULL
  <2>. QED  BY <2>2, <2>4, <2>5, <2>6
<1>. QED  BY <1>1, <1>2 DEF Nodes

\* What the lists see of a memory is the same in another one.
SameTags(m, n, F) == \A b \in F : n[b - 4] = m[b - 4]

LEMMA TouchedTwice ==
  ASSUME NEW m, NEW n, NEW o, NEW F, Touched(m, n, F), Touched(n, o, F)
  PROVE  Touched(m, o, F)
BY DEF Touched

LEMMA TagsTwice ==
  ASSUME NEW m, NEW n, NEW o, NEW F, SameTags(m, n, F), SameTags(n, o, F)
  PROVE  SameTags(m, o, F)
BY DEF SameTags

\* The class of a node depends on its header only.
LEMMA SameClass ==
  ASSUME NEW m, NEW n, NEW F, Spread(F), SameTags(m, n, F), NEW x \in Nodes(F)
  PROVE  Class(n, x) = Class(m, x)
<1>1. CASE x \in F
  <2>1. BLK_AVAL_SIZE(n, x) = BLK_AVAL_SIZE(m, x)
    BY <1>1 DEF SameTags, BLK_AVAL_SIZE, BLK_SIZE, BLK_HDRP, WSIZE
  <2>. QED  BY <2>1 DEF Class
<1>2. CASE x \in Heads
  <2>1. x < heap_listp
    BY <1>2, NodeFacts, Layout
  <2>. QED  BY <2>1 DEF Class
<1>. QED  BY <1>1, <1>2 DEF Nodes

\* A store to the next pointer of x.
LEMMA SetNextFacts ==
  ASSUME NEW m \in Memory, NEW F, Spread(F), NEW x \in Nodes(F), NEW v \in Word
  PROVE  LET n == SET_NEXT_FREE_BLK(m, x, v)
         IN  /\ n \in Memory
             /\ NEXT_FREE_BLKP(n, x) = v
             /\ \A y \in Nodes(F) : y # x => NEXT_FREE_BLKP(n, y) = NEXT_FREE_BLKP(m, y)
             /\ \A b \in F : PREV_FREE_BLKP(n, b) = PREV_FREE_BLKP(m, b)
             /\ SameTags(m, n, F)
             /\ Touched(m, n, F)
<1>. DEFINE n == SET_NEXT_FREE_BLK(m, x, v)
<1>1. /\ x \in Nat /\ x % 8 = 0 /\ mem_start_brk <= x /\ x < mem_max_addr
      /\ x \in Heads => x + 16 <= heap_listp
      /\ \A b \in F : x # b + 8 /\ x # b - 8
  BY NodeFacts
<1>2. /\ n \in Memory /\ n[x] = v
      /\ \A w \in Addr : w # x /\ w # x + 4 => n[w] = m[w]
  BY <1>1, SetPtrFacts DEF SET_NEXT_FREE_BLK
<1>. HIDE DEF n
<1>3. ASSUME NEW w \in Addr, w % 8 = 0, w # x
      PROVE  n[w] = m[w]
  BY <1>1, <1>2, <1>3 DEF Addr
<1>4. ASSUME NEW y \in Nodes(F), y # x
      PROVE  n[y] = m[y]
  <2>1. y \in Addr /\ y % 8 = 0
    BY NodeFacts, AddrFacts
  <2>. QED  BY <1>3, <1>4, <2>1
<1>5. ASSUME NEW b \in F
      PROVE  n[b + 8] = m[b + 8] /\ n[b - 4] = m[b - 4]
  <2>1. /\ b \in Nat /\ b % 8 = 0 /\ heap_listp + 8 <= b /\ b + 16 < mem_max_addr
    BY DEF Spread
  <2>2. b + 8 \in Int /\ (b + 8) % 8 = 0 /\ mem_start_brk <= b + 8 /\ b + 8 < mem_max_addr
    BY <2>1, Layout
  <2>3. b + 8 \in Addr
    BY <2>2, AddrFacts
  <2>4. mem_start_brk <= b /\ b <= mem_max_addr
    BY <2>1, Layout
  <2>5. b - 4 \in Addr
    BY <2>1, <2>4, AddrFacts
  <2>6. b - 4 # x /\ b - 4 # x + 4
    BY <1>1, <2>1
  <2>. QED  BY <1>1, <1>2, <1>3, <2>2, <2>3, <2>5, <2>6
<1>6. Touched(m, n, F)
  <2>. SUFFICES ASSUME NEW w \in Addr, n[w] # m[w]
                PROVE  w < heap_listp - 8 \/ \E b \in F : b <= w /\ w < b + 16
    BY DEF Touched
  <2>1. w = x \/ w = x + 4
    BY <1>2
  <2>2. CASE x \in F
    BY <1>1, <2>1, <2>2
  <2>3. CASE x \in Heads
    BY <1>1, <2>1, <2>3, Layout
  <2>. QED  BY <2>2, <2>3 DEF Nodes
<1>7. /\ NEXT_FREE_BLKP(n, x) = v
      /\ \A y \in Nodes(F) : y # x => NEXT_FREE_BLKP(n, y) = NEXT_FREE_BLKP(m, y)
      /\ \A b \in F : PREV_FREE_BLKP(n, b) = PREV_FREE_BLKP(m, b)
      /\ SameTags(m, n, F)
  BY <1>2, <1>4, <1>5 DEF NEXT_FREE_BLKP, PREV_FREE_BLKP, SameTags
<1>. QED  BY <1>2, <1>6, <1>7 DEF n

\* A store to the prev pointer of b.
LEMMA SetPrevFacts ==
  ASSUME NEW m \in Memory, NEW F, Spread(F), NEW b \in F, NEW v \in Word
  PROVE  LET n == SET_PREV_FREE_BLK(m, b, v)
         IN  /\ n \in Memory
             /\ PREV_FREE_BLKP(n, b) = v
             /\ \A y \in Nodes(F) : NEXT_FREE_BLKP(n, y) = NEXT_FREE_BLKP(m, y)
             /\ \A c \in F : c # b => PREV_FREE_BLKP(n, c) = PREV_FREE_BLKP(m, c)
             /\ SameTags(m, n, F)
             /\ Touched(m, n, F)
<1>. DEFINE n == SET_PREV_FREE_BLK(m, b, v)
            x == b + 8
<1>1. /\ b \in Nat /\ b % 8 = 0 /\ heap_listp + 8 <= b /\ b + 16 < mem_max_addr
  BY DEF Spread
<1>2. x \in Int /\ x % 8 = 0 /\ mem_start_brk <= x /\ x < mem_max_addr
  BY <1>1, Layout
<1>3. /\ n \in Memory /\ n[x] = v
      /\ \A w \in Addr : w # x /\ w # x + 4 => n[w] = m[w]
  <2>. HIDE DEF x
  <2>1. n = SetPtr(m, x, v)
    BY DEF SET_PREV_FREE_BLK, x
  <2>. QED  BY <1>2, <2>1, SetPtrFacts
<1>. HIDE DEF n
<1>4. ASSUME NEW y \in Nodes(F)
      PROVE  n[y] = m[y]
  <2>1. y \in Addr /\ y % 8 = 0 /\ y \in Nat /\ y # x
    BY NodeFacts, AddrFacts
  <2>. QED  BY <1>1, <1>3, <2>1
<1>5. ASSUME NEW c \in F
      PROVE  n[c - 4] = m[c - 4] /\ (c # b => n[c + 8] = m[c + 8])
  <2>1. /\ c \in Nat /\ c % 8 = 0 /\ heap_listp + 8 <= c /\ c + 16 < mem_max_addr
        /\ (b < c => b + 24 <= c)
    BY DEF Spread
  <2>2. c + 8 \in Int /\ (c + 8) % 8 = 0 /\ mem_start_brk <= c + 8 /\ c + 8 < mem_max_addr
    BY <2>1, Layout
  <2>3. c + 8 \in Addr
    BY <2>2, AddrFacts
  <2>4. mem_start_brk <= c /\ c <= mem_max_addr
    BY <2>1, Layout
  <2>5. c - 4 \in Addr
    BY <2>1, <2>4, AddrFacts
  <2>6. c - 4 # x /\ c - 4 # x + 4 /\ (c # b => c + 8 # x /\ c + 8 # x + 4)
    BY <1>1, <2>1
  <2>. QED  BY <1>3, <2>3, <2>5, <2>6
<1>6. Touched(m, n, F)
  <2>. SUFFICES ASSUME NEW w \in Addr, n[w] # m[w]
                PROVE  w < heap_listp - 8 \/ \E c \in F : c <= w /\ w < c + 16
    BY DEF Touched
  <2>1. w = x \/ w = x + 4
    BY <1>3
  <2>2. b <= w /\ w < b + 16
    BY <1>1, <2>1
  <2>. QED  BY <2>2
<1>7. /\ PREV_FREE_BLKP(n, b) = v
      /\ \A y \in Nodes(F) : NEXT_FREE_BLKP(n, y) = NEXT_FREE_BLKP(m, y)
      /\ \A c \in F : c # b => PREV_FREE_BLKP(n, c) = PREV_FREE_BLKP(m, c)
      /\ SameTags(m, n, F)
  BY <1>3, <1>4, <1>5 DEF NEXT_FREE_BLKP, PREV_FREE_BLKP, SameTags
<1>. QED  BY <1>3, <1>6, <1>7 DEF n

\* Lists read nothing but the pointers and the headers of their nodes.
LEMMA ListsFrame ==
  ASSUME NEW m, NEW n, NEW F, Spread(F), Lists(m, F), SameTags(m, n, F),
         \A x \in Nodes(F) : NEXT_FREE_BLKP(n, x) = NEXT_FREE_BLKP(m, x),
         \A b \in F : PREV_FREE_BLKP(n, b) = PREV_FREE_BLKP(m, b)
  PROVE  Lists(n, F)
<1>1. Linked(m, F)
  BY DEF Lists
<1>2. \A x \in Nodes(F) : Class(n, x) = Class(m, x)
  BY SameClass
<1>3. F \subseteq Nodes(F)
  BY DEF Nodes
<1>4. ASSUME NEW x \in Nodes(F)
      PROVE  NextOK(n, F, x)
  <2>1. NextOK(m, F, x)
    BY <1>1 DEF Linked
  <2>. QED  BY <1>2, <1>3, <2>1 DEF NextOK
<1>5. ASSUME NEW b \in F
      PROVE  PrevOK(n, F, b)
  <2>1. PrevOK(m, F, b)
    BY <1>1 DEF Linked
  <2>. QED  BY <2>1 DEF PrevOK
<1>6. PICK rank \in [F -> Nat] : Ranked(m, F, rank)
  BY DEF Lists
<1>7. Ranked(n, F, rank)
  BY <1>3, <1>6 DEF Ranked
<1>. QED  BY <1>4, <1>5, <1>7 DEF Lists, Linked

\* A list never leads from a block to itself.
LEMMA NoSelfLoop ==
  ASSUME NEW m, NEW F, Spread(F), Lists(m, F), NEW b \in F
  PROVE  NEXT_FREE_BLKP(m, b) # b /\ PREV_FREE_BLKP(m, b) # b
<1>1. PICK rank \in [F -> Nat] : Ranked(m, F, rank)
  BY DEF Lists
<1>2. b # NULL
  BY NodeFacts DEF Nodes
<1>3. NEXT_FREE_BLKP(m, b) # b
  <2>. SUFFICES ASSUME NEXT_FREE_BLKP(m, b) = b
                PROVE  FALSE
    OBVIOUS
  <2>1. rank[b] < rank[b] /\ rank[b] \in Nat
    BY <1>1, <1>2 DEF Ranked
  <2>. QED  BY <2>1
<1>4. PREV_FREE_BLKP(m, b) # b
  BY <1>3 DEF Lists, Linked, PrevOK
<1>. QED  BY <1>3, <1>4

\* FREELIST_DEL_BLK takes a block off its list.
LEMMA UnlinkFacts ==
  ASSUME NEW m \in Memory, NEW F, Spread(F), Lists(m, F),
         NEW b \in F, BLK_SIZE(m, b) > BLK_MIN_SIZE
  PROVE  LET n == FREELIST_DEL_BLK(m, b)
         IN  /\ n \in Memory /\ Lists(n, F \ {b})
             /\ SameTags(m, n, F) /\ Touched(m, n, F)
<1>. DEFINE prevp == PREV_FREE_BLKP(m, b)
            nextp == NEXT_FREE_BLKP(m, b)
            m1    == SET_NEXT_FREE_BLK(m, prevp, nextp)
            n     == FREELIST_DEL_BLK(m, b)
            G     == F \ {b}
<1>1. /\ \A x \in Nodes(F) : NextOK(m, F, x)
      /\ \A c \in F : PrevOK(m, F, c)
  BY DEF Lists, Linked
<1>2. F \subseteq Nodes(F) /\ b \in Nodes(F)
  BY DEF Nodes
<1>3. prevp \in Nodes(F) /\ NEXT_FREE_BLKP(m, prevp) = b
  BY <1>1 DEF PrevOK
<1>4. nextp # NULL => /\ nextp \in F /\ PREV_FREE_BLKP(m, nextp) = b
                      /\ Class(m, nextp) = Class(m, b)
  BY <1>1, <1>2 DEF NextOK
<1>5. prevp # b /\ nextp # b
  BY NoSelfLoop
<1>6. b \notin Heads /\ b # NULL /\ \A x \in Nodes(F) : x \in Word
  BY <1>2, NodeFacts
<1>7. Class(m, b) = Class(m, prevp)
  BY <1>1, <1>3, <1>6 DEF NextOK
<1>8. nextp \in Word /\ prevp \in Word
  BY <1>2, <1>3, <1>4, <1>6, Layout DEF NULL
<1>9. n = IF nextp # NULL THEN SET_PREV_FREE_BLK(m1, nextp, prevp) ELSE m1
  BY DEF FREELIST_DEL_BLK
<1>. HIDE DEF prevp, nextp, n
<1>10. /\ m1 \in Memory
       /\ NEXT_FREE_BLKP(m1, prevp) = nextp
       /\ \A y \in Nodes(F) : y # prevp => NEXT_FREE_BLKP(m1, y) = NEXT_FREE_BLKP(m, y)
       /\ \A c \in F : PREV_FREE_BLKP(m1, c) = PREV_FREE_BLKP(m, c)
       /\ SameTags(m, m1, F)
       /\ Touched(m, m1, F)
  BY <1>3, <1>8, SetNextFacts
<1>. HIDE DEF m1
<1>11. /\ n \in Memory
       /\ NEXT_FREE_BLKP(n, prevp) = nextp
       /\ nextp # NULL => PREV_FREE_BLKP(n, nextp) = prevp
       /\ \A y \in Nodes(F) : y # prevp => NEXT_FREE_BLKP(n, y) = NEXT_FREE_BLKP(m, y)
       /\ \A c \in F : c # nextp => PREV_FREE_BLKP(n, c) = PREV_FREE_BLKP(m, c)
       /\ SameTags(m, n, F)
       /\ Touched(m, n, F)
  <2>1. CASE nextp = NULL
    BY <1>9, <1>10, <2>1
  <2>2. CASE nextp # NULL
    <3>1. n = SET_PREV_FREE_BLK(m1, nextp, prevp) /\ nextp \in F
      BY <1>4, <1>9, <2>2
    <3>2. /\ n \in Memory
          /\ PREV_FREE_BLKP(n, nextp) = prevp
          /\ \A y \in Nodes(F) : NEXT_FREE_BLKP(n, y) = NEXT_FREE_BLKP(m1, y)
          /\ \A c \in F : c # nextp => PREV_FREE_BLKP(n, c) = PREV_FREE_BLKP(m1, c)
          /\ SameTags(m1, n, F)
          /\ Touched(m1, n, F)
      BY <1>8, <1>10, <3>1, SetPrevFacts
    <3>. QED  BY <1>3, <1>10, <3>2, TouchedTwice, TagsTwice
  <2>. QED  BY <2>1, <2>2
<1>12. \A x \in Nodes(F) : Class(n, x) = Class(m, x)
  BY <1>11, SameClass
<1>13. Nodes(G) = Nodes(F) \ {b}
  BY <1>6 DEF Nodes
<1>14. ASSUME NEW x \in Nodes(G)
       PROVE  NextOK(n, G, x)
  <2>. SUFFICES ASSUME NEXT_FREE_BLKP(n, x) # NULL
                PROVE  /\ NEXT_FREE_BLKP(n, x) \in G
                       /\ PREV_FREE_BLKP(n, NEXT_FREE_BLKP(n, x)) = x
                       /\ Class(n, NEXT_FREE_BLKP(n, x)) = Class(n, x)
    BY DEF NextOK
  <2>1. x \in Nodes(F) /\ x # b
    BY <1>13
  <2>2. CASE x = prevp
    <3>1. NEXT_FREE_BLKP(n, x) = nextp /\ nextp # NULL
      BY <1>11, <2>2
    <3>. QED  BY <1>2, <1>3, <1>4, <1>5, <1>7, <1>11, <1>12, <2>2, <3>1
  <2>3. CASE x # prevp
    <3>. DEFINE y == NEXT_FREE_BLKP(m, x)
    <3>1. NEXT_FREE_BLKP(n, x) = y
      BY <1>11, <2>1, <2>3
    <3>2. y \in F /\ PREV_FREE_BLKP(m, y) = x /\ Class(m, y) = Class(m, x)
      BY <1>1, <2>1, <3>1 DEF NextOK
    <3>. HIDE DEF y
    <3>3. y # b
      BY <2>3, <3>2 DEF prevp
    <3>4. y # nextp
      BY <1>4, <2>1, <3>1, <3>2
    <3>. QED  BY <1>2, <1>11, <1>12, <2>1, <3>1, <3>2, <3>3, <3>4
  <2>. QED  BY <2>2, <2>3
<1>15. ASSUME NEW c \in G
       PROVE  PrevOK(n, G, c)
  <2>1. CASE c = nextp
    <3>1. c # NULL
      BY <1>2, NodeFacts
    <3>2. PREV_FREE_BLKP(n, c) = prevp /\ NEXT_FREE_BLKP(n, prevp) = c
      BY <1>11, <2>1, <3>1
    <3>. QED  BY <1>3, <1>5, <1>13, <3>2 DEF PrevOK
  <2>2. CASE c # nextp
    <3>. DEFINE y == PREV_FREE_BLKP(m, c)
    <3>1. PREV_FREE_BLKP(n, c) = y
      BY <1>11, <2>2
    <3>2. y \in Nodes(F) /\ NEXT_FREE_BLKP(m, y) = c
      BY <1>1 DEF PrevOK
    <3>. HIDE DEF y
    <3>3. y # b
      BY <2>2, <3>2 DEF nextp
    <3>4. y # prevp
      BY <1>3, <3>2
    <3>. QED  BY <1>11, <1>13, <3>1, <3>2, <3>3, <3>4 DEF PrevOK
  <2>. QED  BY <2>1, <2>2
<1>16. PICK rank \in [F -> Nat] : Ranked(m, F, rank)
  BY DEF Lists
<1>. DEFINE r == [c \in G |-> rank[c]]
<1>17. r \in [G -> Nat]
  OBVIOUS
<1>18. Ranked(n, G, r)
  <2>. SUFFICES ASSUME NEW c \in G, NEXT_FREE_BLKP(n, c) # NULL
                PROVE  r[c] < r[NEXT_FREE_BLKP(n, c)]
    BY DEF Ranked
  <2>1. NEXT_FREE_BLKP(n, c) \in G
    BY <1>14 DEF NextOK, Nodes
  <2>2. r[c] = rank[c] /\ r[NEXT_FREE_BLKP(n, c)] = rank[NEXT_FREE_BLKP(n, c)]
    BY <2>1
  <2>. HIDE DEF r
  <2>3. CASE c = prevp
    <3>1. NEXT_FREE_BLKP(n, c) = nextp /\ nextp # NULL /\ nextp \in F
      BY <1>4, <1>11, <2>3
    <3>2. rank[c] < rank[b]
      BY <1>3, <1>6, <1>16, <2>3 DEF Ranked
    <3>3. rank[b] < rank[nextp]
      BY <1>16, <3>1 DEF Ranked, nextp
    <3>4. rank[c] \in Nat /\ rank[b] \in Nat /\ rank[nextp] \in Nat
      BY <3>1
    <3>. QED  BY <2>2, <3>1, <3>2, <3>3, <3>4
  <2>4. CASE c # prevp
    <3>1. NEXT_FREE_BLKP(n, c) = NEXT_FREE_BLKP(m, c)
      BY <1>2, <1>11, <2>4
    <3>. QED  BY <1>16, <2>2, <3>1 DEF Ranked
  <2>. QED  BY <2>3, <2>4
<1>19. Lists(n, G)
  BY <1>14, <1>15, <1>17, <1>18 DEF Lists, Linked
<1>. QED  BY <1>11, <1>19 DEF n

\* freelist_insert2 puts a block that is on no list in front of the list of its class.
LEMMA PushFacts ==
  ASSUME NEW m \in Memory, NEW G, NEW b, b \notin G, Spread(G \cup {b}), Lists(m, G),
         BLK_SIZE(m, b) # BLK_MIN_SIZE, NEW h \in Heads, Class(m, h) = Class(m, b)
  PROVE  LET n == freelist_insert2(m, h, b)
             F == G \cup {b}
         IN  /\ n \in Memory /\ Lists(n, F)
             /\ SameTags(m, n, F) /\ Touched(m, n, F)
<1>. DEFINE F     == G \cup {b}
            nextp == NEXT_FREE_BLKP(m, h)
            m1    == SET_NEXT_FREE_BLK(m, b, nextp)
            m2    == SET_PREV_FREE_BLK(m1, b, h)
            m3    == SET_NEXT_FREE_BLK(m2, h, b)
            n     == freelist_insert2(m, h, b)
<1>. HIDE DEF F
<1>0. Spread(F) /\ b \in F /\ G \subseteq F /\ F = G \cup {b}
  BY DEF F
<1>1. /\ \A x \in Nodes(G) : NextOK(m, G, x)
      /\ \A c \in G : PrevOK(m, G, c)
  BY DEF Lists, Linked
<1>2. /\ Nodes(F) = Nodes(G) \cup {b} /\ F \subseteq Nodes(F)
      /\ b \in Nodes(F) /\ h \in Nodes(G) /\ h \in Nodes(F)
  BY <1>0 DEF Nodes
<1>3. /\ \A x \in Nodes(F) : x \in Word /\ x # NULL
      /\ \A x \in F : x \notin Heads
  BY <1>2, <1>0, NodeFacts
<1>4. b # h /\ h \notin F
  BY <1>0, <1>3
<1>5. nextp # NULL => /\ nextp \in G /\ PREV_FREE_BLKP(m, nextp) = h
                      /\ Class(m, nextp) = Class(m, h) /\ nextp # b /\ nextp \in F
  BY <1>0, <1>1, <1>2 DEF NextOK
<1>6. nextp \in Word /\ b \in Word /\ h \in Word
  BY <1>0, <1>2, <1>3, <1>5, Layout DEF NULL
<1>7. n = IF nextp # NULL THEN SET_PREV_FREE_BLK(m3, nextp, b) ELSE m3
  BY DEF freelist_insert2
<1>. HIDE DEF n, nextp
<1>8. /\ m1 \in Memory
      /\ NEXT_FREE_BLKP(m1, b) = nextp
      /\ \A y \in Nodes(F) : y # b => NEXT_FREE_BLKP(m1, y) = NEXT_FREE_BLKP(m, y)
      /\ \A c \in F : PREV_FREE_BLKP(m1, c) = PREV_FREE_BLKP(m, c)
      /\ SameTags(m, m1, F) /\ Touched(m, m1, F)
  BY <1>0, <1>2, <1>6, SetNextFacts
<1>. HIDE DEF m1
<1>9. /\ m2 \in Memory
      /\ PREV_FREE_BLKP(m2, b) = h
      /\ \A y \in Nodes(F) : NEXT_FREE_BLKP(m2, y) = NEXT_FREE_BLKP(m1, y)
      /\ \A c \in F : c # b => PREV_FREE_BLKP(m2, c) = PREV_FREE_BLKP(m1, c)
      /\ SameTags(m1, m2, F) /\ Touched(m1, m2, F)
  BY <1>0, <1>6, <1>8, SetPrevFacts
<1>. HIDE DEF m2
<1>10. /\ m3 \in Memory
       /\ NEXT_FREE_BLKP(m3, h) = b
       /\ \A y \in Nodes(F) : y # h => NEXT_FREE_BLKP(m3, y) = NEXT_FREE_BLKP(m2, y)
       /\ \A c \in F : PREV_FREE_BLKP(m3, c) = PREV_FREE_BLKP(m2, c)
       /\ SameTags(m2, m3, F) /\ Touched(m2, m3, F)
  BY <1>0, <1>2, <1>6, <1>9, SetNextFacts
<1>. HIDE DEF m3
<1>11. SameTags(m, m3, F) /\ Touched(m, m3, F)
  BY <1>8, <1>9, <1>10, TagsTwice, TouchedTwice
<1>12. /\ m3 \in Memory
       /\ NEXT_FREE_BLKP(m3, h) = b /\ NEXT_FREE_BLKP(m3, b) = nextp
       /\ PREV_FREE_BLKP(m3, b) = h
       /\ \A y \in Nodes(F) : y # h /\ y # b => NEXT_FREE_BLKP(m3, y) = NEXT_FREE_BLKP(m, y)
       /\ \A c \in F : c # b => PREV_FREE_BLKP(m3, c) = PREV_FREE_BLKP(m, c)
  BY <1>0, <1>2, <1>4, <1>8, <1>9, <1>10
<1>13. /\ n \in Memory
       /\ NEXT_FREE_BLKP(n, h) = b /\ NEXT_FREE_BLKP(n, b) = nextp
       /\ PREV_FREE_BLKP(n, b) = h
       /\ nextp # NULL => PREV_FREE_BLKP(n, nextp) = b
       /\ \A y \in Nodes(F) : y # h /\ y # b => NEXT_FREE_BLKP(n, y) = NEXT_FREE_BLKP(m, y)
       /\ \A c \in F : c # b /\ c # nextp => PREV_FREE_BLKP(n, c) = PREV_FREE_BLKP(m, c)
       /\ SameTags(m, n, F) /\ Touched(m, n, F)
  <2>1. CASE nextp = NULL
    BY <1>7, <1>11, <1>12, <2>1
  <2>2. CASE nextp # NULL
    <3>1. n = SET_PREV_FREE_BLK(m3, nextp, b) /\ nextp \in F /\ nextp # b
      BY <1>5, <1>7, <2>2
    <3>2. /\ n \in Memory
          /\ PREV_FREE_BLKP(n, nextp) = b
          /\ \A y \in Nodes(F) : NEXT_FREE_BLKP(n, y) = NEXT_FREE_BLKP(m3, y)
          /\ \A c \in F : c # nextp => PREV_FREE_BLKP(n, c) = PREV_FREE_BLKP(m3, c)
          /\ SameTags(m3, n, F) /\ Touched(m3, n, F)
      BY <1>0, <1>6, <1>12, <3>1, SetPrevFacts
    <3>3. SameTags(m, n, F) /\ Touched(m, n, F)
      BY <1>11, <3>2, TagsTwice, TouchedTwice
    <3>. QED  BY <1>0, <1>2, <1>12, <3>1, <3>2, <3>3
  <2>. QED  BY <2>1, <2>2
<1>14. \A x \in Nodes(F) : Class(n, x) = Class(m, x)
  BY <1>0, <1>13, SameClass
<1>15. ASSUME NEW x \in Nodes(F)
       PROVE  NextOK(n, F, x)
  <2>. SUFFICES ASSUME NEXT_FREE_BLKP(n, x) # NULL
                PROVE  /\ NEXT_FREE_BLKP(n, x) \in F
                       /\ PREV_FREE_BLKP(n, NEXT_FREE_BLKP(n, x)) = x
                       /\ Class(n, NEXT_FREE_BLKP(n, x)) = Class(n, x)
    BY DEF NextOK
  <2>1. CASE x = h
    BY <1>0, <1>2, <1>13, <1>14, <2>1
  <2>2. CASE x = b
    BY <1>2, <1>5, <1>13, <1>14, <2>2
  <2>3. CASE x # h /\ x # b
    <3>. DEFINE y == NEXT_FREE_BLKP(m, x)
    <3>1. NEXT_FREE_BLKP(n, x) = y /\ x \in Nodes(G)
      BY <1>2, <1>13, <2>3
    <3>2. y \in G /\ PREV_FREE_BLKP(m, y) = x /\ Class(m, y) = Class(m, x)
      BY <1>1, <3>1 DEF NextOK
    <3>. HIDE DEF y
    <3>3. y # nextp
      BY <1>5, <2>3, <3>1, <3>2
    <3>4. y # b /\ y \in F /\ y \in Nodes(F)
      BY <1>0, <1>2, <3>2
    <3>. QED  BY <1>13, <1>14, <3>1, <3>2, <3>3, <3>4
  <2>. QED  BY <2>1, <2>2, <2>3
<1>16. ASSUME NEW c \in F
       PROVE  PrevOK(n, F, c)
  <2>1. CASE c = b
    BY <1>2, <1>13, <2>1 DEF PrevOK
  <2>2. CASE c # b /\ c = nextp
    <3>1. c # NULL /\ b \in Nodes(F)
      BY <1>0, <1>2, <1>3
    <3>. QED  BY <1>13, <2>2, <3>1 DEF PrevOK
  <2>3. CASE c # b /\ c # nextp
    <3>. DEFINE y == PREV_FREE_BLKP(m, c)
    <3>1. PREV_FREE_BLKP(n, c) = y /\ c \in G
      BY <1>0, <1>13, <2>3
    <3>2. y \in Nodes(G) /\ NEXT_FREE_BLKP(m, y) = c
      BY <1>1, <3>1 DEF PrevOK
    <3>. HIDE DEF y
    <3>3. y # h
      BY <2>3, <3>2 DEF nextp
    <3>4. y # b
      BY <1>3, <1>0, <3>2 DEF Nodes
    <3>. QED  BY <1>2, <1>13, <3>1, <3>2, <3>3, <3>4 DEF PrevOK
  <2>. QED  BY <2>1, <2>2, <2>3
<1>17. PICK rank \in [G -> Nat] : Ranked(m, G, rank)
  BY DEF Lists
<1>. DEFINE r == [c \in F |-> IF c = b THEN 0 ELSE rank[c] + 1]
<1>18. r \in [F -> Nat] /\ r[b] = 0 /\ \A c \in F : c # b => r[c] = rank[c] + 1 /\ rank[c] \in Nat
  BY <1>0
<1>. HIDE DEF r
<1>19. Ranked(n, F, r)
  <2>. SUFFICES ASSUME NEW c \in F, NEXT_FREE_BLKP(n, c) # NULL
                PROVE  r[c] < r[NEXT_FREE_BLKP(n, c)]
    BY DEF Ranked
  <2>1. CASE c = b
    <3>1. NEXT_FREE_BLKP(n, c) \in F /\ NEXT_FREE_BLKP(n, c) # b
      BY <1>5, <1>13, <2>1
    <3>2. r[NEXT_FREE_BLKP(n, c)] = rank[NEXT_FREE_BLKP(n, c)] + 1 /\ rank[NEXT_FREE_BLKP(n, c)] \in Nat
      BY <1>18, <3>1
    <3>. QED  BY <1>18, <2>1, <3>2
  <2>2. CASE c # b
    <3>1. c \in G /\ c # h /\ NEXT_FREE_BLKP(n, c) = NEXT_FREE_BLKP(m, c)
      BY <1>0, <1>2, <1>4, <1>13, <2>2
    <3>2. NEXT_FREE_BLKP(m, c) \in G
      BY <1>1, <3>1 DEF NextOK, Nodes
    <3>3. rank[c] < rank[NEXT_FREE_BLKP(m, c)]
      BY <1>17, <3>1 DEF Ranked
    <3>4. /\ r[c] = rank[c] + 1 /\ rank[c] \in Nat
          /\ r[NEXT_FREE_BLKP(m, c)] = rank[NEXT_FREE_BLKP(m, c)] + 1
          /\ rank[NEXT_FREE_BLKP(m, c)] \in Nat
      BY <1>0, <1>18, <2>2, <3>2
    <3>. QED  BY <3>1, <3>3, <3>4
  <2>. QED  BY <2>1, <2>2
<1>20. Lists(n, F)
  BY <1>15, <1>16, <1>18, <1>19 DEF Lists, Linked
<1>. QED  BY <1>13, <1>20 DEF n, F

(***************************************************************************)
(* A well-formed heap with the blocks B: they tile it from the prologue to *)
(* the epilogue header under the break.                                    *)
(***************************************************************************)
HeapOK(m, brk, B) ==
  /\ m \in Memory
  /\ brk \in Nat /\ brk % 8 = 0 /\ heap_listp < brk /\ brk <= mem_max_addr
  /\ Tiling(m, heap_listp, brk, B)
  /\ BLK_SIZE(m, heap_listp) = 8 /\ BLK_STATE(m, heap_listp) = BLK_ALLOC
  /\ m[brk - 4] = PACK(0, BLK_ALLOC)
  /\ \A b \in B : b # heap_listp => BLK_SIZE(m, b) >= BLK_MIN_SIZE

\* The free blocks that have room for both pointers.
Frees(m, B) == {b \in B : BLK_STATE(m, b) = BLK_FREE /\ BLK_SIZE(m, b) > BLK_MIN_SIZE}

\* No two neighbouring blocks are free, unless one of them is x.
Apart(m, B, x) ==
  \A b \in B : (b # x /\ NEXT_BLKP(m, b) # x /\ BLK_STATE(m, b) = BLK_FREE) =>
     NEXT_BLK_ALLOC(m, b) = BLK_ALLOC

\* A heap in which everything is in order except that the block x, whatever its
\* tags say, is on no list and may have free neighbours.  For x = NULL the heap is
\* as it is between calls.
Loose(m, brk, B, x) == HeapOK(m, brk, B) /\ Lists(m, Frees(m, B) \ {x}) /\ Apart(m, B, x)

\* The words between the tags of a block.
InPayload(m, b, w) == b <= w /\ w < b + BLK_SIZE(m, b) - 8

\* Every allocated block except own is a block still, with the tags and the
\* contents it had, and no other block is allocated but new.
Kept(m, n, B, C, own, new) ==
  /\ \A b \in B : (BLK_STATE(m, b) = BLK_ALLOC /\ b # own) =>
        /\ b \in C
        /\ n[b - 4] = m[b - 4]
        /\ \A w \in Addr : InPayload(m, b, w) => n[w] = m[w]
  /\ \A b \in C : BLK_STATE(n, b) = BLK_ALLOC =>
        b = new \/ (b \in B /\ BLK_STATE(m, b) = BLK_ALLOC /\ b # own)

\* The size and the mark of a block are in its header.
LEMMA HeaderFacts ==
  ASSUME NEW m, NEW n, NEW b, n[b - 4] = m[b - 4]
  PROVE  /\ BLK_SIZE(n, b) = BLK_SIZE(m, b)
         /\ BLK_STATE(n, b) = BLK_STATE(m, b)
         /\ BLK_AVAL_SIZE(n, b) = BLK_AVAL_SIZE(m, b)
         /\ NEXT_BLKP(n, b) = NEXT_BLKP(m, b)
         /\ \A w : InPayload(n, b, w) <=> InPayload(m, b, w)
<1>1. BLK_SIZE(n, b) = BLK_SIZE(m, b) /\ BLK_STATE(n, b) = BLK_STATE(m, b)
  BY DEF BLK_SIZE, BLK_STATE, BLK_HDRP, WSIZE
<1>. QED  BY <1>1 DEF BLK_AVAL_SIZE, NEXT_BLKP, InPayload

\* Two operations that keep the blocks of others, one after the other.
LEMMA KeptTwice ==
  ASSUME NEW m, NEW n, NEW o, NEW B, NEW C, NEW D, NEW own, NEW new,
         Kept(m, n, B, C, own, own), Kept(n, o, C, D, own, new)
  PROVE  Kept(m, o, B, D, own, new)
<1>1. ASSUME NEW b \in B, BLK_STATE(m, b) = BLK_ALLOC, b # own
      PROVE  /\ b \in D /\ o[b - 4] = m[b - 4]
             /\ \A w \in Addr : InPayload(m, b, w) => o[w] = m[w]
  <2>1. /\ b \in C /\ n[b - 4] = m[b - 4]
        /\ \A w \in Addr : InPayload(m, b, w) => n[w] = m[w]
    BY <1>1 DEF Kept
  <2>2. BLK_STATE(n, b) = BLK_ALLOC /\ \A w : InPayload(n, b, w) <=> InPayload(m, b, w)
    BY <1>1, <2>1, HeaderFacts
  <2>3. /\ b \in D /\ o[b - 4] = n[b - 4]
        /\ \A w \in Addr : InPayload(n, b, w) => o[w] = n[w]
    BY <1>1, <2>1, <2>2 DEF Kept
  <2>. QED  BY <2>1, <2>2, <2>3
<1>2. ASSUME NEW b \in D, BLK_STATE(o, b) = BLK_ALLOC, b # new
      PROVE  b \in B /\ BLK_STATE(m, b) = BLK_ALLOC /\ b # own
  BY <1>2 DEF Kept
<1>. QED  BY <1>1, <1>2 DEF Kept

\* The prologue block and the first word after it.
LEMMA Prologue ==
  ASSUME NEW m, NEW brk, NEW B, HeapOK(m, brk, B)
  PROVE  /\ heap_listp \in B
         /\ \A b \in B : b \in Nat /\ b % 8 = 0 /\ (b # heap_listp => heap_listp + 8 <= b) /\ b < brk
         /\ heap_listp + 8 <= brk
<1>1. Tiling(m, heap_listp, brk, B) /\ BLK_SIZE(m, heap_listp) = 8 /\ brk \in Nat
  BY DEF HeapOK
<1>2. heap_listp \in Int /\ brk \in Int
  BY <1>1, Layout
<1>3. heap_listp \in B
  BY <1>1 DEF Tiling
<1>4. heap_listp + 8 <= brk
  BY <1>1, <1>2, <1>3, TilingBlock
<1>5. \A b \in B : heap_listp <= b /\ b < brk /\ (heap_listp < b => heap_listp + 8 <= b)
  BY <1>1, <1>3 DEF Tiling
<1>6. \A b \in B : b \in Int /\ b % 8 = 0
  BY <1>1, <1>2, TilingBlock
<1>. QED  BY <1>3, <1>4, <1>5, <1>6, Layout

\* What a well-formed heap says of one of its blocks.
LEMMA Block ==
  ASSUME NEW m, NEW brk, NEW B, HeapOK(m, brk, B), NEW b \in B
  PROVE  /\ b \in Nat /\ b % 8 = 0 /\ mem_start_brk + 8 <= b /\ b < brk /\ b # NULL
         /\ heap_listp <= b /\ (b # heap_listp => heap_listp + 8 <= b)
         /\ BLK_SIZE(m, b) \in Nat /\ BLK_SIZE(m, b) % 8 = 0 /\ BLK_SIZE(m, b) >= 8
         /\ b # heap_listp => BLK_SIZE(m, b) >= 16
         /\ b + BLK_SIZE(m, b) \in B \cup {brk}
         /\ b + BLK_SIZE(m, b) <= brk
         /\ BLK_STATE(m, b) \in {BLK_FREE, BLK_ALLOC}
         /\ \A c \in B : b < c => b + BLK_SIZE(m, b) <= c
<1>1. Tiling(m, heap_listp, brk, B) /\ brk \in Int /\ heap_listp \in Int
  BY Layout DEF HeapOK
<1>2. /\ BLK_SIZE(m, b) \in Nat /\ BLK_SIZE(m, b) % 8 = 0 /\ BLK_SIZE(m, b) >= 8
      /\ b + BLK_SIZE(m, b) \in B \cup {brk}
      /\ b + BLK_SIZE(m, b) <= brk
      /\ BLK_STATE(m, b) \in {BLK_FREE, BLK_ALLOC}
  BY <1>1, TilingBlock
<1>3. \A c \in B : b < c => b + BLK_SIZE(m, b) <= c
  BY <1>1 DEF Tiling
<1>4. /\ b \in Nat /\ b % 8 = 0 /\ mem_start_brk + 8 <= b /\ b < brk /\ b # NULL
      /\ heap_listp <= b /\ (b # heap_listp => heap_listp + 8 <= b)
  BY Prologue, Layout DEF NULL
<1>5. b # heap_listp => BLK_SIZE(m, b) >= 16
  BY Layout DEF HeapOK
<1>. QED  BY <1>2, <1>3, <1>4, <1>5

\* The break.
LEMMA BreakFacts ==
  ASSUME NEW m, NEW brk, NEW B, HeapOK(m, brk, B)
  PROVE  /\ m \in Memory /\ brk \in Nat /\ brk % 8 = 0 /\ heap_listp + 8 <= brk
         /\ brk <= mem_max_addr /\ brk \notin B
         /\ BLK_SIZE(m, brk) = 0 /\ BLK_STATE(m, brk) = BLK_ALLOC
<1>1. brk \notin B
  BY DEF HeapOK, Tiling
<1>2. BLK_SIZE(m, brk) = 0 /\ BLK_STATE(m, brk) = BLK_ALLOC
  BY DEF HeapOK, BLK_SIZE, BLK_STATE, BLK_HDRP, WSIZE, GET_SIZE, GET_ALLOC, BLK_ALLOC, PACK
<1>. QED  BY <1>1, <1>2, Prologue DEF HeapOK

\* The block after b, which may be the end of the heap.
LEMMA NextFacts ==
  ASSUME NEW m, NEW brk, NEW B, HeapOK(m, brk, B), NEW b \in B
  PROVE  /\ NEXT_BLKP(m, b) = b + BLK_SIZE(m, b)
         /\ NEXT_BLKP(m, b) \in B \cup {brk}
         /\ NEXT_BLKP(m, b) # heap_listp /\ NEXT_BLKP(m, b) # b
         /\ NEXT_BLK_ALLOC(m, b) = BLK_STATE(m, NEXT_BLKP(m, b))
         /\ NEXT_BLK_SIZE(m, b) = BLK_SIZE(m, NEXT_BLKP(m, b))
         /\ NEXT_BLK_ALLOC(m, b) = BLK_FREE => NEXT_BLKP(m, b) \in B
         /\ NEXT_BLK_ALLOC(m, b) \in {BLK_FREE, BLK_ALLOC}
<1>1. NEXT_BLKP(m, b) = b + BLK_SIZE(m, b) /\ NEXT_BLKP(m, b) \in B \cup {brk}
  BY Block DEF NEXT_BLKP
<1>2. BLK_SIZE(m, brk) = 0 /\ BLK_STATE(m, brk) = BLK_ALLOC
  BY BreakFacts
<1>3. b \in Nat /\ BLK_SIZE(m, b) \in Nat /\ BLK_SIZE(m, b) >= 8 /\ heap_listp <= b
  BY Block
<1>4. NEXT_BLKP(m, b) # heap_listp /\ NEXT_BLKP(m, b) # b
  BY <1>1, <1>3, Layout
<1>5. CASE NEXT_BLKP(m, b) = brk
  BY <1>1, <1>2, <1>4, <1>5 DEF NEXT_BLK_SIZE, NEXT_BLK_ALLOC, BLK_FREE, BLK_ALLOC
<1>6. CASE NEXT_BLKP(m, b) \in B
  BY <1>1, <1>2, <1>4, <1>6, Block DEF NEXT_BLK_SIZE, NEXT_BLK_ALLOC
<1>. QED  BY <1>1, <1>5, <1>6

\* The block before b.
LEMMA PrevFacts ==
  ASSUME NEW m, NEW brk, NEW B, HeapOK(m, brk, B), NEW b \in B \cup {brk}, b # heap_listp
  PROVE  /\ PREV_BLKP(m, b) \in B
         /\ PREV_BLK_SIZE(m, b) = BLK_SIZE(m, PREV_BLKP(m, b))
         /\ PREV_BLK_ALLOC(m, b) = BLK_STATE(m, PREV_BLKP(m, b))
         /\ PREV_BLKP(m, b) = b - PREV_BLK_SIZE(m, b)
         /\ PREV_BLKP(m, b) + BLK_SIZE(m, PREV_BLKP(m, b)) = b
         /\ NEXT_BLKP(m, PREV_BLKP(m, b)) = b
         /\ m[b - 8] = m[PREV_BLKP(m, b) - 4]
<1>1. Tiling(m, heap_listp, brk, B) /\ brk \in Int /\ heap_listp \in Int
  BY Layout DEF HeapOK
<1>. DEFINE q == PREV_BLKP(m, b)
<1>2. /\ q \in B
      /\ PREV_BLK_SIZE(m, b) = BLK_SIZE(m, q) /\ PREV_BLK_ALLOC(m, b) = BLK_STATE(m, q)
      /\ q = b - PREV_BLK_SIZE(m, b) /\ q + BLK_SIZE(m, q) = b
  BY <1>1, TilingPrev
<1>. HIDE DEF q
<1>3. m[q + BLK_SIZE(m, q) - 8] = m[q - 4] /\ q \in Int /\ BLK_SIZE(m, q) \in Nat
  BY <1>1, <1>2, TilingBlock
<1>4. m[b - 8] = m[q - 4] /\ NEXT_BLKP(m, q) = b
  BY <1>2, <1>3 DEF NEXT_BLKP
<1>. QED  BY <1>2, <1>4 DEF q

\* Free blocks of more than the smallest size have room for their pointers.
LEMMA FreesFacts ==
  ASSUME NEW m, NEW brk, NEW B, HeapOK(m, brk, B)
  PROVE  /\ Spread(Frees(m, B)) /\ NULL \notin Frees(m, B)
         /\ \A b \in Frees(m, B) : /\ b \in B /\ b # heap_listp /\ BLK_STATE(m, b) = BLK_FREE
                                   /\ BLK_SIZE(m, b) >= 24 /\ b + 24 <= brk
<1>1. ASSUME NEW b \in Frees(m, B)
      PROVE  /\ b \in Nat /\ b % 8 = 0 /\ heap_listp + 8 <= b /\ b + 24 <= brk
             /\ b \in B /\ b # heap_listp /\ BLK_STATE(m, b) = BLK_FREE /\ BLK_SIZE(m, b) >= 24
             /\ \A c \in B : b < c => b + 24 <= c
             /\ b # NULL
  <2>1. b \in B /\ BLK_STATE(m, b) = BLK_FREE /\ BLK_SIZE(m, b) > 16
    BY Layout DEF Frees
  <2>2. b # heap_listp
    BY <2>1 DEF HeapOK, BLK_FREE, BLK_ALLOC
  <2>3. /\ b \in Nat /\ b % 8 = 0 /\ heap_listp + 8 <= b
        /\ BLK_SIZE(m, b) \in Nat /\ BLK_SIZE(m, b) % 8 = 0
        /\ b + BLK_SIZE(m, b) <= brk
        /\ \A c \in B : b < c => b + BLK_SIZE(m, b) <= c /\ c \in Nat
        /\ b # NULL
    BY <2>1, <2>2, Block
  <2>4. brk \in Nat
    BY DEF HeapOK
  <2>5. BLK_SIZE(m, b) >= 24
    BY <2>1, <2>3
  <2>6. b + 24 <= brk /\ \A c \in B : b < c => b + 24 <= c
    BY <2>3, <2>4, <2>5
  <2>. QED  BY <2>1, <2>2, <2>3, <2>5, <2>6
<1>2. brk \in Nat /\ brk <= mem_max_addr
  BY DEF HeapOK
<1>3. Spread(Frees(m, B))
  <2>1. \A b \in Frees(m, B) : b + 16 < mem_max_addr
    BY <1>1, <1>2, Layout
  <2>2. \A c \in Frees(m, B) : c \in B
    BY <1>1
  <2>. QED  BY <1>1, <2>1, <2>2 DEF Spread
<1>. QED  BY <1>1, <1>3

\* Fewer blocks are spread too.
LEMMA SpreadSubset ==
  ASSUME NEW F, Spread(F), NEW G, G \subseteq F
  PROVE  Spread(G)
BY DEF Spread

\* Stores between lo and hi, where no block on a list has its header or pointers.
LEMMA ListsApart ==
  ASSUME NEW m, NEW n, NEW F, Spread(F), Lists(m, F), NEW lo \in Int, NEW hi \in Int,
         heap_listp - 8 <= lo,
         \A w \in Addr : w < lo \/ hi <= w => n[w] = m[w],
         \A b \in F : b + 8 < lo \/ hi <= b - 4
  PROVE  Lists(n, F)
<1>1. ASSUME NEW b \in F
      PROVE  n[b] = m[b] /\ n[b + 8] = m[b + 8] /\ n[b - 4] = m[b - 4]
  <2>1. b \in Nat /\ b % 8 = 0 /\ heap_listp + 8 <= b /\ b + 16 < mem_max_addr
    BY DEF Spread
  <2>2. b \in Addr /\ b + 8 \in Addr /\ b - 4 \in Addr
    BY <2>1, Layout DEF Addr
  <2>3. b + 8 < lo \/ hi <= b - 4
    OBVIOUS
  <2>. QED  BY <2>1, <2>2, <2>3
<1>2. ASSUME NEW x \in Heads
      PROVE  n[x] = m[x]
  <2>1. x \in Nat /\ x % 8 = 0 /\ mem_start_brk <= x /\ x < mem_max_addr /\ x + 16 <= heap_listp
    BY NodeFacts DEF Nodes
  <2>2. x \in Addr
    BY <2>1, AddrFacts
  <2>3. x < lo
    BY <2>1, Layout
  <2>. QED  BY <2>2, <2>3
<1>3. /\ SameTags(m, n, F)
      /\ \A x \in Nodes(F) : NEXT_FREE_BLKP(n, x) = NEXT_FREE_BLKP(m, x)
      /\ \A b \in F : PREV_FREE_BLKP(n, b) = PREV_FREE_BLKP(m, b)
  BY <1>1, <1>2 DEF SameTags, Nodes, NEXT_FREE_BLKP, PREV_FREE_BLKP
<1>. QED  BY <1>3, ListsFrame

(***************************************************************************)
(* Stores that spare the tags: to the table, or into the payload of a free *)
(* block or of own.                                                        *)
(***************************************************************************)
Quiet(m, n, B, own) ==
  \A w \in Addr :
    \/ n[w] = m[w]
    \/ w < heap_listp - 8
    \/ \E b \in B : (BLK_STATE(m, b) = BLK_FREE \/ b = own) /\ InPayload(m, b, w)

\* The payload of a block has no word in common with a tag or with the payload of
\* another block.
LEMMA PayloadApart ==
  ASSUME NEW m, NEW brk, NEW B, HeapOK(m, brk, B), NEW b \in B,
         NEW w \in Addr, InPayload(m, b, w)
  PROVE  /\ w # brk - 4
         /\ \A c \in B : /\ w # c - 4 /\ w # c + BLK_SIZE(m, c) - 8
                         /\ InPayload(m, c, w) => c = b
<1>1. w \in Int /\ b <= w /\ w < b + BLK_SIZE(m, b) - 8
  BY DEF Addr, InPayload
<1>2. /\ b \in Nat /\ BLK_SIZE(m, b) \in Nat /\ b + BLK_SIZE(m, b) <= brk
      /\ \A c \in B : b < c => b + BLK_SIZE(m, b) <= c
  BY Block
<1>3. brk \in Nat
  BY BreakFacts
<1>4. ASSUME NEW c \in B
      PROVE  /\ w # c - 4 /\ w # c + BLK_SIZE(m, c) - 8
             /\ InPayload(m, c, w) => c = b
  <2>1. /\ c \in Nat /\ BLK_SIZE(m, c) \in Nat /\ BLK_SIZE(m, c) >= 8
        /\ c < b => c + BLK_SIZE(m, c) <= b
    BY Block
  <2>. QED  BY <1>1, <1>2, <2>1 DEF InPayload
<1>. QED  BY <1>1, <1>2, <1>3, <1>4

LEMMA QuietFacts ==
  ASSUME NEW m, NEW brk, NEW B, HeapOK(m, brk, B), NEW own,
         NEW n \in Memory, Quiet(m, n, B, own)
  PROVE  /\ HeapOK(n, brk, B)
         /\ \A b \in B \cup {brk} : n[b - 4] = m[b - 4]
         /\ Kept(m, n, B, B, own, own)
         /\ Frees(n, B) = Frees(m, B)
         /\ \A x : Apart(m, B, x) => Apart(n, B, x)
<1>1. /\ Tiling(m, heap_listp, brk, B) /\ brk \in Nat /\ brk % 8 = 0
      /\ heap_listp + 8 <= brk /\ brk <= mem_max_addr
  BY Prologue DEF HeapOK
<1>2. ASSUME NEW b \in B
      PROVE  /\ n[b - 4] = m[b - 4]
             /\ n[b + BLK_SIZE(m, b) - 8] = m[b + BLK_SIZE(m, b) - 8]
  <2>1. /\ b \in Nat /\ b % 8 = 0 /\ heap_listp <= b
        /\ BLK_SIZE(m, b) \in Nat /\ BLK_SIZE(m, b) % 8 = 0 /\ BLK_SIZE(m, b) >= 8
        /\ b + BLK_SIZE(m, b) <= brk
    BY Block
  <2>2. b - 4 \in Addr /\ b + BLK_SIZE(m, b) - 8 \in Addr
    <3>. DEFINE s == BLK_SIZE(m, b)
    <3>. HIDE DEF s
    <3>1. s \in Nat /\ s % 8 = 0 /\ s >= 8 /\ b + s <= brk
      BY <2>1 DEF s
    <3>2. b - 4 \in Addr
      BY <1>1, <2>1, <3>1, Layout DEF Addr
    <3>3. b + s - 8 \in Addr
      BY <1>1, <2>1, <3>1, Layout DEF Addr
    <3>. QED  BY <3>2, <3>3 DEF s
  <2>3. ~(b - 4 < heap_listp - 8) /\ ~(b + BLK_SIZE(m, b) - 8 < heap_listp - 8)
    BY <2>1, Layout
  <2>4. \A c \in B : ~InPayload(m, c, b - 4) /\ ~InPayload(m, c, b + BLK_SIZE(m, b) - 8)
    BY <2>2, PayloadApart
  <2>. QED  BY <2>2, <2>3, <2>4 DEF Quiet
<1>3. n[brk - 4] = m[brk - 4]
  <2>1. brk - 4 \in Addr /\ ~(brk - 4 < heap_listp - 8)
    BY <1>1, Layout DEF Addr
  <2>2. \A c \in B : ~InPayload(m, c, brk - 4)
    BY <2>1, PayloadApart
  <2>. QED  BY <2>1, <2>2 DEF Quiet
<1>4. Tiling(n, heap_listp, brk, B)
  <2>1. heap_listp \in Int /\ brk \in Int
    BY <1>1, Layout
  <2>. QED  BY <1>1, <1>2, <2>1, TilingFrame
<1>5. \A b \in B : /\ BLK_SIZE(n, b) = BLK_SIZE(m, b) /\ BLK_STATE(n, b) = BLK_STATE(m, b)
                   /\ NEXT_BLKP(n, b) = NEXT_BLKP(m, b)
  BY <1>2, HeaderFacts
<1>6. HeapOK(n, brk, B)
  BY <1>3, <1>4, <1>5, Prologue DEF HeapOK
<1>7. Kept(m, n, B, B, own, own)
  <2>1. ASSUME NEW b \in B, BLK_STATE(m, b) = BLK_ALLOC, b # own,
               NEW w \in Addr, InPayload(m, b, w)
        PROVE  n[w] = m[w]
    <3>1. ~(w < heap_listp - 8)
      BY <2>1, Block, Layout DEF InPayload, Addr
    <3>2. \A c \in B : InPayload(m, c, w) => c = b
      BY <2>1, PayloadApart
    <3>. QED  BY <2>1, <3>1, <3>2 DEF Quiet, BLK_FREE, BLK_ALLOC
  <2>. QED  BY <1>2, <1>5, <2>1 DEF Kept
<1>8. Frees(n, B) = Frees(m, B)
  BY <1>5 DEF Frees
<1>9. ASSUME NEW x, Apart(m, B, x)
      PROVE  Apart(n, B, x)
  <2>. SUFFICES ASSUME NEW b \in B, b # x, NEXT_BLKP(n, b) # x, BLK_STATE(n, b) = BLK_FREE
                PROVE  NEXT_BLK_ALLOC(n, b) = BLK_ALLOC
    BY DEF Apart
  <2>1. NEXT_BLK_ALLOC(m, b) = BLK_ALLOC
    BY <1>5, <1>9 DEF Apart
  <2>2. NEXT_BLKP(m, b) \in B \cup {brk}
    BY NextFacts
  <2>3. BLK_STATE(n, brk) = BLK_STATE(m, brk)
    BY <1>3, HeaderFacts
  <2>. QED  BY <1>5, <2>1, <2>2, <2>3 DEF NEXT_BLK_ALLOC
<1>. QED  BY <1>2, <1>3, <1>6, <1>7, <1>8, <1>9

\* The stores of the list operations are such stores.
LEMMA TouchedQuiet ==
  ASSUME NEW m, NEW brk, NEW B, HeapOK(m, brk, B), NEW n, NEW F, F \subseteq Frees(m, B),
         Touched(m, n, F), NEW own
  PROVE  Quiet(m, n, B, own)
<1>. SUFFICES ASSUME NEW w \in Addr, NEW b \in F, b <= w, w < b + 16
              PROVE  b \in B /\ BLK_STATE(m, b) = BLK_FREE /\ InPayload(m, b, w)
  BY DEF Touched, Quiet
<1>1. b \in B /\ BLK_STATE(m, b) = BLK_FREE /\ BLK_SIZE(m, b) >= 24
  BY FreesFacts
<1>2. b \in Nat /\ BLK_SIZE(m, b) \in Nat
  BY <1>1, Block
<1>3. w \in Int
  BY DEF Addr
<1>. QED  BY <1>1, <1>2, <1>3 DEF InPayload

(***************************************************************************)
(* The blocks N take the place of those between a and e; the rest of       *)
(* memory stays as it is.                                                  *)
(***************************************************************************)
Rewritten(m, n, brk, B, a, e, N) ==
  /\ a \in B /\ a # heap_listp /\ e \in B \cup {brk}
  /\ n \in Memory
  /\ Tiling(n, a, e, N)
  /\ \A b \in N : BLK_SIZE(n, b) >= BLK_MIN_SIZE
  /\ \A w \in Addr : w < a - 4 \/ e - 4 <= w => n[w] = m[w]

LEMMA RewrittenFacts ==
  ASSUME NEW m, NEW brk, NEW B, HeapOK(m, brk, B), NEW n, NEW a, NEW e, NEW N,
         Rewritten(m, n, brk, B, a, e, N)
  PROVE  /\ a \in Nat /\ a % 8 = 0 /\ heap_listp + 8 <= a /\ a < e /\ a \in N
         /\ e \in Nat /\ e % 8 = 0 /\ e <= brk
         /\ \A b \in N : b \in Int /\ a <= b /\ b < e
         /\ \A b \in B \cup {brk} : b < a \/ e <= b => n[b - 4] = m[b - 4]
         /\ HeapOK(n, brk, Replaced(B, a, e, N))
<1>1. /\ Tiling(m, heap_listp, brk, B) /\ brk \in Nat /\ brk % 8 = 0
      /\ heap_listp + 8 <= brk /\ brk <= mem_max_addr
  BY Prologue DEF HeapOK
<1>2. /\ a \in B /\ a # heap_listp /\ e \in B \cup {brk} /\ n \in Memory
      /\ Tiling(n, a, e, N)
      /\ \A w \in Addr : w < a - 4 \/ e - 4 <= w => n[w] = m[w]
  BY DEF Rewritten
<1>3. a \in Nat /\ a % 8 = 0 /\ heap_listp + 8 <= a
  BY <1>2, Prologue
<1>4. e \in Nat /\ e % 8 = 0 /\ e <= brk
  <2>1. CASE e = brk
    BY <1>1, <2>1
  <2>2. CASE e \in B
    <3>1. e \in Nat /\ e % 8 = 0 /\ e < brk
      BY <2>2, Prologue
    <3>. QED  BY <1>1, <3>1
  <2>. QED  BY <1>2, <2>1, <2>2
<1>5. a \in N /\ a < e /\ \A b \in N : b \in Int /\ a <= b /\ b < e
  BY <1>2 DEF Tiling
<1>6. ASSUME NEW b \in B \cup {brk}, b < a \/ e <= b
      PROVE  n[b - 4] = m[b - 4]
  <2>1. b \in Nat /\ b % 8 = 0 /\ heap_listp <= b /\ b <= brk
    <3>1. CASE b = brk
      BY <1>1, <3>1, Layout
    <3>2. CASE b \in B
      <4>1. b \in Nat /\ b % 8 = 0 /\ heap_listp <= b /\ b < brk
        BY <3>2, Block
      <4>. QED  BY <1>1, <4>1
    <3>. QED  BY <3>1, <3>2
  <2>2. b - 4 \in Addr
    BY <1>1, <2>1, Layout DEF Addr
  <2>3. b - 4 < a - 4 \/ e - 4 <= b - 4
    BY <1>3, <1>4, <1>6, <2>1
  <2>. QED  BY <1>2, <2>2, <2>3
<1>. DEFINE C == Replaced(B, a, e, N)
<1>7. Tiling(n, heap_listp, brk, C)
  <2>1. heap_listp \in Int /\ brk \in Int /\ mem_start_brk <= heap_listp
    BY <1>1, Layout
  <2>. QED  BY <1>1, <1>2, <2>1, TilingReplace
<1>8. n[heap_listp - 4] = m[heap_listp - 4] /\ n[brk - 4] = m[brk - 4]
  <2>1. heap_listp \in B /\ heap_listp < a
    BY <1>3, Prologue, Layout
  <2>. QED  BY <1>4, <1>6, <2>1
<1>9. BLK_SIZE(n, heap_listp) = 8 /\ BLK_STATE(n, heap_listp) = BLK_ALLOC
  BY <1>8, HeaderFacts DEF HeapOK
<1>10. \A b \in C : b # heap_listp => BLK_SIZE(n, b) >= BLK_MIN_SIZE
  <2>. SUFFICES ASSUME NEW b \in C, b # heap_listp
                PROVE  BLK_SIZE(n, b) >= BLK_MIN_SIZE
    OBVIOUS
  <2>1. CASE b \in N
    BY <2>1 DEF Rewritten
  <2>2. CASE b \in B /\ (b < a \/ e <= b)
    <3>1. BLK_SIZE(n, b) = BLK_SIZE(m, b)
      BY <1>6, <2>2, HeaderFacts
    <3>. QED  BY <2>2, <3>1 DEF HeapOK
  <2>. QED  BY <2>1, <2>2 DEF Replaced
<1>11. HeapOK(n, brk, C)
  BY <1>1, <1>2, <1>7, <1>8, <1>9, <1>10, Layout DEF HeapOK
<1>. QED  BY <1>3, <1>4, <1>5, <1>6, <1>11

\* If only free blocks and own have gone, the others are kept.
LEMMA RewrittenKept ==
  ASSUME NEW m, NEW brk, NEW B, HeapOK(m, brk, B), NEW n, NEW a, NEW e, NEW N,
         Rewritten(m, n, brk, B, a, e, N), NEW own, NEW new,
         \A b \in B : a <= b /\ b < e => b = own \/ BLK_STATE(m, b) = BLK_FREE,
         own \in B => a <= own /\ own < e,
         \A b \in N : BLK_STATE(n, b) = BLK_ALLOC => b = new
  PROVE  Kept(m, n, B, Replaced(B, a, e, N), own, new)
<1>. DEFINE C == Replaced(B, a, e, N)
<1>1. /\ a \in Nat /\ a < e /\ e \in Nat
      /\ \A b \in B \cup {brk} : b < a \/ e <= b => n[b - 4] = m[b - 4]
  BY RewrittenFacts
<1>2. \A w \in Addr : w < a - 4 \/ e - 4 <= w => n[w] = m[w]
  BY DEF Rewritten
<1>3. ASSUME NEW b \in B, BLK_STATE(m, b) = BLK_ALLOC, b # own
      PROVE  /\ b \in C /\ n[b - 4] = m[b - 4]
             /\ \A w \in Addr : InPayload(m, b, w) => n[w] = m[w]
  <2>1. b \in Nat /\ BLK_SIZE(m, b) \in Nat /\ (b < a => b + BLK_SIZE(m, b) <= a)
    BY Block DEF Rewritten
  <2>2. b < a \/ e <= b
    BY <1>1, <1>3, <2>1 DEF BLK_FREE, BLK_ALLOC
  <2>3. b \in C
    BY <2>2 DEF Replaced
  <2>4. ASSUME NEW w \in Addr, InPayload(m, b, w)
        PROVE  n[w] = m[w]
    <3>1. w \in Int
      BY DEF Addr
    <3>2. w < a - 4 \/ e - 4 <= w
      BY <1>1, <2>1, <2>2, <2>4, <3>1 DEF InPayload
    <3>. QED  BY <1>2, <3>2
  <2>. QED  BY <1>1, <2>2, <2>3, <2>4
<1>4. ASSUME NEW b \in C, BLK_STATE(n, b) = BLK_ALLOC, b # new
      PROVE  b \in B /\ BLK_STATE(m, b) = BLK_ALLOC /\ b # own
  <2>1. b \in B /\ (b < a \/ e <= b)
    BY <1>4 DEF Replaced
  <2>2. n[b - 4] = m[b - 4] /\ b \in Nat
    BY <1>1, <2>1, Block
  <2>3. BLK_STATE(m, b) = BLK_ALLOC
    BY <1>4, <2>2, HeaderFacts
  <2>. QED  BY <1>1, <2>1, <2>2, <2>3
<1>. QED  BY <1>3, <1>4 DEF Kept

\* The free blocks that stay, and their lists.
Outside(F, a, e) == {b \in F : b < a \/ e <= b}

LEMMA RewrittenLists ==
  ASSUME NEW m, NEW brk, NEW B, HeapOK(m, brk, B), NEW n, NEW a, NEW e, NEW N,
         Rewritten(m, n, brk, B, a, e, N), Lists(m, Outside(Frees(m, B), a, e))
  PROVE  /\ Frees(n, Replaced(B, a, e, N)) = Outside(Frees(m, B), a, e) \cup Frees(n, N)
         /\ Lists(n, Outside(Frees(m, B), a, e))
         /\ \A b \in Frees(n, N) : b \in N /\ b \notin Outside(Frees(m, B), a, e)
<1>. DEFINE F == Outside(Frees(m, B), a, e)
            C == Replaced(B, a, e, N)
<1>1. /\ a \in Nat /\ a < e /\ e \in Nat /\ heap_listp + 8 <= a
      /\ \A b \in N : b \in Int /\ a <= b /\ b < e
      /\ \A b \in B \cup {brk} : b < a \/ e <= b => n[b - 4] = m[b - 4]
  BY RewrittenFacts
<1>2. \A b \in B : b < a \/ e <= b => BLK_SIZE(n, b) = BLK_SIZE(m, b) /\ BLK_STATE(n, b) = BLK_STATE(m, b)
  BY <1>1, HeaderFacts
<1>3. Frees(n, C) = F \cup Frees(n, N)
  <2>1. ASSUME NEW b \in Frees(n, C)
        PROVE  b \in F \cup Frees(n, N)
    BY <1>2 DEF Frees, Replaced, Outside
  <2>2. ASSUME NEW b \in F \cup Frees(n, N)
        PROVE  b \in Frees(n, C)
    BY <1>2 DEF Frees, Replaced, Outside
  <2>. QED  BY <2>1, <2>2
<1>4. \A b \in Frees(n, N) : b \in N /\ b \notin F
  <2>1. \A b \in N : ~(b < a \/ e <= b)
    BY <1>1
  <2>. QED  BY <2>1 DEF Frees, Outside
<1>5. Spread(F)
  BY FreesFacts, SpreadSubset DEF Outside
<1>6. \A b \in F : b + 8 < a - 4 \/ e - 4 <= b - 4
  <2>. SUFFICES ASSUME NEW b \in F
                PROVE  b + 8 < a - 4 \/ e - 4 <= b - 4
    OBVIOUS
  <2>1. b \in B /\ BLK_SIZE(m, b) >= 24 /\ (b < a \/ e <= b)
    BY FreesFacts DEF Outside
  <2>2. b \in Nat /\ BLK_SIZE(m, b) \in Nat /\ (b < a => b + BLK_SIZE(m, b) <= a)
    BY <2>1, Block DEF Rewritten
  <2>. QED  BY <1>1, <2>1, <2>2
<1>7. Lists(n, F)
  <2>1. \A w \in Addr : w < a - 4 \/ e - 4 <= w => n[w] = m[w]
    BY DEF Rewritten
  <2>2. a - 4 \in Int /\ e - 4 \in Int /\ heap_listp - 8 <= a - 4
    BY <1>1, Layout
  <2>. HIDE DEF F
  <2>3. Lists(m, F)
    BY DEF F
  <2>. QED  BY <1>5, <1>6, <2>1, <2>2, <2>3, ListsApart
<1>. QED  BY <1>3, <1>4, <1>7

\* Neighbours: a pair of free blocks can only be one that involves y, if the new
\* blocks have no such pair among them and with the block after them, and the block
\* before them is not joined by a second free one.
LEMMA RewrittenApart ==
  ASSUME NEW m, NEW brk, NEW B, HeapOK(m, brk, B), NEW n, NEW a, NEW e, NEW N,
         Rewritten(m, n, brk, B, a, e, N), NEW x, Apart(m, B, x), x \in B => a <= x /\ x < e,
         NEW y, \A b \in N : (b # y /\ NEXT_BLKP(n, b) # y /\ BLK_STATE(n, b) = BLK_FREE) =>
                                NEXT_BLK_ALLOC(n, b) = BLK_ALLOC,
         a = y \/ BLK_STATE(n, a) = BLK_ALLOC \/ PREV_BLK_ALLOC(m, a) = BLK_ALLOC
  PROVE  Apart(n, Replaced(B, a, e, N), y)
<1>. SUFFICES ASSUME NEW b \in Replaced(B, a, e, N), b \notin N, b # y, NEXT_BLKP(n, b) # y,
                     BLK_STATE(n, b) = BLK_FREE
              PROVE  NEXT_BLK_ALLOC(n, b) = BLK_ALLOC
  BY DEF Apart
<1>1. /\ a \in Nat /\ a < e /\ e \in Nat /\ a \in B
      /\ \A c \in B \cup {brk} : c < a \/ e <= c => n[c - 4] = m[c - 4]
  BY RewrittenFacts DEF Rewritten
<1>2. b \in B /\ (b < a \/ e <= b)
  BY DEF Replaced
<1>3. /\ BLK_STATE(m, b) = BLK_FREE /\ NEXT_BLKP(n, b) = NEXT_BLKP(m, b)
      /\ BLK_SIZE(n, b) = BLK_SIZE(m, b)
  BY <1>1, <1>2, HeaderFacts
<1>. DEFINE c == NEXT_BLKP(m, b)
<1>4. c = b + BLK_SIZE(m, b) /\ c \in B \cup {brk} /\ NEXT_BLK_ALLOC(m, b) = BLK_STATE(m, c)
  BY <1>2, NextFacts
<1>5. /\ b \in Nat /\ BLK_SIZE(m, b) \in Nat /\ b < brk
      /\ (b < a => b + BLK_SIZE(m, b) <= a)
  BY <1>1, <1>2, Block
<1>6. c \in Nat
  BY <1>4, <1>5
<1>. HIDE DEF c
<1>7. NEXT_BLK_ALLOC(n, b) = BLK_STATE(n, c)
  BY <1>3 DEF NEXT_BLK_ALLOC, c
<1>8. CASE c = a
  <2>1. a # heap_listp /\ a \in B \cup {brk}
    BY DEF Rewritten
  <2>2. PREV_BLKP(m, a) \in B /\ PREV_BLK_ALLOC(m, a) = BLK_STATE(m, PREV_BLKP(m, a))
        /\ PREV_BLKP(m, a) + BLK_SIZE(m, PREV_BLKP(m, a)) = a
    BY <2>1, PrevFacts
  <2>. DEFINE q == PREV_BLKP(m, a)
  <2>3. /\ q \in Nat /\ BLK_SIZE(m, q) \in Nat /\ BLK_SIZE(m, q) >= 8
        /\ (q < b => q + BLK_SIZE(m, q) <= b)
    BY <1>2, <2>2, Block
  <2>4. BLK_SIZE(m, b) >= 8 /\ (b < q => b + BLK_SIZE(m, b) <= q)
    BY <1>2, <2>2, Block
  <2>. HIDE DEF q
  <2>5. q = b
    BY <1>4, <1>5, <1>8, <2>2, <2>3, <2>4 DEF q
  <2>6. PREV_BLK_ALLOC(m, a) = BLK_FREE
    BY <1>3, <2>2, <2>5 DEF q
  <2>. QED  BY <1>3, <1>7, <1>8, <2>6 DEF BLK_FREE, BLK_ALLOC, c
<1>9. CASE c # a
  <2>1. c < a \/ e <= c
    BY <1>1, <1>2, <1>4, <1>5, <1>6, <1>9
  <2>2. BLK_STATE(n, c) = BLK_STATE(m, c)
    BY <1>1, <1>4, <2>1, HeaderFacts
  <2>3. CASE c = brk
    BY <1>7, <2>2, <2>3, BreakFacts
  <2>4. CASE c \in B
    <3>1. b # x /\ c # x
      BY <1>1, <1>2, <1>5, <1>6, <2>1, <2>4
    <3>2. NEXT_BLK_ALLOC(m, b) = BLK_ALLOC
      BY <1>2, <1>3, <3>1 DEF Apart, c
    <3>. QED  BY <1>4, <1>7, <2>2, <3>2
  <2>. QED  BY <1>4, <2>3, <2>4
<1>. QED  BY <1>8, <1>9

\* The footer before a block stays too.
LEMMA QuietPrev ==
  ASSUME NEW m, NEW brk, NEW B, HeapOK(m, brk, B), NEW own,
         NEW n \in Memory, Quiet(m, n, B, own), NEW b \in B, b # heap_listp
  PROVE  /\ PREV_BLKP(n, b) = PREV_BLKP(m, b)
         /\ PREV_BLK_SIZE(n, b) = PREV_BLK_SIZE(m, b)
         /\ PREV_BLK_ALLOC(n, b) = PREV_BLK_ALLOC(m, b)
<1>. DEFINE q == PREV_BLKP(m, b)
<1>1. q \in B /\ m[b - 8] = m[q - 4] /\ q + BLK_SIZE(m, q) = b
  BY PrevFacts
<1>2. /\ q \in Nat /\ BLK_SIZE(m, q) \in Nat /\ BLK_SIZE(m, q) % 8 = 0 /\ BLK_SIZE(m, q) >= 8
      /\ b \in Nat /\ b % 8 = 0 /\ heap_listp + 8 <= b /\ b < brk
  BY <1>1, Block
<1>3. b - 8 \in Addr /\ ~(b - 8 < heap_listp - 8)
  BY <1>2, BreakFacts, Layout DEF Addr
<1>4. b - 8 = q + BLK_SIZE(m, q) - 8
  BY <1>1, <1>2
<1>5. \A c \in B : ~InPayload(m, c, b - 8)
  BY <1>1, <1>3, <1>4, PayloadApart
<1>6. n[b - 8] = m[b - 8]
  BY <1>3, <1>5 DEF Quiet
<1>. QED  BY <1>6 DEF PREV_BLKP, PREV_BLK_SIZE, PREV_BLK_ALLOC, PREV_FTRP, WSIZE

LEMMA QuietTwice ==
  ASSUME NEW m, NEW brk, NEW B, HeapOK(m, brk, B), NEW own,
         NEW n \in Memory, Quiet(m, n, B, own), NEW o, Quiet(n, o, B, own)
  PROVE  Quiet(m, o, B, own)
<1>1. \A b \in B : n[b - 4] = m[b - 4]
  BY QuietFacts
<1>2. ASSUME NEW b \in B
      PROVE  /\ BLK_STATE(n, b) = BLK_STATE(m, b)
             /\ \A w : InPayload(n, b, w) <=> InPayload(m, b, w)
  BY <1>1, HeaderFacts
<1>. QED  BY <1>2 DEF Quiet

\* FREELIST_DEL_BLK on a free block of the heap.
LEMMA DelFacts ==
  ASSUME NEW m, NEW brk, NEW B, HeapOK(m, brk, B), NEW own,
         NEW F, F \subseteq Frees(m, B), Lists(m, F),
         NEW c \in B, BLK_STATE(m, c) = BLK_FREE, c \in Frees(m, B) => c \in F
  PROVE  LET n == FREELIST_DEL_BLK(m, c)
         IN  n \in Memory /\ Lists(n, F \ {c}) /\ Quiet(m, n, B, own)
<1>. DEFINE n == FREELIST_DEL_BLK(m, c)
<1>1. m \in Memory /\ Spread(F)
  BY FreesFacts, SpreadSubset DEF HeapOK
<1>2. CASE BLK_SIZE(m, c) > BLK_MIN_SIZE
  <2>1. c \in F
    BY <1>2 DEF Frees
  <2>2. n \in Memory /\ Lists(n, F \ {c}) /\ Touched(m, n, F)
    BY <1>1, <1>2, <2>1, UnlinkFacts
  <2>. HIDE DEF n
  <2>3. Quiet(m, n, B, own)
    BY <2>2, TouchedQuiet
  <2>. QED  BY <2>2, <2>3 DEF n
<1>3. CASE ~(BLK_SIZE(m, c) > BLK_MIN_SIZE)
  <2>1. c \notin F
    BY <1>3 DEF Frees
  <2>2. n = m /\ F \ {c} = F
    BY <1>3, <2>1 DEF FREELIST_DEL_BLK
  <2>3. Quiet(m, m, B, own)
    BY DEF Quiet
  <2>. HIDE DEF n
  <2>4. n \in Memory /\ Lists(n, F \ {c}) /\ Quiet(m, n, B, own)
    BY <1>1, <2>2, <2>3
  <2>. QED  BY <2>4 DEF n
<1>. QED  BY <1>2, <1>3

\* Writing the tags of one block over the blocks from a to e.
LEMMA JoinFacts ==
  ASSUME NEW m, NEW brk, NEW B, HeapOK(m, brk, B), NEW a \in B, a # heap_listp,
         NEW e \in B \cup {brk}, a + 16 <= e, NEW x \in {BLK_FREE, BLK_ALLOC}
  PROVE  LET n == SET_BLK(m, a, e - a, x)
         IN  /\ Rewritten(m, n, brk, B, a, e, {a})
             /\ BLK_SIZE(n, a) = e - a /\ BLK_STATE(n, a) = x /\ NEXT_BLKP(n, a) = e
<1>. DEFINE s == e - a
            n == SET_BLK(m, a, s, x)
<1>0. a \in Nat /\ a % 8 = 0 /\ heap_listp + 8 <= a
  BY Block
<1>1. a \in Int /\ a % 8 = 0 /\ mem_start_brk <= a /\ heap_listp + 8 <= a
  BY <1>0, Layout
<1>2. m \in Memory /\ brk \in Nat /\ brk % 8 = 0 /\ brk <= mem_max_addr
  BY BreakFacts
<1>3. e \in Int /\ e % 8 = 0 /\ e <= brk
  <2>1. CASE e = brk
    BY <1>2, <2>1
  <2>2. CASE e \in B
    <3>1. e \in Nat /\ e % 8 = 0 /\ e < brk
      BY <2>2, Block
    <3>. QED  BY <1>2, <3>1
  <2>. QED  BY <2>1, <2>2
<1>4. s \in Nat /\ s % 8 = 0 /\ s >= 16 /\ a + s = e /\ a + s <= mem_max_addr
  BY <1>1, <1>2, <1>3, Layout
<1>. HIDE DEF s
<1>5. s >= 8
  BY <1>4
<1>6. /\ n \in Memory
      /\ \A w \in Addr : w # a - 4 /\ w # a + s - 8 => n[w] = m[w]
      /\ Tiling(n, a, a + s, {a})
      /\ BLK_SIZE(n, a) = s /\ BLK_STATE(n, a) = x
  <2>1. Tagged(m, n, a, s, x)
    BY <1>1, <1>2, <1>4, <1>5, SetBlkFacts
  <2>. QED  BY <2>1 DEF Tagged
<1>. HIDE DEF n
<1>7. \A w \in Addr : w < a - 4 \/ e - 4 <= w => n[w] = m[w]
  <2>. SUFFICES ASSUME NEW w \in Addr, w < a - 4 \/ e - 4 <= w
                PROVE  w # a - 4 /\ w # a + s - 8
    BY <1>6
  <2>. QED  BY <1>1, <1>3, <1>4 DEF Addr
<1>8. Rewritten(m, n, brk, B, a, e, {a})
  BY <1>4, <1>6, <1>7, Layout DEF Rewritten
<1>9. BLK_SIZE(n, a) = e - a /\ BLK_STATE(n, a) = x /\ NEXT_BLKP(n, a) = e
  BY <1>4, <1>6 DEF NEXT_BLKP, s
<1>. QED  BY <1>8, <1>9 DEF n, s

\* The blocks that coalesce joins, from Low to High.
Low(m, bp)  == IF PREV_BLK_ALLOC(m, bp) = BLK_FREE THEN PREV_BLKP(m, bp) ELSE bp
High(m, bp) == IF NEXT_BLK_ALLOC(m, bp) = BLK_FREE
               THEN NEXT_BLKP(m, bp) + NEXT_BLK_SIZE(m, bp) ELSE NEXT_BLKP(m, bp)

\* The upper neighbour.
LEMMA HighFacts ==
  ASSUME NEW m, NEW brk, NEW B, HeapOK(m, brk, B), NEW bp \in B, bp # heap_listp, Apart(m, B, bp)
  PROVE  /\ High(m, bp) \in B \cup {brk} /\ High(m, bp) \in Nat /\ bp + 16 <= High(m, bp)
         /\ High(m, bp) - bp =
              BLK_SIZE(m, bp) + (IF NEXT_BLK_ALLOC(m, bp) = BLK_FREE THEN NEXT_BLK_SIZE(m, bp) ELSE 0)
         /\ \A c \in B : (bp <= c /\ c < High(m, bp)) <=>
               c = bp \/ (c = NEXT_BLKP(m, bp) /\ NEXT_BLK_ALLOC(m, bp) = BLK_FREE)
         /\ BLK_STATE(m, High(m, bp)) = BLK_ALLOC
<1>. DEFINE nb == NEXT_BLKP(m, bp)
            s  == BLK_SIZE(m, bp)
            e  == High(m, bp)
<1>1. /\ nb = bp + s /\ nb \in B \cup {brk} /\ nb # bp /\ nb # heap_listp
      /\ NEXT_BLK_ALLOC(m, bp) = BLK_STATE(m, nb) /\ NEXT_BLK_SIZE(m, bp) = BLK_SIZE(m, nb)
      /\ NEXT_BLK_ALLOC(m, bp) = BLK_FREE => nb \in B
      /\ NEXT_BLK_ALLOC(m, bp) \in {BLK_FREE, BLK_ALLOC}
  BY NextFacts
<1>2. /\ bp \in Nat /\ s \in Nat /\ s >= 16
      /\ \A c \in B : c \in Nat /\ (bp < c => bp + s <= c)
  BY Block
<1>. HIDE DEF nb, s
<1>3. CASE NEXT_BLK_ALLOC(m, bp) = BLK_FREE
  <2>. DEFINE t == BLK_SIZE(m, nb)
  <2>1. nb \in B /\ BLK_STATE(m, nb) = BLK_FREE /\ e = nb + t
    BY <1>1, <1>3 DEF High, nb
  <2>2. /\ nb \in Nat /\ t \in Nat /\ t >= 8 /\ nb + t \in B \cup {brk}
        /\ \A c \in B : nb < c => nb + t <= c
    BY <2>1, Block
  <2>3. NEXT_BLKP(m, nb) = nb + t /\ NEXT_BLK_ALLOC(m, nb) = BLK_STATE(m, nb + t)
    BY <2>1, NextFacts
  <2>. HIDE DEF t
  <2>4. nb + t # bp /\ nb # bp
    BY <1>1, <1>2, <2>2
  <2>5. BLK_STATE(m, e) = BLK_ALLOC
    BY <2>1, <2>3, <2>4 DEF Apart
  <2>6. \A c \in B : (bp <= c /\ c < e) <=> c = bp \/ c = nb
    BY <1>1, <1>2, <2>1, <2>2
  <2>7. e - bp = s + t /\ e \in Nat /\ bp + 16 <= e
    BY <1>1, <1>2, <2>1, <2>2
  <2>. HIDE DEF e
  <2>. QED  BY <1>1, <1>3, <2>1, <2>2, <2>5, <2>6, <2>7 DEF nb, s, e, t
<1>4. CASE NEXT_BLK_ALLOC(m, bp) # BLK_FREE
  <2>1. e = nb
    BY <1>4 DEF High, nb
  <2>2. BLK_STATE(m, e) = BLK_ALLOC
    BY <1>1, <1>4, <2>1
  <2>3. \A c \in B : (bp <= c /\ c < e) <=> c = bp
    BY <1>1, <1>2, <2>1
  <2>4. e - bp = s + 0 /\ e \in Nat /\ bp + 16 <= e
    BY <1>1, <1>2, <2>1
  <2>. HIDE DEF e
  <2>. QED  BY <1>1, <1>4, <2>1, <2>2, <2>3, <2>4 DEF nb, s, e
<1>. QED  BY <1>3, <1>4

\* The lower neighbour.
LEMMA LowFacts ==
  ASSUME NEW m, NEW brk, NEW B, HeapOK(m, brk, B), NEW bp \in B, bp # heap_listp, Apart(m, B, bp)
  PROVE  /\ Low(m, bp) \in B /\ Low(m, bp) # heap_listp /\ Low(m, bp) \in Nat /\ Low(m, bp) <= bp
         /\ bp - Low(m, bp) = (IF PREV_BLK_ALLOC(m, bp) = BLK_FREE THEN PREV_BLK_SIZE(m, bp) ELSE 0)
         /\ \A c \in B : (Low(m, bp) <= c /\ c < bp) <=>
               (c = PREV_BLKP(m, bp) /\ PREV_BLK_ALLOC(m, bp) = BLK_FREE)
         /\ PREV_BLK_ALLOC(m, Low(m, bp)) = BLK_ALLOC
<1>. DEFINE pb == PREV_BLKP(m, bp)
            s  == BLK_SIZE(m, pb)
            a  == Low(m, bp)
<1>1. /\ pb \in B
      /\ PREV_BLK_SIZE(m, bp) = s /\ PREV_BLK_ALLOC(m, bp) = BLK_STATE(m, pb)
      /\ pb + s = bp /\ NEXT_BLKP(m, pb) = bp
  BY PrevFacts
<1>2. /\ pb \in Nat /\ s \in Nat /\ s >= 8 /\ BLK_STATE(m, pb) \in {BLK_FREE, BLK_ALLOC}
      /\ \A c \in B : c \in Nat /\ (pb < c => pb + s <= c)
  <2>1. \A c \in B : c \in Nat
    BY Block
  <2>2. /\ pb \in Nat /\ s \in Nat /\ s >= 8 /\ BLK_STATE(m, pb) \in {BLK_FREE, BLK_ALLOC}
        /\ \A c \in B : pb < c => pb + s <= c
    BY <1>1, Block
  <2>. QED  BY <2>1, <2>2
<1>3. bp \in Nat
  BY Block
<1>. HIDE DEF pb, s
<1>4. CASE PREV_BLK_ALLOC(m, bp) = BLK_FREE
  <2>1. a = pb /\ BLK_STATE(m, pb) = BLK_FREE
    BY <1>1, <1>4 DEF Low, pb
  <2>2. pb # heap_listp
    BY <2>1 DEF HeapOK, BLK_FREE, BLK_ALLOC
  <2>. DEFINE q == PREV_BLKP(m, pb)
  <2>3. q \in B /\ PREV_BLK_ALLOC(m, pb) = BLK_STATE(m, q) /\ NEXT_BLKP(m, q) = pb
        /\ q + BLK_SIZE(m, q) = pb
    BY <1>1, <2>2, PrevFacts
  <2>4. BLK_STATE(m, q) \in {BLK_FREE, BLK_ALLOC} /\ q \in Nat /\ BLK_SIZE(m, q) \in Nat
    BY <2>3, Block
  <2>5. NEXT_BLK_ALLOC(m, q) = BLK_STATE(m, pb)
    BY <2>3, NextFacts
  <2>. HIDE DEF q
  <2>6. q # bp /\ pb # bp
    BY <1>1, <1>2, <1>3, <2>3, <2>4
  <2>7. BLK_STATE(m, q) # BLK_FREE
    BY <2>1, <2>3, <2>5, <2>6 DEF Apart, BLK_FREE, BLK_ALLOC
  <2>8. PREV_BLK_ALLOC(m, a) = BLK_ALLOC
    BY <2>1, <2>3, <2>4, <2>7
  <2>9. \A c \in B : (a <= c /\ c < bp) <=> c = pb
    BY <1>1, <1>2, <1>3, <2>1
  <2>10. bp - a = s /\ a \in Nat /\ a <= bp
    BY <1>1, <1>2, <1>3, <2>1
  <2>. HIDE DEF a
  <2>. QED  BY <1>1, <1>4, <2>1, <2>2, <2>8, <2>9, <2>10 DEF pb, s, a
<1>5. CASE PREV_BLK_ALLOC(m, bp) # BLK_FREE
  <2>1. a = bp
    BY <1>5 DEF Low
  <2>2. PREV_BLK_ALLOC(m, a) = BLK_ALLOC
    BY <1>1, <1>2, <1>5, <2>1
  <2>3. \A c \in B : ~(a <= c /\ c < bp)
    BY <1>2, <1>3, <2>1
  <2>4. bp - a = 0 /\ a \in Nat /\ a <= bp
    BY <1>3, <2>1
  <2>. HIDE DEF a
  <2>. QED  BY <1>5, <2>1, <2>2, <2>3, <2>4 DEF pb, a
<1>. QED  BY <1>4, <1>5

\* A free block a that is on no list, in a heap where all else is in order, and that
\* has no free neighbours.
Joined(m, n, brk, B, own, a) ==
  \E C : /\ HeapOK(n, brk, C) /\ Lists(n, Frees(n, C) \ {a}) /\ Apart(n, C, NULL)
         /\ a \in C /\ a # heap_listp /\ BLK_STATE(n, a) = BLK_FREE
         /\ Kept(m, n, B, C, own, NULL)

\* coalesce joins the block with its free neighbours, which leave their lists.
LEMMA CoalesceFacts ==
  ASSUME NEW m, NEW brk, NEW B, NEW bp \in B, bp # heap_listp, Loose(m, brk, B, bp)
  PROVE  Joined(m, coalesce(m, bp).mem, brk, B, bp, coalesce(m, bp).p)
<1>. DEFINE nf == NEXT_BLK_ALLOC(m, bp) = BLK_FREE
            pf == PREV_BLK_ALLOC(m, bp) = BLK_FREE
            nb == NEXT_BLKP(m, bp)
            pb == PREV_BLKP(m, bp)
            m1 == IF nf THEN FREELIST_DEL_BLK(m, nb) ELSE m
            m2 == IF pf THEN FREELIST_DEL_BLK(m1, pb) ELSE m1
            G0 == Frees(m, B) \ {bp}
            G1 == IF nf THEN G0 \ {nb} ELSE G0
            G2 == IF pf THEN G1 \ {pb} ELSE G1
            a  == Low(m, bp)
            e  == High(m, bp)
            n  == SET_BLK(m2, a, e - a, BLK_FREE)
<1>1. HeapOK(m, brk, B) /\ Lists(m, G0) /\ Apart(m, B, bp) /\ m \in Memory
  BY DEF Loose, HeapOK
<1>2. /\ nf => nb \in B /\ BLK_STATE(m, nb) = BLK_FREE
      /\ NEXT_BLK_SIZE(m, bp) = BLK_SIZE(m, nb) /\ nb # bp
      /\ nb = bp + BLK_SIZE(m, bp)
  BY <1>1, NextFacts
<1>3. /\ pb \in B /\ (pf => BLK_STATE(m, pb) = BLK_FREE)
      /\ PREV_BLK_SIZE(m, bp) = BLK_SIZE(m, pb)
      /\ pb + BLK_SIZE(m, pb) = bp
  BY <1>1, PrevFacts
<1>4. pb # bp /\ pb # nb
  <2>1. /\ bp \in Nat /\ BLK_SIZE(m, bp) \in Nat /\ BLK_SIZE(m, bp) >= 8
        /\ pb \in Nat /\ BLK_SIZE(m, pb) \in Nat /\ BLK_SIZE(m, pb) >= 8
    BY <1>1, <1>3, Block
  <2>. QED  BY <1>2, <1>3, <2>1
<1>. HIDE DEF nb, pb
\* the upper neighbour is unlinked
<1>5. m1 \in Memory /\ Lists(m1, G1) /\ Quiet(m, m1, B, bp)
  <2>1. CASE nf
    <3>1. G0 \subseteq Frees(m, B) /\ (nb \in Frees(m, B) => nb \in G0)
      BY <1>2
    <3>2. FREELIST_DEL_BLK(m, nb) \in Memory /\ Lists(FREELIST_DEL_BLK(m, nb), G0 \ {nb})
          /\ Quiet(m, FREELIST_DEL_BLK(m, nb), B, bp)
      <4>. HIDE DEF G0
      <4>. QED  BY <1>1, <1>2, <2>1, <3>1, DelFacts
    <3>. QED  BY <2>1, <3>2
  <2>2. CASE ~nf
    BY <1>1, <2>2 DEF Quiet
  <2>. QED  BY <2>1, <2>2
<1>6. /\ HeapOK(m1, brk, B) /\ Frees(m1, B) = Frees(m, B)
      /\ \A b \in B \cup {brk} : m1[b - 4] = m[b - 4]
  <2>. HIDE DEF m1, nf
  <2>. QED  BY <1>1, <1>5, QuietFacts
\* the lower neighbour is unlinked
<1>7. m2 \in Memory /\ Lists(m2, G2) /\ Quiet(m1, m2, B, bp)
  <2>1. CASE pf
    <3>1. G1 \subseteq Frees(m1, B) /\ (pb \in Frees(m1, B) => pb \in G1)
      BY <1>4, <1>6
    <3>2. BLK_STATE(m1, pb) = BLK_FREE
      BY <1>3, <1>6, <2>1, HeaderFacts
    <3>3. FREELIST_DEL_BLK(m1, pb) \in Memory /\ Lists(FREELIST_DEL_BLK(m1, pb), G1 \ {pb})
          /\ Quiet(m1, FREELIST_DEL_BLK(m1, pb), B, bp)
      <4>. HIDE DEF G1, m1
      <4>. QED  BY <1>3, <1>5, <1>6, <3>1, <3>2, DelFacts
    <3>. QED  BY <2>1, <3>3
  <2>2. CASE ~pf
    <3>1. m2 = m1 /\ G2 = G1
      BY <2>2
    <3>2. Quiet(m1, m1, B, bp)
      BY DEF Quiet
    <3>. QED  BY <1>5, <3>1, <3>2
  <2>. QED  BY <2>1, <2>2
<1>. HIDE DEF m1, m2, nf, pf
<1>8. Quiet(m, m2, B, bp)
  BY <1>1, <1>5, <1>7, QuietTwice
<1>9. /\ HeapOK(m2, brk, B) /\ Frees(m2, B) = Frees(m, B)
      /\ \A b \in B \cup {brk} : m2[b - 4] = m[b - 4]
      /\ Kept(m, m2, B, B, bp, bp)
      /\ Apart(m2, B, bp)
  BY <1>1, <1>7, <1>8, QuietFacts
<1>10. /\ e \in B \cup {brk} /\ e \in Nat /\ bp + 16 <= e
       /\ e - bp = BLK_SIZE(m, bp) + (IF nf THEN NEXT_BLK_SIZE(m, bp) ELSE 0)
       /\ \A c \in B : (bp <= c /\ c < e) <=> c = bp \/ (c = nb /\ nf)
       /\ BLK_STATE(m, e) = BLK_ALLOC
  BY <1>1, HighFacts DEF nf, nb
<1>11. /\ a \in B /\ a # heap_listp /\ a \in Nat /\ a <= bp
       /\ bp - a = (IF pf THEN PREV_BLK_SIZE(m, bp) ELSE 0)
       /\ \A c \in B : (a <= c /\ c < bp) <=> (c = pb /\ pf)
       /\ PREV_BLK_ALLOC(m, a) = BLK_ALLOC
  BY <1>1, LowFacts DEF pf, pb
<1>12. a = IF pf THEN pb ELSE bp
  BY DEF Low, pf, pb
<1>. HIDE DEF a, e
<1>13. bp \in Nat /\ \A c \in B : c \in Nat
  BY <1>1, Block
<1>14. \A c \in B : (a <= c /\ c < e) <=> c = bp \/ (c = nb /\ nf) \/ (c = pb /\ pf)
  BY <1>10, <1>11, <1>13
<1>15. G2 = Outside(Frees(m2, B), a, e)
  <2>1. ASSUME NEW c \in Frees(m, B)
        PROVE  (c < a \/ e <= c) <=> c \in G2
    <3>1. c \in B /\ c \in Nat
      BY <1>13 DEF Frees
    <3>2. (c < a \/ e <= c) <=> ~(a <= c /\ c < e)
      BY <1>10, <1>11, <3>1
    <3>3. c \in G2 <=> ~(c = bp \/ (c = nb /\ nf) \/ (c = pb /\ pf))
      OBVIOUS
    <3>. QED  BY <1>14, <3>1, <3>2, <3>3
  <2>2. G2 \subseteq Frees(m, B)
    OBVIOUS
  <2>. HIDE DEF G2
  <2>. QED  BY <1>9, <2>1, <2>2 DEF Outside
<1>. HIDE DEF G2
\* the tags of the joined block are written
<1>16. coalesce(m, bp) = [mem |-> n, p |-> a]
  <2>1. BLK_SIZE(m2, bp) = BLK_SIZE(m, bp) /\ NEXT_BLKP(m1, bp) = nb /\ NEXT_BLK_SIZE(m1, bp) = NEXT_BLK_SIZE(m, bp)
    <3>1. BLK_SIZE(m2, bp) = BLK_SIZE(m, bp) /\ NEXT_BLKP(m1, bp) = nb
      BY <1>6, <1>9, HeaderFacts DEF nb
    <3>2. nb \in B \cup {brk}
      BY <1>1, NextFacts DEF nb
    <3>3. BLK_SIZE(m1, nb) = BLK_SIZE(m, nb)
      BY <1>6, <3>2, HeaderFacts
    <3>. QED  BY <1>2, <3>1, <3>3 DEF NEXT_BLK_SIZE
  <2>2. /\ PREV_BLKP(m1, bp) = pb /\ (PREV_BLK_ALLOC(m1, bp) = BLK_FREE <=> pf)
        /\ PREV_BLKP(m2, bp) = pb /\ PREV_BLK_SIZE(m2, bp) = PREV_BLK_SIZE(m, bp)
    BY <1>1, <1>5, <1>7, <1>8, QuietPrev DEF pb, pf
  <2>. DEFINE size1 == BLK_SIZE(m, bp) + (IF nf THEN NEXT_BLK_SIZE(m, bp) ELSE 0)
              size2 == size1 + (IF pf THEN PREV_BLK_SIZE(m, bp) ELSE 0)
  <2>3. coalesce(m, bp) = [mem |-> SET_BLK(m2, a, size2, BLK_FREE), p |-> a]
    BY <1>12, <2>1, <2>2 DEF coalesce, m1, m2, nf, nb
  <2>4. size2 = e - a
    <3>1. size1 = e - bp
      BY <1>10
    <3>2. (IF pf THEN PREV_BLK_SIZE(m, bp) ELSE 0) = bp - a
      BY <1>11
    <3>3. size2 = (e - bp) + (bp - a)
      BY <3>1, <3>2
    <3>. HIDE DEF size2
    <3>. QED  BY <1>10, <1>11, <1>13, <3>3
  <2>. QED  BY <2>3, <2>4
<1>17. /\ Rewritten(m2, n, brk, B, a, e, {a})
       /\ BLK_SIZE(n, a) = e - a /\ BLK_STATE(n, a) = BLK_FREE /\ NEXT_BLKP(n, a) = e
  <2>1. a + 16 <= e
    BY <1>10, <1>11, <1>13
  <2>2. BLK_FREE \in {BLK_FREE, BLK_ALLOC}
    OBVIOUS
  <2>. QED  BY <1>9, <1>10, <1>11, <2>1, <2>2, JoinFacts
<1>. HIDE DEF n
<1>. DEFINE C == Replaced(B, a, e, {a})
<1>18. /\ HeapOK(n, brk, C)
       /\ \A b \in B \cup {brk} : b < a \/ e <= b => n[b - 4] = m2[b - 4]
  BY <1>9, <1>17, RewrittenFacts
<1>19. Lists(n, Frees(n, C) \ {a})
  <2>1. /\ Frees(n, C) = Outside(Frees(m2, B), a, e) \cup Frees(n, {a})
        /\ Lists(n, Outside(Frees(m2, B), a, e))
        /\ \A b \in Frees(n, {a}) : b \in {a} /\ b \notin Outside(Frees(m2, B), a, e)
    <3>1. Lists(m2, Outside(Frees(m2, B), a, e))
      BY <1>7, <1>15
    <3>2. HeapOK(m2, brk, B) /\ Rewritten(m2, n, brk, B, a, e, {a})
      BY <1>9, <1>17
    <3>. HIDE DEF C
    <3>3. /\ Frees(n, Replaced(B, a, e, {a})) = Outside(Frees(m2, B), a, e) \cup Frees(n, {a})
          /\ Lists(n, Outside(Frees(m2, B), a, e))
          /\ \A b \in Frees(n, {a}) : b \in {a} /\ b \notin Outside(Frees(m2, B), a, e)
      BY <3>1, <3>2, RewrittenLists
    <3>. QED  BY <3>3 DEF C
  <2>2. a \notin Outside(Frees(m2, B), a, e)
    BY <1>10, <1>11, <1>13 DEF Outside
  <2>3. Frees(n, C) \ {a} = Outside(Frees(m2, B), a, e)
    BY <2>1, <2>2
  <2>. QED  BY <2>1, <2>3
<1>20. Apart(n, C, NULL)
  <2>1. BLK_STATE(n, e) = BLK_ALLOC
    <3>1. n[e - 4] = m[e - 4]
      BY <1>9, <1>10, <1>18
    <3>. QED  BY <1>10, <3>1, HeaderFacts
  <2>2. \A b \in {a} : (b # NULL /\ NEXT_BLKP(n, b) # NULL /\ BLK_STATE(n, b) = BLK_FREE) =>
                          NEXT_BLK_ALLOC(n, b) = BLK_ALLOC
    BY <1>17, <2>1 DEF NEXT_BLK_ALLOC
  <2>3. PREV_BLK_ALLOC(m2, a) = BLK_ALLOC
    BY <1>1, <1>7, <1>8, <1>11, QuietPrev
  <2>4. bp \in B => a <= bp /\ bp < e
    BY <1>10, <1>11, <1>13
  <2>. QED  BY <1>9, <1>17, <2>2, <2>3, <2>4, RewrittenApart
<1>21. Kept(m, n, B, C, bp, NULL)
  <2>1. \A b \in B : a <= b /\ b < e => b = bp \/ BLK_STATE(m2, b) = BLK_FREE
    <3>. SUFFICES ASSUME NEW b \in B, a <= b, b < e, b # bp
                  PROVE  BLK_STATE(m2, b) = BLK_FREE
      OBVIOUS
    <3>1. BLK_STATE(m, b) = BLK_FREE
      BY <1>2, <1>3, <1>14
    <3>2. m2[b - 4] = m[b - 4]
      BY <1>9
    <3>. QED  BY <3>1, <3>2, HeaderFacts
  <2>2. bp \in B => a <= bp /\ bp < e
    BY <1>10, <1>11, <1>13
  <2>3. \A b \in {a} : BLK_STATE(n, b) = BLK_ALLOC => b = NULL
    BY <1>17 DEF BLK_FREE, BLK_ALLOC
  <2>4. Kept(m2, n, B, C, bp, NULL)
    BY <1>9, <1>17, <2>1, <2>2, <2>3, RewrittenKept
  <2>. QED  BY <1>9, <2>4, KeptTwice
<1>22. a \in C
  BY DEF Replaced
<1>. HIDE DEF C
<1>23. Joined(m, n, brk, B, bp, a)
  BY <1>11, <1>17, <1>18, <1>19, <1>20, <1>21, <1>22 DEF Joined
<1>. QED  BY <1>16, <1>23

\* An operation that keeps the blocks of others, and one that keeps all.
LEMMA KeptThen ==
  ASSUME NEW m, NEW n, NEW o, NEW B, NEW C, NEW D, NEW own, NEW new, NULL \notin C,
         NULL \notin D, Kept(m, n, B, C, own, new), Kept(n, o, C, D, NULL, NULL)
  PROVE  Kept(m, o, B, D, own, new)
<1>1. ASSUME NEW b \in B, BLK_STATE(m, b) = BLK_ALLOC, b # own
      PROVE  /\ b \in D /\ o[b - 4] = m[b - 4]
             /\ \A w \in Addr : InPayload(m, b, w) => o[w] = m[w]
  <2>1. /\ b \in C /\ n[b - 4] = m[b - 4]
        /\ \A w \in Addr : InPayload(m, b, w) => n[w] = m[w]
    BY <1>1 DEF Kept
  <2>2. BLK_STATE(n, b) = BLK_ALLOC /\ \A w : InPayload(n, b, w) <=> InPayload(m, b, w)
    BY <1>1, <2>1, HeaderFacts
  <2>3. b # NULL
    BY <2>1
  <2>4. /\ b \in D /\ o[b - 4] = n[b - 4]
        /\ \A w \in Addr : InPayload(n, b, w) => o[w] = n[w]
    BY <2>1, <2>2, <2>3 DEF Kept
  <2>. QED  BY <2>1, <2>2, <2>4
<1>2. ASSUME NEW b \in D, BLK_STATE(o, b) = BLK_ALLOC, b # new
      PROVE  b \in B /\ BLK_STATE(m, b) = BLK_ALLOC /\ b # own
  <2>1. b \in C /\ BLK_STATE(n, b) = BLK_ALLOC
    <3>1. b # NULL
      BY <1>2
    <3>. QED  BY <1>2, <3>1 DEF Kept
  <2>. QED  BY <1>2, <2>1 DEF Kept
<1>. QED  BY <1>1, <1>2 DEF Kept

\* NULL is no block.
LEMMA NotNull ==
  ASSUME NEW m, NEW brk, NEW B, HeapOK(m, brk, B)
  PROVE  NULL \notin B
BY Block

\* The classes of the sizes a block can have: only the smallest is in class 0.
LEMMA ClassOfSize ==
  ASSUME NEW s \in Nat, s % 8 = 0, s >= 16, s <= MAX_INT
  PROVE  /\ flt_index(s - 8) \in 0..(FLT_SLOT_NUM - 1)
         /\ flt_index(s - 8) = 0 <=> s = 16
<1>. DEFINE v == s - 8
            k == flt_index(v)
<1>1. v \in Int /\ 1 <= v /\ v <= MAX_INT
  BY DEF MAX_INT
<1>2. InClass(v, k)
  BY <1>1, ClassAsDocumented
<1>. HIDE DEF k
<1>3. k \in 0..(FLT_SLOT_NUM - 1) /\ k \in Int /\ FLT_SLOT_NUM \in 2..11
  BY <1>2, Layout DEF InClass
<1>4. CASE k = 0
  <2>1. v <= 8
    BY <1>2, <1>3, <1>4, ClassEndFacts DEF InClass
  <2>. QED  BY <1>3, <1>4, <2>1 DEF k
<1>5. CASE k # 0
  <2>1. k \in 1..10 /\ v > ClassEnd[k]
    BY <1>2, <1>3, <1>5 DEF InClass
  <2>2. ClassEnd[k] \in Int /\ ClassEnd[k] >= 8
    BY <2>1, ClassEndFacts
  <2>3. s # 16
    BY <2>1, <2>2
  <2>. QED  BY <1>3, <1>5, <2>3 DEF k
<1>. QED  BY <1>4, <1>5

\* A block of the smallest size is only pushed on the list of class 0.
LEMMA PushSmallFacts ==
  ASSUME NEW m, NEW brk, NEW B, HeapOK(m, brk, B), NEW a \in B, a # heap_listp,
         BLK_STATE(m, a) = BLK_FREE, BLK_SIZE(m, a) = BLK_MIN_SIZE, Lists(m, Frees(m, B))
  PROVE  LET n == freelist_insert2(m, Slot(0), a)
         IN  n \in Memory /\ Lists(n, Frees(m, B)) /\ Quiet(m, n, B, NULL)
<1>. DEFINE h     == Slot(0)
            nextp == NEXT_FREE_BLKP(m, h)
            m1    == SET_NEXT_FREE_BLK(m, a, nextp)
            n     == SET_NEXT_FREE_BLK(m1, h, a)
            F     == Frees(m, B)
<1>1. freelist_insert2(m, h, a) = n
  BY DEF freelist_insert2
<1>2. /\ a \in Nat /\ a % 8 = 0 /\ heap_listp + 8 <= a /\ a + 16 <= brk
      /\ m \in Memory /\ brk \in Nat /\ brk <= mem_max_addr
  BY Block, BreakFacts, Layout
<1>3. /\ h \in Nat /\ h % 8 = 0 /\ mem_start_brk <= h /\ h + 16 <= heap_listp
      /\ \A k \in 1..(FLT_SLOT_NUM - 1) : Slot(k) # h
  <2>1. 0 \in 0..(FLT_SLOT_NUM - 1)
    BY Layout
  <2>2. \A k \in 1..(FLT_SLOT_NUM - 1) : Slot(k) # h
    BY Layout DEF Slot, freelist_table
  <2>. QED  BY <2>1, <2>2, SlotFacts
<1>. HIDE DEF h
<1>4. h \in Addr /\ nextp \in Word /\ a \in Word
  <2>1. h \in Addr
    BY <1>3, Layout, AddrFacts
  <2>. QED  BY <1>2, <2>1, Layout DEF NEXT_FREE_BLKP, Memory
<1>. HIDE DEF nextp
<1>5. /\ m1 \in Memory
      /\ \A w \in Addr : w # a /\ w # a + 4 => m1[w] = m[w]
  <2>1. mem_start_brk <= a /\ a < mem_max_addr /\ a \in Int
    BY <1>2, Layout
  <2>. QED  BY <1>2, <1>4, <2>1, SetPtrFacts DEF SET_NEXT_FREE_BLK
<1>. HIDE DEF m1
<1>6. /\ n \in Memory
      /\ \A w \in Addr : w # h /\ w # h + 4 => n[w] = m1[w]
  <2>1. h < mem_max_addr /\ h \in Int
    BY <1>3, Layout
  <2>. QED  BY <1>3, <1>4, <1>5, <2>1, SetPtrFacts DEF SET_NEXT_FREE_BLK
<1>. HIDE DEF n
<1>7. \A w \in Addr : n[w] = m[w] \/ InPayload(m, a, w) \/ w = h \/ w = h + 4
  <2>. SUFFICES ASSUME NEW w \in Addr, w = a \/ w = a + 4
                PROVE  InPayload(m, a, w)
    BY <1>5, <1>6
  <2>. QED  BY <1>2, Layout DEF InPayload
<1>8. Quiet(m, n, B, NULL)
  <2>. SUFFICES ASSUME NEW w \in Addr, w = h \/ w = h + 4
                PROVE  w < heap_listp - 8
    BY <1>7 DEF Quiet
  <2>. QED  BY <1>3, Layout
<1>9. ASSUME NEW b \in F
      PROVE  n[b] = m[b] /\ n[b + 8] = m[b + 8] /\ n[b - 4] = m[b - 4]
  <2>1. b \in B /\ BLK_SIZE(m, b) >= 24 /\ b + 24 <= brk /\ b # heap_listp
    BY FreesFacts
  <2>2. b \in Nat /\ b % 8 = 0 /\ heap_listp + 8 <= b /\ BLK_SIZE(m, b) \in Nat
    BY <2>1, Block
  <2>3. b \in Addr /\ b + 8 \in Addr /\ b - 4 \in Addr
    BY <1>2, <2>1, <2>2, Layout DEF Addr
  <2>4. InPayload(m, b, b) /\ InPayload(m, b, b + 8)
    BY <2>1, <2>2 DEF InPayload
  <2>5. a # b
    BY <2>1, Layout
  <2>6. ~InPayload(m, a, b) /\ ~InPayload(m, a, b + 8) /\ ~InPayload(m, a, b - 4)
    BY <2>1, <2>3, <2>4, <2>5, PayloadApart
  <2>7. b # h /\ b # h + 4 /\ b + 8 # h /\ b + 8 # h + 4 /\ b - 4 # h /\ b - 4 # h + 4
    BY <1>3, <2>2, Layout
  <2>. QED  BY <1>7, <2>3, <2>6, <2>7
<1>10. ASSUME NEW x \in Heads
       PROVE  n[x] = m[x]
  <2>1. PICK k \in 1..(FLT_SLOT_NUM - 1) : x = Slot(k)
    BY DEF Heads
  <2>2. x \in Nat /\ x % 8 = 0 /\ mem_start_brk <= x /\ x + 16 <= heap_listp /\ x # h
    BY <1>3, <2>1, SlotFacts, Layout
  <2>3. x \in Addr
    BY <2>2, Layout, AddrFacts
  <2>4. ~InPayload(m, a, x) /\ x # h + 4
    BY <1>2, <1>3, <2>2, Layout DEF InPayload
  <2>. QED  BY <1>7, <2>2, <2>3, <2>4
<1>11. Lists(n, F)
  <2>1. /\ SameTags(m, n, F)
        /\ \A x \in Nodes(F) : NEXT_FREE_BLKP(n, x) = NEXT_FREE_BLKP(m, x)
        /\ \A b \in F : PREV_FREE_BLKP(n, b) = PREV_FREE_BLKP(m, b)
    BY <1>9, <1>10 DEF SameTags, Nodes, NEXT_FREE_BLKP, PREV_FREE_BLKP
  <2>2. Spread(F)
    BY FreesFacts
  <2>. QED  BY <2>1, <2>2, ListsFrame
<1>. QED  BY <1>1, <1>6, <1>8, <1>11 DEF h

\* The heap as it is between calls, after an operation on another such heap.
Settled(m, n, brk, B, own, new) ==
  \E C : Loose(n, brk, C, NULL) /\ Kept(m, n, B, C, own, new)

\* freelist_insert joins the block with its neighbours and puts it on the list of
\* its class.
LEMMA InsertFacts ==
  ASSUME MAX_HEAP <= MAX_INT,
         NEW m, NEW brk, NEW B, NEW bp \in B, bp # heap_listp, Loose(m, brk, B, bp)
  PROVE  Settled(m, freelist_insert(m, bp), brk, B, bp, NULL)
<1>. DEFINE k == coalesce(m, bp).mem
            a == coalesce(m, bp).p
            s == BLK_SIZE(k, a)
            h == Slot(flt_index(s - 8))
            n == freelist_insert2(k, h, a)
<1>1. freelist_insert(m, bp) = n
  BY DEF freelist_insert, BLK_AVAL_SIZE, WSIZE
<1>2. Joined(m, k, brk, B, bp, a)
  BY CoalesceFacts
<1>. HIDE DEF k, a
<1>3. PICK C : /\ HeapOK(k, brk, C) /\ Lists(k, Frees(k, C) \ {a}) /\ Apart(k, C, NULL)
               /\ a \in C /\ a # heap_listp /\ BLK_STATE(k, a) = BLK_FREE
               /\ Kept(m, k, B, C, bp, NULL)
  BY <1>2 DEF Joined
<1>4. /\ a \in Nat /\ s \in Nat /\ s % 8 = 0 /\ s >= 16 /\ a + s <= brk /\ heap_listp + 8 <= a
  BY <1>3, Block
<1>5. s <= MAX_INT
  <2>1. brk \in Nat /\ brk <= mem_max_addr
    BY <1>3, BreakFacts
  <2>2. s <= MAX_HEAP /\ MAX_HEAP \in Int
    <3>. HIDE DEF s
    <3>. QED  BY <1>4, <2>1, Layout, RegionAssumption
  <2>3. MAX_INT \in Int
    BY SMT DEF MAX_INT
  <2>. HIDE DEF s
  <2>. QED  BY <1>4, <2>2, <2>3
<1>6. flt_index(s - 8) \in 0..(FLT_SLOT_NUM - 1) /\ (flt_index(s - 8) = 0 <=> s = 16)
  BY <1>4, <1>5, ClassOfSize
<1>. DEFINE F == Frees(k, C)
<1>7. n \in Memory /\ Lists(n, F) /\ Quiet(k, n, C, NULL)
  <2>1. CASE s = 16
    <3>1. a \notin F /\ F \ {a} = F
      BY <2>1, Layout DEF Frees
    <3>2. n = freelist_insert2(k, Slot(0), a)
      BY <1>6, <2>1
    <3>3. s = BLK_MIN_SIZE
      BY <2>1, Layout
    <3>. HIDE DEF n
    <3>. QED  BY <1>3, <3>1, <3>2, <3>3, PushSmallFacts
  <2>2. CASE s # 16
    <3>. DEFINE j == flt_index(s - 8)
    <3>1. j \in 1..(FLT_SLOT_NUM - 1) /\ j \in 0..(FLT_SLOT_NUM - 1)
      BY <1>6, <2>2, Layout
    <3>2. h \in Heads
      BY <3>1 DEF Heads
    <3>3. Class(k, a) = j
      BY <1>4, Layout DEF Class, BLK_AVAL_SIZE, WSIZE
    <3>4. Class(k, h) = j
      <4>. HIDE DEF j
      <4>1. h = Slot(j)
        BY DEF j
      <4>2. h \in Nat /\ h + 16 <= heap_listp /\ (h - freelist_table) \div 8 = j
        BY <3>1, <4>1, SlotFacts
      <4>3. h < heap_listp
        BY <4>2, Layout
      <4>. QED  BY <4>2, <4>3 DEF Class
    <3>5. a \in F
      BY <1>3, <1>4, <2>2, Layout DEF Frees
    <3>. DEFINE G == F \ {a}
    <3>6. a \notin G /\ G \cup {a} = F /\ Lists(k, G)
      BY <1>3, <3>5
    <3>7. Spread(F) /\ k \in Memory /\ s # BLK_MIN_SIZE
      BY <1>3, <2>2, FreesFacts, Layout DEF HeapOK
    <3>. HIDE DEF G, F, h, j
    <3>8. n \in Memory /\ Lists(n, F) /\ Touched(k, n, F)
      <4>1. Class(k, h) = Class(k, a)
        BY <3>3, <3>4
      <4>2. Spread(G \cup {a})
        BY <3>6, <3>7
      <4>3. n \in Memory /\ Lists(n, G \cup {a}) /\ Touched(k, n, G \cup {a})
        BY <3>2, <3>6, <3>7, <4>1, <4>2, PushFacts
      <4>. QED  BY <3>6, <4>3
    <3>9. F \subseteq Frees(k, C)
      BY DEF F
    <3>. HIDE DEF n
    <3>. QED  BY <1>3, <3>8, <3>9, TouchedQuiet
  <2>. QED  BY <2>1, <2>2
<1>. HIDE DEF n
<1>8. /\ HeapOK(n, brk, C) /\ Kept(k, n, C, C, NULL, NULL)
      /\ Frees(n, C) = F /\ Apart(n, C, NULL)
  BY <1>3, <1>7, QuietFacts
<1>9. NULL \notin C /\ NULL \notin F
  BY <1>3, NotNull DEF Frees
<1>10. Kept(m, n, B, C, bp, NULL)
  BY <1>3, <1>8, <1>9, KeptThen
<1>11. Frees(n, C) \ {NULL} = F
  BY <1>8, <1>9
<1>. HIDE DEF F
<1>12. Loose(n, brk, C, NULL)
  BY <1>7, <1>8, <1>11 DEF Loose
<1>. QED  BY <1>1, <1>10, <1>12 DEF Settled

\* Two operations one after the other, seen as one.
LEMMA KeptSeq ==
  ASSUME NEW m, NEW n, NEW o, NEW B, NEW C, NEW D,
         NEW own1, NEW new1, Kept(m, n, B, C, own1, new1),
         NEW own2, NEW new2, Kept(n, o, C, D, own2, new2),
         NEW own, NEW new,
         \A b \in B : BLK_STATE(m, b) = BLK_ALLOC => (b = own <=> b = own1 \/ b = own2),
         \A b \in C : (BLK_STATE(n, b) = BLK_ALLOC /\ b # own2 /\ b # new) => b # new1,
         \A b \in D : (BLK_STATE(o, b) = BLK_ALLOC /\ b # new) => b # new2
  PROVE  Kept(m, o, B, D, own, new)
<1>1. ASSUME NEW b \in B, BLK_STATE(m, b) = BLK_ALLOC, b # own
      PROVE  /\ b \in D /\ o[b - 4] = m[b - 4]
             /\ \A w \in Addr : InPayload(m, b, w) => o[w] = m[w]
  <2>0. b # own1 /\ b # own2
    BY <1>1
  <2>1. /\ b \in C /\ n[b - 4] = m[b - 4]
        /\ \A w \in Addr : InPayload(m, b, w) => n[w] = m[w]
    BY <1>1, <2>0 DEF Kept
  <2>2. BLK_STATE(n, b) = BLK_ALLOC /\ \A w : InPayload(n, b, w) <=> InPayload(m, b, w)
    BY <1>1, <2>1, HeaderFacts
  <2>3. /\ b \in D /\ o[b - 4] = n[b - 4]
        /\ \A w \in Addr : InPayload(n, b, w) => o[w] = n[w]
    BY <2>0, <2>1, <2>2 DEF Kept
  <2>. QED  BY <2>1, <2>2, <2>3
<1>2. ASSUME NEW b \in D, BLK_STATE(o, b) = BLK_ALLOC, b # new
      PROVE  b \in B /\ BLK_STATE(m, b) = BLK_ALLOC /\ b # own
  <2>1. b \in C /\ BLK_STATE(n, b) = BLK_ALLOC /\ b # own2
    BY <1>2 DEF Kept
  <2>2. b # new1
    BY <1>2, <2>1
  <2>3. b \in B /\ BLK_STATE(m, b) = BLK_ALLOC /\ b # own1
    BY <2>1, <2>2 DEF Kept
  <2>. QED  BY <2>1, <2>3
<1>. QED  BY <1>1, <1>2 DEF Kept

\* A heap that is in order stays so when a block that is on no list is set apart.
LEMMA SetApart ==
  ASSUME NEW m, NEW brk, NEW B, Loose(m, brk, B, NULL), NEW x, x \notin Frees(m, B)
  PROVE  Loose(m, brk, B, x)
<1>1. HeapOK(m, brk, B)
  BY DEF Loose
<1>2. Frees(m, B) \ {NULL} = Frees(m, B) \ {x}
  BY <1>1, FreesFacts
<1>3. \A b \in B : b # NULL /\ NEXT_BLKP(m, b) # NULL
  <2>. SUFFICES ASSUME NEW b \in B
                PROVE  b # NULL /\ NEXT_BLKP(m, b) # NULL
    OBVIOUS
  <2>1. /\ b \in Nat /\ mem_start_brk + 8 <= b /\ BLK_SIZE(m, b) \in Nat /\ b # NULL
        /\ NEXT_BLKP(m, b) = b + BLK_SIZE(m, b)
    BY <1>1, Block, NextFacts
  <2>. QED  BY <2>1, Layout DEF NULL
<1>4. Apart(m, B, x)
  BY <1>3 DEF Loose, Apart
<1>5. Lists(m, Frees(m, B) \ {x})
  BY <1>2 DEF Loose
<1>. QED  BY <1>1, <1>4, <1>5 DEF Loose

\* mm_free gives the block up and keeps the others.
LEMMA FreeFacts ==
  ASSUME MAX_HEAP <= MAX_INT,
         NEW m, NEW brk, NEW B, Loose(m, brk, B, NULL),
         NEW ptr \in B, ptr # heap_listp, BLK_STATE(m, ptr) = BLK_ALLOC
  PROVE  Settled(m, segregate_mm_free(m, ptr), brk, B, ptr, NULL)
<1>1. ptr \notin Frees(m, B)
  BY DEF Frees, BLK_ALLOC, BLK_FREE
<1>2. Loose(m, brk, B, ptr)
  BY <1>1, SetApart
<1>3. Settled(m, freelist_insert(m, ptr), brk, B, ptr, NULL)
  BY <1>2, InsertFacts
<1>. QED  BY <1>3 DEF segregate_mm_free

\* segregate_mm_malloc has found or made the block b, of at least s bytes, that
\* the caller did not hold.
Obtained(m, n, brk, B, b, s) ==
  /\ b \in B => BLK_STATE(m, b) = BLK_FREE
  /\ \E C : /\ Loose(n, brk, C, NULL) /\ Kept(m, n, B, C, NULL, b)
            /\ b \in C /\ b # heap_listp
            /\ BLK_STATE(n, b) = BLK_ALLOC /\ BLK_SIZE(n, b) >= s

\* The neighbours of a free block are allocated.
LEMMA FreeAlone ==
  ASSUME NEW m, NEW brk, NEW B, HeapOK(m, brk, B), Apart(m, B, NULL),
         NEW b \in B, BLK_STATE(m, b) = BLK_FREE, b # heap_listp
  PROVE  NEXT_BLK_ALLOC(m, b) = BLK_ALLOC /\ PREV_BLK_ALLOC(m, b) = BLK_ALLOC
<1>1. \A c \in B : c # NULL /\ NEXT_BLKP(m, c) # NULL
  <2>. SUFFICES ASSUME NEW c \in B
                PROVE  c # NULL /\ NEXT_BLKP(m, c) # NULL
    OBVIOUS
  <2>1. /\ c \in Nat /\ mem_start_brk + 8 <= c /\ BLK_SIZE(m, c) \in Nat /\ c # NULL
        /\ NEXT_BLKP(m, c) = c + BLK_SIZE(m, c)
    BY Block, NextFacts
  <2>. QED  BY <2>1, Layout DEF NULL
<1>2. \A c \in B : BLK_STATE(m, c) = BLK_FREE => NEXT_BLK_ALLOC(m, c) = BLK_ALLOC
  BY <1>1 DEF Apart
<1>. DEFINE c == PREV_BLKP(m, b)
<1>3. c \in B /\ PREV_BLK_ALLOC(m, b) = BLK_STATE(m, c) /\ NEXT_BLKP(m, c) = b
  BY PrevFacts
<1>. HIDE DEF c
<1>4. BLK_STATE(m, c) \in {BLK_FREE, BLK_ALLOC} /\ NEXT_BLK_ALLOC(m, c) = BLK_STATE(m, b)
  BY <1>3, Block, NextFacts
<1>5. BLK_STATE(m, c) # BLK_FREE
  BY <1>2, <1>3, <1>4 DEF BLK_FREE, BLK_ALLOC
<1>. QED  BY <1>2, <1>3, <1>4, <1>5

\* The block between b and the next one is b.
LEMMA OnlyBlock ==
  ASSUME NEW m, NEW brk, NEW B, HeapOK(m, brk, B), NEW b \in B,
         NEW c \in B, b <= c, c < b + BLK_SIZE(m, b)
  PROVE  c = b
<1>1. /\ b \in Nat /\ BLK_SIZE(m, b) \in Nat
      /\ b < c => b + BLK_SIZE(m, b) <= c
  BY Block
<1>2. c \in Nat
  BY Block
<1>. QED  BY <1>1, <1>2

\* A free block off its list is marked allocated as a whole.
LEMMA TakeWhole ==
  ASSUME NEW m, NEW brk, NEW B, HeapOK(m, brk, B), Apart(m, B, NULL),
         NEW b \in Frees(m, B), Lists(m, Frees(m, B) \ {b}),
         NEW s \in Nat, s <= BLK_SIZE(m, b)
  PROVE  Obtained(m, SET_BLK(m, b, BLK_SIZE(m, b), BLK_ALLOC), brk, B, b, s)
<1>. DEFINE t == BLK_SIZE(m, b)
            e == b + t
            F == Frees(m, B)
            n == SET_BLK(m, b, t, BLK_ALLOC)
            C == Replaced(B, b, e, {b})
<1>1. /\ b \in B /\ b # heap_listp /\ BLK_STATE(m, b) = BLK_FREE /\ t >= 24
      /\ b \in Nat /\ t \in Nat /\ e \in B \cup {brk}
  <2>1. b \in B /\ b # heap_listp /\ BLK_STATE(m, b) = BLK_FREE /\ t >= 24
    BY FreesFacts
  <2>. QED  BY <2>1, Block
<1>2. e - b = t /\ b + 16 <= e
  <2>. HIDE DEF t
  <2>. QED  BY <1>1
<1>3. /\ Rewritten(m, n, brk, B, b, e, {b})
      /\ BLK_SIZE(n, b) = t /\ BLK_STATE(n, b) = BLK_ALLOC
  <2>. HIDE DEF e, t
  <2>1. BLK_ALLOC \in {BLK_FREE, BLK_ALLOC}
    OBVIOUS
  <2>2. /\ Rewritten(m, SET_BLK(m, b, e - b, BLK_ALLOC), brk, B, b, e, {b})
        /\ BLK_SIZE(SET_BLK(m, b, e - b, BLK_ALLOC), b) = e - b
        /\ BLK_STATE(SET_BLK(m, b, e - b, BLK_ALLOC), b) = BLK_ALLOC
    BY <1>1, <1>2, <2>1, JoinFacts
  <2>. QED  BY <1>2, <2>2
<1>. HIDE DEF n
<1>4. \A c \in B : b <= c /\ c < e => c = b
  BY <1>1, OnlyBlock
<1>5. Outside(F, b, e) = F \ {b}
  <2>1. \A c \in F : c \in Nat /\ c \in B
    <3>. SUFFICES ASSUME NEW c \in F
                  PROVE  c \in Nat /\ c \in B
      OBVIOUS
    <3>1. c \in B
      BY FreesFacts
    <3>. QED  BY <3>1, Block
  <2>2. e \in Nat /\ b < e
    <3>. HIDE DEF t
    <3>. QED  BY <1>1
  <2>. HIDE DEF e, F
  <2>3. \A c \in F : (c < b \/ e <= c) <=> c # b
    BY <1>1, <1>4, <2>1, <2>2
  <2>. QED  BY <2>3 DEF Outside
<1>. HIDE DEF e, F, t
<1>6. HeapOK(n, brk, C)
  BY <1>3, RewrittenFacts
<1>7. Frees(n, {b}) = {}
  BY <1>3 DEF Frees, BLK_FREE, BLK_ALLOC
<1>8. Frees(n, C) = F \ {b} /\ Lists(n, F \ {b})
  <2>1. Lists(m, Outside(Frees(m, B), b, e))
    BY <1>5 DEF F
  <2>2. /\ Frees(n, C) = Outside(Frees(m, B), b, e) \cup Frees(n, {b})
        /\ Lists(n, Outside(Frees(m, B), b, e))
    BY <1>3, <2>1, RewrittenLists
  <2>. QED  BY <1>5, <1>7, <2>2 DEF F
<1>9. Apart(n, C, NULL)
  <2>1. NULL \in B => b <= NULL /\ NULL < e
    BY NotNull
  <2>2. \A c \in {b} : (c # NULL /\ NEXT_BLKP(n, c) # NULL /\ BLK_STATE(n, c) = BLK_FREE) =>
                          NEXT_BLK_ALLOC(n, c) = BLK_ALLOC
    BY <1>3 DEF BLK_FREE, BLK_ALLOC
  <2>. QED  BY <1>3, <2>1, <2>2, RewrittenApart
<1>10. Kept(m, n, B, C, NULL, b)
  <2>1. \A c \in B : b <= c /\ c < e => c = NULL \/ BLK_STATE(m, c) = BLK_FREE
    BY <1>1, <1>4
  <2>2. NULL \in B => b <= NULL /\ NULL < e
    BY NotNull
  <2>. QED  BY <1>3, <2>1, <2>2, RewrittenKept
<1>11. Loose(n, brk, C, NULL)
  <2>1. (F \ {b}) \ {NULL} = F \ {b}
    BY FreesFacts DEF F
  <2>. QED  BY <1>6, <1>8, <1>9, <2>1 DEF Loose
<1>12. b \in C
  BY DEF Replaced
<1>13. BLK_SIZE(n, b) >= s
  BY <1>3 DEF t
<1>. HIDE DEF C
<1>14. Obtained(m, n, brk, B, b, s)
  BY <1>1, <1>3, <1>10, <1>11, <1>12, <1>13 DEF Obtained
<1>. QED  BY <1>14 DEF n, t

\* The memory n is m with an allocated block of s bytes at b and a free one of r
\* bytes above it.
SplitInto(m, n, b, s, r) ==
  /\ n \in Memory /\ Tiling(n, b, b + s + r, {b, b + s})
  /\ \A w \in Addr : w < b - 4 \/ b + s + r - 4 <= w => n[w] = m[w]
  /\ BLK_SIZE(n, b) = s /\ BLK_STATE(n, b) = BLK_ALLOC
  /\ BLK_SIZE(n, b + s) = r /\ BLK_STATE(n, b + s) = BLK_FREE

LEMMA SplitTags ==
  ASSUME NEW m \in Memory, NEW b \in Int, b % 8 = 0, mem_start_brk <= b,
         NEW s \in Nat, s % 8 = 0, s >= 8, NEW r \in Nat, r % 8 = 0, r >= 8,
         b + s + r <= mem_max_addr
  PROVE  SplitInto(m, SET_BLK(SET_BLK(m, b, s, BLK_ALLOC), b + s, r, BLK_FREE), b, s, r)
<1>1. BLK_ALLOC \in {BLK_FREE, BLK_ALLOC} /\ BLK_FREE \in {BLK_FREE, BLK_ALLOC}
  OBVIOUS
<1>2. /\ BLK_SIZE(SET_BLK(SET_BLK(m, b, s, BLK_ALLOC), b + s, r, BLK_FREE), b + s) = r
      /\ BLK_STATE(SET_BLK(SET_BLK(m, b, s, BLK_ALLOC), b + s, r, BLK_FREE), b + s) = BLK_FREE
  BY <1>1, SetTwoUpper
<1>. DEFINE n == SET_BLK(SET_BLK(m, b, s, BLK_ALLOC), b + s, r, BLK_FREE)
<1>3. /\ n \in Memory
      /\ \A w \in Addr : w < b - 4 \/ b + s + r - 4 <= w => n[w] = m[w]
      /\ Tiling(n, b, b + s + r, {b, b + s})
      /\ BLK_SIZE(n, b) = s /\ BLK_STATE(n, b) = BLK_ALLOC
  BY <1>1, SetTwoFacts
<1>4. BLK_SIZE(n, b + s) = r /\ BLK_STATE(n, b + s) = BLK_FREE
  BY <1>2
<1>. HIDE DEF n
<1>5. SplitInto(m, n, b, s, r)
  BY <1>3, <1>4 DEF SplitInto
<1>. QED  BY <1>5 DEF n

\* Two blocks in the place of b, which is on no list: the lower one allocated, with
\* what b held so far as it fits, the upper one free and not yet on a list.
Parted(m, n, brk, B, C, b, s) ==
  /\ Loose(n, brk, C, b + s) /\ Kept(m, n, B, C, b, b)
  /\ b \in C /\ BLK_STATE(n, b) = BLK_ALLOC /\ BLK_SIZE(n, b) = s
  /\ b + s \in C /\ b + s # heap_listp /\ BLK_STATE(n, b + s) = BLK_FREE
  /\ \A w \in Addr : b <= w /\ w < b + s - 8 => n[w] = m[w]

LEMMA SplitFacts ==
  ASSUME NEW m, NEW brk, NEW B, HeapOK(m, brk, B), Apart(m, B, NULL),
         NEW b \in B, b # heap_listp, Lists(m, Frees(m, B) \ {b}),
         NEW s \in Nat, s % 8 = 0, s >= 16, NEW r \in Nat, r % 8 = 0, r >= 16,
         s + r = BLK_SIZE(m, b)
  PROVE  Parted(m, SET_BLK(SET_BLK(m, b, s, BLK_ALLOC), b + s, r, BLK_FREE), brk, B,
                Replaced(B, b, b + s + r, {b, b + s}), b, s)
<1>. DEFINE u  == b + s
            e  == b + s + r
            F  == Frees(m, B)
            m1 == SET_BLK(m, b, s, BLK_ALLOC)
            n  == SET_BLK(m1, u, r, BLK_FREE)
            N  == {b, u}
            C  == Replaced(B, b, e, N)
<1>1. /\ b \in Nat /\ b % 8 = 0 /\ mem_start_brk + 8 <= b /\ heap_listp + 8 <= b
      /\ b + BLK_SIZE(m, b) \in B \cup {brk} /\ b + BLK_SIZE(m, b) <= brk
      /\ m \in Memory /\ brk \in Nat /\ brk <= mem_max_addr
  BY Block, BreakFacts
<1>2. e = b + BLK_SIZE(m, b)
  BY <1>1
<1>3. /\ e \in Nat /\ b < e /\ e \in B \cup {brk} /\ e <= mem_max_addr
      /\ u \in Nat /\ u % 8 = 0 /\ b < u /\ u < e /\ mem_start_brk <= b
      /\ s >= 8 /\ r >= 8 /\ mem_start_brk <= u /\ heap_listp < u
  <2>1. e \in B \cup {brk} /\ e <= brk
    BY <1>1, <1>2
  <2>. QED  BY <1>1, <2>1, Layout
<1>4. /\ BLK_ALLOC \in {BLK_FREE, BLK_ALLOC} /\ BLK_FREE \in {BLK_FREE, BLK_ALLOC}
      /\ b \in Int /\ b % 8 = 0 /\ mem_start_brk <= b /\ s >= 8 /\ r >= 8
      /\ b + s + r <= mem_max_addr /\ b + s <= mem_max_addr /\ m \in Memory
      /\ mem_start_brk \in Int /\ mem_max_addr \in Int
      /\ s \in Nat /\ s % 8 = 0 /\ r \in Nat /\ r % 8 = 0
  BY <1>1, <1>3, Layout
<1>5. /\ n \in Memory /\ \A w \in Addr : w < b - 4 \/ e - 4 <= w => n[w] = m[w]
      /\ Tiling(n, b, e, N) /\ BLK_SIZE(n, b) = s /\ BLK_STATE(n, b) = BLK_ALLOC
      /\ BLK_SIZE(n, u) = r /\ BLK_STATE(n, u) = BLK_FREE
  <2>1. SplitInto(m, n, b, s, r)
    BY <1>4, SplitTags
  <2>. HIDE DEF n
  <2>2. /\ n \in Memory /\ Tiling(n, b, e, N)
        /\ BLK_SIZE(n, b) = s /\ BLK_STATE(n, b) = BLK_ALLOC
        /\ BLK_SIZE(n, u) = r /\ BLK_STATE(n, u) = BLK_FREE
    BY <2>1, Zenon DEF SplitInto
  <2>3. \A w \in Addr : w < b - 4 \/ e - 4 <= w => n[w] = m[w]
    <3>. SUFFICES ASSUME NEW w \in Addr, w < b - 4 \/ e - 4 <= w
                  PROVE  n[w] = m[w]
      OBVIOUS
    <3>1. w < b - 4 \/ b + s + r - 4 <= w
      BY <1>4 DEF Addr
    <3>. QED  BY <2>1, <3>1, Zenon DEF SplitInto
  <2>. HIDE DEF e, u, N
  <2>. QED  BY <2>2, <2>3
<1>6. BLK_SIZE(n, u) = r /\ BLK_STATE(n, u) = BLK_FREE
  BY <1>5
<1>7. ASSUME NEW w \in Addr, b <= w, w < b + s - 8
      PROVE  n[w] = m[w]
  <2>1. w \in Int
    BY DEF Addr
  <2>2. /\ m1 \in Memory
        /\ \A x \in Addr : x # b - 4 /\ x # b + s - 8 => m1[x] = m[x]
    <3>1. Tagged(m, m1, b, s, BLK_ALLOC)
      BY <1>4, SetBlkFacts
    <3>. QED  BY <3>1 DEF Tagged
  <2>. HIDE DEF m1
  <2>3. \A x \in Addr : x # u - 4 /\ x # u + r - 8 => n[x] = m1[x]
    <3>. HIDE DEF u
    <3>1. u \in Int /\ u + r <= mem_max_addr
      BY <1>3, <1>4 DEF u
    <3>2. Tagged(m1, n, u, r, BLK_FREE)
      BY <1>3, <1>4, <2>2, <3>1, SetBlkFacts
    <3>. QED  BY <3>2 DEF Tagged
  <2>4. w # b - 4 /\ w # b + s - 8 /\ w # u - 4 /\ w # u + r - 8
    BY <1>1, <1>7, <2>1
  <2>. HIDE DEF u, n
  <2>. QED  BY <2>2, <2>3, <2>4
<1>. HIDE DEF n
<1>8. Rewritten(m, n, brk, B, b, e, N)
  <2>1. \A c \in N : BLK_SIZE(n, c) >= BLK_MIN_SIZE
    <3>. HIDE DEF u
    <3>. QED  BY <1>5, <1>6, Layout
  <2>. HIDE DEF e, N
  <2>. QED  BY <1>3, <1>5, <2>1 DEF Rewritten
<1>9. \A c \in B : b <= c /\ c < e => c = b
  BY <1>2, OnlyBlock
<1>10. Outside(F, b, e) = F \ {b}
  <2>1. \A c \in F : c \in Nat /\ c \in B
    <3>. SUFFICES ASSUME NEW c \in F
                  PROVE  c \in Nat /\ c \in B
      OBVIOUS
    <3>1. c \in B
      BY FreesFacts
    <3>. QED  BY <3>1, Block
  <2>. HIDE DEF e, F
  <2>2. \A c \in F : (c < b \/ e <= c) <=> c # b
    BY <1>1, <1>3, <1>9, <2>1
  <2>. QED  BY <2>2 DEF Outside
<1>. HIDE DEF e, u
<1>11. HeapOK(n, brk, C)
  BY <1>8, RewrittenFacts
<1>12. Frees(n, C) \ {u} = F \ {b} /\ Lists(n, F \ {b})
  <2>1. Lists(m, Outside(Frees(m, B), b, e))
    BY <1>10 DEF F
  <2>2. /\ Frees(n, C) = Outside(Frees(m, B), b, e) \cup Frees(n, N)
        /\ Lists(n, Outside(Frees(m, B), b, e))
        /\ \A c \in Frees(n, N) : c \in N /\ c \notin Outside(Frees(m, B), b, e)
    BY <1>8, <2>1, RewrittenLists
  <2>3. Frees(n, N) \subseteq {u}
    BY <1>5 DEF Frees, BLK_ALLOC, BLK_FREE
  <2>4. u \notin F \ {b}
    <3>1. u \notin B
      BY <1>1, <1>3, <1>9
    <3>. QED  BY <3>1 DEF F, Frees
  <2>5. Outside(Frees(m, B), b, e) = F \ {b}
    BY <1>10 DEF F
  <2>. HIDE DEF C, N, F
  <2>. QED  BY <2>2, <2>3, <2>4, <2>5
<1>13. Apart(n, C, u)
  <2>1. NULL \in B => b <= NULL /\ NULL < e
    BY NotNull
  <2>2. \A c \in N : (c # u /\ NEXT_BLKP(n, c) # u /\ BLK_STATE(n, c) = BLK_FREE) =>
                        NEXT_BLK_ALLOC(n, c) = BLK_ALLOC
    BY <1>5 DEF BLK_FREE, BLK_ALLOC
  <2>. HIDE DEF N
  <2>. QED  BY <1>5, <1>8, <2>1, <2>2, RewrittenApart
<1>14. Kept(m, n, B, C, b, b)
  <2>1. \A c \in B : b <= c /\ c < e => c = b \/ BLK_STATE(m, c) = BLK_FREE
    BY <1>9
  <2>2. b \in B => b <= b /\ b < e
    BY <1>1, <1>3
  <2>3. \A c \in N : BLK_STATE(n, c) = BLK_ALLOC => c = b
    BY <1>6 DEF BLK_FREE, BLK_ALLOC
  <2>. HIDE DEF N
  <2>. QED  BY <1>8, <2>1, <2>2, <2>3, RewrittenKept
<1>15. Loose(n, brk, C, u)
  BY <1>11, <1>12, <1>13 DEF Loose
<1>16. b \in C /\ u \in C /\ u # heap_listp
  BY <1>3, Layout DEF Replaced
<1>. HIDE DEF C
<1>17. Parted(m, n, brk, B, C, b, s)
  BY <1>5, <1>6, <1>7, <1>14, <1>15, <1>16 DEF Parted, u
<1>. QED  BY <1>17 DEF n, C, u, e

\* The block b is cut down to s bytes and is the caller's now; what it held is
\* there so far as it fits.
CutTo(m, n, brk, B, b, s) ==
  \E C : /\ Loose(n, brk, C, NULL) /\ Kept(m, n, B, C, b, b)
         /\ b \in C /\ BLK_STATE(n, b) = BLK_ALLOC /\ BLK_SIZE(n, b) = s
         /\ \A w \in Addr : b <= w /\ w < b + s - 8 => n[w] = m[w]

\* The upper part of a block that is cut goes to the list of its class.
LEMMA CutFacts ==
  ASSUME MAX_HEAP <= MAX_INT,
         NEW m, NEW brk, NEW B, HeapOK(m, brk, B), Apart(m, B, NULL),
         NEW b \in B, b # heap_listp, Lists(m, Frees(m, B) \ {b}),
         NEW s \in Nat, s % 8 = 0, s >= 16, NEW r \in Nat, r % 8 = 0, r >= 16,
         s + r = BLK_SIZE(m, b)
  PROVE  CutTo(m, freelist_insert(SET_BLK(SET_BLK(m, b, s, BLK_ALLOC), b + s, r, BLK_FREE), b + s),
               brk, B, b, s)
<1>. DEFINE n == SET_BLK(SET_BLK(m, b, s, BLK_ALLOC), b + s, r, BLK_FREE)
            C == Replaced(B, b, b + s + r, {b, b + s})
            u == b + s
            o == freelist_insert(n, u)
<1>1. /\ Loose(n, brk, C, u) /\ Kept(m, n, B, C, b, b)
      /\ b \in C /\ BLK_STATE(n, b) = BLK_ALLOC /\ BLK_SIZE(n, b) = s
      /\ u \in C /\ u # heap_listp /\ BLK_STATE(n, u) = BLK_FREE
      /\ \A w \in Addr : b <= w /\ w < b + s - 8 => n[w] = m[w]
  <2>1. Parted(m, n, brk, B, C, b, s)
    BY SplitFacts
  <2>. HIDE DEF n, C
  <2>. QED  BY <2>1 DEF Parted
<1>2. b \in Nat
  BY Block
<1>3. u \notin B
  <2>. SUFFICES ASSUME u \in B
                PROVE  FALSE
    OBVIOUS
  <2>1. b <= u /\ u < b + BLK_SIZE(m, b)
    BY <1>2
  <2>2. u = b
    BY <2>1, OnlyBlock
  <2>. QED  BY <1>2, <2>2
<1>4. b # u
  BY <1>2
<1>. HIDE DEF n, C, u
<1>5. PICK D : Loose(o, brk, D, NULL) /\ Kept(n, o, C, D, u, NULL)
  <2>1. Settled(n, o, brk, C, u, NULL)
    BY <1>1, InsertFacts
  <2>. QED  BY <2>1 DEF Settled
<1>. HIDE DEF o
<1>6. NULL \notin D
  BY <1>5, NotNull DEF Loose
<1>7. Kept(m, o, B, D, b, b)
  <2>1. \A c \in B : BLK_STATE(m, c) = BLK_ALLOC => (c = b <=> c = b \/ c = u)
    BY <1>3
  <2>2. \A c \in C : (BLK_STATE(n, c) = BLK_ALLOC /\ c # u /\ c # b) => c # b
    OBVIOUS
  <2>3. \A c \in D : (BLK_STATE(o, c) = BLK_ALLOC /\ c # b) => c # NULL
    BY <1>6
  <2>. QED  BY <1>1, <1>5, <2>1, <2>2, <2>3, KeptSeq
<1>8. /\ b \in D /\ o[b - 4] = n[b - 4]
      /\ \A w \in Addr : InPayload(n, b, w) => o[w] = n[w]
  BY <1>1, <1>4, <1>5 DEF Kept
<1>9. BLK_STATE(o, b) = BLK_ALLOC /\ BLK_SIZE(o, b) = s
  BY <1>1, <1>8, HeaderFacts
<1>10. ASSUME NEW w \in Addr, b <= w, w < b + s - 8
       PROVE  o[w] = m[w]
  <2>1. InPayload(n, b, w)
    BY <1>1, <1>2, <1>10 DEF InPayload
  <2>. QED  BY <1>1, <1>8, <1>10, <2>1
<1>11. CutTo(m, o, brk, B, b, s)
  BY <1>5, <1>7, <1>8, <1>9, <1>10 DEF CutTo
<1>. QED  BY <1>11 DEF o, n, u

\* freelist_alloc takes a free block off its list and cuts it if there is enough
\* left over.
LEMMA TakeFacts ==
  ASSUME MAX_HEAP <= MAX_INT,
         NEW m, NEW brk, NEW B, Loose(m, brk, B, NULL), NEW b \in Frees(m, B),
         NEW s \in Nat, s % 8 = 0, s >= 16, s <= BLK_SIZE(m, b)
  PROVE  Obtained(m, Take(m, b, s), brk, B, b, s)
<1>. DEFINE m1 == FREELIST_DEL_BLK(m, b)
            F  == Frees(m, B)
            r  == BLK_SIZE(m, b) - s
            o  == Take(m, b, s)
<1>1. /\ HeapOK(m, brk, B) /\ Lists(m, F) /\ Apart(m, B, NULL)
  <2>1. HeapOK(m, brk, B) /\ Apart(m, B, NULL) /\ Lists(m, F \ {NULL})
    BY DEF Loose
  <2>2. F \ {NULL} = F
    BY <2>1, FreesFacts
  <2>. QED  BY <2>1, <2>2
<1>2. b \in B /\ b # heap_listp /\ BLK_STATE(m, b) = BLK_FREE
  BY <1>1, FreesFacts
<1>3. b \in Nat /\ BLK_SIZE(m, b) \in Nat /\ BLK_SIZE(m, b) % 8 = 0
  BY <1>1, <1>2, Block
<1>4. m1 \in Memory /\ Lists(m1, F \ {b}) /\ Quiet(m, m1, B, NULL)
  BY <1>1, <1>2, DelFacts
<1>5. o = IF r >= BLK_MIN_SIZE
          THEN freelist_insert(SET_BLK(SET_BLK(m1, b, s, BLK_ALLOC), b + s, r, BLK_FREE), b + s)
          ELSE SET_BLK(m1, b, BLK_SIZE(m1, b), BLK_ALLOC)
  BY DEF Take
<1>. HIDE DEF m1, o
<1>6. /\ HeapOK(m1, brk, B) /\ m1[b - 4] = m[b - 4] /\ Kept(m, m1, B, B, NULL, NULL)
      /\ Frees(m1, B) = F /\ Apart(m1, B, NULL)
  BY <1>1, <1>2, <1>4, QuietFacts
<1>7. BLK_SIZE(m1, b) = BLK_SIZE(m, b) /\ BLK_STATE(m1, b) = BLK_FREE
  BY <1>2, <1>6, HeaderFacts
<1>8. \E C : /\ Loose(o, brk, C, NULL) /\ Kept(m1, o, B, C, NULL, b)
             /\ b \in C /\ BLK_STATE(o, b) = BLK_ALLOC /\ BLK_SIZE(o, b) >= s
  <2>1. CASE r >= BLK_MIN_SIZE
    <3>1. r \in Nat /\ r % 8 = 0 /\ r >= 16 /\ s + r = BLK_SIZE(m1, b)
      <4>. HIDE DEF F
      <4>. DEFINE t == BLK_SIZE(m, b)
      <4>1. t \in Nat /\ t % 8 = 0 /\ t = BLK_SIZE(m1, b) /\ r = t - s
        BY <1>3, <1>7
      <4>. HIDE DEF t, r
      <4>. QED  BY <2>1, <4>1, Layout
    <3>2. o = freelist_insert(SET_BLK(SET_BLK(m1, b, s, BLK_ALLOC), b + s, r, BLK_FREE), b + s)
      BY <1>5, <2>1
    <3>. HIDE DEF r
    <3>3. Lists(m1, Frees(m1, B) \ {b})
      BY <1>4, <1>6
    <3>4. CutTo(m1, o, brk, B, b, s)
      BY <1>2, <1>6, <3>1, <3>2, <3>3, CutFacts
    <3>5. PICK C : /\ Loose(o, brk, C, NULL) /\ Kept(m1, o, B, C, b, b)
                   /\ b \in C /\ BLK_STATE(o, b) = BLK_ALLOC /\ BLK_SIZE(o, b) = s
      BY <3>4 DEF CutTo
    <3>6. NULL \notin B
      BY <1>1, NotNull
    <3>7. Kept(m1, o, B, C, NULL, b)
      <4>1. \A c \in B : BLK_STATE(m1, c) = BLK_ALLOC => c # b /\ c # NULL
        BY <1>7, <3>6 DEF BLK_ALLOC, BLK_FREE
      <4>. QED  BY <3>5, <4>1 DEF Kept
    <3>8. BLK_SIZE(o, b) >= s
      BY <3>5
    <3>. QED  BY <3>5, <3>7, <3>8
  <2>2. CASE ~(r >= BLK_MIN_SIZE)
    <3>1. o = SET_BLK(m1, b, BLK_SIZE(m1, b), BLK_ALLOC)
      BY <1>5, <2>2
    <3>2. b \in Frees(m1, B) /\ Lists(m1, Frees(m1, B) \ {b}) /\ s <= BLK_SIZE(m1, b)
      BY <1>4, <1>6, <1>7
    <3>3. Obtained(m1, o, brk, B, b, s)
      BY <1>6, <3>1, <3>2, TakeWhole
    <3>. QED  BY <3>3 DEF Obtained
  <2>. QED  BY <2>1, <2>2
<1>. HIDE DEF r, F
<1>9. PICK C : /\ Loose(o, brk, C, NULL) /\ Kept(m1, o, B, C, NULL, b)
               /\ b \in C /\ BLK_STATE(o, b) = BLK_ALLOC /\ BLK_SIZE(o, b) >= s
  BY <1>8
<1>10. Kept(m, o, B, C, NULL, b)
  BY <1>6, <1>9, KeptTwice
<1>11. Obtained(m, o, brk, B, b, s)
  BY <1>2, <1>9, <1>10 DEF Obtained
<1>. QED  BY <1>11 DEF o

\* Stores between the tags of an allocated block disturb nothing else.
LEMMA StoreFacts ==
  ASSUME NEW m, NEW brk, NEW B, Loose(m, brk, B, NULL), NEW b \in B,
         b # heap_listp, BLK_STATE(m, b) = BLK_ALLOC, NEW n \in Memory,
         \A w \in Addr : n[w] = m[w] \/ InPayload(m, b, w)
  PROVE  /\ Loose(n, brk, B, NULL) /\ Kept(m, n, B, B, b, b)
         /\ \A c \in B : n[c - 4] = m[c - 4]
<1>. DEFINE F == Frees(m, B)
            t == BLK_SIZE(m, b)
            lo == b
            hi == b + t - 8
<1>1. /\ HeapOK(m, brk, B) /\ Apart(m, B, NULL) /\ Lists(m, F \ {NULL})
  BY DEF Loose
<1>2. F \ {NULL} = F /\ Spread(F)
  BY <1>1, FreesFacts
<1>3. Quiet(m, n, B, b)
  BY DEF Quiet
<1>4. /\ HeapOK(n, brk, B) /\ \A c \in B : n[c - 4] = m[c - 4]
      /\ Kept(m, n, B, B, b, b) /\ Frees(n, B) = F /\ Apart(n, B, NULL)
  BY <1>1, <1>3, QuietFacts
<1>5. /\ b \in Nat /\ t \in Nat /\ t >= 16 /\ heap_listp + 8 <= b /\ b \in Int
      /\ \A c \in B : b < c => b + t <= c
  BY <1>1, Block
<1>6. \A w \in Addr : w < lo \/ hi <= w => n[w] = m[w]
  <2>. SUFFICES ASSUME NEW w \in Addr, w < lo \/ hi <= w
                PROVE  ~InPayload(m, b, w)
    OBVIOUS
  <2>1. w \in Int
    BY DEF Addr
  <2>. QED  BY <1>5, <2>1 DEF InPayload
<1>7. ASSUME NEW c \in F
      PROVE  c + 8 < lo \/ hi <= c - 4
  <2>1. c \in B /\ BLK_SIZE(m, c) >= 24 /\ BLK_STATE(m, c) = BLK_FREE
    BY <1>1, FreesFacts
  <2>2. /\ c \in Nat /\ BLK_SIZE(m, c) \in Nat
        /\ c < b => c + BLK_SIZE(m, c) <= b
    BY <1>1, <2>1, Block
  <2>3. c # b
    BY <2>1 DEF BLK_ALLOC, BLK_FREE
  <2>4. CASE c < b
    <3>. HIDE DEF t
    <3>. QED  BY <1>5, <2>1, <2>2, <2>4
  <2>5. CASE b < c
    <3>1. b + t <= c
      BY <1>5, <2>1, <2>5
    <3>. HIDE DEF t
    <3>. QED  BY <1>5, <2>2, <3>1
  <2>. QED  BY <1>5, <2>2, <2>3, <2>4, <2>5
<1>8. lo \in Int /\ hi \in Int /\ heap_listp - 8 <= lo
  <2>. HIDE DEF t
  <2>. QED  BY <1>5, Layout
<1>. HIDE DEF lo, hi, F
<1>9. Lists(n, F)
  BY <1>1, <1>2, <1>6, <1>7, <1>8, ListsApart
<1>. QED  BY <1>2, <1>4, <1>9 DEF Loose

\* A new block above the old break, under an epilogue at the new one.
LEMMA ExtendFacts ==
  ASSUME NEW m, NEW brk, NEW B, Loose(m, brk, B, NULL),
         NEW s \in Nat, s % 8 = 0, s >= 16, brk + s <= mem_max_addr
  PROVE  Obtained(m, SET_BLK(SET_EB(m, brk + s), brk, s, BLK_ALLOC), brk + s, B, brk, s)
<1>. DEFINE e  == brk + s
            m1 == SET_EB(m, e)
            n  == SET_BLK(m1, brk, s, BLK_ALLOC)
            F  == Frees(m, B)
            C  == Grown(B, brk, {brk})
<1>1. HeapOK(m, brk, B) /\ Apart(m, B, NULL) /\ Lists(m, F \ {NULL})
  BY DEF Loose
<1>2. F \ {NULL} = F /\ Spread(F)
  BY <1>1, FreesFacts
<1>3. /\ m \in Memory /\ brk \in Nat /\ brk % 8 = 0 /\ heap_listp + 8 <= brk /\ brk \notin B
      /\ Tiling(m, heap_listp, brk, B) /\ brk <= mem_max_addr
  BY <1>1, BreakFacts DEF HeapOK
<1>4. /\ e \in Nat /\ e % 8 = 0 /\ e - 4 \in Addr /\ mem_start_brk <= brk /\ brk < e
      /\ brk \in Int /\ PACK(0, BLK_ALLOC) \in Word /\ s >= 8 /\ brk + s <= mem_max_addr
      /\ mem_start_brk <= heap_listp /\ brk # heap_listp
  <2>1. e \in Nat /\ e % 8 = 0 /\ mem_start_brk <= brk /\ brk < e /\ mem_start_brk <= e
    BY <1>3, Layout
  <2>2. e - 4 \in Addr
    BY <2>1, AddrFacts
  <2>3. PACK(0, BLK_ALLOC) \in Word
    BY Layout DEF PACK, BLK_ALLOC
  <2>. QED  BY <1>3, <2>1, <2>2, <2>3, Layout
<1>5. /\ m1 \in Memory /\ m1[e - 4] = PACK(0, BLK_ALLOC)
      /\ \A w \in Addr : w # e - 4 => m1[w] = m[w]
  <2>. HIDE DEF e
  <2>. QED  BY <1>3, <1>4 DEF SET_EB, SET, WSIZE, Memory
<1>. HIDE DEF m1
<1>6. /\ n \in Memory
      /\ \A w \in Addr : w # brk - 4 /\ w # brk + s - 8 => n[w] = m1[w]
      /\ Tiling(n, brk, brk + s, {brk})
      /\ BLK_SIZE(n, brk) = s /\ BLK_STATE(n, brk) = BLK_ALLOC
  <2>1. BLK_ALLOC \in {BLK_FREE, BLK_ALLOC}
    OBVIOUS
  <2>2. Tagged(m1, n, brk, s, BLK_ALLOC)
    BY <1>3, <1>4, <1>5, <2>1, SetBlkFacts
  <2>. QED  BY <2>2 DEF Tagged
<1>. HIDE DEF n
<1>7. \A w \in Addr : w < brk - 4 => n[w] = m[w]
  <2>. SUFFICES ASSUME NEW w \in Addr, w < brk - 4
                PROVE  w # e - 4 /\ w # brk - 4 /\ w # brk + s - 8
    BY <1>5, <1>6
  <2>. QED  BY <1>3, <1>4 DEF Addr
<1>8. n[e - 4] = PACK(0, BLK_ALLOC)
  <2>1. e - 4 # brk - 4 /\ e - 4 # brk + s - 8
    BY <1>3
  <2>. QED  BY <1>4, <1>5, <1>6, <2>1
<1>9. C = B \cup {brk}
  <2>1. \A b \in B : b < brk
    BY <1>1, Block
  <2>. QED  BY <2>1 DEF Grown
<1>10. Tiling(n, heap_listp, e, C)
  <2>1. heap_listp \in Int /\ brk \in B \cup {brk} /\ e \in Int /\ Tiling(n, brk, e, {brk})
    BY <1>4, <1>6, Layout
  <2>. HIDE DEF e
  <2>. QED  BY <1>3, <1>4, <1>7, <2>1, TilingGrow
<1>11. ASSUME NEW b \in B
       PROVE  /\ n[b - 4] = m[b - 4]
              /\ \A w \in Addr : InPayload(m, b, w) => n[w] = m[w]
  <2>1. /\ b \in Nat /\ b % 8 = 0 /\ mem_start_brk + 8 <= b /\ b < brk /\ BLK_SIZE(m, b) \in Nat
        /\ b + BLK_SIZE(m, b) <= brk
    BY <1>1, Block
  <2>2. b - 4 \in Addr
    BY <1>3, <2>1, AddrFacts, Layout
  <2>3. b - 4 < brk - 4
    BY <1>3, <2>1
  <2>4. ASSUME NEW w \in Addr, InPayload(m, b, w)
        PROVE  w < brk - 4
    <3>. DEFINE t == BLK_SIZE(m, b)
    <3>1. w < b + t - 8 /\ w \in Int
      BY <2>4 DEF InPayload, Addr
    <3>2. t \in Nat /\ b + t <= brk
      BY <2>1
    <3>. HIDE DEF t
    <3>. QED  BY <1>3, <2>1, <3>1, <3>2
  <2>. QED  BY <1>7, <2>2, <2>3, <2>4
<1>12. \A b \in B : BLK_SIZE(n, b) = BLK_SIZE(m, b) /\ BLK_STATE(n, b) = BLK_STATE(m, b)
  BY <1>11, HeaderFacts
<1>13. HeapOK(n, e, C)
  <2>1. heap_listp \in B /\ BLK_SIZE(m, heap_listp) = 8 /\ BLK_STATE(m, heap_listp) = BLK_ALLOC
    BY <1>1, Prologue DEF HeapOK
  <2>2. BLK_SIZE(n, heap_listp) = 8 /\ BLK_STATE(n, heap_listp) = BLK_ALLOC
    BY <1>12, <2>1
  <2>3. \A b \in C : b # heap_listp => BLK_SIZE(n, b) >= BLK_MIN_SIZE
    <3>1. \A b \in B : b # heap_listp => BLK_SIZE(n, b) >= BLK_MIN_SIZE
      BY <1>1, <1>12 DEF HeapOK
    <3>2. BLK_SIZE(n, brk) >= BLK_MIN_SIZE
      BY <1>6, Layout
    <3>. QED  BY <1>9, <3>1, <3>2
  <2>4. heap_listp < e /\ e <= mem_max_addr
    BY <1>3, <1>4, Layout
  <2>. HIDE DEF e, C
  <2>. QED  BY <1>4, <1>6, <1>8, <1>10, <2>2, <2>3, <2>4 DEF HeapOK
<1>14. Frees(n, C) = F
  <2>1. \A b : b \in Frees(n, C) <=> b \in F
    BY <1>6, <1>9, <1>12 DEF Frees, BLK_FREE, BLK_ALLOC
  <2>. QED  BY <2>1
<1>15. Lists(n, F)
  <2>. DEFINE lo == brk - 4
              hi == mem_max_addr + 4
  <2>1. lo \in Int /\ hi \in Int /\ heap_listp - 8 <= lo
    BY <1>3, Layout
  <2>2. \A w \in Addr : w < lo \/ hi <= w => n[w] = m[w]
    <3>. SUFFICES ASSUME NEW w \in Addr, w < lo \/ hi <= w
                  PROVE  w < brk - 4
      BY <1>7
    <3>. QED  BY Layout DEF Addr
  <2>3. \A c \in F : c + 8 < lo \/ hi <= c - 4
    <3>. SUFFICES ASSUME NEW c \in F
                  PROVE  c + 8 < lo
      OBVIOUS
    <3>1. c \in B /\ c + 24 <= brk
      BY <1>1, FreesFacts
    <3>2. c \in Nat
      BY <1>1, <3>1, Block
    <3>. QED  BY <1>3, <3>1, <3>2
  <2>. HIDE DEF lo, hi, F
  <2>. QED  BY <1>1, <1>2, <2>1, <2>2, <2>3, ListsApart
<1>16. Apart(n, C, NULL)
  <2>. SUFFICES ASSUME NEW b \in C, BLK_STATE(n, b) = BLK_FREE
                PROVE  NEXT_BLK_ALLOC(n, b) = BLK_ALLOC
    BY DEF Apart
  <2>1. b \in B /\ b # brk
    BY <1>6, <1>9 DEF BLK_FREE, BLK_ALLOC
  <2>. DEFINE c == NEXT_BLKP(m, b)
  <2>2. NEXT_BLKP(n, b) = c
    BY <1>11, <2>1, HeaderFacts
  <2>3. BLK_STATE(m, b) = BLK_FREE /\ b # heap_listp
    <3>1. BLK_STATE(m, heap_listp) = BLK_ALLOC
      BY <1>1 DEF HeapOK
    <3>. QED  BY <1>12, <2>1, <3>1 DEF BLK_FREE, BLK_ALLOC
  <2>4. NEXT_BLK_ALLOC(m, b) = BLK_ALLOC
    BY <1>1, <2>1, <2>3, FreeAlone
  <2>5. c \in B \cup {brk} /\ BLK_STATE(m, c) = BLK_ALLOC
    BY <1>1, <2>1, <2>4, NextFacts
  <2>. HIDE DEF c
  <2>6. BLK_STATE(n, c) = BLK_ALLOC
    BY <1>6, <1>12, <2>5
  <2>. QED  BY <2>2, <2>6 DEF NEXT_BLK_ALLOC
<1>17. Kept(m, n, B, C, NULL, brk)
  <2>1. NULL \notin B
    BY <1>1, NotNull
  <2>. HIDE DEF C
  <2>2. \A b \in C : b = brk \/ b \in B
    BY <1>9
  <2>3. \A b \in B : b \in C
    BY <1>9
  <2>4. \A b \in C : BLK_STATE(n, b) = BLK_ALLOC =>
          b = brk \/ (b \in B /\ BLK_STATE(m, b) = BLK_ALLOC /\ b # NULL)
    BY <1>12, <2>1, <2>2
  <2>. QED  BY <1>11, <2>3, <2>4 DEF Kept
<1>18. Loose(n, e, C, NULL)
  BY <1>2, <1>13, <1>14, <1>15, <1>16 DEF Loose
<1>19. brk \in C
  BY <1>9
<1>. HIDE DEF C, e
<1>20. Obtained(m, n, e, B, brk, s)
  BY <1>3, <1>4, <1>6, <1>17, <1>18, <1>19 DEF Obtained
<1>. QED  BY <1>20 DEF n, m1, e

\* A call hands out the block b of at least size bytes, in place of own, and gives
\* own up; the first len bytes of own are at b now.
Handed(m, n, brk, B, own, b, size, len) ==
  /\ b \in B => BLK_STATE(m, b) = BLK_FREE \/ b = own
  /\ \E C : /\ Loose(n, brk, C, NULL) /\ Kept(m, n, B, C, own, b)
            /\ b \in C /\ b # heap_listp
            /\ BLK_STATE(n, b) = BLK_ALLOC /\ size <= BLK_AVAL_SIZE(n, b)
  /\ \A w \in Addr : b <= w /\ w < b + len => n[w] = m[w - b + own]

\* mm_malloc hands out what it has obtained.
LEMMA HandFacts ==
  ASSUME NEW m, NEW n, NEW brk, NEW B, NEW b, NEW s \in Nat, Obtained(m, n, brk, B, b, s),
         NEW size \in Nat, size + 8 <= s
  PROVE  Handed(m, n, brk, B, NULL, b, size, 0)
<1>1. PICK C : /\ Loose(n, brk, C, NULL) /\ Kept(m, n, B, C, NULL, b)
               /\ b \in C /\ b # heap_listp
               /\ BLK_STATE(n, b) = BLK_ALLOC /\ BLK_SIZE(n, b) >= s
  BY DEF Obtained
<1>2. BLK_SIZE(n, b) \in Nat /\ b \in Nat
  BY <1>1, Block DEF Loose
<1>3. size <= BLK_AVAL_SIZE(n, b)
  BY <1>1, <1>2 DEF BLK_AVAL_SIZE, WSIZE
<1>4. \A w \in Addr : ~(b <= w /\ w < b + 0)
  BY <1>2 DEF Addr
<1>5. \A w \in Addr : b <= w /\ w < b + 0 => n[w] = m[w - b + NULL]
  BY <1>4
<1>6. b \in B => BLK_STATE(m, b) = BLK_FREE \/ b = NULL
  BY DEF Obtained
<1>. QED  BY <1>1, <1>3, <1>5, <1>6 DEF Handed

\* mm_realloc copies the old block into the one obtained and frees the old one.
LEMMA MoveFacts ==
  ASSUME MAX_HEAP <= MAX_INT,
         NEW m, NEW n, NEW brk0, NEW brk, NEW B, NEW b, NEW s \in Nat,
         Loose(m, brk0, B, NULL), Obtained(m, n, brk, B, b, s),
         NEW ptr \in B, ptr # heap_listp, BLK_STATE(m, ptr) = BLK_ALLOC,
         BLK_SIZE(m, ptr) <= s, NEW size \in Nat, size + 8 <= s
  PROVE  Handed(m, segregate_mm_free(memcpy(n, b, ptr, BLK_AVAL_SIZE(n, ptr)), ptr),
                brk, B, ptr, b, size, BLK_AVAL_SIZE(m, ptr))
<1>. DEFINE len == BLK_AVAL_SIZE(m, ptr)
            k   == memcpy(n, b, ptr, len)
            o   == segregate_mm_free(k, ptr)
<1>0. /\ HeapOK(m, brk0, B) /\ NULL \notin B
      /\ b \in B => BLK_STATE(m, b) = BLK_FREE
  BY NotNull DEF Loose, Obtained
<1>1. PICK C : /\ Loose(n, brk, C, NULL) /\ Kept(m, n, B, C, NULL, b)
               /\ b \in C /\ b # heap_listp
               /\ BLK_STATE(n, b) = BLK_ALLOC /\ BLK_SIZE(n, b) >= s
  BY DEF Obtained
<1>2. HeapOK(n, brk, C) /\ NULL \notin C
  BY <1>1, NotNull DEF Loose
<1>3. ptr # NULL /\ ptr # b
  BY <1>0 DEF BLK_FREE, BLK_ALLOC
<1>4. /\ ptr \in C /\ n[ptr - 4] = m[ptr - 4]
      /\ \A w \in Addr : InPayload(m, ptr, w) => n[w] = m[w]
  BY <1>1, <1>3 DEF Kept
<1>5. BLK_AVAL_SIZE(n, ptr) = len /\ BLK_STATE(n, ptr) = BLK_ALLOC /\ BLK_SIZE(n, ptr) = BLK_SIZE(m, ptr)
  BY <1>4, HeaderFacts
<1>6. /\ ptr \in Nat /\ ptr % 8 = 0 /\ mem_start_brk + 8 <= ptr
      /\ BLK_SIZE(m, ptr) \in Nat /\ BLK_SIZE(m, ptr) % 8 = 0 /\ BLK_SIZE(m, ptr) >= 16
  BY <1>0, Block
<1>6a. ptr + BLK_SIZE(n, ptr) <= brk /\ BLK_SIZE(n, ptr) \in Nat
  BY <1>2, <1>4, Block
<1>7. /\ b \in Nat /\ b % 8 = 0 /\ mem_start_brk + 8 <= b
      /\ BLK_SIZE(n, b) \in Nat /\ b + BLK_SIZE(n, b) <= brk
      /\ brk \in Nat /\ brk <= mem_max_addr /\ n \in Memory
  BY <1>1, <1>2, Block, BreakFacts
<1>8. /\ len \in Nat /\ len % 8 = 0 /\ len = BLK_SIZE(m, ptr) - 8
      /\ mem_start_brk <= b /\ mem_start_brk <= ptr /\ ptr + len <= mem_max_addr
      /\ b + len <= b + BLK_SIZE(n, b) - 8
  <2>. DEFINE t == BLK_SIZE(m, ptr)
              v == BLK_SIZE(n, b)
  <2>1. /\ t \in Nat /\ t % 8 = 0 /\ t >= 16 /\ ptr + t <= brk /\ v \in Nat /\ t <= v
        /\ brk \in Nat /\ brk <= mem_max_addr /\ ptr \in Nat /\ b \in Nat
        /\ mem_start_brk + 8 <= b /\ mem_start_brk + 8 <= ptr
    BY <1>1, <1>5, <1>6, <1>6a, <1>7
  <2>2. len = t - 8
    BY DEF BLK_AVAL_SIZE, WSIZE
  <2>. HIDE DEF t, v, len
  <2>3. /\ len \in Nat /\ len % 8 = 0
        /\ mem_start_brk <= b /\ mem_start_brk <= ptr /\ ptr + len <= mem_max_addr
        /\ b + len <= b + v - 8
    BY <2>1, <2>2, Layout
  <2>. QED  BY <2>2, <2>3 DEF t, v
<1>9. /\ k \in Memory
      /\ \A w \in Addr : w < b \/ b + len <= w => k[w] = n[w]
  <2>. HIDE DEF len
  <2>1. SameBut(n, memcpy(n, b, ptr, len), b, b + len)
    BY <1>6, <1>7, <1>8, CopyFacts
  <2>. QED  BY <2>1 DEF SameBut
<1>10. \A w \in Addr : b <= w /\ w < b + len => k[w] = n[w - b + ptr]
  BY <1>7 DEF memcpy, Memory
<1>. HIDE DEF k, len
<1>11. \A w \in Addr : k[w] = n[w] \/ InPayload(n, b, w)
  <2>. SUFFICES ASSUME NEW w \in Addr, b <= w, w < b + len
                PROVE  InPayload(n, b, w)
    BY <1>7, <1>8, <1>9 DEF Addr
  <2>. QED  BY <1>7, <1>8 DEF InPayload, Addr
<1>12. /\ Loose(k, brk, C, NULL) /\ Kept(n, k, C, C, b, b)
       /\ \A c \in C : k[c - 4] = n[c - 4]
  BY <1>1, <1>9, <1>11, StoreFacts
<1>13. /\ BLK_STATE(k, ptr) = BLK_ALLOC /\ BLK_STATE(k, b) = BLK_ALLOC
       /\ BLK_SIZE(k, b) = BLK_SIZE(n, b)
       /\ \A w : InPayload(k, b, w) <=> InPayload(n, b, w)
  <2>1. k[ptr - 4] = n[ptr - 4] /\ k[b - 4] = n[b - 4]
    BY <1>1, <1>4, <1>12
  <2>2. BLK_STATE(k, ptr) = BLK_ALLOC
    BY <1>5, <2>1, HeaderFacts
  <2>. QED  BY <1>1, <2>1, <2>2, HeaderFacts
<1>14. PICK D : Loose(o, brk, D, NULL) /\ Kept(k, o, C, D, ptr, NULL)
  <2>1. Settled(k, o, brk, C, ptr, NULL)
    BY <1>4, <1>12, <1>13, FreeFacts
  <2>. QED  BY <2>1 DEF Settled
<1>. HIDE DEF o
<1>15. NULL \notin D
  BY <1>14, NotNull DEF Loose
<1>16. Kept(m, k, B, C, b, b)
  <2>1. \A c \in B : BLK_STATE(m, c) = BLK_ALLOC => (c = b <=> c = NULL \/ c = b)
    BY <1>0
  <2>2. \A c \in C : (BLK_STATE(n, c) = BLK_ALLOC /\ c # b /\ c # b) => c # b
    OBVIOUS
  <2>3. \A c \in C : (BLK_STATE(k, c) = BLK_ALLOC /\ c # b) => c # b
    OBVIOUS
  <2>. QED  BY <1>1, <1>12, <2>1, <2>2, <2>3, KeptSeq
<1>17. Kept(m, o, B, D, ptr, b)
  <2>1. \A c \in B : BLK_STATE(m, c) = BLK_ALLOC => (c = ptr <=> c = b \/ c = ptr)
    BY <1>0 DEF BLK_ALLOC, BLK_FREE
  <2>2. \A c \in C : (BLK_STATE(k, c) = BLK_ALLOC /\ c # ptr /\ c # b) => c # b
    OBVIOUS
  <2>3. \A c \in D : (BLK_STATE(o, c) = BLK_ALLOC /\ c # b) => c # NULL
    BY <1>15
  <2>. QED  BY <1>14, <1>16, <2>1, <2>2, <2>3, KeptSeq
<1>18. /\ b \in D /\ o[b - 4] = k[b - 4]
       /\ \A w \in Addr : InPayload(k, b, w) => o[w] = k[w]
  BY <1>1, <1>3, <1>13, <1>14 DEF Kept
<1>19. BLK_STATE(o, b) = BLK_ALLOC /\ BLK_SIZE(o, b) = BLK_SIZE(n, b)
  BY <1>13, <1>18, HeaderFacts
<1>20. size <= BLK_AVAL_SIZE(o, b)
  BY <1>1, <1>7, <1>19 DEF BLK_AVAL_SIZE, WSIZE
<1>21. ASSUME NEW w \in Addr, b <= w, w < b + len
       PROVE  o[w] = m[w - b + ptr]
  <2>. DEFINE x == w - b + ptr
  <2>0. w \in Int /\ w % 4 = 0
    BY DEF Addr
  <2>1. x \in Int /\ x % 4 = 0 /\ ptr <= x /\ x < ptr + len
    BY <1>6, <1>7, <1>8, <1>21, <2>0
  <2>2. x \in Addr
    BY <1>6, <1>8, <2>1, Layout DEF Addr
  <2>3. InPayload(m, ptr, x)
    <3>. HIDE DEF x
    <3>. QED  BY <1>6, <1>8, <2>1 DEF InPayload
  <2>4. InPayload(k, b, w)
    <3>1. InPayload(n, b, w)
      BY <1>7, <1>8, <1>21, <2>0 DEF InPayload
    <3>. QED  BY <1>13, <3>1
  <2>5. o[w] = k[w] /\ k[w] = n[x] /\ n[x] = m[x]
    BY <1>4, <1>10, <1>18, <1>21, <2>2, <2>3, <2>4
  <2>. QED  BY <2>5
<1>22. Handed(m, o, brk, B, ptr, b, size, len)
  BY <1>0, <1>1, <1>14, <1>17, <1>18, <1>19, <1>20, <1>21 DEF Handed
<1>. QED  BY <1>5, <1>22 DEF o, k, len

\* mm_realloc to a smaller size: the block stays as it is, or what is left over is
\* cut off and freed.
LEMMA ShrinkFacts ==
  ASSUME MAX_HEAP <= MAX_INT,
         NEW m, NEW brk, NEW B, Loose(m, brk, B, NULL),
         NEW ptr \in B, ptr # heap_listp, BLK_STATE(m, ptr) = BLK_ALLOC,
         NEW size \in Nat, size > 0, ALIGN(size) <= BLK_AVAL_SIZE(m, ptr)
  PROVE  LET rest == BLK_AVAL_SIZE(m, ptr) - ALIGN(size)
             m1   == SET_BLK(m, ptr, ALIGN(size) + 2 * WSIZE, BLK_ALLOC)
             m2   == SET_BLK(m1, NEXT_BLKP(m1, ptr), rest, BLK_FREE)
         IN  Handed(m, IF rest >= BLK_MIN_SIZE THEN segregate_mm_free(m2, NEXT_BLKP(m2, ptr)) ELSE m,
                    brk, B, ptr, ptr, size, ALIGN(size))
<1>. DEFINE v    == ALIGN(size)
            t    == BLK_SIZE(m, ptr)
            s    == v + 2 * WSIZE
            rest == BLK_AVAL_SIZE(m, ptr) - v
            u    == ptr + s
            m1   == SET_BLK(m, ptr, s, BLK_ALLOC)
            m2   == SET_BLK(m1, NEXT_BLKP(m1, ptr), rest, BLK_FREE)
            k    == SET_BLK(SET_BLK(m, ptr, s, BLK_ALLOC), u, rest, BLK_FREE)
<1>1. /\ HeapOK(m, brk, B) /\ Apart(m, B, NULL) /\ Lists(m, Frees(m, B) \ {ptr})
  <2>1. ptr \notin Frees(m, B)
    BY DEF Frees, BLK_ALLOC, BLK_FREE
  <2>2. Loose(m, brk, B, ptr)
    BY <2>1, SetApart
  <2>. QED  BY <2>2 DEF Loose
<1>2. /\ ptr \in Nat /\ ptr % 8 = 0 /\ mem_start_brk + 8 <= ptr /\ t \in Nat /\ t % 8 = 0 /\ t >= 16
      /\ ptr + t <= brk /\ brk \in Nat /\ brk <= mem_max_addr /\ m \in Memory
  BY <1>1, Block, BreakFacts
<1>3. v \in Nat /\ v % 8 = 0 /\ v >= 8 /\ size <= v
  <2>1. v \in Nat /\ v % 8 = 0 /\ size <= v
    BY AlignFacts
  <2>. HIDE DEF v
  <2>. QED  BY <2>1
<1>4. v <= t - 8 /\ rest = t - 8 - v
  BY DEF BLK_AVAL_SIZE, WSIZE
<1>5. s \in Nat /\ s % 8 = 0 /\ s >= 16 /\ s = v + 8
  <2>. HIDE DEF v
  <2>. QED  BY <1>3 DEF WSIZE
<1>6. CASE rest >= BLK_MIN_SIZE
  <2>. HIDE DEF v
  <2>1. rest \in Nat /\ rest % 8 = 0 /\ rest >= 16 /\ s + rest = t
    <3>. HIDE DEF t, s, rest
    <3>. QED  BY <1>2, <1>3, <1>4, <1>5, <1>6, Layout
  <2>. HIDE DEF rest, s
  <2>2. NEXT_BLKP(m1, ptr) = u
    <3>1. BLK_ALLOC \in {BLK_FREE, BLK_ALLOC}
      OBVIOUS
    <3>2. /\ ptr \in Int /\ ptr % 8 = 0 /\ mem_start_brk <= ptr /\ s >= 8
          /\ ptr + s <= mem_max_addr
      <4>. HIDE DEF t
      <4>. QED  BY <1>2, <1>5, <2>1, Layout
    <3>3. BLK_SIZE(m1, ptr) = s
      <4>1. Tagged(m, m1, ptr, s, BLK_ALLOC)
        BY <1>2, <1>5, <3>1, <3>2, SetBlkFacts
      <4>. QED  BY <4>1 DEF Tagged
    <3>. QED  BY <3>3 DEF NEXT_BLKP
  <2>3. m2 = k
    BY <2>2
  <2>4. Parted(m, k, brk, B, Replaced(B, ptr, ptr + s + rest, {ptr, ptr + s}), ptr, s)
    BY <1>1, <1>5, <2>1, SplitFacts
  <2>5. NEXT_BLKP(k, ptr) = u
    <3>. HIDE DEF k
    <3>. QED  BY <2>4 DEF Parted, NEXT_BLKP
  <2>. DEFINE o == segregate_mm_free(m2, NEXT_BLKP(m2, ptr))
  <2>6. o = freelist_insert(k, u)
    BY <2>3, <2>5 DEF segregate_mm_free
  <2>. HIDE DEF o
  <2>7. CutTo(m, o, brk, B, ptr, s)
    BY <1>1, <1>5, <2>1, <2>6, CutFacts
  <2>. HIDE DEF k, u, m1, m2
  <2>8. PICK C : /\ Loose(o, brk, C, NULL) /\ Kept(m, o, B, C, ptr, ptr)
                 /\ ptr \in C /\ BLK_STATE(o, ptr) = BLK_ALLOC /\ BLK_SIZE(o, ptr) = s
                 /\ \A w \in Addr : ptr <= w /\ w < ptr + s - 8 => o[w] = m[w]
    BY <2>7 DEF CutTo
  <2>9. size <= BLK_AVAL_SIZE(o, ptr)
    BY <1>3, <1>5, <2>8 DEF BLK_AVAL_SIZE, WSIZE
  <2>10. \A w \in Addr : ptr <= w /\ w < ptr + v => o[w] = m[w - ptr + ptr]
    <3>. SUFFICES ASSUME NEW w \in Addr, ptr <= w, w < ptr + v
                  PROVE  o[w] = m[w - ptr + ptr]
      OBVIOUS
    <3>1. w \in Int
      BY DEF Addr
    <3>2. w < ptr + s - 8 /\ w - ptr + ptr = w
      BY <1>2, <1>3, <1>5, <3>1
    <3>. QED  BY <2>8, <3>2
  <2>11. Handed(m, o, brk, B, ptr, ptr, size, v)
    BY <2>8, <2>9, <2>10 DEF Handed
  <2>. QED  BY <1>6, <2>11 DEF o, m2, m1, s, rest, v
<1>7. CASE ~(rest >= BLK_MIN_SIZE)
  <2>. HIDE DEF v
  <2>1. size <= BLK_AVAL_SIZE(m, ptr)
    <3>. HIDE DEF t
    <3>1. BLK_AVAL_SIZE(m, ptr) = t - 8
      BY DEF BLK_AVAL_SIZE, WSIZE, t
    <3>. QED  BY <1>2, <1>3, <1>4, <3>1
  <2>2. \A w \in Addr : ptr <= w /\ w < ptr + v => m[w] = m[w - ptr + ptr]
    <3>. SUFFICES ASSUME NEW w \in Addr
                  PROVE  w - ptr + ptr = w
      OBVIOUS
    <3>. QED  BY <1>2 DEF Addr
  <2>3. Kept(m, m, B, B, ptr, ptr)
    BY DEF Kept
  <2>4. Handed(m, m, brk, B, ptr, ptr, size, v)
    BY <2>1, <2>2, <2>3 DEF Handed
  <2>. QED  BY <1>7, <2>4 DEF v
<1>. QED  BY <1>6, <1>7

\* The client fills a block it holds.
LEMMA FillFacts ==
  ASSUME NEW m, NEW brk, NEW B, Loose(m, brk, B, NULL), NEW b \in B,
         b # heap_listp, BLK_STATE(m, b) = BLK_ALLOC,
         NEW v \in Word, NEW z \in Nat, z <= BLK_AVAL_SIZE(m, b)
  PROVE  LET n == memset(m, b, v, z)
         IN  /\ Loose(n, brk, B, NULL) /\ Kept(m, n, B, B, b, b)
             /\ n[b - 4] = m[b - 4]
             /\ \A w \in Addr : b <= w /\ w < b + z => n[w] = v
<1>. DEFINE n == memset(m, b, v, z)
<1>1. HeapOK(m, brk, B)
  BY DEF Loose
<1>2. b \in Nat /\ BLK_SIZE(m, b) \in Nat /\ m \in Memory
  BY <1>1, Block, BreakFacts
<1>3. n \in Memory
  BY <1>2 DEF memset, Memory
<1>4. /\ \A w \in Addr : b <= w /\ w < b + z => n[w] = v
      /\ \A w \in Addr : ~(b <= w /\ w < b + z) => n[w] = m[w]
  BY <1>2 DEF memset, Memory
<1>. HIDE DEF n
<1>5. \A w \in Addr : n[w] = m[w] \/ InPayload(m, b, w)
  <2>. SUFFICES ASSUME NEW w \in Addr, b <= w, w < b + z
                PROVE  InPayload(m, b, w)
    BY <1>4
  <2>1. w \in Int
    BY DEF Addr
  <2>2. z <= BLK_SIZE(m, b) - 8
    BY DEF BLK_AVAL_SIZE, WSIZE
  <2>. QED  BY <1>2, <2>1, <2>2 DEF InPayload
<1>6. /\ Loose(n, brk, B, NULL) /\ Kept(m, n, B, B, b, b)
      /\ \A c \in B : n[c - 4] = m[c - 4]
  BY <1>3, <1>5, StoreFacts
<1>7. n[b - 4] = m[b - 4]
  BY <1>6
<1>. QED  BY <1>4, <1>6, <1>7 DEF n

\* The heap that segregate_mm_init lays out, whatever the region held before.
LEMMA LayOutFacts ==
  ASSUME NEW m \in Memory
  PROVE  LET m1 == memset(m, freelist_table, 0, FLT_SIZE)
             m2 == SET(m1, heap_listp - 2 * WSIZE, 48879)
             m3 == SET_BLK(m2, heap_listp, 2 * WSIZE, BLK_ALLOC)
         IN  Loose(SET_EB(m3, heap_listp + 2 * WSIZE), heap_listp + 2 * WSIZE, {heap_listp}, NULL)
<1>. DEFINE brk == heap_listp + 2 * WSIZE
            pad == heap_listp - 2 * WSIZE
            m1  == memset(m, freelist_table, 0, FLT_SIZE)
            m2  == SET(m1, pad, 48879)
            m3  == SET_BLK(m2, heap_listp, 2 * WSIZE, BLK_ALLOC)
            n   == SET_EB(m3, brk)
            B   == {heap_listp}
<1>1. /\ heap_listp \in Nat /\ heap_listp % 8 = 0 /\ mem_start_brk <= heap_listp
      /\ brk = heap_listp + 8 /\ pad = heap_listp - 8 /\ brk <= mem_max_addr /\ brk \in Nat
      /\ brk % 8 = 0 /\ heap_listp < brk /\ pad = freelist_table + FLT_SIZE
      /\ mem_start_brk <= pad /\ pad \in Int /\ pad % 8 = 0
  BY Layout DEF WSIZE, FLT_SIZE, freelist_table
<1>2. /\ pad \in Addr /\ heap_listp - 4 \in Addr /\ heap_listp \in Addr /\ brk - 4 \in Addr
  BY <1>1, Layout, AddrFacts
<1>3. /\ m1 \in Memory
      /\ \A w \in Addr : mem_start_brk <= w /\ w < pad => m1[w] = 0
  <2>1. m1 \in Memory
    <3>1. 0 \in Word
      BY Layout
    <3>. QED  BY <3>1 DEF memset, Memory
  <2>2. \A w \in Addr : freelist_table <= w /\ w < freelist_table + FLT_SIZE => m1[w] = 0
    BY DEF memset, Memory
  <2>. QED  BY <1>1, <2>1, <2>2 DEF freelist_table
<1>. HIDE DEF m1, pad
<1>4. m2 \in Memory /\ \A w \in Addr : w # pad => m2[w] = m1[w]
  <2>1. 48879 \in Word
    BY Layout, SMT
  <2>. QED  BY <1>2, <1>3, <2>1, SMT DEF SET, Memory
<1>. HIDE DEF m2
<1>5. /\ m3 \in Memory
      /\ \A w \in Addr : w # heap_listp - 4 /\ w # heap_listp + 8 - 8 => m3[w] = m2[w]
      /\ Tiling(m3, heap_listp, heap_listp + 8, {heap_listp})
      /\ BLK_SIZE(m3, heap_listp) = 8 /\ BLK_STATE(m3, heap_listp) = BLK_ALLOC
  <2>0. PICK s \in Nat : s = 8
    OBVIOUS
  <2>00. PICK a \in Int : a = heap_listp
    BY <1>1
  <2>1. /\ s % 8 = 0 /\ s >= 8 /\ a % 8 = 0 /\ mem_start_brk <= a /\ a + s <= mem_max_addr
        /\ BLK_ALLOC \in {BLK_FREE, BLK_ALLOC}
    BY <1>1, <2>0, <2>00
  <2>. DEFINE k == SET_BLK(m2, a, s, BLK_ALLOC)
  <2>2. m3 = k
    BY <2>0, <2>00 DEF WSIZE
  <2>3. /\ k \in Memory
        /\ \A w \in Addr : w # a - 4 /\ w # a + s - 8 => k[w] = m2[w]
        /\ Tiling(k, a, a + s, {a})
        /\ BLK_SIZE(k, a) = s /\ BLK_STATE(k, a) = BLK_ALLOC
    <3>1. Tagged(m2, k, a, s, BLK_ALLOC)
      BY <1>4, <2>1, SetBlkFacts
    <3>. QED  BY <3>1 DEF Tagged
  <2>. HIDE DEF k, m3
  <2>. QED  BY <2>0, <2>00, <2>2, <2>3
<1>. HIDE DEF m3
<1>6. /\ n \in Memory /\ n[brk - 4] = PACK(0, BLK_ALLOC)
      /\ \A w \in Addr : w # brk - 4 => n[w] = m3[w]
  <2>. HIDE DEF brk
  <2>1. PACK(0, BLK_ALLOC) \in Word
    BY Layout DEF PACK, BLK_ALLOC
  <2>. QED  BY <1>2, <1>5, <2>1 DEF SET_EB, SET, WSIZE, Memory
<1>. HIDE DEF n
<1>7. n[heap_listp - 4] = m3[heap_listp - 4] /\ n[heap_listp] = m3[heap_listp]
  <2>1. heap_listp - 4 # brk - 4 /\ heap_listp # brk - 4
    BY <1>1
  <2>. QED  BY <1>2, <1>6, <2>1
<1>. HIDE DEF brk
<1>8. BLK_SIZE(n, heap_listp) = 8 /\ BLK_STATE(n, heap_listp) = BLK_ALLOC
  BY <1>5, <1>7, HeaderFacts
<1>9. Tiling(n, heap_listp, brk, B)
  <2>1. Tiling(m3, heap_listp, brk, B) /\ heap_listp \in Int /\ brk \in Int
    BY <1>1, <1>5
  <2>2. \A b \in B : /\ n[b - 4] = m3[b - 4]
                     /\ n[b + BLK_SIZE(m3, b) - 8] = m3[b + BLK_SIZE(m3, b) - 8]
    <3>1. heap_listp + BLK_SIZE(m3, heap_listp) - 8 = heap_listp
      BY <1>1, <1>5
    <3>. QED  BY <1>7, <3>1
  <2>. HIDE DEF B
  <2>. QED  BY <2>1, <2>2, TilingFrame
<1>10. HeapOK(n, brk, B)
  BY <1>1, <1>6, <1>8, <1>9 DEF HeapOK
<1>11. Frees(n, B) = {}
  BY <1>8 DEF Frees, BLK_FREE, BLK_ALLOC
<1>12. Lists(n, {})
  <2>1. ASSUME NEW x \in Heads
        PROVE  NEXT_FREE_BLKP(n, x) = NULL
    <3>1. PICK j \in 1..(FLT_SLOT_NUM - 1) : x = Slot(j)
      BY DEF Heads
    <3>2. x \in Nat /\ x % 8 = 0 /\ mem_start_brk <= x /\ x + 16 <= heap_listp
      BY <3>1, SlotFacts, Layout
    <3>3. /\ x \in Addr /\ x < pad /\ x # pad /\ x # heap_listp - 4 /\ x # heap_listp + 8 - 8
          /\ x # brk - 4
      BY <1>1, <3>2, Layout, AddrFacts
    <3>. QED  BY <1>3, <1>4, <1>5, <1>6, <3>2, <3>3 DEF NEXT_FREE_BLKP, NULL
  <2>2. Linked(n, {})
    BY <2>1 DEF Linked, Nodes, NextOK
  <2>3. [x \in {} |-> 0] \in [{} -> Nat] /\ Ranked(n, {}, [x \in {} |-> 0])
    BY DEF Ranked
  <2>. QED  BY <2>2, <2>3 DEF Lists
<1>13. Apart(n, B, NULL)
  BY <1>8 DEF Apart, BLK_FREE, BLK_ALLOC
<1>14. Loose(n, brk, B, NULL)
  <2>1. Frees(n, B) \ {NULL} = {}
    BY <1>11
  <2>. QED  BY <1>10, <1>12, <1>13, <2>1 DEF Loose
<1>. QED  BY <1>14 DEF n, m3, m2, m1, pad, brk

=============================================================================
