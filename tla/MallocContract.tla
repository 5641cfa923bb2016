--------------------------- MODULE MallocContract ---------------------------
(***************************************************************************)
(* What mm.h promises its caller, whichever allocator mm.c is built with,  *)
(* and what eval_mm_valid in mdriver.c tests: mm_malloc and mm_realloc     *)
(* fail, or return an aligned block that shares no byte with any other     *)
(* block held; realloc carries the contents over; no call changes the      *)
(* contents of any other block.                                            *)
(***************************************************************************)
EXTENDS Integers

CONSTANTS
  Ids,     \* block ids
  Sizes,   \* request sizes
  Places   \* addresses a payload may start at

VARIABLES
  blocks,        \* pointer held for each id, 0 if none
  block_sizes,   \* requested size of each block held
  contents       \* words of each block held, by offset

vars == <<blocks, block_sizes, contents>>

NoBlock == 0
Offsets(size) == {o \in 0..(size - 1) : o % 4 = 0}
Held(id) == blocks[id] # NoBlock

\* size bytes at b are free for id to have: they avoid every other block held.
Avoids(id, b, size) ==
  \A other \in Ids \ {id} : Held(other) =>
    b + size <= blocks[other] \/ blocks[other] + block_sizes[other] <= b

\* id gets size bytes at b, whose first words are those of old.
Grant(id, size, old) ==
  /\ \E b \in Places :
        /\ b # NoBlock /\ b % 8 = 0
        /\ Avoids(id, b, size)
        /\ blocks' = [blocks EXCEPT ![id] = b]
  /\ block_sizes' = [block_sizes EXCEPT ![id] = size]
  /\ DOMAIN contents' = Ids
  /\ \A other \in Ids \ {id} : contents'[other] = contents[other]
  /\ DOMAIN contents'[id] = Offsets(size)
  /\ \A o \in Offsets(size) \cap DOMAIN old : contents'[id][o] = old[o]

Release(S) ==
  /\ blocks' = [id \in Ids |-> IF id \in S THEN NoBlock ELSE blocks[id]]
  /\ block_sizes' = [id \in Ids |-> IF id \in S THEN 0 ELSE block_sizes[id]]
  /\ contents' = [id \in Ids |-> IF id \in S THEN <<>> ELSE contents[id]]

Init ==
  /\ blocks = [id \in Ids |-> NoBlock]
  /\ block_sizes = [id \in Ids |-> 0]
  /\ contents = [id \in Ids |-> <<>>]

mm_malloc(id, size) == ~Held(id) /\ Grant(id, size, <<>>)
mm_realloc(id, size) == Held(id) /\ Grant(id, size, contents[id])
mm_free(id) == Held(id) /\ Release({id})

\* The owner writes its block.
Write(id) ==
  /\ Held(id)
  /\ contents' = [contents EXCEPT ![id] = [o \in DOMAIN contents[id] |-> id]]
  /\ UNCHANGED <<blocks, block_sizes>>

\* The memory system is reset between two runs.
Reset == Release(Ids)

Next ==
  \/ \E id \in Ids, size \in Sizes : mm_malloc(id, size) \/ mm_realloc(id, size)
  \/ \E id \in Ids : mm_free(id) \/ Write(id)
  \/ Reset

Spec == Init /\ [][Next]_vars
=============================================================================
