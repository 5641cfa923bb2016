---------------------------- MODULE TraceClient -----------------------------
(***************************************************************************)
(* The caller of the allocators, from mdriver.c: a trace names its blocks  *)
(* by id, remembers the pointer and the requested size of each, fills      *)
(* every block it is given with a byte pattern of its id, and expects to   *)
(* find the pattern again after a realloc.  The client here is any client  *)
(* that frees and reallocs only what it holds; it may go on after a failed *)
(* call, where the driver gives the trace up.                              *)
(*                                                                         *)
(* A pattern word is the id itself.  Ids are model values in the checked   *)
(* instances, so TLC stops if an allocator reads client data as a tag or   *)
(* as a pointer.                                                           *)
(***************************************************************************)
EXTENDS BoundaryTag

CONSTANTS
  Ids,     \* block ids of the trace
  Sizes    \* request sizes, in bytes

ASSUME ClientAssumption ==
  /\ Sizes \subseteq Nat
  /\ Ids \cap Int = {}

VARIABLES
  blocks,        \* trace->blocks: the pointer held for each id, or NULL
  block_sizes,   \* trace->block_sizes: the requested size of each held block
  pc,            \* where control is
  call           \* arguments of the allocator call under way

clientVars == <<blocks, block_sizes, pc, call>>

Word == Nat \cup Ids

(***************************************************************************)
(* Control: "boot" before mm_init; "client" between calls; "search" in the *)
(* loop that looks for a free block; "found" and "extend" when that loop   *)
(* has ended with and without one; "returned" when a call has handed out a *)
(* block that the client has not filled yet; "failed" when it has returned *)
(* NULL; "undefined" after an access C gives no meaning to.                *)
(***************************************************************************)
PC == {"boot", "client", "search", "found", "extend", "returned", "failed", "undefined"}

Idle == pc \in {"client", "failed"}

\* ptr is the block a realloc is given, NULL for a malloc; old its request size.
Calls  == [id : Ids, size : Nat, ptr : Nat, old : Nat]
NoCall == [id |-> NULL, size |-> 0, ptr |-> NULL, old |-> 0]

Live(id) == blocks[id] # NULL

TypeOKClient ==
  /\ mem \in [Addr -> Word]
  /\ mem_brk \in mem_start_brk..mem_max_addr /\ mem_brk % 8 = 0
  /\ blocks \in [Ids -> Nat]
  /\ block_sizes \in [Ids -> Nat]
  /\ pc \in PC
  /\ call \in Calls \cup {NoCall}
  /\ (pc \in {"search", "found", "extend", "returned", "failed"}) <=> (call \in Calls)

InitClient ==
  /\ mem_init
  /\ blocks = [id \in Ids |-> NULL]
  /\ block_sizes = [id \in Ids |-> 0]
  /\ pc = "boot"
  /\ call = NoCall

CallArgs(id, size) ==
  [id |-> id, size |-> size, ptr |-> blocks[id], old |-> block_sizes[id]]

\* The allocator hands bp out for the call c: the client records it and goes on
\* to fill it.  A NULL result leaves what the client holds as it was.
Deliver(c, bp) ==
  /\ call' = c
  /\ IF bp = NULL
     THEN /\ pc' = "failed"
          /\ UNCHANGED <<blocks, block_sizes>>
     ELSE /\ blocks' = [blocks EXCEPT ![c.id] = bp]
          /\ block_sizes' = [block_sizes EXCEPT ![c.id] = c.size]
          /\ pc' = "returned"

\* The client gives id up: mm_free, or mm_realloc to size 0.
Drop(id) ==
  /\ blocks' = [blocks EXCEPT ![id] = NULL]
  /\ block_sizes' = [block_sizes EXCEPT ![id] = 0]
  /\ pc' = "client" /\ call' = NoCall

\* The call under way has run into an access C gives no meaning to.
Wild ==
  /\ pc' = "undefined" /\ call' = NoCall
  /\ UNCHANGED <<mem, mem_brk, blocks, block_sizes>>

\* memset(p, index & 0xFF, size) after a successful malloc or realloc.
Fill ==
  /\ pc = "returned"
  /\ mem' = memset(mem, blocks[call.id], call.id, call.size)
  /\ pc' = "client" /\ call' = NoCall
  /\ UNCHANGED <<mem_brk, blocks, block_sizes>>

\* clean_up, between two runs over a trace; the next thing called is mm_init.
clean_up ==
  /\ pc = "client"
  /\ mem_clear
  /\ blocks' = [id \in Ids |-> NULL]
  /\ block_sizes' = [id \in Ids |-> 0]
  /\ pc' = "boot"
  /\ UNCHANGED call

\* The start of eval_mm_valid after a trace given up on a failed call, without a
\* clean_up: the break is reset, memory is not cleared, and the pointers of the
\* trace are gone with free_trace.
StartTrace ==
  /\ pc = "failed"
  /\ mem_reset_brk
  /\ blocks' = [id \in Ids |-> NULL]
  /\ block_sizes' = [id \in Ids |-> 0]
  /\ pc' = "boot" /\ call' = NoCall
  /\ UNCHANGED mem

(***************************************************************************)
(* What the client relies on, as the driver checks it.                     *)
(***************************************************************************)

\* Every block the client holds is aligned and lies inside the heap, and no two
\* of them share a byte (add_range: "must not overlap any other payloads").
PayloadsDisjoint ==
  \A id \in Ids : Live(id) =>
    /\ blocks[id] % ALIGNMENT = 0
    /\ mem_start_brk <= blocks[id] /\ blocks[id] + block_sizes[id] <= mem_brk
    /\ \A other \in Ids \ {id} : Live(other) =>
          \/ blocks[id] + block_sizes[id] <= blocks[other]
          \/ blocks[other] + block_sizes[other] <= blocks[id]

\* When a call returns, everything the client wrote is still there: the blocks
\* it held before are intact, and a reallocated block starts with the bytes of
\* the old one (eval_mm_valid: "did not preserve the data from old block").
Intact(id, n) ==
  \A a \in Addr : (blocks[id] <= a /\ a < blocks[id] + n) => mem[a] = id

DataPreserved ==
  pc \notin {"boot", "undefined"} =>
    \A id \in Ids : Live(id) =>
      IF pc = "returned" /\ call.id = id
      THEN Intact(id, IF call.old < call.size THEN call.old ELSE call.size)
      ELSE Intact(id, block_sizes[id])

\* A call the allocator cannot serve returns NULL, which the driver reports
\* ("mm_malloc failed.", "mm_realloc failed."); it never strays into memory that
\* is not the heap's.
FailuresReturn == pc # "undefined"

\* The client's view of the heap: what it holds and what is in it.  The memory
\* of a block the client has not been given yet is not part of the view.
ContentsOf(id) ==
  IF Live(id)
  THEN [o \in {x \in 0..(block_sizes[id] - 1) : x % 4 = 0} |-> mem[blocks[id] + o]]
  ELSE <<>>

Contract ==
  INSTANCE MallocContract WITH
    Places <- Addr, contents <- [id \in Ids |-> ContentsOf(id)]

\* Every step an allocator takes is one the contract of mm.h allows, or does
\* not show in the client's view.
Fulfils == Contract!Spec
=============================================================================
