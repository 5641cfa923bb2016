CONSTANTS
  MAX_HEAP = 80
  mem_start_brk = 8
  Strategies = {"best"}
  MemcpyDescends = FALSE
  Ids = {a, b}
  Sizes = {8, 16, 24}
SPECIFICATION Spec
SYMMETRY IdSymmetry
INVARIANT ReallocFailsOnlyWhenFull
