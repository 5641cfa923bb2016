CONSTANTS
  MAX_HEAP = 64
  mem_start_brk = 8
  Strategies = {"best"}
  MemcpyDescends = FALSE
  Ids = {a, b}
  Sizes = {8, 16, 24}
SPECIFICATION SpecTraces
SYMMETRY IdSymmetry
INVARIANT ListEnds
