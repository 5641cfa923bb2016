CONSTANTS
  MAX_HEAP = 72
  mem_start_brk = 8
  Strategies = {"first", "next", "best"}
  MemcpyDescends = FALSE
  Ids = {a, b}
  Sizes = {0, 4, 12}
SPECIFICATION Spec
SYMMETRY IdSymmetry
INVARIANTS
  TypeOK
  PayloadsDisjoint
  DataPreserved
  HeapConsistent
  CursorValid
  MallocFailsOnlyWhenFull
PROPERTIES
  NoNeedlessGrowth
  FitAsPromised
  TailGrowsInPlace
  Fulfils
