CONSTANTS
  MAX_HEAP = 136
  mem_start_brk = 8
  FLT_SLOT_NUM = 3
  Ids = {a, b, c}
  Sizes = {16, 32}
SPECIFICATION Spec
SYMMETRY IdSymmetry
INVARIANTS
  TypeOK
  PayloadsDisjoint
  DataPreserved
  HeapConsistent
  FreeListsExact
  Coalesced
  FailsOnlyWhenFull
PROPERTIES
  NoNeedlessGrowth
  Fulfils
