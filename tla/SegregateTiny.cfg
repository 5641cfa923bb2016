CONSTANTS
  MAX_HEAP = 120
  mem_start_brk = 8
  FLT_SLOT_NUM = 3
  Ids = {a, b, c}
  Sizes = {8}
SPECIFICATION Spec
SYMMETRY IdSymmetry
INVARIANT PayloadsDisjoint
