CONSTANTS
  MAX_HEAP = 104
  mem_start_brk = 8
  FLT_SLOT_NUM = 3
  Ids = {a, b}
  Sizes = {16, 32}
SPECIFICATION Spec
SYMMETRY IdSymmetry
INVARIANT FailuresReturn
