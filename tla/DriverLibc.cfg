CONSTANTS
  MAX_HEAP = 32
  mem_start_brk = 8
  Ids = {a, b}
  Sizes = {4, 24}
  Ptrs = {8, 12, 16}
  Breaks = {24, 40}
  Tag = tag
  MaxOps = 2
  NumTraces = 1
  Runs = 2
  Methods = {"GETTOD"}
  LibcOptions = {TRUE}
SPECIFICATION Spec
SYMMETRY IdSymmetry
CHECK_DEADLOCK FALSE
INVARIANT LibcRunsAsWell
