CONSTANTS
  MAX_HEAP = 32
  mem_start_brk = 8
  Ids = {a, b}
  Sizes = {4, 24}
  Ptrs = {8, 12, 16, 24, 40}
  Breaks = {24, 40}
  Tag = tag
  MaxOps = 3
  NumTraces = 2
  Runs = 2
  Methods = {"GETTOD", "ITIMER"}
  LibcOptions = {TRUE, FALSE}
SPECIFICATION Spec
SYMMETRY IdSymmetry
CHECK_DEADLOCK FALSE
INVARIANTS
  TypeOK
  RangesExact
  
  UtilIsHighWater
  RunsStartClean
  IndexOnlyIfAllValid
PROPERTIES
  NoFalseAlarm
