CONSTANTS
  MAX_HEAP = 80
  mem_start_brk = 8
  Strategies = {"first", "next", "best"}
  MemcpyDescends = FALSE
  Ids = {a, b}
  Sizes = {12, 24}
SPECIFICATION FairSpec
PROPERTY SearchEnds
