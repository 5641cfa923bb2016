CONSTANTS
  W = 32
  Platforms = {"i386", "alpha", "other"}
  Starts = {25}
  Period = 3
  TickCost = 4
  NEVENT = 2
  THRESHOLD = 2
  RECORDTHRESH = 3
  EpsDen = 4
  Epsilons = {0, 1}
  KBests = {2}
  MaxSamples = {1, 3}
  CACHE_BYTES = 1
  CacheSizes = {1, 2}
  CacheBlocks = {32}
  MaxWork = 3
  MaxTotal = 3
SPECIFICATION Spec
CHECK_DEADLOCK FALSE
INVARIANTS
  TypeOK
  BufferFits
  KBest
  ResultEarned
  
  CallibratedRight
  NeverOver
PROPERTIES
  Returns
