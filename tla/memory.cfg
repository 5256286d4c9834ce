SPECIFICATION MemSpec
CONSTANTS
  BUDDY_LEVELS = 4
  PAGE = 3
  LOW = 3
  MAX_INIT_OPS = 4
  BootInfos <- Infos
INVARIANTS Partition FreeLists Serves BlockStarts NoAssertion BootMap
PROPERTY ImplementsPageAlloc
