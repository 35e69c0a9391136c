CONSTANTS
  BOUNDARY = 7
  GLOBAL_RESERVE = 1
  N_TABLE_ENTRIES = 5
  Table = 24
  Heap = 120
  NGlobals = 1
  NHeap = 2
  Sizes = {1, 2}
  MaxWords = 2
  Null = Null
  Data = Data
  Empty = Empty
  Unknown = Unknown

SPECIFICATION Spec

INVARIANTS
  TypeOK
  PointersKeepBounds
  EntriesInTable

PROPERTY ImplementsFatMemory
