CONSTANTS
  BOUNDARY = 7
  GLOBAL_RESERVE = 2
  N_TABLE_ENTRIES = 6
  Table = 24
  Heap = 128
  NGlobals = 2
  NHeap = 2
  Sizes = {1}
  MaxWords = 2
  Null = Null
  Data = Data
  Empty = Empty

SPECIFICATION Spec

INVARIANT CopyAssertions
