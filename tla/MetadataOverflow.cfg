CONSTANTS
  BOUNDARY = 7
  GLOBAL_RESERVE = 1
  N_TABLE_ENTRIES = 2
  Table = 24
  Heap = 64
  NGlobals = 1
  NHeap = 2
  Sizes = {1}
  MaxWords = 1
  Null = Null
  Data = Data
  Empty = Empty

SPECIFICATION Spec

INVARIANT EntriesInTable
