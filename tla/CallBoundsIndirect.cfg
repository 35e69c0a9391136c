CONSTANTS
  main = main f = f g = g
  o1 = o1 o2 = o2
  Fn = {main, f, g}
  Obj = {o1, o2}
  Programs <- IndirectPrograms
  N_ARG_ENTRIES = 3
  MaxDepth = 3
  Null = Null
  Plain = Plain
  Unsafe = Unsafe
  Empty = Empty
  Left = Invalid
  NoSite = NoSite

SPECIFICATION Spec

INVARIANTS
  NoSlotLoadedTwice
