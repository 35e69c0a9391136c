CONSTANTS
  main = main f = f g = g
  a = a b = b c = c
  buf = buf memcpy = memcpy
  Fn = {main, f, g}
  Local = {a, b, c}
  Global = {buf, memcpy}
  Programs <- PlainPrograms
  UseSeparationMode = FALSE
  Unit = Unit
  Itself = Itself
  Const = Const
  External = External
  Indirect = Indirect
  None = None

SPECIFICATION Spec

INVARIANTS
  ReturnCrossesBackToCaller
