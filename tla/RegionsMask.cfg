CONSTANTS
  p = p q = q n = n g = g
  Param = {p, q, n}
  Global = {g}
  Null = Null
  Programs <- Functions

SPECIFICATION Spec

INVARIANTS
  MaskedPointersStayLow
