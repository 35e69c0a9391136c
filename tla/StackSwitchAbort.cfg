CONSTANTS
  COUNT = 2
  Codes = {0, 259}
  Exiting = {}
  Aborting = {"main"}
  MaxDepth = 3
  MaxRegs = 2

SPECIFICATION Spec

INVARIANTS
  AbortIsReported
