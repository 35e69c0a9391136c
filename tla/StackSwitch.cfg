CONSTANTS
  COUNT = 2
  Codes = {0, 259}
  Exiting = {"main", "handler"}
  Aborting = {"main", "handler"}
  MaxDepth = 2
  MaxRegs = 5

SPECIFICATION Spec

INVARIANTS
  TypeOK
  FramesIntact
  HandlersRunOnce
  ListIsThere
  FiniRunsOnce
  StatusIsMains
PROPERTIES
  HandlersInReverse
