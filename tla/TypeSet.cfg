CONSTANTS
  t1 = t1 t2 = t2 t3 = t3
  Type = {t1, t2, t3}
  MaxElements = 2
  Graphs <- AllGraphs

SPECIFICATION Spec

INVARIANTS
  TypeOK
  NoTypeTwice
  MemoIsRight
  CountIsRight
  AnswerIsRight
