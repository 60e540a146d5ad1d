SPECIFICATION Spec
CONSTANTS
  Tasks = {t1, t2}
  Size = 3
  Waiters = {w1, w2}
  NoTask = NoTask
INVARIANTS TypeOK
PROPERTIES ImplementsStream WaitMeansEvaluated WaitsReturn
CHECK_DEADLOCK FALSE
