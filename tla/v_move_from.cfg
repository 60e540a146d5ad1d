SPECIFICATION Spec
CONSTANTS
  a = a
  b = b
  NCtrls = 1
  Tiles = {a}
  MemMoves <- OneDevice
  Policy = "ASYNC"
  Modes = {"EXPLICIT"}
  Accesses <- OneArg
  InitAttached <- AllAttached
  AllocFlags = {}
  WarnedMoves = TRUE
  MaxJobs = 3
INVARIANT MoveFromAfterMoveTo
