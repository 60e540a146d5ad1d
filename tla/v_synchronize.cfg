SPECIFICATION Spec
CONSTANTS
  a = a
  b = b
  NCtrls = 2
  Tiles = {a}
  MemMoves <- TwoZeroCopy
  Policy = "ASYNC"
  Modes = {"IMPLICIT"}
  Accesses <- OneArg
  InitAttached <- AllAttached
  AllocFlags = {}
  WarnedMoves = FALSE
  MaxJobs = 3
PROPERTY SynchronizeCompletes
