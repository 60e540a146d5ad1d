SPECIFICATION Spec
CONSTANTS
  a = a
  b = b
  NCtrls = 2
  Tiles = {a}
  MemMoves <- Mixed
  Policy = "ASYNC"
  Modes = {"IMPLICIT"}
  Accesses <- Writing
  InitAttached <- AllAttached
  AllocFlags = {}
  WarnedMoves = FALSE
  MaxJobs = 4
INVARIANTS TypeOK NoDeadlock DependencesHonoured CoherentAtRest
PROPERTIES ImplementsDataflow JobsFinish CallsReturn
