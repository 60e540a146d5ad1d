SPECIFICATION Spec
CONSTANTS
  a = a
  b = b
  NCtrls = 2
  Tiles = {a}
  Kind <- CudaAndOpenCL
  NKernelStreams <- OneStream
  Policy = "ASYNC"
  Modes = {"IMPLICIT", "EXPLICIT"}
  Accesses <- OneIO
  InitAttached <- FirstAttached
  AllocFlags <- NoFlags
  WarnedMoves = FALSE
  MaxJobs = 3
INVARIANTS TypeOK NoDeadlock EventsIssuedBeforeWaits DependencesHonouredButUnordered
PROPERTIES JobsFinish
