SPECIFICATION Spec
CONSTANTS
  EXTRA_STREAMS = 3
  MAX_STREAM_TASKS = 2
  Foreign = {ev}
  MaxOps = 8
INVARIANTS OneKernelAtOnce WaitsHonoured
PROPERTIES ImplementsStream KernelsRun
CHECK_DEADLOCK FALSE
