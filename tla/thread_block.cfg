SPECIFICATION Spec
CONSTANTS
  NCtrls = 2
  Kinds <- SomePairs
  Streams = 2
  Roles = {"IN", "IO"}
  MaxCalls = 2
INVARIANTS NoJobLost FreedUseKnown
PROPERTY BlockEnds
