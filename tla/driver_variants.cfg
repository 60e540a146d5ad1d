SPECIFICATION Spec
CONSTANTS
  a = a
  b = b
INVARIANTS NoDeadlock DependencesHonoured CoherentAtRest NoOverlapButMoveFrom
PROPERTIES ImplementsDataflow
