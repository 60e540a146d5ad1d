SPECIFICATION Spec
CONSTANTS
  a = a
  b = b
INVARIANTS DependencesHonoured CoherentAtRest NoOverlap
PROPERTIES WaitsComplete
