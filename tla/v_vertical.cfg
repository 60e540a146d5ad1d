SPECIFICATION Spec
CONSTANTS
  Inputs <- VerticalInput
INVARIANTS FreshHalo
