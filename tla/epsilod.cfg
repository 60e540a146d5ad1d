SPECIFICATION FairSpec
CONSTANTS
  Inputs <- MCInputs
INVARIANTS TypeOK FreshHalo OutputCorrect
PROPERTIES AllFinish
