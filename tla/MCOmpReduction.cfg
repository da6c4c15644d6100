SPECIFICATION FairSpec
CONSTANTS
  TeamSize = 3
  HasTeam = TRUE
  Program <- MCProgram
INVARIANT ReducedOnce
PROPERTIES ImplementsReduction AllFinish
CHECK_DEADLOCK FALSE
