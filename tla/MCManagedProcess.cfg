SPECIFICATION FairSpec
CONSTANTS
  MaxWritten <- MCMaxWritten
  CaptureLimit = 1
  MayEscape = TRUE
  MayFail = TRUE
INVARIANTS OutcomeIsHonest NothingLeftBehind NeverMisfires
PROPERTY EveryCommandReturns
CHECK_DEADLOCK FALSE
