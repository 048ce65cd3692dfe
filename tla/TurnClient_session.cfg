CONSTANTS
  MaxTurns = 2
  MaxAsks = 1
  MaxSent = 1
SPECIFICATION FairSpec
CHECK_DEADLOCK FALSE
INVARIANTS
  EveryFrameOnce
  PromptOfLatest
PROPERTIES
  EndsAreTold
  CancelStopsItsOwn
  InputComesBack
