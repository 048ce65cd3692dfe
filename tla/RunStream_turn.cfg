CONSTANTS
  MaxTurns = 2
  MaxCalls = 1
  MaxReplans = 1
  ToolBudget = 0
  HasDeadline = FALSE
  LogCap = 4
  ToolShows = {"none", "map"}
SPECIFICATION FairSpec
CHECK_DEADLOCK FALSE
INVARIANTS
  RefusedNeverRuns
  ReplayExact
  NoOrphanPump
  CancelledWaitDies
PROPERTIES
  KeepsPromise
  RunEnds
