CONSTANTS
  MaxTurns = 1
  MaxCalls = 2
  MaxReplans = 0
  ToolBudget = 1
  HasDeadline = TRUE
  LogCap = 3
  ToolShows = {"none", "memory"}
SPECIFICATION SilentSpec
CHECK_DEADLOCK FALSE
PROPERTIES
  DeadlineEndsSilence
