CONSTANTS
  MaxTurns = 2
  MaxAsks = 1
  MaxSent = 1
SPECIFICATION Spec
CHECK_DEADLOCK FALSE
PROPERTIES
  RaceNeverCorrupts
