SPECIFICATION Spec
CONSTANTS
  Geolocation = TRUE
  HistoryMax = 2
  Readers = {r1, r2}
  MaxAsks = 2
  MaxStarts = 2
  MaxTicks = 3
SYMMETRY ReadersAlike
INVARIANTS
  PendingIsAsked
  HistoryIsTimeInView
  OneLoopWhileRead
PROPERTIES
  NeverSwitchedBackOn
  StoppedMeansStopped
CHECK_DEADLOCK FALSE
