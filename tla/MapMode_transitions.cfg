SPECIFICATION MapSpec
CONSTANTS
  Requests = {zoomIn, paris, hanoi, way, detour}
  Routes = {way, detour}
  NoRequest = NoRequest
INVARIANTS
  LatestRequestApplied
PROPERTY TransitionsEnd
CHECK_DEADLOCK FALSE
