SPECIFICATION MapSpec
CONSTANTS
  Requests = {zoomIn, paris}
  Routes = {}
  NoRequest = NoRequest
PROPERTY FailedLoadHandsBack
CHECK_DEADLOCK FALSE
