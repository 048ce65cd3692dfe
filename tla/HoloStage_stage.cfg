SPECIFICATION Spec
CONSTANTS
  Requests = {paris}
  Routes = {}
  NoRequest = NoRequest
  Handoff = paris
  paris = paris
  Specs <- StageSpecs
  Keep = 2
  Elements = {1}
  MaxGlobes = 2
  MaxLosses = 1
INVARIANTS
  GlobeOwnsCamera
  CameraBackOutside
  PreviewCostsNoSlot
  FocusOnStage
CHECK_DEADLOCK FALSE
