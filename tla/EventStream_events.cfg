SPECIFICATION Spec
CONSTANTS
  Streams <- Bodies
  Json <- JsonValues
  VizSpecs <- Specs
  MaxBuffer = 14
INVARIANTS
  EventsAsSent
  LinksJoinTheSameNodes
  NormalFormIsStable
CHECK_DEADLOCK FALSE
