CONSTANTS
  Users = {alice}
  Claims = {tea}
  Polarity = {likes, dislikes}
  Jobs = {j1, j2}
  MaxMemories = 2
  EveryTurns = 1
  MinTurns = 1
  AtCount = 1
  MaxFacts = 3
  MaxCalls = 2
  MaxFaults = 1
SPECIFICATION Spec
SYMMETRY Interchangeable
CHECK_DEADLOCK FALSE
INVARIANTS
  CacheMirrorsStore
  ToldGoneIsGone
PROPERTIES
  OwnersKeepTheirs
