SPECIFICATION Spec
CONSTANTS
  Drones = {0, 1}
  Tasks = {"s0", "s1", "rtl_0"}
  MaxBundle = 2
  NoDrone = 9
  RegimentSize = 2
  SectorTasks = {"s0"}
  PerimeterTasks = {"s1"}
  RtlTasks <- Rtl0
  ScoreOf <- SomeScore
  FanOut = 2
  MaxTime = 1
  Capacity = 1
  MaxFailures = 0
  Lossy = TRUE
  FalseSuspicion = TRUE
INVARIANTS
  TypeOK
  OwnClaimsAreBundle
  BundleWellFormed
  AssignmentMirrorsAuction
  NoGhostWinner
  RtlIsPrivate
PROPERTIES
  OutbidsLiveWinners
