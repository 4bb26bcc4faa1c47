SPECIFICATION PatrolSpec
CONSTANTS
  Drones = {0, 1}
  Tasks = {"s0", "s1"}
  MaxBundle = 1
  NoDrone = 9
  RegimentSize = 3
  SectorTasks = {"s0"}
  PerimeterTasks = {"s1"}
  RtlTasks <- NoRtl
  ScoreOf <- OneForBoth
  FanOut = 2
  MaxTime = 2
  Capacity = 1
  MaxFailures = 1
  Lossy = FALSE
  FalseSuspicion = FALSE
PROPERTIES
  
  PatrolCovered
  FailedForgotten
CHECK_DEADLOCK FALSE
