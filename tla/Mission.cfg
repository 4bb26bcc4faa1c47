SPECIFICATION MFairSpec
CONSTANTS
  Callers = {"mission"}
  Mission = "mission"
  Monitor = "monitor"
  Places <- SomePlaces
  Home = "home"
  NoPlace = "none"
  Beyond = {"far"}
  TooHigh = {}
  Below <- Under
  Waypoints = {"wp", "wp2"}
  Plan <- BeyondFence
  Rejects = TRUE
  MaxCalls = 4
  Background = TRUE
  Overtakes = TRUE
  Edits = TRUE
  Stops = TRUE
  MaxOperations = 2
INVARIANTS
  MTypeOK
  CompleteMeansReached
  EndedIsReported
PROPERTIES
  MissionEnds
  StopEnds
CHECK_DEADLOCK FALSE
