SPECIFICATION MSpec
CONSTANTS
  Callers = {"mission"}
  Mission = "mission"
  Monitor = "monitor"
  Places <- SomePlaces
  Home = "home"
  NoPlace = "none"
  Beyond = {"far"}
  TooHigh = {}
  Below <- Under
  Waypoints = {"wp", "wp2"}
  Plan <- TwoWaypoints
  Rejects = FALSE
  MaxCalls = 4
  Background = TRUE
  Overtakes = FALSE
  Edits = FALSE
  Stops = FALSE
  MaxOperations = 2
PROPERTIES
  LaunchExecutes
CHECK_DEADLOCK FALSE
