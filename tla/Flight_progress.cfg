SPECIFICATION FairSpec
CONSTANTS
  Callers = {"operator"}
  Monitor = "monitor"
  Places <- SomePlaces
  Home = "home"
  NoPlace = "none"
  Beyond = {"far"}
  TooHigh = {"top"}
  Below <- Under
  Waypoints = {"wp", "far", "top"}
  Rejects = FALSE
  MaxCalls = 6
PROPERTIES
  CommandsEnd
  CriticalBatteryLands
  BreachEnds
CHECK_DEADLOCK FALSE
