SPECIFICATION Spec
CONSTANTS
  Callers = {"operator"}
  Monitor = "monitor"
  Places <- SomePlaces
  Home = "home"
  NoPlace = "none"
  Beyond = {"far"}
  TooHigh = {"top"}
  Below <- Under
  Waypoints = {"wp", "far", "top"}
  Rejects = FALSE
  MaxCalls = 3
INVARIANTS
  LandedIsGrounded
CHECK_DEADLOCK FALSE
