SPECIFICATION Spec
CONSTANTS
  Callers = {c1, c2}
  c1 = c1
  c2 = c2
  Monitor = "monitor"
  Places <- SomePlaces
  Home = "home"
  NoPlace = "none"
  Beyond = {"far"}
  TooHigh = {"top"}
  Below <- Under
  Waypoints = {"wp", "far", "top"}
  Rejects = TRUE
  MaxCalls = 5
SYMMETRY AnyCaller
INVARIANTS
  TypeOK
  IdleIsGrounded
PROPERTIES
  NavigationStaysWatched
CHECK_DEADLOCK FALSE
