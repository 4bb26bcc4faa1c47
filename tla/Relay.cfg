SPECIFICATION Spec
CONSTANTS
    Drones = {0, 1, 2}
    Links = {{0, 1}, {1, 2}}
    Spotters = {0, 1, 2}
    Alerts = {a1, a2}
    Hops = 2
    Memory = 1
INVARIANTS
    ToldOnce
    QuietMeansTold
PROPERTIES
    AlertsDieOut
CHECK_DEADLOCK FALSE
