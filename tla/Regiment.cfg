SPECIFICATION Spec
CONSTANTS
    N = 3
    Coordinators = {0}
    Fanout = 2
    Timeout = 0
INVARIANTS
    TypeOK
    TrianglesDistinct
PROPERTIES
    HandOver
    LostIsNoticed
