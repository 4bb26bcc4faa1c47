SPECIFICATION Spec
CONSTANTS
    Checkpoints = {"c1", "c2"}
    MaxEdits = 5
INVARIANTS
    TypeOK
    FlownInOrder
PROPERTIES
    MissionEnds
