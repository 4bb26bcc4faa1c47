SPECIFICATION ESpec
CONSTANTS
  Drones = {0, 1, 2}
  Tasks = {"a", "b", "c"}
  MaxBundle = 2
  NoDrone = 9
  Me = 1
  Scores = {1, 2}
  Times = {0, 1}
INVARIANTS
  ConsensusIsLoop
  ClearIsLoop
