SPECIFICATION FairSpec
CONSTANTS
  d1 = d1
  d2 = d2
  NoDrone = NoDrone
  armed = armed
  bomb = bomb
  zone = zone
  Inspectors = {d1, d2}
  Sources = {armed, bomb, zone}
  HighScore = {armed, bomb}
  Crowds = {zone}
  Facades = {armed}
  Critical = {armed, bomb}
  UnsafeCorridor = {}
  RankOf <- Ranks
  MaxInspectors = 1
  Sensors = {"rgb", "thermal"}
  Firings = {{"rgb"}, {"rgb", "thermal"}}
  MultiSensor = 2
  Neighbours <- AllOthers
  MaxScan = 2
  MaxFaults = 1
  Repairable = {d1, d2}
  MaxThreats = 2
INVARIANTS
  TypeOK
  ConfirmingIsInspected
  DutyAgrees
  SectorsRestored
PROPERTIES
  MostUrgentFirst
  LifecycleKept
  CareEnds
