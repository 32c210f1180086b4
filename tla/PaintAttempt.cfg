SPECIFICATION PaintSpec
CONSTANTS
  Unset = Unset
  Timeout = 1
  BadKinds = {"host_mismatch", "wrong_phase"}
  MaxRequests = 4
  LastSpawn = 1
  MaxTime = 2
INVARIANTS
  ScoreIsFirstBeacon
  TimeoutOnlyFails
  NothingLeftRunning
PROPERTIES
  AttemptEnds
CHECK_DEADLOCK FALSE
