SPECIFICATION PaintSpec
CONSTANTS
  Unset = Unset
  Timeout = 2
  BadKinds = {"wrong_phase"}
  MaxRequests = 4
  LastSpawn = 1
  MaxTime = 3
INVARIANTS
  BadSignalRejects
CHECK_DEADLOCK FALSE
