SPECIFICATION Spec
CONSTANTS
  p1 = p1
  p2 = p2
  p3 = p3
  None = None
  PIDs = {p1, p2, p3}
  Leader = p1
  MaxBirths = 4
INVARIANTS
  GroupSignalOwn
  MembersAsListed
  CleanGroup
PROPERTIES
  CleanupEnds
CHECK_DEADLOCK FALSE
