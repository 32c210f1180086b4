SPECIFICATION Spec
CONSTANTS
  None = None
  Cells <- MCCells
  Mitigations = {"off"}
  Samples = 1
  MaxAttempts = 3
  MaxRequests = 2
INVARIANTS
  RetriesHideNothing
  CompleteLeavesNoProbe
CHECK_DEADLOCK FALSE
