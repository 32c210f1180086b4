SPECIFICATION Spec
CONSTANTS
  Sessions = 20
  None = None
INVARIANTS
  ManifestIsComplete
PROPERTIES
  CasesEnd
CHECK_DEADLOCK FALSE
