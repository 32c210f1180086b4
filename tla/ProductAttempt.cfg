SPECIFICATION Spec
CONSTANTS
  Required = 2
  MaxDrift = 1
  PIDs = {1, 2, 3, 4}
  Cli = 2
  Others <- MCOthers
  HelperClasses = {"keld-host", "webkit"}
  Needed = {}
  Levels <- MCLevels
  Kinds = {"paint", "memory"}
  None = None
  MaxBirths = 7
INVARIANTS
  NoStrangerMeasured
  CensusComplete
  ValidMeansGone
  SignalsAsCaptured
CHECK_DEADLOCK FALSE
