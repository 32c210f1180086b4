SPECIFICATION Spec
CONSTANTS
  main = main
  worker = worker
  None = None
  Tasks = {main, worker}
  Main = main
  Program <- SharedProgram
  MAX_PARKED_FRAMES = 2
  CorrLimit = 4
  Strays = {}
  MaxPings = 1
INVARIANTS
  RepliesMatch
  ClosedReleases
PROPERTIES
  EchoSettles
CHECK_DEADLOCK FALSE
