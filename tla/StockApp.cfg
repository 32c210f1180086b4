SPECIFICATION Spec
CONSTANTS
  main = main
  worker = worker
  None = None
  Tasks = {main}
  Main = main
  Program <- StockProgram
  MAX_PARKED_FRAMES = 3
  CorrLimit = 3
  Strays <- StrayFrames
  MaxPings = 2
INVARIANTS
  EventsInOrder
  NoFalseAlarm
  ExitIsAgreed
PROPERTIES
  LastWindowExits
CHECK_DEADLOCK FALSE
