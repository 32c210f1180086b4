SPECIFICATION Spec
CONSTANTS
  ping = ping
  quit = quit
  echo = echo
  big = big
  None = None
  Calls = {ping, quit, echo, big}
  Size <- MCSize
  TooLarge = {big}
  APP_LINK_IO_DEADLINE = 2
  LastCall = 2
  MaxTime = 4
INVARIANTS
  WholeFramesInOrder
  TruncationPoisons
  CloseReleasesWriters
  PoisonSettlesAll
PROPERTIES
  EveryCallSettles
  ImplementsLine
CHECK_DEADLOCK FALSE
