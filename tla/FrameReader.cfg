SPECIFICATION QueueSpec
CONSTANTS
  HEADER_LEN = 2
  MAX_FRAME_LEN = 2
  MAX_PENDING_CHUNKS = 3
  APP_LINK_IO_DEADLINE = 2
  CHUNK_COMPACT_THRESHOLD = 2
  Streams <- MCStreams
  Callers = {c1, c2}
  None = None
  MaxChunk = 7
  LastArrival = 3
  MaxTime = 5
  c1 = c1
  c2 = c2
INVARIANTS
  NoLateFrame
  DeadlineArmed
  BoundedBuffer
  PromptDelivery
  CursorsAgree
PROPERTIES
  SparesPunctual
  StartedFrameSettles
  ImplementsStream
