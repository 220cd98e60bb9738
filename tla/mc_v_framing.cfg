SPECIFICATION Spec
CONSTANTS
  L = 2
  FramesRoom = 4
  RequestsRoom = 2
  Batch = 2
  MaxCopies = 1
  Modes <- PartsOnly
  MaxPubs = 3
  MaxLines = 1
CHECK_DEADLOCK FALSE
INVARIANT FullReceived
