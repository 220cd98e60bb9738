SPECIFICATION FairSpec
CONSTANTS
  L = 2
  FramesRoom = 4
  RequestsRoom = 2
  Batch = 2
  MaxCopies = 1
  Modes <- WholeAndParts
  MaxPubs = 3
  MaxLines = 3
CHECK_DEADLOCK FALSE
INVARIANTS SubscriberTypeOK Attentive ShownAsSent NoLineLost
PROPERTIES SendsComplete FramesShown LinesObeyed
