SPECIFICATION FairSpec
CONSTANTS
  a1 = a1  a2 = a2  a3 = a3  a4 = a4  t1 = t1  t2 = t2
  Null = Null  Junk = Junk  NoCell = NoCell  None = None
  Chunks = {a1, a2, a3}
  Topics = {t1, t2}
  Socks = {5}
  TopicsCap = 2
  SfsCap = 3
  MaxSubs = 4
  MaxWaiting = 3
  MaxPubs = 2
CHECK_DEADLOCK FALSE
INVARIANTS MemoryTypeOK SlotsHold QueueShape
PROPERTIES ImplementsSession HandlersReturn
