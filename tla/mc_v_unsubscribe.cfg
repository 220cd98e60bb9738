SPECIFICATION FairSpec
CONSTANTS
  c1 = c1  c2 = c2  c3 = c3  a = a  b = b  t1 = t1  t2 = t2
  None = None
  Conns = {c1}
  IDs = {a, b}
  Topics = {t1, t2}
  FullIds = {}
  LongTopics = {}
  Name <- NameA
  Paced = TRUE
  Lines = {}
  MaxFd = 6
  MaxPubs = 0
  MaxReqs = 3
CHECK_DEADLOCK FALSE
PROPERTY UnsubscribesTopic
