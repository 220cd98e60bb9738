SPECIFICATION FairSpec
CONSTANTS
  c1 = c1  c2 = c2  c3 = c3  a = a  b = b  t1 = t1  t2 = t2
  None = None
  Conns = {c1, c3}
  IDs = {a, b}
  Topics = {t1}
  FullIds = {}
  LongTopics = {t1}
  Name <- NameAB
  Paced = FALSE
  Lines = {"exit", "other"}
  MaxFd = 6
  MaxPubs = 1
  MaxReqs = 1
CHECK_DEADLOCK FALSE
PROPERTIES DatagramsHandled ConnectionsServed AllLeave
