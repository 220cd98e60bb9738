SPECIFICATION Spec
CONSTANTS
  c1 = c1  c2 = c2  c3 = c3  a = a  b = b  t1 = t1  t2 = t2
  None = None
  Conns = {c1, c2, c3}
  IDs = {a, b}
  Topics = {t1, t2}
  FullIds = {}
  LongTopics = {}
  Name <- NameAAB
  Paced = TRUE
  Lines = {"exit"}
  MaxFd = 6
  MaxPubs = 2
  MaxReqs = 3
SYMMETRY TwinsAndTopics
CONSTRAINT FewInputs
CHECK_DEADLOCK FALSE
INVARIANTS SessionsMatch Registered RoutedByTopic DeliveredInOrder
PROPERTIES SubscriptionsKept DrainedOnReturn ImplementsPubSub
