CONSTANTS
  Traces = {t1, t2, t3, t4}
  Conns = {c1, c2}
  NoConn = NoConn
  RequestCounts = {1, 2}
  QueueSize = 2
  MaxReconnectDelay = 1
  ChannelCapacity = 1
  Faults = {"break", "refuse", "done", "consumer"}
  MaxBreaks = 2
SPECIFICATION Spec
SYMMETRY Interchangeable
INVARIANTS
  TypeOK
  OnePlace
  NothingVanishes
  Agency
  NonEmptyReplies
  DeliveredInOrder
PROPERTIES
  ImplementsLossyQueue
CHECK_DEADLOCK FALSE
