CONSTANTS
  Traces = {t1, t2, t3}
  Conns = {c1}
  NoConn = NoConn
  RequestCounts = {1}
  QueueSize = 3
  MaxReconnectDelay = 1
  ChannelCapacity = 1
  Faults = {}
  MaxBreaks = 0
SPECIFICATION Spec
INVARIANTS
  DropsOnlyBeyondQueueSize
CHECK_DEADLOCK FALSE
