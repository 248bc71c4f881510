CONSTANTS
  Traces = {t1, t2, t3}
  Conns = {c1, c2}
  NoConn = NoConn
  RequestCounts = {2}
  QueueSize = 1
  MaxReconnectDelay = 2
  ChannelCapacity = 1
  Faults = {"break"}
  MaxBreaks = 1
SPECIFICATION FairSpec
PROPERTIES
  EveryTraceSettles
  EverySendReturns
  ReconnectsWhenNeeded
CHECK_DEADLOCK FALSE
