CONSTANTS
  Tasks = {t1, t2}
  Downstreams = {d1}
  Batches <- SomeBatches
  NamespaceFilters <- NodeFilter
  None = None
  Done = Done
  QueueSize = 2
  RequestCounts = {1, 6}
  Faults = {"break", "refuse", "done", "abort"}
  MaxBatches = 4
SPECIFICATION RfFairSpec
INVARIANTS
  RfTypeOK
  DownstreamInOrder
  KeepsUpGetsAll
  LagLosesWholeBatches
  TasksKeepTheirOrder
PROPERTIES
  AnswersWhenAsked
  DeadDownstreamsLeave
CHECK_DEADLOCK FALSE
