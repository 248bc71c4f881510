CONSTANTS
  w1 = w1
  w2 = w2
  n1 = n1
  n2 = n2
  d1 = d1
  Writers = {w1, w2}
  Names = {n1, n2}
  NodeOf <- TwoNodes
  Dirs = {d1}
  DirOf <- OneDir
  Rotator = Rotator
  None = None
  BatchSizes = {0, 1}
  SizeLimit = 1
  MaxAge = 1
  KeepFiles = 1
  Frequency = 1
  Failures = {"open", "link", "crash"}
  MaxBatches = 3
  MaxTime = 2
SPECIFICATION LogSpec
SYMMETRY SwapNodes
INVARIANTS
  LogsReadInOrder
  SymlinkFollowsWriter
CHECK_DEADLOCK FALSE
