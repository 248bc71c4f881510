CONSTANTS
  w1 = w1
  w2 = w2
  n1 = n1
  n2 = n2
  d1 = d1
  Writers = {w1, w2}
  Names = {n1}
  NodeOf <- OneNode
  Dirs = {d1}
  DirOf <- OneNodeDir
  Rotator = Rotator
  None = None
  BatchSizes = {2}
  SizeLimit = 2
  MaxAge = 1
  KeepFiles = 2
  Frequency = 1
  Failures = {}
  MaxBatches = 1
  MaxTime = 3
SPECIFICATION LogSpec
INVARIANTS
  SymlinkTargetKept
CHECK_DEADLOCK FALSE
