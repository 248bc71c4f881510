SPECIFICATION MetSpec
CONSTANTS
  s1 = s1
  s2 = s2
  s3 = s3
  Sessions <- MCSessions
  IdOf <- MCIdOf
  NameOf <- MCNameOf
  Responses <- MCResponses
  Batches <- MCBatches
  I64Max = 3
  MaxPolls = 3
  MaxBatches = 1
INVARIANTS
  CountersCountGrowth
  GaugesAreNotShared
  LabelsAreShown
PROPERTIES
  NodeKeepsItsRoute
