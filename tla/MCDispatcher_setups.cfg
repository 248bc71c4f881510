SPECIFICATION DispSpec
CONSTANTS
  t1 = t1
  t2 = t2
  Threads <- MCThreads
  Setups <- MCSetups
  Namespaces <- MCNamespaces
  Frequencies = {1, 3}
  MaxTick = 4
SYMMETRY MCSymmetry
CHECK_DEADLOCK FALSE
INVARIANTS
  AdmitsExactlyWithinRate
  EveryBackendServed
  RepliesAreFresh
