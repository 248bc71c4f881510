CONSTANTS
  a1 = a1
  a2 = a2
  b1 = b1
  b2 = b2
  c1 = c1
  d1 = d1
  d2 = d2
  i1 = i1
  i2 = i2
  i3 = i3
  i4 = i4
  Conns = {a1, a2, b1, b2}
  Dialers = {d1, d2}
  Listener = Listener
  SourceOf <- Sources
  Ids = {i1, i2, i3, i4}
  IdOf <- OwnIds
  HasEkg = TRUE
  Faults = {"break", "refuse", "done"}
SPECIFICATION RegFairSpec
INVARIANTS
  RegTypeOK
  ConnectedAreListed
  NoGhostNodes
PROPERTIES
  SessionsEndForCause
  BrokenSessionsLeave
  RedialsAfterBreak
CHECK_DEADLOCK FALSE
