CONSTANTS
  a1 = a1
  a2 = a2
  b1 = b1
  b2 = b2
  c1 = c1
  d1 = d1
  d2 = d2
  i1 = i1
  i2 = i2
  i3 = i3
  i4 = i4
  Conns = {b1, b2, c1}
  Dialers = {d1, d2}
  Listener = Listener
  SourceOf <- Sources
  Ids = {i1, i2, i3, i4}
  IdOf <- SharedIds
  HasEkg = FALSE
  Faults = {"break", "refuse", "done"}
SPECIFICATION RegSpec
INVARIANTS
  NoNodeIsForgotten
CHECK_DEADLOCK FALSE
