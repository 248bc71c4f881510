SPECIFICATION WireSpec
CONSTANTS
  Messages <- MCMessages
  PlanLength = 2
INVARIANTS
  ReceivedAsSent
  StreamAligned
  RefusesOnlyForeign
  NothingStuck
CHECK_DEADLOCK FALSE
