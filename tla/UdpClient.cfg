SPECIFICATION Spec
CONSTANTS
  IdSpace = 2
  Capacity = 1
  MaxSessions = 3
  MaxArrivals = 2
INVARIANTS ReachableUntilWrap
PROPERTIES EarlySessionsEnd
CHECK_DEADLOCK FALSE
