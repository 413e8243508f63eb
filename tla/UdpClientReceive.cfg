SPECIFICATION Spec
CONSTANTS
  IdSpace = 2
  Capacity = 1
  MaxSessions = 1
  MaxArrivals = 0
PROPERTIES AllSessionsEnd
CHECK_DEADLOCK FALSE
