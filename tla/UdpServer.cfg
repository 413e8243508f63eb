SPECIFICATION Spec
CONSTANTS
  s1 = s1
  s2 = s2
  SessionIds = {s1, s2}
  Capacity = 1
  MaxTokens = 4
  MaxArrivals = 4
  MaxReplies = 1
INVARIANTS TableMatchesTasks OneTaskPerSession
PROPERTIES SessionEndings
CHECK_DEADLOCK FALSE
