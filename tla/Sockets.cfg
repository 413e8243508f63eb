SPECIFICATION HopSpec
CONSTANTS
  s1 = s1
  s2 = s2
  Senders = {s1, s2}
  Capacity = 1
  MaxHops = 2
  MaxArrivals = 2
INVARIANTS NoSleepOverWork BlockedOnlyWhenFull
PROPERTIES WakeupsArrive OverlapLosesNothing WokenReadsCurrent
CHECK_DEADLOCK FALSE
