SPECIFICATION WrapperSpec
CONSTANTS
  Sources = {a}
  MessageIds = 2
  Totals = {2}
  MaxPerSource = 1
  MaxReassemblies = 2
  TTL = 1
  MaxPackets = 2
  MaxTime = 3
  MaxCopies = 0
PROPERTIES EntriesExpire
CHECK_DEADLOCK FALSE
