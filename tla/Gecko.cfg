SPECIFICATION MCSpec
CONSTANTS
  a = a
  b = b
  c = c
  Sources = {a, b, c}
  MessageIds = 2
  Totals = {2, 3}
  MaxPerSource = 1
  MaxReassemblies = 2
  TTL = 0
  MaxPackets = 3
  MaxTime = 1
  MaxCopies = 1
SYMMETRY SourceSymmetry
INVARIANTS PoolBounded PacketsWhole
CHECK_DEADLOCK FALSE
