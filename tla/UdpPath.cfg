SPECIFICATION Spec
CONSTANTS
  s1 = s1
  s2 = s2
  a1 = a1
  Sessions = {s1, s2}
  Addresses = {a1}
  HeaderSize = 1
  MaxFragments = 3
  Lengths = {0, 2, 4}
  MaxSizes = {1, 2, 3}
  MaxUdpSize = 5
  PacketIdSpace = 3
  MaxMessages = 3
  MaxNumbered = 3
INVARIANTS HarmOnlyAtTurn
PROPERTIES ImplementsService
SYMMETRY SessionSymmetry
CHECK_DEADLOCK FALSE
