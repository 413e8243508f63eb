SPECIFICATION Spec
CONSTANTS
  w1 = w1
  w2 = w2
  main = main
  c1 = c1
  c2 = c2
  c3 = c3
  c4 = c4
  c5 = c5
  Workers = {w1, w2}
  Closer = main
  Conns = {c1, c2, c3, c4, c5}
INVARIANTS ConnectionRules
PROPERTIES  ImplementsReconnecting
CHECK_DEADLOCK FALSE
