SPECIFICATION ProxySpec
CONSTANTS
  c1 = c1
  c2 = c2
  s1 = s1
  u1 = u1
  Conns = {c1, c2}
  Streams = {s1}
  Users = {u1}
  ConnOf <- StreamConn
  UserOf <- ConnUser
  QueueSize = 1
  BodySize = 1
  MaxUpload = 2
  MaxRequests = 2
  Scenarios <- AllScenarios
INVARIANTS RatesRespectBoth RelayedInOrder ForwardedAreCounted
PROPERTIES CloseEndsEverything AuthenticatedAreServed ExchangesEnd  
CHECK_DEADLOCK FALSE
