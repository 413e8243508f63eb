SPECIFICATION MCSpec
CONSTANTS
  k1 = k1
  f1 = f1
  f2 = f2
  f3 = f3
  a1 = a1
  a2 = a2
  v4 = v4
  w4 = w4
  v6 = v6
  site = site
  www = www
  p1 = p1
  p2 = p2
  Keys = {k1}
  FlowTasks = {f1, f2, f3}
  FlowCapacity = 2
  MaxPackets = 5
  Dests = {"0/0", "10/8", "10.1/16"}
  Covers <- CoverOf
  Tables = {202, 203}
  Blocks = {1, 2}
  RuleCount = 3
  TunConfigs <- ConfigSet
  Systems <- SystemSet
  Sources = {a1, a2}
  MaxDatagrams = 3
  MaxChunks = 2
  Addr4 = {v4, w4}
  Addr6 = {v6}
  Destinations <- DestSet
  Policies <- PolicySet
  Zones <- ZoneSet
  MaxHops = 3
  MaxSent = 2
  Servers <- ServerSet
  Clients <- ClientSet
  AclTexts <- AclTextSet
  Letters = {"a", "b"}
  MaxValue = 3
  MaxPattern = 4
  SampleSlots = 2
  MinSamples = 3
  MaxSeconds = 3
  MaxSamples = 3
  Values = {"x", "y"}
  Foreign = "z"
  MaxAuthorizations = 3
  MaxEdits = 1
  Processes = {p1, p2}
  Versions = {"v", "w"}
  MaxRuns = 2
  MaxLeases = 2
INVARIANTS HijackApplies
CHECK_DEADLOCK FALSE
