\* One key whose data has two versions and two callers; the rest of MCDiscovery at its least.
CONSTANTS
  a = a
  b = b
  v1 = v1
  v2 = v2
  n1 = n1
  n2 = n2
  n3 = n3
  Key = {k1}
  Content = {a, b}
  Node = {k1}
  Data = {a, b}
  Caller = {c1, c2}
  Runner = {r1}
  VersionOf <- VersionOfData
  Unset = Unset
  Deleted = Deleted
  NoEntry = NoEntry
  TTL = 1
  CacheChanges = 3
  Proc = {Main, Loop}
  Main = Main
  Loop = Loop
  None = None
  MaxLeases = 1
  MaxErrors = 0
  Owner = {n1}
  Reporting = {n1}
  Pushing = {n1}
  MaxCalls = 3
  Weights = {0, 3}
  HbMax = 1
  HealthChanges = 1
  Nodes <- NodeList
  Requests = {r}
  Period = 6
  NodeChanges = 0
SPECIFICATION MCSpec
INVARIANTS
  StopDoesNotPanic
CHECK_DEADLOCK FALSE
