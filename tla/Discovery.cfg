\* Two keys and two data, three nodes to pick from; MCDiscovery explains the bounds.
CONSTANTS
  a = a
  b = b
  v1 = v1
  v2 = v2
  n1 = n1
  n2 = n2
  n3 = n3
  Key = {k1, k2}
  Content = {a, b}
  Node = {k1, k2}
  Data = {a, b}
  Caller = {c1}
  Runner = {r1}
  VersionOf <- VersionOfData
  Unset = Unset
  Deleted = Deleted
  NoEntry = NoEntry
  TTL = 1
  CacheChanges = 3
  Proc = {Main, Loop}
  Main = Main
  Loop = Loop
  None = None
  MaxLeases = 3
  MaxErrors = 1
  Owner = {n1, n2, n3}
  Reporting = {n2, n3}
  Pushing = {n1, n2}
  MaxCalls = 3
  Weights = {0, 1, 3}
  HbMax = 1
  HealthChanges = 4
  Nodes <- NodeList
  Requests = {r}
  Period = 6
  NodeChanges = 1
SPECIFICATION MCSpec
INVARIANTS
  TriesDifferentNodes
PROPERTIES
  DeletedStaysDeleted
  
  NoFlapping
  CacheConverges
  KeysFollowService
  
  FailuresEnd
CHECK_DEADLOCK FALSE
