\* Two goroutines, four messages, one subscriber, four files; MCServices explains the bounds.
CONSTANTS
  s1 = s1
  s2 = s2
  a = a
  b = b
  c = c
  d = d
  None = None
  Nobody = Nobody
  Subscribers = {s1}
  Ids = {1, 2, 3, 4, 5}
  Budgets <- ConnectsAndFaults
  FileMaxNum = 3
  FileSize = 2
  MaxEvents = 8
  MaxFaults = 2
SPECIFICATION Spec
INVARIANTS
  RabbitWakes
  
PROPERTIES
  
  ConfigIsTracked
  FilesFollowTable
  PoolIsWritten
  PromisesSettle
  StreamsFollow
CHECK_DEADLOCK FALSE
