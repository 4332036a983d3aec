\* Two connections, three goroutines; MCNetwork explains the bounds.
CONSTANTS
  c1 = c1
  c2 = c2
  u1 = u1
  u2 = u2
  u3 = u3
  Users = {u1, u2, u3}
  OpsOf <- NetlinkOps
  None = None
  SeqWrap = 3
  Seeds = {1}
  QueueMax = 2
  MaxCasts = 1
  ReadDeadline = TRUE
  Caller = {c1, c2}
  Conn = {k1, k2}
  NoConn = NoConn
  Retries <- RetriesOf
  PoolSize = 1
  Nobody = Nobody
  MemUsers = {u1, u2, u3}
  EndOf <- EndOfUser
  MemOps <- MemoryOps
  Timeout = TRUE
  MemCalls = 2
  MaxData = 3
  HttpSends = 2
  Readers = {1, 2}
  Senders = {u1}
  MaxFrames = 3
  WebSends = 2
SPECIFICATION MCSpec
INVARIANTS
  
  MemoryDelivers
  
  HttpSocketOrders
  WebSocketOrders
PROPERTIES
  EveryCallEnds
CHECK_DEADLOCK FALSE
