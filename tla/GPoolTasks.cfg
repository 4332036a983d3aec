\* Two calls on a pool that is tuned between 1 and 2, released and rebooted.
CONSTANTS
  Caller = {c1, c2}
  Worker = {w1, w2, w3}
  NoTask = NoTask
  Nil = Nil
  Size = 2
  PreAlloc = FALSE
  Nonblocking = FALSE
  MaxBlockingTasks = 0
  ChanCap = 1
  TuneSizes = {1, 2}
  MaxReleases = 1
  Resubmit = FALSE
SPECIFICATION FairSpec
CHECK_DEADLOCK FALSE
PROPERTIES
  KeepsTasks
  RunsTasks
  ClosedPoolDrains
  
