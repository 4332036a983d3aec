\* Three callers that call again and again, capacity 1, Release and Reboot.
CONSTANTS
  Caller = {c1, c2, c3}
  Worker = {w1, w2, w3}
  NoTask = NoTask
  Nil = Nil
  Size = 1
  PreAlloc = FALSE
  Nonblocking = FALSE
  MaxBlockingTasks = 1
  ChanCap = 1
  TuneSizes = {0, 1}
  MaxReleases = 2
  Resubmit = TRUE
SYMMETRY Symmetric
SPECIFICATION MCSpec
CHECK_DEADLOCK FALSE
INVARIANTS
  TypeOK
  SendRightIsExclusive
  
  RunningCountsWorkers
  BlockingIsBounded
  ClosedPoolHasNoIdleWorkers
