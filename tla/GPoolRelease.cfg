\* Two calls on a pool of capacity 1 that is released.
CONSTANTS
  Caller = {c1, c2}
  Worker = {w1, w2}
  NoTask = NoTask
  Nil = Nil
  Size = 1
  PreAlloc = FALSE
  Nonblocking = FALSE
  MaxBlockingTasks = 0
  ChanCap = 1
  TuneSizes = {}
  MaxReleases = 1
  Resubmit = FALSE
SPECIFICATION FairSpec
CHECK_DEADLOCK FALSE
PROPERTIES
  ReleaseFreesWaiters
