\* Two callers on a pool of capacity 1.
CONSTANTS
  Caller = {c1, c2}
  Worker = {w1, w2}
  NoTask = NoTask
  Nil = Nil
  Size = 1
  PreAlloc = FALSE
  Nonblocking = FALSE
  MaxBlockingTasks = 0
  ChanCap = 1
  TuneSizes = {}
  MaxReleases = 0
  Resubmit = TRUE
SPECIFICATION Spec
CHECK_DEADLOCK FALSE
INVARIANTS
  RunningWithinCapacity
