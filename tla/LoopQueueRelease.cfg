CONSTANTS
  Worker = {w1, w2}
  None = None
  Size = 2
  Duration = 1
  ChanCap = 1
  MaxTime = 1
SPECIFICATION FairSpec
PROPERTIES
  ReleaseEnds
CHECK_DEADLOCK FALSE
