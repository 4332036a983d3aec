\* Three workers, two elements, two goroutines, two listeners; the bounds of the structures
\* that the configuration does not name are in MCContainers.
CONSTANTS
  Procs = {g, h}
  Listeners = {l1, l2}
  None = None
  Priorities = {0, 2}
  Budgets <- AddOrRemove
  Worker = {w1, w2, w3}
  Nil = Nil
  RingSize = 2
  RingExpiry = 1
  RingChanCap = 1
  RingTime = 2
  Scavengers = 2
  RebootWaits = TRUE
  Callers = {g, h}
  States = {0, 1, 2}
  statusAny = 9
  Transitions <- TwoEvents
  Checked = {0, 1}
  Entered = {1}
  MaxCalls = 5
  Elem = {a, b}
SPECIFICATION MCSpec
SYMMETRY Symmetry
INVARIANTS
  PurgedWorkersAreTold
  EventsAreAtomic
  FiringIsSnapshot
PROPERTIES
  StackIsExact
  RingIsQueue
  DequeIsSequence
  SlabIsStream
  
CHECK_DEADLOCK FALSE
