\* Reboot right after Release: the old scavenger lives on.
CONSTANTS
  Worker = {w1, w2, w3}
  None = None
  Scavengers = 2
  RebootWaits = FALSE
SPECIFICATION Spec
INVARIANTS
  PurgedWorkersAreTold
CHECK_DEADLOCK FALSE
