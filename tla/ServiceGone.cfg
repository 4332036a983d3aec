\* Data that changes to and fro, three leases, one failed request.
CONSTANTS
  Proc = {Main, Loop}
  Main = Main
  Loop = Loop
  Node = {n1, n2}
  Data = {a, b}
  None = None
  MaxLeases = 3
  MaxErrors = 1
SPECIFICATION Spec
INVARIANTS
  GoneAfterRun
CHECK_DEADLOCK FALSE
