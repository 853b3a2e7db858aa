CONSTANTS
  p1 = p1
  p2 = p2
  p3 = p3
  p4 = p4
  Proc = {p1, p2, p3, p4}
  Boot = Boot
  NULL = NULL
  MaxPriority = 2
  LowPriority = 1
  SpawnPriority <- AnyPriority
  SpawnFlags <- Supervisor
  ClientCalls <- AllCalls
SPECIFICATION Spec
SYMMETRY ProcSymmetry
INVARIANTS TypeOK RingInv SpawnNotInterrupted SwitchFindsProcess IdsDistinct NoThreadDuplicated
PROPERTIES ValidSpawnRestores ImplementsRoundRobin
CHECK_DEADLOCK FALSE
