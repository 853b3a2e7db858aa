CONSTANTS
  p1 = p1
  p2 = p2
  p3 = p3
  p4 = p4
  Proc = {p1, p2, p3, p4}
  Boot = Boot
  NULL = NULL
  MaxPriority = 2
  LowPriority = 1
  SpawnPriority <- UpperPriorities
  SpawnFlags <- Supervisor
  ClientCalls = {"spawn", "sti"}
SPECIFICATION FairSpec
PROPERTY TopQueueServed
CHECK_DEADLOCK FALSE
