SPECIFICATION Spec
CONSTANTS
  Clients = {c1}
  LAUNCHER = LAUNCHER
  Listens = {TRUE, FALSE}
  MaxWindows = 1
  MaxNested = 1
  MaxQueue = 1
INVARIANTS PendingAgrees IdleIsIdle StopBeforeExit
CHECK_DEADLOCK FALSE
