SPECIFICATION LeavingSpec
CONSTANTS
  Clients = {c1}
  LAUNCHER = LAUNCHER
  Listens = {TRUE, FALSE}
  MaxWindows = 1
  MaxNested = 1
  MaxQueue = 0
PROPERTIES ExitTerminates ImplicitExitHappens
CHECK_DEADLOCK FALSE
CONSTRAINT NotOvertaken
