SPECIFICATION FairSpec
CONSTANTS
  Loops = {l1, l2}
  Apps = {r1, r2}
  Waits = {w1}
  Relays = {y1, y2}
  MAIN = MAIN
  EVENT = EVENT
  NONE = NONE
INVARIANTS LoopsOnStack
PROPERTIES StartsInOrder EverythingRuns LeavingLoopLeft
