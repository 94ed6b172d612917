SPECIFICATION Spec
CONSTANTS
  Tasks = {1, 2, 3}
  Scheduled = {TRUE}
  CancellingEvents = {}
  RestartOnFailure = {TRUE}
  MaximumFailureCount = 2
INVARIANTS NoIterationAfterCancel
