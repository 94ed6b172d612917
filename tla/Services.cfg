SPECIFICATION FairSpec
CONSTANTS
  Tasks = {1, 2, 3}
  Scheduled = {TRUE, FALSE}
  CancellingEvents = {"SCHEDULED", "RUNNING", "SUCCEEDED", "FAILED"}
  RestartOnFailure = {TRUE, FALSE}
  MaximumFailureCount = 2
INVARIANTS OneRunAtATime MirrorsCurrentTask StopsWhenCancelled
PROPERTIES ScheduledRunHappens
