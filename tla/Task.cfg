SPECIFICATION FairSpec
CONSTANTS
  Threads = {w1, w2}
  Executor = w1
  Channels = {"value", "progress"}
  Values = {v1}
  NULL = NULL
  RESULT = RESULT
  ReentrantListeners = FALSE
INVARIANTS CoalescedUpdates EventsOnce ConclusionAgrees
PROPERTIES FollowsLifecycle UpdatesDelivered ConclusionObserved
