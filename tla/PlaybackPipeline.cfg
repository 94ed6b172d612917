SPECIFICATION FairSpec
CONSTANT Media <- MCMedia
INVARIANTS Settled Obeyed
PROPERTIES StallEnds FreedOnce
CHECK_DEADLOCK FALSE
