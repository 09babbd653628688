\* The unsafe build really stops, in its circular wait.
CHECK_DEADLOCK FALSE
SPECIFICATION FairSpec
CONSTANTS
  NumThreads = 4
  RunsB = {1, 3}
INVARIANTS
  SafeBuildNeverCircular
PROPERTIES
  DeadlockIsForever
  CompletesOrDeadlocks
