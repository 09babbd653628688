SPECIFICATION FairSpec
CONSTANTS
  NumThreads = 3
  IncrementsPerThread = 2
INVARIANTS
  TypeOK
  NoStaleSafeUpdate
  SafeMatchesExpected
  UnsafeWithinBounds
PROPERTY Reports
