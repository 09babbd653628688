SPECIFICATION FairSpec
CONSTANTS
  NumProcesses = 3
  TimeQuantum = 2
  Workloads <- SmallWorkloads
INVARIANTS
  TypeOK
  SingleCPU
  TokenConserved
  FairShare
  ArrayOrder
  ReturnsWhenAllDone
PROPERTIES
  Terminates
  ImplementsRoundRobin
