SPECIFICATION FairSpec
CONSTANTS
  Conn = {c1, c2}
  NoOne = NoOne
  Lines <- ContentionLines
  Words <- AllWords
  Credentials <- OneUser
  Unprintable = {"ctl"}
  KeyLength <- Lengths
  MaxStore = 1
  MaxValue = 2
  MaxLine = 8
  ListHeader = 2
  MaxAttempts = 2
  MaxInFlight = 1
  MaxSent = 3
INVARIANTS
  TypeOK
  LockoutIsFinal
PROPERTIES
  SessionEnds
  LinesAreServed
