SPECIFICATION Spec
CONSTANTS
  Conn = {c1, c2}
  NoOne = NoOne
  Lines <- StoreLines
  Words <- AllWords
  Credentials <- OneUser
  Unprintable = {"ctl"}
  KeyLength <- Lengths
  MaxStore = 2
  MaxValue = 2
  MaxLine = 6
  ListHeader = 2
  MaxAttempts = 3
  MaxInFlight = 1
  MaxSent = 3
INVARIANTS
  UniqueKeys
  ScanStillValid
PROPERTIES
  ImplementsMap
SYMMETRY Symmetry
