SPECIFICATION Spec
CONSTANTS
  Conn = {c1}
  NoOne = NoOne
  Lines <- ThreeKeys
  Words <- AllWords
  Credentials <- OneUser
  Unprintable = {"ctl"}
  KeyLength <- Lengths
  MaxStore = 2
  MaxValue = 2
  MaxLine = 8
  ListHeader = 2
  MaxAttempts = 3
  MaxInFlight = 1
  MaxSent = 4
PROPERTIES
  AckedPutStored
