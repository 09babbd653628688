SPECIFICATION Spec
CONSTANTS
  Conn = {c1}
  NoOne = NoOne
  Lines <- SessionLines
  Words <- AllWords
  Credentials <- OneUser
  Unprintable = {"ctl"}
  KeyLength <- Lengths
  MaxStore = 1
  MaxValue = 2
  MaxLine = 8
  ListHeader = 2
  MaxAttempts = 3
  MaxInFlight = 1
  MaxSent = 1
PROPERTIES
  ZeroMeansDisconnect
