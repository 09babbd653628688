SPECIFICATION SysFairSpec
CONSTANTS
  Conn = {c1}
  NoOne = NoOne
  Lines <- TypedLines
  Words <- AllWords
  Credentials <- OneUser
  Unprintable = {"ctl"}
  KeyLength <- Lengths
  MaxStore = 1
  MaxValue = 2
  MaxLine = 8
  ListHeader = 2
  MaxAttempts = 3
  MaxInFlight = 1
  MaxSent = 5
  QuitLike = {"QUIT", "QUITX"}
INVARIANTS
  AnswersItsLine
  NothingBeforeLogin
PROPERTY ClientNeverHangs
