SPECIFICATION Spec
CONSTANTS
  Names = {a}
  PathOf <- TypedPaths
  SamePath = {}
  UserNames = {ann, bob}
  Groups = {staff, guest}
  Missing = Missing
  Accounts <- TypedAccounts
  PermStrings <- Perms
  Contents <- Texts
  Passphrases = {"blank", "p"}
  HashLen = 2
  MaxRead = 4
  MaxRecords = 2
  MaxAccounts = 2
  MaxEvents = 3
PROPERTIES
  MatchingAppendReadable
