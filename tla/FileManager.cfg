SPECIFICATION Spec
CONSTANTS
  Names = {a, b, c}
  PathOf <- TypedPaths
  SamePath = {b, c}
  UserNames = {ann, bob}
  Groups = {staff, guest}
  Missing = Missing
  Accounts <- TypedAccounts
  PermStrings <- Perms
  Contents <- Texts
  Passphrases = {"blank", "p"}
  HashLen = 2
  MaxRead = 4
  MaxRecords = 2
  MaxAccounts = 2
  MaxEvents = 4
INVARIANTS
  TypeOK
  UniqueRecords
  StoresAgree
  AuditExplainsFiles
  Recoverable
  ReadsBack
PROPERTIES
  OnlyWritersChange
SYMMETRY Symmetry
