SPECIFICATION Spec
CONSTANTS
  Sizes = {1, 2, 3, 4}
  Pages = {1, 2, 3, 4, 5}
  PageSize = 4096
  MaxRefs = 7
INVARIANTS
  TypeOK
  NoDuplicates
  FifoKeepsLastLoaded
  LruKeepsMostRecent
  LruNoAnomaly
