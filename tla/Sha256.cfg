SPECIFICATION Spec
CONSTANTS
  BlockLen = 64
  MaxLen = 200
INVARIANTS
  HashesPaddedMessage
