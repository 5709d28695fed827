SPECIFICATION Spec
CONSTANTS
  MaxSkippedKeys = 2
  MaxSkip = 2
  NoKey = NoKey
  MaxSent = 5
  MaxKeyPairs = 3
  MaxLate = 1
INVARIANTS TypeOK KeysUnique ForwardSecrecy Deliverable
CHECK_DEADLOCK FALSE
