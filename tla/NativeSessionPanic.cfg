SPECIFICATION Spec
CONSTANTS
  MaxSkippedKeys = 8
  MaxSkip = 8
  NoKey = NoKey
  MaxSent = 4
  MaxKeyPairs = 4
  MaxFailures = 2
INVARIANT SerializationNeverFails
CHECK_DEADLOCK FALSE
