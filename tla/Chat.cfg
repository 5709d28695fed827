SPECIFICATION ChatFairSpec
CONSTANTS
  NoSocket = NoSocket
  Sockets = {s1, s2, s3}
  MaxAttempts = 10
  MaxLogins = 2
  MaxChats = 1
INVARIANTS ChatTypeOK OneConnection ShownIsKept
PROPERTY ComesBack
CHECK_DEADLOCK FALSE
