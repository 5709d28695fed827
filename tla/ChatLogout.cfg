SPECIFICATION ChatSpec
CONSTANTS
  NoSocket = NoSocket
  Sockets = {s1, s2, s3}
  MaxAttempts = 3
  MaxLogins = 1
  MaxChats = 1
INVARIANT LoggedOutClean
CHECK_DEADLOCK FALSE
