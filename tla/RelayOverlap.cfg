SPECIFICATION FairSpec
CONSTANTS
  phone = phone
  m1 = m1  m2 = m2  s1 = s1  s2 = s2
  NoConn = NoConn  NoMessage = NoMessage  NoDevice = NoDevice
  Devices = {phone, tablet}
  Conns = {c1, c2}
  DeviceOf <- OneDevice
  Messages = {m1, m2}
  Senders = {s1}
  Script <- RetryScript
  Dest <- GroupAndPhone
  Kind <- GroupAndEvent
  Overlap = TRUE
  Expiring = FALSE
  Faulty = FALSE
  MaxCrashes = 0
INVARIANTS RegisteredIsOpen UnregisteredNeedsLinkFailure  OnlineAgrees
PROPERTIES  DeadLeavesMap
CHECK_DEADLOCK FALSE
