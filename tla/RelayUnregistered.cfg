SPECIFICATION Spec
CONSTANTS
  phone = phone
  m1 = m1  m2 = m2  s1 = s1  s2 = s2
  NoConn = NoConn  NoMessage = NoMessage  NoDevice = NoDevice
  Devices = {phone}
  Conns = {c1, c2}
  DeviceOf <- OneDevice
  Messages = {m1, m2}
  Senders = {s1, s2}
  Script <- TwoScripts
  Dest <- ToPhone
  Kind <- AllDirect
  Overlap = TRUE
  Expiring = FALSE
  Faulty = FALSE
  MaxCrashes = 0
INVARIANT ConnectedIsRegistered
CHECK_DEADLOCK FALSE
