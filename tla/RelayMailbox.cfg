SPECIFICATION Spec
CONSTANTS
  phone = phone
  m1 = m1  m2 = m2  s1 = s1  s2 = s2
  NoConn = NoConn  NoMessage = NoMessage  NoDevice = NoDevice
  Devices = {phone}
  Conns = {c1, c2}
  DeviceOf <- OneDevice
  Messages = {m1, m2}
  Senders = {s1, s2}
  Script <- TwoScripts
  Dest <- ToPhone
  Kind <- GroupAndEvent
  Overlap = FALSE
  Expiring = TRUE
  Faulty = TRUE
  MaxCrashes = 1
INVARIANT TypeOK
PROPERTY MailboxSpec
CHECK_DEADLOCK FALSE
