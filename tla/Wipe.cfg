SPECIFICATION FairSpec
CONSTANTS
  phone = phone  tablet = tablet  c1 = c1  c2 = c2  w1 = w1
  NoDevice = NoDevice  NoConn = NoConn  Sweeper = Sweeper
  Devices = {phone, tablet}
  Conns = {c1, c2}
  DeviceOf <- DeviceOfConn
  Wipes = {w1}
  Lists <- TwoLists
  Issuer <- FromPhone
  MaxFaults = 2
INVARIANTS TypeOK AtLeastOnce AckedIsGone
PROPERTY PendingWipeReaches
CHECK_DEADLOCK FALSE
