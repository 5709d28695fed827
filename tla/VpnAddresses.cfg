SPECIFICATION VpnSpec
CONSTANTS
  NoVpnKey = NoVpnKey
  NoServer = NoServer
  VpnUsers = {ann, ben}
  VpnServers = {oslo}
  VpnCallers = {caller}
  MaxConnections = 3
  MaxSessions = 3
  MaxVpnErrors = 0
INVARIANT AddressesDistinct
CHECK_DEADLOCK FALSE
