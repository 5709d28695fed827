SPECIFICATION ServicesSpec
CONSTANTS
  vera = vera
  vito = vito
  t1 = t1
  t2 = t2
  VpnUsers = {vera, vito}
  VpnServers = {oslo}
  VpnCallers = {t1, t2}
  MaxConnections = 1
  MaxSessions = 2
  MaxVpnErrors = 1
  NoVpnKey = NoVpnKey
  NoServer = NoServer
  MediaIds = {audio}
  MediaTasks = {t1, t2, t3}
  MaxVersions = 3
  MaxMediaErrors = 1
  LoginTasks = {t1, t2}
  LoginMax = 2
  Window = 3
  MaxAge = 4
  Lag = 1
  MaxTime = 4
  MaxCrashes = 1
  OtpTasks = {t1, t2}
  MaxCodes = 3
  MaxTokens = 4
  MaxOtpErrors = 1
  Users = {ann, ben, cat}
  Creator = ann
  Invited = {ann, ben}
  GroupTasks = {t1, t2}
  Messages = {pin}
  MaxGroupErrors = 1
  People = {ann, ben}
  ContactTasks = {t1, t2}
  MaxContactErrors = 1
  Accounts = {vera, vito}
  Phones = {p1, p2}
  Names = {ada}
  NoName = NoName
  AccountTasks = {t1, t2}
  TokenLife = 2
  MaxAccountErrors = 1
  phone = phone  reg = reg  up = up  again = again
  k1 = k1  k2 = k2  k3 = k3
  NoPreKey = NoPreKey
  Devices = {phone}
  Uploads = {reg, up, again}
  UploadFor <- ForPhone
  Registering = {reg}
  KeysOf <- KeyBatches
  Requests = {t1, t2, t3}
  RequestFor <- OneDevice
  MaxPreKeys = 1
  OnionNodes = {n1, n2, n3}
  Correspondents = {ann, ben}
  Final = Final
  MaxHops = 3
  MaxOnions = 1
  MaxSkippedKeys = 8
  MaxSkip = 8
  NoKey = NoKey
  MaxSent = 5
  MaxKeyPairs = 4
  MaxFailures = 2
INVARIANTS
  ServicesTypeOK
  LoadCoversSessions
  SessionsBounded
  SeenExpires
  WindowLimit
  GuessesBounded
  TokensBounded
  NothingOutlivesGroup
  AcceptedAreMutual
  TokensNameDevices
  KeyGivenOnce
  WithinLimit
  RespondsUniquely
  OnlyTogether
  ReleasedOnce
  NextOpens
PROPERTIES
  ChannelSpec
  AdminlessForGood
  BlockHolds
  LockedForGood
SYMMETRY TaskSymmetry
CHECK_DEADLOCK FALSE
