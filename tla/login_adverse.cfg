SPECIFICATION Spec
CONSTANTS
  s1 = s1
  s2 = s2
  a1 = a1
  a2 = a2
  u1 = u1
  c1 = c1
  c2 = c2
  c3 = c3
  NoUser = NoUser
  NoServer = NoServer
  NoSession = NoSession
  Free = Free
  Orphan = Orphan
  Server = {s1, s2}
  User = {u1}
  Session = {c1, c2}
  At <- AtPair
  Of <- OneUserPair
  RpcAddr <- NamedByAddr
  LockMayExpire = TRUE
  AcquireMayFail = TRUE
  KickMayTimeOut = TRUE
  MaxLogins = 1
  MayCrash = TRUE
  MaxFaults = 1
 
PROPERTY LockOwnership
CHECK_DEADLOCK FALSE
