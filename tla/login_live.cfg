SPECIFICATION FairSpec
CONSTANTS
  s1 = s1
  s2 = s2
  a1 = a1
  a2 = a2
  u1 = u1
  c1 = c1
  c2 = c2
  c3 = c3
  NoUser = NoUser
  NoServer = NoServer
  NoSession = NoSession
  Free = Free
  Orphan = Orphan
  Server = {s1, s2}
  User = {u1}
  Session = {c1, c2}
  At <- AtPair
  Of <- OneUserPair
  RpcAddr <- NamedByAddr
  LockMayExpire = FALSE
  AcquireMayFail = FALSE
  KickMayTimeOut = TRUE
  MaxLogins = 1
  MayCrash = FALSE
  MaxFaults = 1
INVARIANTS LockExclusion RegistryAgrees
PROPERTIES RegistryRefined LoginAnswered ClosedLeaves 
CHECK_DEADLOCK FALSE
