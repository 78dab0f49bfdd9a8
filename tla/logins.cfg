SPECIFICATION SystemSpec
CONSTANTS
  a = a
  b = b
  n1 = n1
  e1 = e1
  e2 = e2
  p1 = p1
  p2 = p2
  NoName = NoName
  NoAddr = NoAddr
  NoPwd = NoPwd
  t1 = t1
  t2 = t2
  NoThread = NoThread
  s1 = s1
  u1 = u1
  c1 = c1
  c2 = c2
  NoUser = NoUser
  NoServer = NoServer
  NoSession = NoSession
  Free = Free
  Orphan = Orphan
  Threads = {t1, t2}
  servers <- ThreeServers
  Full = 9
  Loads = {0, 1}
  MaxCalls = 2
  MaxMisses = 1
  Server = {s1}
  User = {u1}
  Session = {c1, c2}
  RpcAddr <- NamedOne
  At <- AtOne
  Of <- OfOne
  LockMayExpire = FALSE
  AcquireMayFail = FALSE
  KickMayTimeOut = FALSE
  MaxLogins = 1
  MayCrash = TRUE
  MaxMishaps = 2
  Client = {a, b}
  Name = {n1}
  Addr = {e1, e2}
  Pwd = {p1, p2}
  Reads <- OwnMail
  MaxRequests = 5
  MaxFaults = 1
SYMMETRY SwapPwds
INVARIANTS
  LastMailWorks
  CodesExpire
  TicketHonoured
  ProfileFresh
  PickedLeast
  SingleSession
PROPERTY SetByOwner
CHECK_DEADLOCK FALSE
