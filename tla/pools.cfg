SPECIFICATION Spec
CONSTANTS
  t1 = t1
  t2 = t2
  t3 = t3
  k1 = k1
  k2 = k2
  k3 = k3
  NoConn = NoConn
  NoThread = NoThread
  Threads = {t1, t2, t3}
  Conns = {k1, k2, k3}
  Made <- Made2
  Users <- Users2
  Kinds = {"chat_redis", "chat_mysql", "gate_mysql", "gate_redis", "status_redis", "stubs"}
  MaxJobs = 1
  MaxBreaks = 1
  MaxRounds = 1
INVARIANTS NotShared Conservation NoLostWakeup
PROPERTIES Served CloseReturns
CHECK_DEADLOCK FALSE
