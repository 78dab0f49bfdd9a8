\* Four connections on two io threads: two have to share each thread.
\* HEAD_TOTAL_LEN is 4 and MAX_SENDQUE 1000 in the code: nothing depends on the
\* number but where the cuts and the limit fall.
SPECIFICATION PartsSpec
CONSTANTS
  Clients = {c1, c2}
  MaxMessages = 3
  MaxConn = 4
  Threads = 2
  HeadLen = 2
  BodyLens = {0, 2}
  Frames = 2
  Senders = {worker, grpc}
  MaxSends = 2
  MaxSendQue = 1
INVARIANTS PartsSound  WireInOrder
PROPERTIES  ShutdownEnds 
CHECK_DEADLOCK FALSE
