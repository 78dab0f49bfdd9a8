SPECIFICATION FairSpec
CONSTANTS
  ann = ann
  bob = bob
  s1 = s1
  s2 = s2
  rpc1 = rpc1
  rpc2 = rpc2
  NoServer = NoServer
  Sender <- Askers
  Receiver <- Asked
  Server <- TwoServers
  RpcAddr <- RpcPorts
  ClientAddr <- RpcPorts
  Kind <- ThreeKinds
  MaxRequests = 2
  MaxMoves = 2
  MaxFaults = 1
INVARIANTS OnceOnly InOrder
PROPERTIES ApplyReaches RequestAnswered
CHECK_DEADLOCK FALSE
