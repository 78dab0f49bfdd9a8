SPECIFICATION Spec
CONSTANTS
  ann = ann
  bob = bob
  s1 = s1
  s2 = s2
  rpc1 = rpc1
  rpc2 = rpc2
  NoServer = NoServer
  Sender <- Askers
  Receiver <- Asked
  Server <- TwoServers
  RpcAddr <- RpcPorts
  ClientAddr <- RpcPorts
  Kind <- TextOnly
  MaxRequests = 1
  MaxMoves = 1
  MaxFaults = 0
PROPERTY TextReaches
CHECK_DEADLOCK FALSE
