SPECIFICATION CrossingSpec
CONSTANTS
  ann = ann
  bob = bob
  cui = cui
  s1 = s1
  s2 = s2
  User <- ThreeUsers
  Server <- TwoServers
  Kind <- AllKinds
  MaxRequests = 4
  MayFail = FALSE
  CountsMatched = FALSE
  Reader = ann
  PageSize = 1
SYMMETRY Symmetric
INVARIANTS
  OneChat
  
  
  NothingSkipped
  CrossingNeedsOverlap
