SPECIFICATION FairSpec
CONSTANTS
  ann = ann
  bob = bob
  cui = cui
  s1 = s1
  s2 = s2
  User <- TwoUsers
  Server <- TwoServers
  Kind <- AllKinds
  MaxRequests = 4
  MayFail = TRUE
  CountsMatched = TRUE
INVARIANTS FriendSymmetric AnswerHonest
 
