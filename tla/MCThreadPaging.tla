--------------------------- MODULE MCThreadPaging ---------------------------
(* Instances of ThreadPaging for TLC, with a history of crossing requests.   *)
EXTENDS ThreadPaging, TLC

CONSTANTS ann, bob, cui, s1, s2

ThreeUsers == {ann, bob, cui}
TwoServers == {s1, s2}
AllKinds   == Kinds

(* The users other than the reader, and the servers, are interchangeable.  *)
Symmetric == Permutations(User \ {Reader}) \cup Permutations(Server)

VARIABLE behind  \* the workers about to file an application whose reverse has
                 \* been filed since they looked for it

FiledMeanwhile(s) ==
  /\ pc[s] = "apply" /\ pc'[s] = "apply"
  /\ s \in behind \/ (applies[Theirs(s)] # "pending" /\ applies'[Theirs(s)] = "pending")

CrossingInit == PagingInit /\ behind = {}
CrossingNext == PagingNext /\ behind' = {s \in Server : FiledMeanwhile(s)}
CrossingSpec == CrossingInit /\ [][CrossingNext]_<<vars, pageVars, behind>>

(* An application is filed beside a pending one of the other user only if    *)
(* that one came between GetApplyState and AddFriendApply; otherwise it is   *)
(* taken for an acceptance (LogicSystem.cpp:464), and with queries that do   *)
(* not fail there is no third way.                                           *)
CrossingNeedsOverlap ==
  \A s \in Server :
    pc[s] = "apply" /\ applies[Theirs(s)] = "pending" => s \in behind
=============================================================================
