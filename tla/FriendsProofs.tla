---------------------------- MODULE FriendsProofs ----------------------------
(* Machine-checked proofs about Friends and, at the end, ThreadPaging, for    *)
(* any number of users, servers and requests and any page size, with or       *)
(* without failing statements.  MCThreadPaging is extended for the history of *)
(* crossing requests it declares; none of its small sets is used.             *)
EXTENDS MCThreadPaging, FiniteSetTheorems, TLAPS

(* The two directions and the pair of a request.                              *)
LEMMA Directions ==
  ASSUME TypeOK, NEW s \in Server, pc[s] # "idle"
  PROVE  /\ req[s] \in Request
         /\ Mine(s) \in Direction /\ Theirs(s) \in Direction
         /\ Pair(s) \in Couple
         /\ Theirs(s) = <<Mine(s)[2], Mine(s)[1]>>
<1>1. req[s] \in Request /\ req[s].me \in User /\ req[s].other \in User
      /\ req[s].me # req[s].other
  BY DEF TypeOK, Request
<1>2. Mine(s) \in Direction /\ Theirs(s) \in Direction
  BY <1>1 DEF Mine, Theirs, Direction
<1>3. Pair(s) = {Mine(s)[1], Mine(s)[2]}
  BY DEF Pair, Mine
<1> QED
  BY <1>1, <1>2, <1>3 DEF Couple, Mine, Theirs

LEMMA InitTypeOK == Init => TypeOK
BY ConstantsAssumption DEF Init, TypeOK, Status, Place, Reply

LEMMA NextTypeOK == TypeOK /\ [Next]_vars => TypeOK'
<1> SUFFICES ASSUME TypeOK, [Next]_vars PROVE TypeOK'
  OBVIOUS
<1>1. ASSUME NEW s \in Server, Take(s) PROVE TypeOK'
  <2>1. PICK r \in Request :
          /\ r.kind \in Kind
          /\ req' = [req EXCEPT ![s] = r]
          /\ pc' = [pc EXCEPT ![s] = First[r.kind]]
          /\ wished' = IF r.kind \in {"add", "agree"}
                       THEN wished \cup {<<r.me, r.other>>}
                       ELSE wished
    BY <1>1 DEF Take, Goto
  <2>2. r.kind \in Kinds /\ <<r.me, r.other>> \in Direction
    BY DEF Request, Direction
  <2>3. First[r.kind] \in Place \ {"open"}
    BY <2>2 DEF First, Kinds, Place
  <2>4. pc' \in [Server -> Place] /\ wished' \subseteq Direction
    BY <2>1, <2>2, <2>3 DEF TypeOK
  <2>5. /\ req' \in [Server -> Request \cup {NoRequest}]
        /\ \A t \in Server : pc'[t] # "idle" => req'[t] \in Request
    BY <2>1 DEF TypeOK
  <2>6. \A t \in Server : pc'[t] = "open" => thread'[t] # 0
    BY <1>1, <2>1, <2>3 DEF Take, TypeOK
  <2> QED
    BY <1>1, <2>4, <2>5, <2>6 DEF Take, TypeOK, Reply, tables, tx
<1>2. ASSUME NEW s \in Server, CheckFriend(s) PROVE TypeOK'
  BY <1>2, Directions DEF TypeOK, CheckFriend, Goto, Answer, Place, Reply,
    tables, local, tx
<1>3. ASSUME NEW s \in Server, GetApplyState(s) PROVE TypeOK'
  BY <1>3, Directions DEF TypeOK, GetApplyState, Goto, Place, tables, local,
    tx
<1>4. ASSUME NEW s \in Server, AddFriendApply(s) PROVE TypeOK'
  BY <1>4, Directions DEF TypeOK, AddFriendApply, Goto, Answer, Place, Reply,
    tx, Status
<1>5. ASSUME NEW s \in Server, AuthFriendApply(s) PROVE TypeOK'
  BY <1>5, Directions DEF TypeOK, AuthFriendApply, Goto, Answer, Updated,
    Place, Reply, local, tx, Status
<1>6. ASSUME NEW s \in Server, RejectFriendApply(s) PROVE TypeOK'
  BY <1>6, Directions DEF TypeOK, RejectFriendApply, Goto, Answer, Updated,
    Place, Reply, tx, Status
<1>7. ASSUME NEW s \in Server, InsertMine(s) PROVE TypeOK'
  BY <1>7, Directions DEF TypeOK, InsertMine, Goto, Place, tables, local
<1>8. ASSUME NEW s \in Server, InsertTheirs(s) PROVE TypeOK'
  BY <1>8, Directions DEF TypeOK, InsertTheirs, Goto, Place, tables, local
<1>9. ASSUME NEW s \in Server, SelectThread(s) PROVE TypeOK'
  BY <1>9, Directions DEF TypeOK, SelectThread, Goto, AfterThread, Rows, Chat,
    Place, tables
<1>10. ASSUME NEW s \in Server, AllocThread(s) PROVE TypeOK'
  BY <1>10, Directions DEF TypeOK, AllocThread, Goto, Place, tables, tx
<1>11. ASSUME NEW s \in Server, OpenThread(s) PROVE TypeOK'
  <2>1. thread[s] \in Nat \ {0}
    BY <1>11 DEF OpenThread, TypeOK
  <2>2. [id |-> thread[s], pair |-> Pair(s)] \in Chat
    BY <1>11, <2>1, Directions DEF OpenThread, Chat
  <2>3. wchat' \in [Server -> SUBSET Chat]
    BY <1>11, <2>2 DEF OpenThread, TypeOK
  <2> QED
    BY <1>11, <2>3 DEF OpenThread, TypeOK, Goto, AfterThread, Place, tables,
      local
<1>12. ASSUME NEW s \in Server, Greet(s) PROVE TypeOK'
  BY <1>12, Directions DEF TypeOK, Greet, Goto, Place, tables, local
<1>13. ASSUME NEW s \in Server, Commit(s) PROVE TypeOK'
  BY <1>13, Directions DEF TypeOK, Commit, Goto, Answer, EndTx, Place, Reply
<1>14. ASSUME NEW s \in Server, Rollback(s) PROVE TypeOK'
  <2>1. /\ pc' = [pc EXCEPT ![s] = "reply"] /\ pc[s] # "idle"
        /\ res' = [res EXCEPT ![s] = "RPCFailed"]
    BY <1>14 DEF Rollback, Answer, Goto, InTx
  <2> QED
    BY <1>14, <2>1 DEF TypeOK, Rollback, Answer, EndTx, Place, Reply, tables
<1>15. ASSUME NEW s \in Server, SendReply(s) PROVE TypeOK'
  BY <1>15, Directions DEF TypeOK, SendReply, Goto, Place, tables, local, tx
<1>16. CASE UNCHANGED vars
  BY <1>16 DEF TypeOK, vars, tables, local, tx
<1> QED
  BY <1>1, <1>2, <1>3, <1>4, <1>5, <1>6, <1>7, <1>8, <1>9, <1>10, <1>11,
    <1>12, <1>13, <1>14, <1>15, <1>16 DEF Next, Statement, Quiet

(* Every reachable state is typed.                                            *)
THEOREM TypeCorrect == Spec => []TypeOK
BY InitTypeOK, NextTypeOK, PTL DEF Spec

-----------------------------------------------------------------------------
(* A step is a step of one worker: the others keep all they have, and rows    *)
(* are never deleted.                                                         *)
Untouched(t) ==
  /\ pc'[t] = pc[t] /\ req'[t] = req[t] /\ thread'[t] = thread[t]
  /\ locked'[t] = locked[t] /\ wfriend'[t] = wfriend[t]
  /\ wchat'[t] = wchat[t] /\ wgreet'[t] = wgreet[t]

Kept ==
  /\ friend \subseteq friend' /\ chats \subseteq chats'
  /\ greetings \subseteq greetings' /\ wished \subseteq wished'

LEMMA OneWorker ==
  ASSUME TypeOK, NEW s \in Server, Take(s) \/ Statement(s)
  PROVE  Kept /\ \A t \in Server \ {s} : Untouched(t)
<1>1. CASE Take(s)
  BY <1>1 DEF TypeOK, Kept, Untouched, Take, Goto, First, Request, tables, tx,
    local
<1>2. CASE CheckFriend(s)
  BY <1>2 DEF TypeOK, Kept, Untouched, CheckFriend, Goto, Answer, tables,
    local, tx
<1>3. CASE GetApplyState(s)
  BY <1>3 DEF TypeOK, Kept, Untouched, GetApplyState, Goto, tables, local, tx
<1>4. CASE AddFriendApply(s)
  BY <1>4 DEF TypeOK, Kept, Untouched, AddFriendApply, Goto, Answer, tx, local
<1>5. CASE AuthFriendApply(s)
  BY <1>5 DEF TypeOK, Kept, Untouched, AuthFriendApply, Goto, Answer, Updated,
    Affected, local, tx
<1>6. CASE RejectFriendApply(s)
  BY <1>6 DEF TypeOK, Kept, Untouched, RejectFriendApply, Goto, Answer,
    Updated, tx, local
<1>7. CASE InsertMine(s)
  BY <1>7 DEF TypeOK, Kept, Untouched, InsertMine, Goto, tables, local
<1>8. CASE InsertTheirs(s)
  BY <1>8 DEF TypeOK, Kept, Untouched, InsertTheirs, Goto, tables, local
<1>9. CASE SelectThread(s)
  BY <1>9 DEF TypeOK, Kept, Untouched, SelectThread, Goto, AfterThread,
    tables, local
<1>10. CASE AllocThread(s)
  BY <1>10 DEF TypeOK, Kept, Untouched, AllocThread, Goto, tables, tx, local
<1>11. CASE OpenThread(s)
  BY <1>11 DEF TypeOK, Kept, Untouched, OpenThread, Goto, AfterThread, tables,
    local
<1>12. CASE Greet(s)
  BY <1>12 DEF TypeOK, Kept, Untouched, Greet, Goto, tables, local
<1>13. CASE Commit(s)
  BY <1>13 DEF TypeOK, Kept, Untouched, Commit, Goto, Answer, EndTx, local
<1>14. CASE Rollback(s)
  BY <1>14 DEF TypeOK, Kept, Untouched, Rollback, Goto, Answer, EndTx, tables,
    local
<1>15. CASE SendReply(s)
  BY <1>15 DEF TypeOK, Kept, Untouched, SendReply, Goto, tables, local, tx
<1> QED
  BY <1>1, <1>2, <1>3, <1>4, <1>5, <1>6, <1>7, <1>8, <1>9, <1>10, <1>11,
    <1>12, <1>13, <1>14, <1>15 DEF Statement

-----------------------------------------------------------------------------
(* Friendship is mutual and wished.                                           *)

\* Where a worker can be for each kind of request.
Kinded(s) ==
  /\ pc[s] \in {"check", "state", "apply"} => req[s].kind = "add"
  /\ pc[s] \in {"auth", "mine", "theirs", "greet"} =>
       req[s].kind \in {"add", "agree"}
  /\ pc[s] = "reject" => req[s].kind = "refuse"
  /\ pc[s] \in InTx => req[s].kind # "refuse"

Befriending(s) == pc[s] \in InTx /\ req[s].kind # "chat"

\* What a transaction has inserted into friend, place by place.
MutualTx(s) ==
  /\ ~Befriending(s) \/ pc[s] = "mine" => wfriend[s] = {}
  /\ Befriending(s) => wfriend[s] \subseteq {Mine(s), Theirs(s)}
  /\ Befriending(s) /\ pc[s] # "mine" => Mine(s) \in friend \cup wfriend[s]
  /\ Befriending(s) /\ pc[s] \notin {"mine", "theirs"} =>
       Theirs(s) \in friend \cup wfriend[s]

\* Who has asked for what by then.
ConsentTx(s) ==
  /\ pc[s] # "idle" /\ req[s].kind \in {"add", "agree"} => Mine(s) \in wished
  /\ Befriending(s) => Theirs(s) \in wished

AppliedWished == \A d \in Direction : applies[d] # "none" => d \in wished

FriendInv ==
  /\ \A s \in Server : Kinded(s) /\ MutualTx(s) /\ ConsentTx(s)
  /\ AppliedWished /\ FriendSymmetric /\ Consent

LEMMA FriendFrame ==
  ASSUME NEW t \in Server, Kinded(t), MutualTx(t), ConsentTx(t), Kept,
         Untouched(t)
  PROVE  Kinded(t)' /\ MutualTx(t)' /\ ConsentTx(t)'
BY DEF Kinded, MutualTx, ConsentTx, Befriending, Kept, Untouched, Mine, Theirs

LEMMA NextFriendInv == TypeOK /\ FriendInv /\ [Next]_vars => FriendInv'
<1> SUFFICES ASSUME TypeOK, FriendInv, [Next]_vars PROVE FriendInv'
  OBVIOUS
<1> DEFINE At(s) == Kinded(s) /\ MutualTx(s) /\ ConsentTx(s)
<1> DEFINE Whole == AppliedWished /\ FriendSymmetric /\ Consent
<1>1. ASSUME NEW s \in Server, Take(s) PROVE At(s)' /\ Whole'
  <2>1. PICK r \in Request :
          /\ req' = [req EXCEPT ![s] = r]
          /\ pc' = [pc EXCEPT ![s] = First[r.kind]]
          /\ wished' = IF r.kind \in {"add", "agree"}
                       THEN wished \cup {<<r.me, r.other>>}
                       ELSE wished
    BY <1>1 DEF Take, Goto
  <2>2. req'[s] = r /\ pc'[s] = First[r.kind] /\ r.kind \in Kinds
    BY <2>1 DEF TypeOK, Request
  <2>3. pc'[s] = CASE r.kind = "add" -> "check" [] r.kind = "agree" -> "auth"
                   [] r.kind = "refuse" -> "reject" [] OTHER -> "select"
    BY <2>2 DEF First, Kinds
  <2>4. wfriend' = wfriend /\ friend' = friend /\ applies' = applies
        /\ wfriend[s] = {}
    BY <1>1 DEF Take, tables, tx, FriendInv, MutualTx, Befriending, InTx
  <2>5. Kinded(s)' /\ ~Befriending(s)'
    BY <2>2, <2>3 DEF Kinds, Kinded, Befriending, InTx
  <2>6. MutualTx(s)' /\ ConsentTx(s)'
    BY <2>1, <2>2, <2>4, <2>5 DEF MutualTx, ConsentTx, Mine
  <2>7. Whole'
    BY <2>1, <2>4 DEF FriendInv, AppliedWished, FriendSymmetric, Consent
  <2> QED
    BY <2>5, <2>6, <2>7
<1>2. ASSUME NEW s \in Server, CheckFriend(s) PROVE At(s)' /\ Whole'
  <2>1. Kinded(s)'
    BY <1>2, Directions DEF FriendInv, TypeOK, Kinded, InTx, Request, Kinds,
      CheckFriend, Goto, Answer, tables, local, tx
  <2>2. MutualTx(s)'
    BY <1>2, <2>1, Directions DEF FriendInv, TypeOK, Kinded, MutualTx,
      Befriending, InTx, Mine, Theirs, CheckFriend, Goto, Answer, tables,
      local, tx
  <2>3. ConsentTx(s)'
    BY <1>2, <2>1, Directions DEF FriendInv, TypeOK, Kinded, ConsentTx,
      AppliedWished, Befriending, InTx, Mine, Theirs, CheckFriend, Goto,
      Answer, tables, local, tx
  <2>4. Whole'
    BY <1>2 DEF FriendInv, AppliedWished, FriendSymmetric, Consent,
      CheckFriend, tables
  <2> QED
    BY <2>1, <2>2, <2>3, <2>4
<1>3. ASSUME NEW s \in Server, GetApplyState(s) PROVE At(s)' /\ Whole'
  <2>1. Kinded(s)'
    BY <1>3, Directions DEF FriendInv, TypeOK, Kinded, InTx, Request, Kinds,
      GetApplyState, Goto, tables, local, tx
  <2>2. MutualTx(s)'
    BY <1>3, <2>1, Directions DEF FriendInv, TypeOK, Kinded, MutualTx,
      Befriending, InTx, Mine, Theirs, GetApplyState, Goto, tables, local, tx
  <2>3. ConsentTx(s)'
    BY <1>3, <2>1, Directions DEF FriendInv, TypeOK, Kinded, ConsentTx,
      AppliedWished, Befriending, InTx, Mine, Theirs, GetApplyState, Goto,
      tables, local, tx
  <2>4. Whole'
    BY <1>3 DEF FriendInv, AppliedWished, FriendSymmetric, Consent,
      GetApplyState, tables
  <2> QED
    BY <2>1, <2>2, <2>3, <2>4
<1>4. ASSUME NEW s \in Server, AddFriendApply(s) PROVE At(s)' /\ Whole'
  <2>1. Kinded(s)'
    BY <1>4, Directions DEF FriendInv, TypeOK, Kinded, InTx, Request, Kinds,
      AddFriendApply, Goto, Answer, tx
  <2>2. MutualTx(s)'
    BY <1>4, <2>1, Directions DEF FriendInv, TypeOK, Kinded, MutualTx,
      Befriending, InTx, Mine, Theirs, AddFriendApply, Goto, Answer, tx
  <2>3. ConsentTx(s)'
    BY <1>4, <2>1, Directions DEF FriendInv, TypeOK, Kinded, ConsentTx,
      AppliedWished, Befriending, InTx, Mine, Theirs, AddFriendApply, Goto,
      Answer, tx
  <2>4. Mine(s) \in wished
    BY <1>4 DEF AddFriendApply, FriendInv, Kinded, ConsentTx
  <2>5. /\ applies' \in {applies, [applies EXCEPT ![Mine(s)] = "pending"]}
        /\ friend' = friend /\ wished' = wished
    BY <1>4 DEF AddFriendApply
  <2>6. Whole'
    BY <2>4, <2>5 DEF FriendInv, TypeOK, AppliedWished, FriendSymmetric,
      Consent
  <2> QED
    BY <2>1, <2>2, <2>3, <2>6
<1>5. ASSUME NEW s \in Server, AuthFriendApply(s) PROVE At(s)' /\ Whole'
  <2>1. Kinded(s)'
    BY <1>5, Directions DEF FriendInv, TypeOK, Kinded, InTx, Request, Kinds,
      AuthFriendApply, Goto, Answer, Updated, Affected, local, tx
  <2>2. MutualTx(s)'
    BY <1>5, <2>1, Directions DEF FriendInv, TypeOK, Kinded, MutualTx,
      Befriending, InTx, Mine, Theirs, AuthFriendApply, Goto, Answer, Updated,
      Affected, local, tx
  <2>3. ConsentTx(s)'
    BY <1>5, <2>1, Directions DEF FriendInv, TypeOK, Kinded, ConsentTx,
      AppliedWished, Befriending, InTx, Mine, Theirs, AuthFriendApply, Goto,
      Answer, Updated, Affected, local, tx
  <2>4. Whole'
    BY <1>5, Directions DEF FriendInv, TypeOK, Kinded, MutualTx, ConsentTx,
      Befriending, InTx, AppliedWished, FriendSymmetric, Consent, Mine,
      Theirs, AuthFriendApply, Goto, Answer, Updated, Affected, local, tx
  <2> QED
    BY <2>1, <2>2, <2>3, <2>4
<1>6. ASSUME NEW s \in Server, RejectFriendApply(s) PROVE At(s)' /\ Whole'
  <2>1. Kinded(s)'
    BY <1>6, Directions DEF FriendInv, TypeOK, Kinded, InTx, Request, Kinds,
      RejectFriendApply, Goto, Answer, Updated, tx
  <2>2. MutualTx(s)'
    BY <1>6, <2>1, Directions DEF FriendInv, TypeOK, Kinded, MutualTx,
      Befriending, InTx, Mine, Theirs, RejectFriendApply, Goto, Answer,
      Updated, tx
  <2>3. ConsentTx(s)'
    BY <1>6, <2>1, Directions DEF FriendInv, TypeOK, Kinded, ConsentTx,
      AppliedWished, Befriending, InTx, Mine, Theirs, RejectFriendApply, Goto,
      Answer, Updated, tx
  <2>4. Whole'
    BY <1>6, Directions DEF FriendInv, TypeOK, Kinded, MutualTx, ConsentTx,
      Befriending, InTx, AppliedWished, FriendSymmetric, Consent, Mine,
      Theirs, RejectFriendApply, Goto, Answer, Updated, tx
  <2> QED
    BY <2>1, <2>2, <2>3, <2>4
<1>7. ASSUME NEW s \in Server, InsertMine(s) PROVE At(s)' /\ Whole'
  <2>1. Kinded(s)'
    BY <1>7, Directions DEF FriendInv, TypeOK, Kinded, InTx, Request, Kinds,
      InsertMine, Goto, tables, local
  <2>2. MutualTx(s)'
    BY <1>7, <2>1, Directions DEF FriendInv, TypeOK, Kinded, MutualTx,
      Befriending, InTx, Mine, Theirs, InsertMine, Goto, tables, local
  <2>3. ConsentTx(s)'
    BY <1>7, <2>1, Directions DEF FriendInv, TypeOK, Kinded, ConsentTx,
      AppliedWished, Befriending, InTx, Mine, Theirs, InsertMine, Goto,
      tables, local
  <2>4. Whole'
    BY <1>7 DEF FriendInv, AppliedWished, FriendSymmetric, Consent,
      InsertMine, tables
  <2> QED
    BY <2>1, <2>2, <2>3, <2>4
<1>8. ASSUME NEW s \in Server, InsertTheirs(s) PROVE At(s)' /\ Whole'
  <2>1. Kinded(s)'
    BY <1>8, Directions DEF FriendInv, TypeOK, Kinded, InTx, Request, Kinds,
      InsertTheirs, Goto, tables, local
  <2>2. MutualTx(s)'
    BY <1>8, <2>1, Directions DEF FriendInv, TypeOK, Kinded, MutualTx,
      Befriending, InTx, Mine, Theirs, InsertTheirs, Goto, tables, local
  <2>3. ConsentTx(s)'
    BY <1>8, <2>1, Directions DEF FriendInv, TypeOK, Kinded, ConsentTx,
      AppliedWished, Befriending, InTx, Mine, Theirs, InsertTheirs, Goto,
      tables, local
  <2>4. Whole'
    BY <1>8 DEF FriendInv, AppliedWished, FriendSymmetric, Consent,
      InsertTheirs, tables
  <2> QED
    BY <2>1, <2>2, <2>3, <2>4
<1>9. ASSUME NEW s \in Server, SelectThread(s) PROVE At(s)' /\ Whole'
  <2>1. Kinded(s)'
    BY <1>9, Directions DEF FriendInv, TypeOK, Kinded, InTx, Request, Kinds,
      SelectThread, Goto, AfterThread, tables
  <2>2. MutualTx(s)'
    BY <1>9, <2>1, Directions DEF FriendInv, TypeOK, Kinded, MutualTx,
      Befriending, InTx, Mine, Theirs, SelectThread, Goto, AfterThread, tables
  <2>3. ConsentTx(s)'
    BY <1>9, <2>1, Directions DEF FriendInv, TypeOK, Kinded, ConsentTx,
      AppliedWished, Befriending, InTx, Mine, Theirs, SelectThread, Goto,
      AfterThread, tables
  <2>4. Whole'
    BY <1>9 DEF FriendInv, AppliedWished, FriendSymmetric, Consent,
      SelectThread, tables
  <2> QED
    BY <2>1, <2>2, <2>3, <2>4
<1>10. ASSUME NEW s \in Server, AllocThread(s) PROVE At(s)' /\ Whole'
  <2>1. Kinded(s)'
    BY <1>10, Directions DEF FriendInv, TypeOK, Kinded, InTx, Request, Kinds,
      AllocThread, Goto, tables, tx
  <2>2. MutualTx(s)'
    BY <1>10, <2>1, Directions DEF FriendInv, TypeOK, Kinded, MutualTx,
      Befriending, InTx, Mine, Theirs, AllocThread, Goto, tables, tx
  <2>3. ConsentTx(s)'
    BY <1>10, <2>1, Directions DEF FriendInv, TypeOK, Kinded, ConsentTx,
      AppliedWished, Befriending, InTx, Mine, Theirs, AllocThread, Goto,
      tables, tx
  <2>4. Whole'
    BY <1>10 DEF FriendInv, AppliedWished, FriendSymmetric, Consent,
      AllocThread, tables
  <2> QED
    BY <2>1, <2>2, <2>3, <2>4
<1>11. ASSUME NEW s \in Server, OpenThread(s) PROVE At(s)' /\ Whole'
  <2>1. Kinded(s)'
    BY <1>11, Directions DEF FriendInv, TypeOK, Kinded, InTx, Request, Kinds,
      OpenThread, Goto, AfterThread, tables, local
  <2>2. MutualTx(s)'
    BY <1>11, <2>1, Directions DEF FriendInv, TypeOK, Kinded, MutualTx,
      Befriending, InTx, Mine, Theirs, OpenThread, Goto, AfterThread, tables,
      local
  <2>3. ConsentTx(s)'
    BY <1>11, <2>1, Directions DEF FriendInv, TypeOK, Kinded, ConsentTx,
      AppliedWished, Befriending, InTx, Mine, Theirs, OpenThread, Goto,
      AfterThread, tables, local
  <2>4. Whole'
    BY <1>11 DEF FriendInv, AppliedWished, FriendSymmetric, Consent,
      OpenThread, tables
  <2> QED
    BY <2>1, <2>2, <2>3, <2>4
<1>12. ASSUME NEW s \in Server, Greet(s) PROVE At(s)' /\ Whole'
  <2>1. Kinded(s)'
    BY <1>12, Directions DEF FriendInv, TypeOK, Kinded, InTx, Request, Kinds,
      Greet, Goto, tables, local
  <2>2. MutualTx(s)'
    BY <1>12, <2>1, Directions DEF FriendInv, TypeOK, Kinded, MutualTx,
      Befriending, InTx, Mine, Theirs, Greet, Goto, tables, local
  <2>3. ConsentTx(s)'
    BY <1>12, <2>1, Directions DEF FriendInv, TypeOK, Kinded, ConsentTx,
      AppliedWished, Befriending, InTx, Mine, Theirs, Greet, Goto, tables,
      local
  <2>4. Whole'
    BY <1>12 DEF FriendInv, AppliedWished, FriendSymmetric, Consent, Greet,
      tables
  <2> QED
    BY <2>1, <2>2, <2>3, <2>4
<1>13. ASSUME NEW s \in Server, Commit(s) PROVE At(s)' /\ Whole'
  <2>1. Kinded(s)'
    BY <1>13, Directions DEF FriendInv, TypeOK, Kinded, InTx, Request, Kinds,
      Commit, Goto, Answer, EndTx
  <2>2. MutualTx(s)'
    BY <1>13, <2>1, Directions DEF FriendInv, TypeOK, Kinded, MutualTx,
      Befriending, InTx, Mine, Theirs, Commit, Goto, Answer, EndTx
  <2>3. ConsentTx(s)'
    BY <1>13, <2>1, Directions DEF FriendInv, TypeOK, Kinded, ConsentTx,
      AppliedWished, Befriending, InTx, Mine, Theirs, Commit, Goto, Answer,
      EndTx
  <2>4. /\ friend' = friend \cup wfriend[s]
        /\ applies' = applies /\ wished' = wished
    BY <1>13 DEF Commit
  <2>5. ASSUME Befriending(s) PROVE Whole'
    <3>1. wfriend[s] \subseteq {Mine(s), Theirs(s)}
          /\ {Mine(s), Theirs(s)} \subseteq friend \cup wfriend[s]
      BY <1>13, <2>5 DEF Commit, FriendInv, MutualTx
    <3>2. {Mine(s), Theirs(s)} \subseteq wished
      BY <1>13, <2>5, Directions DEF Commit, FriendInv, Kinded, ConsentTx,
        Befriending, InTx, Request, Kinds
    <3>3. friend' = friend \cup {Mine(s), Theirs(s)}
      BY <2>4, <3>1
    <3>4. \A d \in {Mine(s), Theirs(s)} : <<d[2], d[1]>> \in friend'
      BY <3>3 DEF Mine, Theirs
    <3>5. FriendSymmetric'
      <4>1. \A d \in friend : <<d[2], d[1]>> \in friend
        BY DEF FriendInv, FriendSymmetric
      <4> QED
        BY <3>3, <3>4, <4>1 DEF FriendSymmetric
    <3>6. Consent'
      BY <2>4, <3>2, <3>3 DEF FriendInv, Consent
    <3> QED
      BY <2>4, <3>5, <3>6 DEF FriendInv, AppliedWished
  <2>6. ASSUME ~Befriending(s) PROVE Whole'
    <3>1. friend' = friend
      BY <2>4, <2>6 DEF FriendInv, MutualTx
    <3> QED
      BY <2>4, <3>1 DEF FriendInv, AppliedWished, FriendSymmetric, Consent
  <2> QED
    BY <2>1, <2>2, <2>3, <2>5, <2>6
<1>14. ASSUME NEW s \in Server, Rollback(s) PROVE At(s)' /\ Whole'
  <2>1. Kinded(s)'
    BY <1>14, Directions DEF FriendInv, TypeOK, Kinded, InTx, Request, Kinds,
      Rollback, Goto, Answer, EndTx, tables
  <2>2. MutualTx(s)'
    BY <1>14, <2>1, Directions DEF FriendInv, TypeOK, Kinded, MutualTx,
      Befriending, InTx, Mine, Theirs, Rollback, Goto, Answer, EndTx, tables
  <2>3. ConsentTx(s)'
    BY <1>14, <2>1, Directions DEF FriendInv, TypeOK, Kinded, ConsentTx,
      AppliedWished, Befriending, InTx, Mine, Theirs, Rollback, Goto, Answer,
      EndTx, tables
  <2>4. Whole'
    BY <1>14 DEF FriendInv, AppliedWished, FriendSymmetric, Consent, Rollback,
      tables
  <2> QED
    BY <2>1, <2>2, <2>3, <2>4
<1>15. ASSUME NEW s \in Server, SendReply(s) PROVE At(s)' /\ Whole'
  <2>1. Kinded(s)'
    BY <1>15, Directions DEF FriendInv, TypeOK, Kinded, InTx, Request, Kinds,
      SendReply, Goto, tables, local, tx
  <2>2. MutualTx(s)'
    BY <1>15, <2>1, Directions DEF FriendInv, TypeOK, Kinded, MutualTx,
      Befriending, InTx, Mine, Theirs, SendReply, Goto, tables, local, tx
  <2>3. ConsentTx(s)'
    BY <1>15, <2>1, Directions DEF FriendInv, TypeOK, Kinded, ConsentTx,
      AppliedWished, Befriending, InTx, Mine, Theirs, SendReply, Goto, tables,
      local, tx
  <2>4. Whole'
    BY <1>15 DEF FriendInv, AppliedWished, FriendSymmetric, Consent,
      SendReply, tables
  <2> QED
    BY <2>1, <2>2, <2>3, <2>4
<1>16. CASE UNCHANGED vars
  BY <1>16 DEF FriendInv, Kinded, MutualTx, ConsentTx, Befriending,
    AppliedWished, FriendSymmetric, Consent, Mine, Theirs, vars, tables,
    local, tx
<1>17. ASSUME NEW s \in Server, Take(s) \/ Statement(s) PROVE FriendInv'
  <2>1. At(s)' /\ Whole'
    BY <1>17, <1>1, <1>2, <1>3, <1>4, <1>5, <1>6, <1>7, <1>8, <1>9, <1>10,
      <1>11, <1>12, <1>13, <1>14, <1>15 DEF Statement
  <2>2. \A t \in Server \ {s} : At(t)'
    BY <1>17, OneWorker, FriendFrame DEF FriendInv
  <2> QED
    BY <2>1, <2>2 DEF FriendInv
<1> QED
  BY <1>16, <1>17 DEF Next, Quiet

LEMMA InitFriendInv == Init => FriendInv
BY DEF Init, FriendInv, Kinded, MutualTx, ConsentTx, Befriending, InTx,
  AppliedWished, FriendSymmetric, Consent

(* Friendship is mutual, whatever statement fails and whatever is rolled back *)
(* (AddFriend).                                                               *)
THEOREM Mutual == Spec => []FriendSymmetric
<1>1. FriendInv => FriendSymmetric
  BY DEF FriendInv
<1> QED
  BY <1>1, TypeCorrect, InitFriendInv, NextFriendInv, PTL DEF Spec

(* Nobody becomes a friend without having applied or accepted.                *)
THEOREM Consensual == Spec => []Consent
<1>1. FriendInv => Consent
  BY DEF FriendInv
<1> QED
  BY <1>1, TypeCorrect, InitFriendInv, NextFriendInv, PTL DEF Spec

-----------------------------------------------------------------------------
(* At most one private chat of a pair.                                        *)

\* A transaction that has found no chat of its pair, and may have made one.
Making(s) == pc[s] \in {"alloc", "open"} \/ wchat[s] # {}

ChatTx(s) ==
  /\ pc[s] \notin {"alloc", "open", "greet", "commit"} =>
       ~locked[s] /\ wchat[s] = {}
  /\ pc[s] \in {"alloc", "open"} => wchat[s] = {}
  /\ Making(s) => locked[s] /\ Rows(s) = {}
  /\ wchat[s] # {} => wchat[s] = {[id |-> thread[s], pair |-> Pair(s)]}

\* Once one has made a chat, no other has a lock on the pair.
SoleMaker ==
  \A s, t \in Server :
    s # t /\ wchat[s] # {} /\ locked[t] => Pair(s) # Pair(t)

ChatInv == (\A s \in Server : ChatTx(s)) /\ SoleMaker /\ OneChat

LEMMA SoleFrame ==
  ASSUME SoleMaker, NEW s \in Server, \A t \in Server \ {s} : Untouched(t),
         \/ ~locked'[s] /\ wchat'[s] = {}
         \/ req'[s] = req[s] /\ locked'[s] = locked[s] /\ wchat'[s] = wchat[s]
  PROVE  SoleMaker'
<1>1. ASSUME NEW t \in Server
     PROVE  \/ ~locked'[t] /\ wchat'[t] = {}
            \/ /\ Pair(t)' = Pair(t) /\ locked'[t] = locked[t]
               /\ wchat'[t] = wchat[t]
  <2>1. req'[t] = req[t] => Pair(t)' = Pair(t)
    BY DEF Pair
  <2> QED
    BY <2>1 DEF Untouched
<1> QED
  BY <1>1 DEF SoleMaker

LEMMA NextChatInv == TypeOK /\ ChatInv /\ [Next]_vars => ChatInv'
<1> SUFFICES ASSUME TypeOK, ChatInv, [Next]_vars PROVE ChatInv'
  OBVIOUS
<1>1. ASSUME NEW s \in Server, Take(s) PROVE ChatInv'
  <2>1. Kept /\ \A t \in Server \ {s} : Untouched(t)
    BY <1>1, OneWorker DEF Statement
  <2>2. chats' = chats
    BY <1>1 DEF Take, tables
  <2>3. ChatTx(s)'
    <3>1. wchat'[s] = {} /\ ~locked'[s]
      BY <1>1 DEF Take, ChatInv, ChatTx, tx
    <3>2. pc'[s] \in {"check", "auth", "reject", "select"}
      <4>1. PICK r \in Request : pc' = [pc EXCEPT ![s] = First[r.kind]]
        BY <1>1 DEF Take, Goto
      <4>2. r.kind \in Kinds
        BY DEF Request
      <4> QED
        BY <4>1, <4>2 DEF TypeOK, First, Kinds
    <3> QED
      BY <3>1, <3>2 DEF ChatTx, Making
  <2>4. \A t \in Server \ {s} : ChatTx(t)'
    BY <2>1, <2>2 DEF ChatInv, ChatTx, Making, Rows, Pair, Untouched
  <2>5. ~locked'[s] /\ wchat'[s] = {}
    BY <1>1 DEF Take, ChatInv, ChatTx, tx
  <2>6. SoleMaker'
    BY <2>1, <2>5, SoleFrame DEF ChatInv
  <2> QED
    BY <2>2, <2>3, <2>4, <2>6 DEF ChatInv, OneChat
<1>2. ASSUME NEW s \in Server, CheckFriend(s) PROVE ChatInv'
  <2>1. Kept /\ \A t \in Server \ {s} : Untouched(t)
    BY <1>2, OneWorker DEF Statement
  <2>2. chats' = chats
    BY <1>2 DEF CheckFriend, tables
  <2>3. ChatTx(s)'
    BY <1>2, <2>2 DEF ChatInv, TypeOK, ChatTx, Making, Rows, Pair, InTx,
      CheckFriend, Goto, Answer, tables, local, tx
  <2>4. \A t \in Server \ {s} : ChatTx(t)'
    BY <2>1, <2>2 DEF ChatInv, ChatTx, Making, Rows, Pair, Untouched
  <2>5. req'[s] = req[s] /\ locked'[s] = locked[s] /\ wchat'[s] = wchat[s]
    BY <1>2 DEF CheckFriend, Goto, Answer, tables, local, tx
  <2>6. SoleMaker'
    BY <2>1, <2>5, SoleFrame DEF ChatInv
  <2> QED
    BY <2>2, <2>3, <2>4, <2>6 DEF ChatInv, OneChat
<1>3. ASSUME NEW s \in Server, GetApplyState(s) PROVE ChatInv'
  <2>1. Kept /\ \A t \in Server \ {s} : Untouched(t)
    BY <1>3, OneWorker DEF Statement
  <2>2. chats' = chats
    BY <1>3 DEF GetApplyState, tables
  <2>3. ChatTx(s)'
    BY <1>3, <2>2 DEF ChatInv, TypeOK, ChatTx, Making, Rows, Pair, InTx,
      GetApplyState, Goto, tables, local, tx
  <2>4. \A t \in Server \ {s} : ChatTx(t)'
    BY <2>1, <2>2 DEF ChatInv, ChatTx, Making, Rows, Pair, Untouched
  <2>5. req'[s] = req[s] /\ locked'[s] = locked[s] /\ wchat'[s] = wchat[s]
    BY <1>3 DEF GetApplyState, Goto, tables, local, tx
  <2>6. SoleMaker'
    BY <2>1, <2>5, SoleFrame DEF ChatInv
  <2> QED
    BY <2>2, <2>3, <2>4, <2>6 DEF ChatInv, OneChat
<1>4. ASSUME NEW s \in Server, AddFriendApply(s) PROVE ChatInv'
  <2>1. Kept /\ \A t \in Server \ {s} : Untouched(t)
    BY <1>4, OneWorker DEF Statement
  <2>2. chats' = chats
    BY <1>4 DEF AddFriendApply, tables
  <2>3. ChatTx(s)'
    BY <1>4, <2>2 DEF ChatInv, TypeOK, ChatTx, Making, Rows, Pair, InTx,
      AddFriendApply, Goto, Answer, tx
  <2>4. \A t \in Server \ {s} : ChatTx(t)'
    BY <2>1, <2>2 DEF ChatInv, ChatTx, Making, Rows, Pair, Untouched
  <2>5. req'[s] = req[s] /\ locked'[s] = locked[s] /\ wchat'[s] = wchat[s]
    BY <1>4 DEF AddFriendApply, Goto, Answer, tx
  <2>6. SoleMaker'
    BY <2>1, <2>5, SoleFrame DEF ChatInv
  <2> QED
    BY <2>2, <2>3, <2>4, <2>6 DEF ChatInv, OneChat
<1>5. ASSUME NEW s \in Server, AuthFriendApply(s) PROVE ChatInv'
  <2>1. Kept /\ \A t \in Server \ {s} : Untouched(t)
    BY <1>5, OneWorker DEF Statement
  <2>2. chats' = chats
    BY <1>5 DEF AuthFriendApply, tables
  <2>3. ChatTx(s)'
    BY <1>5, <2>2 DEF ChatInv, TypeOK, ChatTx, Making, Rows, Pair, InTx,
      AuthFriendApply, Goto, Answer, Updated, Affected, local, tx
  <2>4. \A t \in Server \ {s} : ChatTx(t)'
    BY <2>1, <2>2 DEF ChatInv, ChatTx, Making, Rows, Pair, Untouched
  <2>5. req'[s] = req[s] /\ locked'[s] = locked[s] /\ wchat'[s] = wchat[s]
    BY <1>5 DEF AuthFriendApply, Goto, Answer, Updated, Affected, local, tx
  <2>6. SoleMaker'
    BY <2>1, <2>5, SoleFrame DEF ChatInv
  <2> QED
    BY <2>2, <2>3, <2>4, <2>6 DEF ChatInv, OneChat
<1>6. ASSUME NEW s \in Server, RejectFriendApply(s) PROVE ChatInv'
  <2>1. Kept /\ \A t \in Server \ {s} : Untouched(t)
    BY <1>6, OneWorker DEF Statement
  <2>2. chats' = chats
    BY <1>6 DEF RejectFriendApply, tables
  <2>3. ChatTx(s)'
    BY <1>6, <2>2 DEF ChatInv, TypeOK, ChatTx, Making, Rows, Pair, InTx,
      RejectFriendApply, Goto, Answer, Updated, tx
  <2>4. \A t \in Server \ {s} : ChatTx(t)'
    BY <2>1, <2>2 DEF ChatInv, ChatTx, Making, Rows, Pair, Untouched
  <2>5. req'[s] = req[s] /\ locked'[s] = locked[s] /\ wchat'[s] = wchat[s]
    BY <1>6 DEF RejectFriendApply, Goto, Answer, Updated, tx
  <2>6. SoleMaker'
    BY <2>1, <2>5, SoleFrame DEF ChatInv
  <2> QED
    BY <2>2, <2>3, <2>4, <2>6 DEF ChatInv, OneChat
<1>7. ASSUME NEW s \in Server, InsertMine(s) PROVE ChatInv'
  <2>1. Kept /\ \A t \in Server \ {s} : Untouched(t)
    BY <1>7, OneWorker DEF Statement
  <2>2. chats' = chats
    BY <1>7 DEF InsertMine, tables
  <2>3. ChatTx(s)'
    BY <1>7, <2>2 DEF ChatInv, TypeOK, ChatTx, Making, Rows, Pair, InTx,
      InsertMine, Goto, tables, local
  <2>4. \A t \in Server \ {s} : ChatTx(t)'
    BY <2>1, <2>2 DEF ChatInv, ChatTx, Making, Rows, Pair, Untouched
  <2>5. req'[s] = req[s] /\ locked'[s] = locked[s] /\ wchat'[s] = wchat[s]
    BY <1>7 DEF InsertMine, Goto, tables, local
  <2>6. SoleMaker'
    BY <2>1, <2>5, SoleFrame DEF ChatInv
  <2> QED
    BY <2>2, <2>3, <2>4, <2>6 DEF ChatInv, OneChat
<1>8. ASSUME NEW s \in Server, InsertTheirs(s) PROVE ChatInv'
  <2>1. Kept /\ \A t \in Server \ {s} : Untouched(t)
    BY <1>8, OneWorker DEF Statement
  <2>2. chats' = chats
    BY <1>8 DEF InsertTheirs, tables
  <2>3. ChatTx(s)'
    BY <1>8, <2>2 DEF ChatInv, TypeOK, ChatTx, Making, Rows, Pair, InTx,
      InsertTheirs, Goto, tables, local
  <2>4. \A t \in Server \ {s} : ChatTx(t)'
    BY <2>1, <2>2 DEF ChatInv, ChatTx, Making, Rows, Pair, Untouched
  <2>5. req'[s] = req[s] /\ locked'[s] = locked[s] /\ wchat'[s] = wchat[s]
    BY <1>8 DEF InsertTheirs, Goto, tables, local
  <2>6. SoleMaker'
    BY <2>1, <2>5, SoleFrame DEF ChatInv
  <2> QED
    BY <2>2, <2>3, <2>4, <2>6 DEF ChatInv, OneChat
<1>9. ASSUME NEW s \in Server, SelectThread(s) PROVE ChatInv'
  <2>1. Kept /\ \A t \in Server \ {s} : Untouched(t)
    BY <1>9, OneWorker DEF Statement
  <2>2. chats' = chats
    BY <1>9 DEF SelectThread, tables
  <2>3. ChatTx(s)'
    BY <1>9, <2>2 DEF ChatInv, TypeOK, ChatTx, Making, Rows, Pair, InTx,
      SelectThread, Goto, AfterThread, tables
  <2>4. \A t \in Server \ {s} : ChatTx(t)'
    BY <2>1, <2>2 DEF ChatInv, ChatTx, Making, Rows, Pair, Untouched
  <2>5. SoleMaker'
    <3>1. wchat'[s] = {} /\ \A t \in Server : Pair(t)' = Pair(t)
      BY <1>9, <2>1 DEF SelectThread, ChatInv, ChatTx, Untouched, Pair
    <3>2. \A t \in Server \ {s} : wchat[t] # {} => Pair(t) # Pair(s)
      BY <1>9 DEF SelectThread, Blocked, WaitsFor, ChatInv, ChatTx, Making
    <3> QED
      BY <2>1, <3>1, <3>2 DEF ChatInv, SoleMaker, Untouched
  <2> QED
    BY <2>2, <2>3, <2>4, <2>5 DEF ChatInv, OneChat
<1>10. ASSUME NEW s \in Server, AllocThread(s) PROVE ChatInv'
  <2>1. Kept /\ \A t \in Server \ {s} : Untouched(t)
    BY <1>10, OneWorker DEF Statement
  <2>2. chats' = chats
    BY <1>10 DEF AllocThread, tables
  <2>3. ChatTx(s)'
    BY <1>10, <2>2 DEF ChatInv, TypeOK, ChatTx, Making, Rows, Pair, InTx,
      AllocThread, Goto, tables, tx
  <2>4. \A t \in Server \ {s} : ChatTx(t)'
    BY <2>1, <2>2 DEF ChatInv, ChatTx, Making, Rows, Pair, Untouched
  <2>5. req'[s] = req[s] /\ locked'[s] = locked[s] /\ wchat'[s] = wchat[s]
    BY <1>10 DEF AllocThread, Goto, tables, tx
  <2>6. SoleMaker'
    BY <2>1, <2>5, SoleFrame DEF ChatInv
  <2> QED
    BY <2>2, <2>3, <2>4, <2>6 DEF ChatInv, OneChat
<1>11. ASSUME NEW s \in Server, OpenThread(s) PROVE ChatInv'
  <2>1. Kept /\ \A t \in Server \ {s} : Untouched(t)
    BY <1>11, OneWorker DEF Statement
  <2>2. chats' = chats
    BY <1>11 DEF OpenThread, tables
  <2>3. ChatTx(s)'
    BY <1>11, <2>2 DEF ChatInv, TypeOK, ChatTx, Making, Rows, Pair, InTx,
      OpenThread, Goto, AfterThread, tables, local
  <2>4. \A t \in Server \ {s} : ChatTx(t)'
    BY <2>1, <2>2 DEF ChatInv, ChatTx, Making, Rows, Pair, Untouched
  <2>5. SoleMaker'
    <3>1. ASSUME NEW t \in Server
          PROVE  Pair(t)' = Pair(t) /\ locked'[t] = locked[t]
      <4>1. req'[t] = req[t] /\ locked'[t] = locked[t]
        BY <1>11, <2>1 DEF OpenThread, Untouched, local
      <4> QED
        BY <4>1 DEF Pair
    <3>2. \A t \in Server \ {s} : locked[t] => Pair(t) # Pair(s)
      BY <1>11 DEF OpenThread, Blocked, WaitsFor
    <3>3. \A t \in Server \ {s} : wchat[t] # {} => locked[t]
      BY DEF ChatInv, ChatTx, Making
    <3> QED
      BY <2>1, <3>1, <3>2, <3>3 DEF ChatInv, SoleMaker, Untouched
  <2> QED
    BY <2>2, <2>3, <2>4, <2>5 DEF ChatInv, OneChat
<1>12. ASSUME NEW s \in Server, Greet(s) PROVE ChatInv'
  <2>1. Kept /\ \A t \in Server \ {s} : Untouched(t)
    BY <1>12, OneWorker DEF Statement
  <2>2. chats' = chats
    BY <1>12 DEF Greet, tables
  <2>3. ChatTx(s)'
    BY <1>12, <2>2 DEF ChatInv, TypeOK, ChatTx, Making, Rows, Pair, InTx,
      Greet, Goto, tables, local
  <2>4. \A t \in Server \ {s} : ChatTx(t)'
    BY <2>1, <2>2 DEF ChatInv, ChatTx, Making, Rows, Pair, Untouched
  <2>5. req'[s] = req[s] /\ locked'[s] = locked[s] /\ wchat'[s] = wchat[s]
    BY <1>12 DEF Greet, Goto, tables, local
  <2>6. SoleMaker'
    BY <2>1, <2>5, SoleFrame DEF ChatInv
  <2> QED
    BY <2>2, <2>3, <2>4, <2>6 DEF ChatInv, OneChat
<1>13. ASSUME NEW s \in Server, Commit(s) PROVE ChatInv'
  <2>1. Kept /\ \A t \in Server \ {s} : Untouched(t)
    BY <1>13, OneWorker DEF Statement
  <2>2. /\ locked'[s] = FALSE /\ wchat'[s] = {} /\ pc'[s] = "reply"
        /\ chats' = chats \cup wchat[s]
    BY <1>13 DEF TypeOK, Commit, EndTx, Answer, Goto
  <2>3. ChatTx(s)'
    BY <2>2 DEF ChatTx, Making
  <2>4. ASSUME NEW t \in Server \ {s} PROVE ChatTx(t)'
    <3>1. Making(t) => Rows(t)' = {}
      BY <2>1, <2>2 DEF ChatInv, ChatTx, SoleMaker, Making, Rows, Pair,
        Untouched
    <3> QED
      BY <2>1, <3>1 DEF ChatInv, ChatTx, Making, Rows, Pair, Untouched
  <2>5. SoleMaker'
    BY <2>1, <2>2, SoleFrame DEF ChatInv
  <2>6. OneChat'
    BY <2>2 DEF ChatInv, ChatTx, Making, Rows, OneChat
  <2> QED
    BY <2>3, <2>4, <2>5, <2>6 DEF ChatInv
<1>14. ASSUME NEW s \in Server, Rollback(s) PROVE ChatInv'
  <2>1. Kept /\ \A t \in Server \ {s} : Untouched(t)
    BY <1>14, OneWorker DEF Statement
  <2>2. chats' = chats
    BY <1>14 DEF Rollback, tables
  <2>3. ChatTx(s)'
    BY <1>14, <2>2 DEF ChatInv, TypeOK, ChatTx, Making, Rows, Pair, InTx,
      Rollback, Goto, Answer, EndTx, tables
  <2>4. \A t \in Server \ {s} : ChatTx(t)'
    BY <2>1, <2>2 DEF ChatInv, ChatTx, Making, Rows, Pair, Untouched
  <2>5. ~locked'[s] /\ wchat'[s] = {}
    BY <1>14 DEF Rollback, EndTx, TypeOK
  <2>6. SoleMaker'
    BY <2>1, <2>5, SoleFrame DEF ChatInv
  <2> QED
    BY <2>2, <2>3, <2>4, <2>6 DEF ChatInv, OneChat
<1>15. ASSUME NEW s \in Server, SendReply(s) PROVE ChatInv'
  <2>1. Kept /\ \A t \in Server \ {s} : Untouched(t)
    BY <1>15, OneWorker DEF Statement
  <2>2. chats' = chats
    BY <1>15 DEF SendReply, tables
  <2>3. ChatTx(s)'
    BY <1>15, <2>2 DEF ChatInv, TypeOK, ChatTx, Making, Rows, Pair, InTx,
      SendReply, Goto, tables, local, tx
  <2>4. \A t \in Server \ {s} : ChatTx(t)'
    BY <2>1, <2>2 DEF ChatInv, ChatTx, Making, Rows, Pair, Untouched
  <2>5. req'[s] = req[s] /\ locked'[s] = locked[s] /\ wchat'[s] = wchat[s]
    BY <1>15 DEF SendReply, Goto, tables, local, tx
  <2>6. SoleMaker'
    BY <2>1, <2>5, SoleFrame DEF ChatInv
  <2> QED
    BY <2>2, <2>3, <2>4, <2>6 DEF ChatInv, OneChat
<1>16. CASE UNCHANGED vars
  BY <1>16 DEF ChatInv, ChatTx, Making, Rows, Pair, SoleMaker, OneChat, vars,
    tables, local, tx
<1> QED
  BY <1>1, <1>2, <1>3, <1>4, <1>5, <1>6, <1>7, <1>8, <1>9, <1>10, <1>11,
    <1>12, <1>13, <1>14, <1>15, <1>16 DEF Next, Statement, Quiet

LEMMA InitChatInv == Init => ChatInv
BY DEF Init, ChatInv, ChatTx, Making, SoleMaker, OneChat

(* Whichever transactions of AddFriend and CreatePrivateChat interleave, two  *)
(* users have at most one private chat.                                       *)
THEOREM ChatUnique == Spec => []OneChat
<1>1. ChatInv => OneChat
  BY DEF ChatInv
<1> QED
  BY <1>1, TypeCorrect, InitChatInv, NextChatInv, PTL DEF Spec

-----------------------------------------------------------------------------
(* Friends can chat.                                                          *)

\* The thread a transaction greets is the one of its pair.
GreetTx(s) ==
  /\ pc[s] \in {"greet", "commit"} =>
       [id |-> thread[s], pair |-> Pair(s)] \in chats \cup wchat[s]
  /\ pc[s] = "commit" /\ req[s].kind # "chat" => wgreet[s] = {thread[s]}

GreetInv == (\A s \in Server : GreetTx(s)) /\ FriendsGreeted

LEMMA GreetFrame ==
  ASSUME NEW t \in Server, GreetTx(t), Kept, Untouched(t)
  PROVE  GreetTx(t)'
BY DEF GreetTx, Kept, Untouched, Pair

LEMMA GreetedFrame ==
  ASSUME FriendsGreeted, Kept, friend' = friend PROVE FriendsGreeted'
BY DEF FriendsGreeted, Kept

LEMMA NextGreetInv ==
  TypeOK /\ FriendInv /\ GreetInv /\ [Next]_vars => GreetInv'
<1> SUFFICES ASSUME TypeOK, FriendInv, GreetInv, [Next]_vars PROVE GreetInv'
  OBVIOUS
<1>1. ASSUME NEW s \in Server, Take(s)
     PROVE  GreetTx(s)' /\ FriendsGreeted'
  <2>1. Kept
    BY <1>1, OneWorker DEF Statement
  <2>2. pc'[s] \notin {"greet", "commit"}
    <3>1. PICK r \in Request : pc' = [pc EXCEPT ![s] = First[r.kind]]
      BY <1>1 DEF Take, Goto
    <3>2. r.kind \in Kinds
      BY DEF Request
    <3> QED
      BY <3>1, <3>2 DEF TypeOK, First, Kinds
  <2>3. GreetTx(s)'
    BY <2>2 DEF GreetTx
  <2> QED
    BY <1>1, <2>1, <2>3, GreetedFrame DEF Take, GreetInv, tables
<1>2. ASSUME NEW s \in Server, CheckFriend(s)
     PROVE  GreetTx(s)' /\ FriendsGreeted'
  <2>1. Kept
    BY <1>2, OneWorker DEF Statement
  <2>2. GreetTx(s)'
    BY <1>2 DEF GreetInv, FriendInv, Kinded, TypeOK, GreetTx, Pair,
      CheckFriend, Goto, Answer, tables, local, tx
  <2> QED
    BY <1>2, <2>1, <2>2, GreetedFrame DEF CheckFriend, GreetInv, tables
<1>3. ASSUME NEW s \in Server, GetApplyState(s)
     PROVE  GreetTx(s)' /\ FriendsGreeted'
  <2>1. Kept
    BY <1>3, OneWorker DEF Statement
  <2>2. GreetTx(s)'
    BY <1>3 DEF GreetInv, FriendInv, Kinded, TypeOK, GreetTx, Pair,
      GetApplyState, Goto, tables, local, tx
  <2> QED
    BY <1>3, <2>1, <2>2, GreetedFrame DEF GetApplyState, GreetInv, tables
<1>4. ASSUME NEW s \in Server, AddFriendApply(s)
     PROVE  GreetTx(s)' /\ FriendsGreeted'
  <2>1. Kept
    BY <1>4, OneWorker DEF Statement
  <2>2. GreetTx(s)'
    BY <1>4 DEF GreetInv, FriendInv, Kinded, TypeOK, GreetTx, Pair,
      AddFriendApply, Goto, Answer, tx
  <2> QED
    BY <1>4, <2>1, <2>2, GreetedFrame DEF AddFriendApply, GreetInv, tables
<1>5. ASSUME NEW s \in Server, AuthFriendApply(s)
     PROVE  GreetTx(s)' /\ FriendsGreeted'
  <2>1. Kept
    BY <1>5, OneWorker DEF Statement
  <2>2. GreetTx(s)'
    BY <1>5 DEF GreetInv, FriendInv, Kinded, TypeOK, GreetTx, Pair,
      AuthFriendApply, Goto, Answer, Updated, Affected, local, tx
  <2> QED
    BY <1>5, <2>1, <2>2, GreetedFrame DEF AuthFriendApply, GreetInv, tables
<1>6. ASSUME NEW s \in Server, RejectFriendApply(s)
     PROVE  GreetTx(s)' /\ FriendsGreeted'
  <2>1. Kept
    BY <1>6, OneWorker DEF Statement
  <2>2. GreetTx(s)'
    BY <1>6 DEF GreetInv, FriendInv, Kinded, TypeOK, GreetTx, Pair,
      RejectFriendApply, Goto, Answer, Updated, tx
  <2> QED
    BY <1>6, <2>1, <2>2, GreetedFrame DEF RejectFriendApply, GreetInv, tables
<1>7. ASSUME NEW s \in Server, InsertMine(s)
     PROVE  GreetTx(s)' /\ FriendsGreeted'
  <2>1. Kept
    BY <1>7, OneWorker DEF Statement
  <2>2. GreetTx(s)'
    BY <1>7 DEF GreetInv, FriendInv, Kinded, TypeOK, GreetTx, Pair,
      InsertMine, Goto, tables, local
  <2> QED
    BY <1>7, <2>1, <2>2, GreetedFrame DEF InsertMine, GreetInv, tables
<1>8. ASSUME NEW s \in Server, InsertTheirs(s)
     PROVE  GreetTx(s)' /\ FriendsGreeted'
  <2>1. Kept
    BY <1>8, OneWorker DEF Statement
  <2>2. GreetTx(s)'
    BY <1>8 DEF GreetInv, FriendInv, Kinded, TypeOK, GreetTx, Pair,
      InsertTheirs, Goto, tables, local
  <2> QED
    BY <1>8, <2>1, <2>2, GreetedFrame DEF InsertTheirs, GreetInv, tables
<1>9. ASSUME NEW s \in Server, SelectThread(s)
     PROVE  GreetTx(s)' /\ FriendsGreeted'
  <2>1. Kept
    BY <1>9, OneWorker DEF Statement
  <2>2. CASE Rows(s) = {}
    BY <1>9, <2>1, <2>2, GreetedFrame DEF SelectThread, GreetInv, GreetTx,
      TypeOK, Goto, tables
  <2>3. CASE Rows(s) # {}
    <3>1. PICK c \in Rows(s) : thread' = [thread EXCEPT ![s] = c.id]
      BY <1>9, <2>3 DEF SelectThread
    <3>2. c = [id |-> c.id, pair |-> Pair(s)] /\ c \in chats
      BY DEF Rows, TypeOK, Chat
    <3>3. thread'[s] = c.id /\ Pair(s)' = Pair(s) /\ chats' = chats
      BY <1>9, <3>1 DEF SelectThread, TypeOK, Pair, tables
    <3>4. pc'[s] = "commit" => req[s].kind = "chat"
      BY <1>9, <2>3 DEF SelectThread, Goto, AfterThread, TypeOK
    <3>5. GreetTx(s)'
      BY <1>9, <3>2, <3>3, <3>4 DEF GreetTx, SelectThread
    <3> QED
      BY <1>9, <2>1, <3>5, GreetedFrame DEF SelectThread, GreetInv, tables
  <2> QED
    BY <2>2, <2>3
<1>10. ASSUME NEW s \in Server, AllocThread(s)
     PROVE  GreetTx(s)' /\ FriendsGreeted'
  <2>1. Kept
    BY <1>10, OneWorker DEF Statement
  <2>2. GreetTx(s)'
    BY <1>10 DEF GreetInv, FriendInv, Kinded, TypeOK, GreetTx, Pair,
      AllocThread, Goto, tables, tx
  <2> QED
    BY <1>10, <2>1, <2>2, GreetedFrame DEF AllocThread, GreetInv, tables
<1>11. ASSUME NEW s \in Server, OpenThread(s)
     PROVE  GreetTx(s)' /\ FriendsGreeted'
  <2>1. Kept
    BY <1>11, OneWorker DEF Statement
  <2>2. GreetTx(s)'
    BY <1>11 DEF GreetInv, FriendInv, Kinded, TypeOK, GreetTx, Pair,
      OpenThread, Goto, AfterThread, tables, local
  <2> QED
    BY <1>11, <2>1, <2>2, GreetedFrame DEF OpenThread, GreetInv, tables
<1>12. ASSUME NEW s \in Server, Greet(s)
     PROVE  GreetTx(s)' /\ FriendsGreeted'
  <2>1. Kept
    BY <1>12, OneWorker DEF Statement
  <2>2. GreetTx(s)'
    BY <1>12 DEF GreetInv, FriendInv, Kinded, TypeOK, GreetTx, Pair, Greet,
      Goto, tables, local
  <2> QED
    BY <1>12, <2>1, <2>2, GreetedFrame DEF Greet, GreetInv, tables
<1>13. ASSUME NEW s \in Server, Commit(s)
     PROVE  GreetTx(s)' /\ FriendsGreeted'
  <2>1. Kept
    BY <1>13, OneWorker DEF Statement
  <2>2. GreetTx(s)'
    BY <1>13 DEF Commit, Answer, Goto, GreetTx, TypeOK
  <2>3. FriendsGreeted'
    <3>1. CASE Befriending(s)
      <4>1. /\ [id |-> thread[s], pair |-> Pair(s)] \in chats'
            /\ thread[s] \in greetings'
        BY <1>13, <3>1 DEF Commit, GreetInv, GreetTx, Befriending
      <4>2. \A d \in wfriend[s] : {d[1], d[2]} = Pair(s)
        <5>1. wfriend[s] \subseteq {Mine(s), Theirs(s)}
          BY <3>1 DEF FriendInv, MutualTx
        <5>2. {Mine(s)[1], Mine(s)[2]} = Pair(s)
          BY DEF Mine, Pair
        <5>3. {Theirs(s)[1], Theirs(s)[2]} = Pair(s)
          BY DEF Theirs, Pair
        <5> QED
          BY <5>1, <5>2, <5>3
      <4>3. \A d \in wfriend[s] :
              \E c \in chats' : c.pair = {d[1], d[2]} /\ c.id \in greetings'
        BY <4>1, <4>2
      <4> QED
        BY <1>13, <2>1, <4>3 DEF Commit, GreetInv, FriendsGreeted, Kept
    <3>2. CASE ~Befriending(s)
      <4>1. friend' = friend
        BY <1>13, <3>2 DEF Commit, FriendInv, MutualTx
      <4> QED
        BY <2>1, <4>1, GreetedFrame DEF GreetInv
    <3> QED
      BY <3>1, <3>2
  <2> QED
    BY <2>2, <2>3
<1>14. ASSUME NEW s \in Server, Rollback(s)
     PROVE  GreetTx(s)' /\ FriendsGreeted'
  <2>1. Kept
    BY <1>14, OneWorker DEF Statement
  <2>2. GreetTx(s)'
    BY <1>14 DEF GreetInv, FriendInv, Kinded, TypeOK, GreetTx, Pair, Rollback,
      Goto, Answer, EndTx, tables
  <2> QED
    BY <1>14, <2>1, <2>2, GreetedFrame DEF Rollback, GreetInv, tables
<1>15. ASSUME NEW s \in Server, SendReply(s)
     PROVE  GreetTx(s)' /\ FriendsGreeted'
  <2>1. Kept
    BY <1>15, OneWorker DEF Statement
  <2>2. GreetTx(s)'
    BY <1>15 DEF GreetInv, FriendInv, Kinded, TypeOK, GreetTx, Pair,
      SendReply, Goto, tables, local, tx
  <2> QED
    BY <1>15, <2>1, <2>2, GreetedFrame DEF SendReply, GreetInv, tables
<1>16. CASE UNCHANGED vars
  BY <1>16 DEF GreetInv, GreetTx, FriendsGreeted, Pair, vars, tables, local,
    tx
<1>17. ASSUME NEW s \in Server, Take(s) \/ Statement(s) PROVE GreetInv'
  <2>1. GreetTx(s)' /\ FriendsGreeted'
    BY <1>17, <1>1, <1>2, <1>3, <1>4, <1>5, <1>6, <1>7, <1>8, <1>9, <1>10,
      <1>11, <1>12, <1>13, <1>14, <1>15 DEF Statement
  <2>2. \A t \in Server \ {s} : GreetTx(t)'
    BY <1>17, OneWorker, GreetFrame DEF GreetInv
  <2> QED
    BY <2>1, <2>2 DEF GreetInv
<1> QED
  BY <1>16, <1>17 DEF Next, Quiet

LEMMA InitGreetInv == Init => GreetInv
BY DEF Init, GreetInv, GreetTx, FriendsGreeted

(* Friends have a private chat and a greeting in it, at every commit.         *)
THEOREM Greeted == Spec => []FriendsGreeted
<1>1. GreetInv => FriendsGreeted
  BY DEF GreetInv
<1> QED
  BY <1>1, TypeCorrect, InitFriendInv, NextFriendInv, InitGreetInv,
    NextGreetInv, PTL DEF Spec

-----------------------------------------------------------------------------
(* Who may change an application.                                             *)
Authorised ==
  \A d \in Direction :
    applies'[d] # applies[d] =>
      \E s \in Server :
        /\ pc'[s] # pc[s]
        /\ IF applies'[d] = "pending" THEN d = Mine(s) ELSE d = Theirs(s)

LEMMA StepAuthorised == TypeOK /\ [Next]_vars => [Authorised]_vars
<1> SUFFICES ASSUME TypeOK, [Next]_vars, applies' # applies PROVE Authorised
  BY DEF Authorised, vars, tables
<1>1. ASSUME NEW s \in Server, AddFriendApply(s) PROVE Authorised
  <2>1. pc'[s] # pc[s]
    BY <1>1 DEF TypeOK, AddFriendApply, Answer, Goto
  <2>2. ASSUME NEW d \in Direction, applies'[d] # applies[d]
        PROVE  IF applies'[d] = "pending" THEN d = Mine(s) ELSE d = Theirs(s)
    BY <1>1, <2>2, Directions DEF TypeOK, AddFriendApply, Updated
  <2> QED
    BY <2>1, <2>2 DEF Authorised
<1>2. ASSUME NEW s \in Server, AuthFriendApply(s) PROVE Authorised
  <2>1. pc'[s] # pc[s]
    BY <1>2 DEF TypeOK, AuthFriendApply, Answer, Goto
  <2>2. ASSUME NEW d \in Direction, applies'[d] # applies[d]
        PROVE  IF applies'[d] = "pending" THEN d = Mine(s) ELSE d = Theirs(s)
    BY <1>2, <2>2, Directions DEF TypeOK, AuthFriendApply, Updated
  <2> QED
    BY <2>1, <2>2 DEF Authorised
<1>3. ASSUME NEW s \in Server, RejectFriendApply(s) PROVE Authorised
  <2>1. pc'[s] # pc[s]
    BY <1>3 DEF TypeOK, RejectFriendApply, Answer, Goto
  <2>2. ASSUME NEW d \in Direction, applies'[d] # applies[d]
        PROVE  IF applies'[d] = "pending" THEN d = Mine(s) ELSE d = Theirs(s)
    BY <1>3, <2>2, Directions DEF TypeOK, RejectFriendApply, Updated
  <2> QED
    BY <2>1, <2>2 DEF Authorised
<1>4. ASSUME NEW s \in Server, Take(s) \/ Statement(s)
     PROVE  AddFriendApply(s) \/ AuthFriendApply(s) \/ RejectFriendApply(s)
  BY <1>4 DEF Statement, Take, CheckFriend, GetApplyState, InsertMine,
    InsertTheirs, SelectThread, AllocThread, OpenThread, Greet, Commit,
    Rollback, SendReply, tables
<1>5. ~UNCHANGED vars
  BY DEF vars, tables
<1> QED
  BY <1>1, <1>2, <1>3, <1>4, <1>5 DEF Next, Quiet

(* An application is filed only for the user who applies, and answered only   *)
(* for the user it is addressed to, whatever the handlers interleave.         *)
THEOREM Authority == Spec => ApplyAuthority
BY TypeCorrect, StepAuthorised, PTL DEF Spec, ApplyAuthority, Authorised

-----------------------------------------------------------------------------
(* No two transactions have inserted the same row of friend, and none has     *)
(* inserted a row that is committed: the second insertion waits for the first *)
(* transaction to end.                                                        *)
Exclusive ==
  \A s \in Server :
    /\ wfriend[s] \cap friend = {}
    /\ \A t \in Server \ {s} : wfriend[s] \cap wfriend[t] = {}

LEMMA InsertExclusive ==
  ASSUME TypeOK, Exclusive, NEW s \in Server, NEW d,
         \A t \in Server \ {s} : d \notin wfriend[t],
         wfriend' = [wfriend EXCEPT ![s] = @ \cup ({d} \ friend)],
         friend' = friend
  PROVE  Exclusive'
<1>1. wfriend'[s] = wfriend[s] \cup ({d} \ friend)
      /\ \A t \in Server \ {s} : wfriend'[t] = wfriend[t]
  BY DEF TypeOK
<1>2. ASSUME NEW t \in Server \ {s}
      PROVE  wfriend'[t] \cap friend' = {} /\ wfriend'[s] \cap wfriend'[t] = {}
  BY <1>1 DEF Exclusive
<1>3. wfriend'[s] \cap friend' = {}
  BY <1>1 DEF Exclusive
<1>4. \A t, u \in Server \ {s} : t # u => wfriend'[t] \cap wfriend'[u] = {}
  BY <1>1 DEF Exclusive
<1> QED
  BY <1>2, <1>3, <1>4 DEF Exclusive

LEMMA NextExclusive == TypeOK /\ Exclusive /\ [Next]_vars => Exclusive'
<1> SUFFICES ASSUME TypeOK, Exclusive, [Next]_vars PROVE Exclusive'
  OBVIOUS
<1>1. ASSUME NEW s \in Server, InsertMine(s) PROVE Exclusive'
  <2>1. \A t \in Server \ {s} : Mine(s) \notin wfriend[t]
    BY <1>1 DEF InsertMine, Blocked, WaitsFor
  <2> QED
    BY <1>1, <2>1, InsertExclusive DEF InsertMine, tables
<1>2. ASSUME NEW s \in Server, InsertTheirs(s) PROVE Exclusive'
  <2>1. \A t \in Server \ {s} : Theirs(s) \notin wfriend[t]
    BY <1>2 DEF InsertTheirs, Blocked, WaitsFor
  <2> QED
    BY <1>2, <2>1, InsertExclusive DEF InsertTheirs, tables
<1>3. ASSUME NEW s \in Server, Commit(s) PROVE Exclusive'
  <2>1. /\ friend' = friend \cup wfriend[s] /\ wfriend'[s] = {}
        /\ \A t \in Server \ {s} : wfriend'[t] = wfriend[t]
    BY <1>3 DEF Commit, EndTx, TypeOK
  <2> QED
    BY <2>1 DEF Exclusive
<1>4. ASSUME NEW s \in Server, Rollback(s) PROVE Exclusive'
  <2>1. /\ friend' = friend /\ wfriend'[s] = {}
        /\ \A t \in Server \ {s} : wfriend'[t] = wfriend[t]
    BY <1>4 DEF Rollback, EndTx, TypeOK, tables
  <2> QED
    BY <2>1 DEF Exclusive
<1>5. CASE UNCHANGED <<friend, wfriend>>
  BY <1>5 DEF Exclusive
<1>6. ASSUME NEW s \in Server, Take(s) \/ Statement(s)
      PROVE  \/ InsertMine(s) \/ InsertTheirs(s) \/ Commit(s) \/ Rollback(s)
             \/ UNCHANGED <<friend, wfriend>>
  BY <1>6 DEF Statement, Take, CheckFriend, GetApplyState, AddFriendApply,
    AuthFriendApply, RejectFriendApply, SelectThread, AllocThread, OpenThread,
    Greet, SendReply, tables, tx
<1> QED
  BY <1>1, <1>2, <1>3, <1>4, <1>5, <1>6 DEF Next, Quiet, vars, tables, tx

LEMMA InitExclusive == Init => Exclusive
BY DEF Init, Exclusive

(* A befriending transaction that a deadlock rolls back leaves the friendship *)
(* to another transaction of the two users, or finds it committed.  Waits are *)
(* only between transactions of one pair, and the one that the victim waits   *)
(* for can be of a CreatePrivateChat only when the victim is past its two     *)
(* insertions: then it has changed more rows than that one.                   *)
LEMMA KnotOfPair ==
  ASSUME TypeOK, FriendInv, ChatInv, Exclusive, NEW s \in Server,
         Befriending(s), Victim(s), NEW d \in Direction,
         Pair(s) = {d[1], d[2]}
  PROVE  \/ d \in friend
         \/ \E u \in Server \ {s} : Befriending(u) /\ Pair(u) = Pair(s)
<1>1. PICK D \in SUBSET Server :
        /\ s \in D
        /\ \A t \in D : Weight(s) <= Weight(t) /\ \E u \in D : WaitsFor(t, u)
  BY DEF Victim
<1>2. PICK u \in D : WaitsFor(s, u)
  BY <1>1
<1>3. u \in Server /\ u # s /\ Weight(s) <= Weight(u)
  BY <1>1, <1>2 DEF WaitsFor
<1>4. PICK v \in D : WaitsFor(u, v)
  BY <1>1
<1>5. pc[s] # "idle" /\ req[s] \in Request /\ Mine(s) # Theirs(s)
  BY DEF TypeOK, Befriending, InTx, Request, Mine, Theirs
<1>6. d = Mine(s) \/ d = Theirs(s)
  <2>1. d = <<d[1], d[2]>>
    BY DEF Direction
  <2>2. {req[s].me, req[s].other} = {d[1], d[2]}
    BY DEF Pair
  <2> QED
    BY <1>5, <2>1, <2>2 DEF Mine, Theirs, Request, Direction
<1>7. CASE pc[s] \in {"mine", "theirs"}
  <2>1. Mine(s) \in wfriend[u] \/ Theirs(s) \in wfriend[u]
    BY <1>2, <1>7 DEF WaitsFor
  <2>2. Befriending(u) /\ wfriend[u] \subseteq {Mine(u), Theirs(u)}
    BY <1>3, <2>1 DEF FriendInv, MutualTx
  <2>3. Pair(u) = Pair(s)
    BY <2>1, <2>2 DEF Mine, Theirs, Pair
  <2> QED
    BY <1>3, <2>2, <2>3
<1>8. CASE pc[s] \notin {"mine", "theirs"}
  <2>1. locked[u] /\ Pair(u) = Pair(s) /\ pc[s] \in {"select", "open"}
    BY <1>2, <1>8 DEF WaitsFor
  <2>2. pc[u] = "open"
    <3>1. pc[u] \in {"alloc", "open", "greet", "commit"}
      BY <1>3, <2>1 DEF ChatInv, ChatTx
    <3> QED
      BY <1>4, <3>1 DEF WaitsFor
  <2>3. CASE Befriending(u)
    BY <1>3, <2>1, <2>3
  <2>4. CASE ~Befriending(u)
    <3>1. wfriend[u] = {}
      BY <1>3, <2>4 DEF FriendInv, MutualTx
    <3>2. Weight(u) <= 1
      BY <3>1, FS_EmptySet, <1>3 DEF Weight, TypeOK
    <3>3. Mine(s) \in friend \cup wfriend[s] /\ Theirs(s) \in friend \cup wfriend[s]
          /\ wfriend[s] \subseteq {Mine(s), Theirs(s)}
      BY <1>8 DEF FriendInv, MutualTx
    <3>4. CASE d \in friend
      BY <3>4
    <3>5. CASE d \notin friend
      <4>1. Mine(s) \notin friend /\ Theirs(s) \notin friend
        <5>1. Theirs(s) = <<Mine(s)[2], Mine(s)[1]>>
              /\ Mine(s) = <<Theirs(s)[2], Theirs(s)[1]>>
          BY DEF Mine, Theirs
        <5> QED
          BY <1>6, <3>5, <5>1 DEF FriendInv, FriendSymmetric
      <4>2. wfriend[s] = {Mine(s), Theirs(s)}
        BY <3>3, <4>1
      <4>3. Cardinality(wfriend[s]) = 2
        <5>1. Cardinality({Mine(s)}) = 1 /\ IsFiniteSet({Mine(s)})
          BY FS_Singleton
        <5>2. Theirs(s) \notin {Mine(s)}
          BY <1>5
        <5>3. Cardinality({Mine(s)} \cup {Theirs(s)}) = 1 + 1
          BY <5>1, <5>2, FS_AddElement
        <5>4. {Mine(s)} \cup {Theirs(s)} = wfriend[s]
          BY <4>2
        <5> QED
          BY <5>3, <5>4
      <4>4. Weight(s) \in {2, 3} /\ Weight(u) \in {0, 1}
        BY <4>3, <3>1, FS_EmptySet DEF Weight
      <4> QED
        BY <1>3, <4>4
    <3> QED
      BY <3>4, <3>5
  <2> QED
    BY <2>3, <2>4
<1> QED
  BY <1>7, <1>8

(* A step that accepts no application, and takes no befriending transaction   *)
(* away unless its pair are friends by then or another one remains.           *)
LEMMA AcceptedFrame ==
  ASSUME TypeOK, AcceptedAreFriends, Kept, NEW s \in Server,
         \A t \in Server \ {s} : Untouched(t),
         \A d \in Direction : applies'[d] = "accepted" => applies[d] = "accepted",
         \/ ~Befriending(s)
         \/ Befriending(s)' /\ Pair(s)' = Pair(s)
         \/ \A d \in Direction :
              Pair(s) = {d[1], d[2]} =>
                \/ d \in friend'
                \/ \E u \in Server \ {s} : Befriending(u) /\ Pair(u) = Pair(s)
  PROVE  AcceptedAreFriends'
<1>1. ASSUME NEW t \in Server \ {s}, Befriending(t)
      PROVE  Befriending(t)' /\ Pair(t)' = Pair(t)
  BY <1>1 DEF Befriending, Untouched, Pair
<1>2. ASSUME NEW d \in Direction, applies'[d] = "accepted"
      PROVE  d \in friend' \/ \E t \in Server : Befriending(t)' /\ Pair(t)' = {d[1], d[2]}
  <2>1. d \in friend \/ \E t \in Server : Befriending(t) /\ Pair(t) = {d[1], d[2]}
    BY <1>2 DEF AcceptedAreFriends, Befriending
  <2>2. CASE d \in friend
    BY <2>2 DEF Kept
  <2>3. ASSUME NEW t \in Server, Befriending(t), Pair(t) = {d[1], d[2]}
        PROVE  d \in friend' \/ \E u \in Server : Befriending(u)' /\ Pair(u)' = {d[1], d[2]}
    <3>1. CASE t # s
      BY <2>3, <3>1, <1>1
    <3>2. CASE t = s
      <4>1. CASE Befriending(s)' /\ Pair(s)' = Pair(s)
        BY <2>3, <3>2, <4>1
      <4>2. CASE \/ d \in friend'
                 \/ \E u \in Server \ {s} : Befriending(u) /\ Pair(u) = Pair(s)
        BY <2>3, <3>2, <4>2, <1>1
      <4> QED
        BY <2>3, <3>2, <4>1, <4>2
    <3> QED
      BY <3>1, <3>2
  <2> QED
    BY <2>1, <2>2, <2>3
<1> QED
  BY <1>2 DEF AcceptedAreFriends, Befriending

LEMMA NextAccepted ==
  ASSUME ~MayFail
  PROVE  TypeOK /\ FriendInv /\ ChatInv /\ Exclusive /\ AcceptedAreFriends
         /\ [Next]_vars => AcceptedAreFriends'
<1> SUFFICES ASSUME TypeOK, FriendInv, ChatInv, Exclusive, AcceptedAreFriends,
                    [Next]_vars
             PROVE  AcceptedAreFriends'
  OBVIOUS
<1>1. ASSUME NEW s \in Server, AuthFriendApply(s) PROVE AcceptedAreFriends'
  <2>1. Kept /\ \A t \in Server \ {s} : Untouched(t)
    BY <1>1, OneWorker DEF Statement
  <2>2. Theirs(s) \in Direction /\ applies \in [Direction -> Status]
    BY <1>1, Directions DEF AuthFriendApply, TypeOK
  <2>3. CASE Affected(Theirs(s), "accepted")
    <3>1. pc'[s] = "mine" /\ req' = req /\ applies' = Updated(Theirs(s), "accepted")
      BY <1>1, <2>3 DEF AuthFriendApply, Goto, local, TypeOK
    <3>2. Befriending(s)' /\ Pair(s)' = Pair(s)
      BY <1>1, <3>1 DEF AuthFriendApply, Befriending, InTx, FriendInv, Kinded, Pair
    <3>3. ~Befriending(s)
      BY <1>1 DEF AuthFriendApply, Befriending, InTx
    <3>4. Pair(s) = {Theirs(s)[1], Theirs(s)[2]}
      BY DEF Pair, Theirs
    <3>5. ASSUME NEW d \in Direction, applies'[d] = "accepted", d # Theirs(s)
          PROVE  d \in friend' \/ \E t \in Server : Befriending(t)' /\ Pair(t)' = {d[1], d[2]}
      <4>1. applies[d] = "accepted"
        BY <3>1, <3>5, <2>2 DEF Updated
      <4>2. d \in friend \/ \E t \in Server : Befriending(t) /\ Pair(t) = {d[1], d[2]}
        BY <4>1 DEF AcceptedAreFriends, Befriending
      <4>3. ASSUME NEW t \in Server, Befriending(t)
            PROVE  Befriending(t)' /\ Pair(t)' = Pair(t)
        <5>1. t \in Server \ {s}
          BY <4>3, <3>3
        <5> QED
          BY <2>1, <4>3, <5>1 DEF Befriending, Untouched, Pair
      <4> QED
        BY <2>1, <4>2, <4>3 DEF Kept
    <3> QED
      BY <3>2, <3>4, <3>5 DEF AcceptedAreFriends, Befriending
  <2>4. CASE ~Affected(Theirs(s), "accepted")
    <3>1. applies' = applies
      BY <1>1, <2>2, <2>4 DEF AuthFriendApply, Updated, Affected
    <3>2. ~Befriending(s)
      BY <1>1 DEF AuthFriendApply, Befriending, InTx
    <3> QED
      BY <2>1, <3>1, <3>2, AcceptedFrame
  <2> QED
    BY <2>3, <2>4
<1>2. ASSUME NEW s \in Server, AddFriendApply(s) \/ RejectFriendApply(s)
      PROVE  AcceptedAreFriends'
  <2>1. Kept /\ \A t \in Server \ {s} : Untouched(t)
    BY <1>2, OneWorker DEF Statement
  <2>2. ~Befriending(s)
    BY <1>2 DEF AddFriendApply, RejectFriendApply, Befriending, InTx
  <2>3. \A d \in Direction : applies'[d] = "accepted" => applies[d] = "accepted"
    BY <1>2 DEF AddFriendApply, RejectFriendApply, Updated, TypeOK
  <2> QED
    BY <2>1, <2>2, <2>3, AcceptedFrame
<1>3. ASSUME NEW s \in Server, Commit(s) PROVE AcceptedAreFriends'
  <2>1. Kept /\ \A t \in Server \ {s} : Untouched(t)
    BY <1>3, OneWorker DEF Statement
  <2>2. applies' = applies
    BY <1>3 DEF Commit
  <2>3. ASSUME Befriending(s), NEW d \in Direction, Pair(s) = {d[1], d[2]}
        PROVE  d \in friend'
    <3>1. Mine(s) \in friend' /\ Theirs(s) \in friend'
      BY <1>3, <2>3 DEF Commit, FriendInv, MutualTx
    <3>2. d = <<d[1], d[2]>> /\ d[1] # d[2]
      BY DEF Direction
    <3>3. d = Mine(s) \/ d = Theirs(s)
      BY <2>3, <3>2 DEF Mine, Theirs, Pair
    <3> QED
      BY <3>1, <3>3
  <2> QED
    BY <2>1, <2>2, <2>3, AcceptedFrame
<1>4. ASSUME NEW s \in Server, Rollback(s) PROVE AcceptedAreFriends'
  <2>1. Kept /\ \A t \in Server \ {s} : Untouched(t)
    BY <1>4, OneWorker DEF Statement
  <2>2. applies' = applies /\ Victim(s)
    BY <1>4 DEF Rollback, tables
  <2>3. Befriending(s) =>
          \A d \in Direction :
            Pair(s) = {d[1], d[2]} =>
              \/ d \in friend'
              \/ \E u \in Server \ {s} : Befriending(u) /\ Pair(u) = Pair(s)
    BY <2>1, <2>2, KnotOfPair DEF Kept
  <2> QED
    BY <2>1, <2>2, <2>3, AcceptedFrame
<1>5. ASSUME NEW s \in Server,
             \/ InsertMine(s) \/ InsertTheirs(s) \/ SelectThread(s)
             \/ AllocThread(s) \/ OpenThread(s) \/ Greet(s)
      PROVE  AcceptedAreFriends'
  <2>1. Kept /\ \A t \in Server \ {s} : Untouched(t)
    BY <1>5, OneWorker DEF Statement
  <2>2. applies' = applies /\ req' = req
    BY <1>5 DEF InsertMine, InsertTheirs, SelectThread, AllocThread,
      OpenThread, Greet, tables, local
  <2>3. pc'[s] \in InTx
    BY <1>5 DEF InsertMine, InsertTheirs, SelectThread, AllocThread,
      OpenThread, Greet, Goto, AfterThread, InTx, TypeOK
  <2>4. Befriending(s) => Befriending(s)' /\ Pair(s)' = Pair(s)
    BY <2>2, <2>3 DEF Befriending, Pair
  <2> QED
    BY <2>1, <2>2, <2>4, AcceptedFrame
<1>6. ASSUME NEW s \in Server,
             \/ Take(s) \/ CheckFriend(s) \/ GetApplyState(s) \/ SendReply(s)
      PROVE  AcceptedAreFriends'
  <2>1. Kept /\ \A t \in Server \ {s} : Untouched(t)
    BY <1>6, OneWorker DEF Statement
  <2>2. applies' = applies /\ ~Befriending(s)
    BY <1>6 DEF Take, CheckFriend, GetApplyState, SendReply, tables,
      Befriending, InTx
  <2> QED
    BY <2>1, <2>2, AcceptedFrame
<1>7. CASE UNCHANGED vars
  BY <1>7 DEF AcceptedAreFriends, Pair, vars, tables, local
<1> QED
  BY <1>1, <1>2, <1>3, <1>4, <1>5, <1>6, <1>7 DEF Next, Statement, Quiet

LEMMA InitAccepted == Init => AcceptedAreFriends
BY DEF Init, AcceptedAreFriends

(* When no statement fails, an accepted application is a friendship or is on  *)
(* its way to one, although deadlocks roll back the transaction of AddFriend  *)
(* after AuthFriendApply has committed (LogicSystem::AuthFriendApply).        *)
THEOREM AcceptedBefriend ==
  ASSUME ~MayFail PROVE Spec => []AcceptedAreFriends
BY TypeCorrect, InitFriendInv, NextFriendInv, InitChatInv, NextChatInv,
  InitExclusive, NextExclusive, InitAccepted, NextAccepted, PTL DEF Spec

-----------------------------------------------------------------------------
(* A reply without an error is true.                                          *)

\* What a reply of s promises of the tables.
Fulfilled(s) ==
  CASE req[s].kind = "agree"  -> Mine(s) \in friend
    [] req[s].kind = "add"    -> Mine(s) \in friend
                                 \/ applies[Mine(s)] # "none"
    [] req[s].kind = "chat"   -> \E c \in Rows(s) : c.id = thread[s]
    [] req[s].kind = "refuse" -> applies[Theirs(s)] # "none"

Honest(s) == pc[s] = "reply" /\ res[s] = "Success" => Fulfilled(s)

(* An application is never withdrawn, so what was true stays true.            *)
LEMMA FulfilledFrame ==
  ASSUME TypeOK, NEW t \in Server, pc[t] = "reply", Fulfilled(t), Kept,
         Untouched(t),
         \A d \in Direction : applies[d] # "none" => applies'[d] # "none"
  PROVE  Fulfilled(t)'
<1>1. /\ req[t] \in Request /\ Mine(t) \in Direction /\ Theirs(t) \in Direction
      /\ req[t].kind \in Kinds
  BY Directions DEF Request
<1>2. /\ req'[t] = req[t] /\ thread'[t] = thread[t]
      /\ Mine(t)' = Mine(t) /\ Theirs(t)' = Theirs(t)
      /\ Rows(t) \subseteq Rows(t)'
  BY DEF Untouched, Kept, Mine, Theirs, Rows, Pair
<1>3. CASE req[t].kind = "agree"
  BY <1>2, <1>3 DEF Fulfilled, Kept
<1>4. CASE req[t].kind = "add"
  BY <1>1, <1>2, <1>4 DEF Fulfilled, Kept
<1>5. CASE req[t].kind = "chat"
  BY <1>2, <1>5 DEF Fulfilled
<1>6. CASE req[t].kind = "refuse"
  BY <1>1, <1>2, <1>6 DEF Fulfilled
<1> QED
  BY <1>1, <1>3, <1>4, <1>5, <1>6 DEF Kinds

LEMMA ApplicationsStay ==
  ASSUME TypeOK, NEW s \in Server, Take(s) \/ Statement(s)
  PROVE  \A d \in Direction : applies[d] # "none" => applies'[d] # "none"
<1>1. CASE AddFriendApply(s)
  BY <1>1 DEF AddFriendApply, TypeOK
<1>2. CASE AuthFriendApply(s)
  BY <1>2 DEF AuthFriendApply, Updated, TypeOK
<1>3. CASE RejectFriendApply(s)
  BY <1>3 DEF RejectFriendApply, Updated, TypeOK
<1>4. CASE applies' = applies
  BY <1>4
<1> QED
  BY <1>1, <1>2, <1>3, <1>4 DEF Statement, Take, CheckFriend, GetApplyState,
    InsertMine, InsertTheirs, SelectThread, AllocThread, OpenThread, Greet,
    Commit, Rollback, SendReply, tables

LEMMA NextHonest ==
  TypeOK /\ FriendInv /\ GreetInv /\ (\A s \in Server : Honest(s)) /\ [Next]_vars
    => (\A s \in Server : Honest(s))'
<1> SUFFICES ASSUME TypeOK, FriendInv, GreetInv, \A s \in Server : Honest(s),
                    [Next]_vars
             PROVE  (\A s \in Server : Honest(s))'
  OBVIOUS
<1>1. ASSUME NEW s \in Server, AddFriendApply(s) PROVE Honest(s)'
  <2>1. req[s].kind = "add" /\ req' = req /\ Mine(s) \in Direction
    BY <1>1, Directions DEF AddFriendApply, Answer, FriendInv, Kinded
  <2>2. CASE applies' = [applies EXCEPT ![Mine(s)] = "pending"]
    <3>1. applies'[Mine(s)] = "pending"
      BY <2>1, <2>2 DEF TypeOK
    <3>2. Mine(s)' = Mine(s)
      BY <2>1 DEF Mine
    <3> QED
      BY <2>1, <3>1, <3>2 DEF Honest, Fulfilled
  <2>3. CASE res'[s] # "Success"
    BY <2>3 DEF Honest
  <2> QED
    BY <1>1, <2>2, <2>3 DEF AddFriendApply, Answer, TypeOK
<1>2. ASSUME NEW s \in Server, RejectFriendApply(s) PROVE Honest(s)'
  <2>1. req[s].kind = "refuse" /\ req' = req /\ Theirs(s) \in Direction
    BY <1>2, Directions DEF RejectFriendApply, Answer, FriendInv, Kinded
  <2>2. CASE Affected(Theirs(s), "rejected")
    <3>1. applies[Theirs(s)] # "none"
      BY <2>2 DEF Affected
    <3>2. applies'[Theirs(s)] # "none"
      BY <1>2, <2>1, <3>1, ApplicationsStay DEF Statement
    <3>3. Theirs(s)' = Theirs(s)
      BY <2>1 DEF Theirs
    <3> QED
      BY <2>1, <3>2, <3>3 DEF Honest, Fulfilled
  <2>3. CASE res'[s] # "Success"
    BY <2>3 DEF Honest
  <2> QED
    BY <1>2, <2>2, <2>3 DEF RejectFriendApply, Answer, TypeOK
<1>3. ASSUME NEW s \in Server, Commit(s) PROVE Honest(s)'
  <2>1. /\ req' = req /\ thread' = thread /\ pc[s] = "commit"
        /\ friend' = friend \cup wfriend[s] /\ chats' = chats \cup wchat[s]
    BY <1>3 DEF Commit, Answer
  <2>2. Mine(s)' = Mine(s) /\ Pair(s)' = Pair(s)
    BY <2>1 DEF Mine, Pair
  <2>3. req[s].kind \in {"add", "agree", "chat"}
    BY <2>1 DEF FriendInv, Kinded, InTx, TypeOK, Request, Kinds
  <2>4. CASE req[s].kind \in {"add", "agree"}
    <3>1. Mine(s) \in friend'
      BY <2>1, <2>4 DEF FriendInv, MutualTx, Befriending, InTx
    <3> QED
      BY <2>1, <2>2, <2>4, <3>1 DEF Honest, Fulfilled
  <2>5. CASE req[s].kind = "chat"
    <3>1. [id |-> thread[s], pair |-> Pair(s)] \in chats'
      BY <2>1 DEF GreetInv, GreetTx
    <3>2. \E c \in Rows(s)' : c.id = thread'[s]
      BY <2>1, <2>2, <3>1 DEF Rows
    <3> QED
      BY <2>1, <2>5, <3>2 DEF Honest, Fulfilled
  <2> QED
    BY <2>3, <2>4, <2>5
<1>4. ASSUME NEW s \in Server, CheckFriend(s) \/ AuthFriendApply(s) \/ Rollback(s)
      PROVE  Honest(s)'
  <2>1. pc'[s] # "reply" \/ res'[s] # "Success"
    BY <1>4 DEF CheckFriend, AuthFriendApply, Rollback, Answer, Goto, TypeOK
  <2> QED
    BY <2>1 DEF Honest
<1>5. ASSUME NEW s \in Server,
             \/ Take(s) \/ GetApplyState(s) \/ InsertMine(s) \/ InsertTheirs(s)
             \/ SelectThread(s) \/ AllocThread(s) \/ OpenThread(s) \/ Greet(s)
             \/ SendReply(s)
      PROVE  Honest(s)'
  <2>1. pc'[s] # "reply"
    BY <1>5 DEF Take, First, Request, Kinds, GetApplyState, InsertMine,
      InsertTheirs, SelectThread, AllocThread, OpenThread, Greet, SendReply,
      Goto, AfterThread, TypeOK
  <2> QED
    BY <2>1 DEF Honest
<1>6. ASSUME NEW s \in Server, Take(s) \/ Statement(s), NEW t \in Server \ {s}
      PROVE  Honest(t)'
  <2>1. Kept /\ Untouched(t)
    BY <1>6, OneWorker
  <2>2. res'[t] = res[t]
    BY <1>6 DEF Statement, Take, CheckFriend, GetApplyState, AddFriendApply,
      AuthFriendApply, RejectFriendApply, InsertMine, InsertTheirs,
      SelectThread, AllocThread, OpenThread, Greet, Commit, Rollback,
      SendReply, Answer, TypeOK, local
  <2>3. CASE pc[t] = "reply" /\ res[t] = "Success"
    <3>1. Fulfilled(t)'
      BY <1>6, <2>1, <2>3, ApplicationsStay, FulfilledFrame DEF Honest
    <3> QED
      BY <3>1 DEF Honest
  <2>4. CASE ~(pc[t] = "reply" /\ res[t] = "Success")
    BY <2>1, <2>2, <2>4 DEF Honest, Untouched
  <2> QED
    BY <2>3, <2>4
<1>7. CASE UNCHANGED vars
  BY <1>7 DEF Honest, Fulfilled, Mine, Theirs, Rows, Pair, vars, tables, local
<1>8. ASSUME NEW s \in Server, Take(s) \/ Statement(s)
      PROVE  \A t \in Server : Honest(t)'
  BY <1>1, <1>2, <1>3, <1>4, <1>5, <1>6, <1>8 DEF Statement
<1> QED
  BY <1>7, <1>8 DEF Next, Quiet

(* A reply without an error is true whatever statements fail: an acceptance   *)
(* has made friends, a chat is open, an application is filed or has made      *)
(* friends (the handlers' Defer over the results of MysqlDao).                *)
THEOREM RepliesHonest == Spec => []AnswerHonest
<1>1. Init => \A s \in Server : Honest(s)
  BY DEF Init, Honest
<1>2. (\A s \in Server : Honest(s)) => AnswerHonest
  BY DEF AnswerHonest, Honest, Fulfilled
<1> QED
  BY <1>1, <1>2, TypeCorrect, InitFriendInv, NextFriendInv, InitGreetInv,
    NextGreetInv, NextHonest, PTL DEF Spec

-----------------------------------------------------------------------------
(* A client that pages through its threads.                                   *)

(* A set of ids has a last one.  The induction over finite sets is stated     *)
(* with the well-founded order of their inclusion.                            *)
LEMMA LastExists ==
  ASSUME NEW S \in SUBSET Nat, IsFiniteSet(S), S # {}
  PROVE  Last(S) \in S /\ \A j \in S : j <= Last(S)
<1> DEFINE HasLast(U) == \E i \in U : \A j \in U : j <= i
<1> DEFINE Bad == {U \in FiniteSubsetsOf(Nat) : U # {} /\ ~HasLast(U)}
<1>1. ASSUME Bad # {} PROVE FALSE
  <2>1. PICK U \in Bad :
          \A V \in Bad : ~(<<V, U>> \in StrictSubsetOrdering(Nat))
    <3>1. Bad \subseteq FiniteSubsetsOf(Nat)
      OBVIOUS
    <3> HIDE DEF Bad
    <3> QED
      BY <1>1, <3>1, FS_StrictSubsetOrderingWellFounded, WFMin
  <2>2. U \in SUBSET Nat /\ IsFiniteSet(U) /\ U # {} /\ ~HasLast(U)
    BY DEF FiniteSubsetsOf
  <2>3. PICK x \in U : TRUE
    BY <2>2
  <2> DEFINE V == U \ {x}
  <2>4. V \in FiniteSubsetsOf(Nat) /\ V # U
    BY <2>2, FS_RemoveElement DEF FiniteSubsetsOf
  <2>5. <<V, U>> \in StrictSubsetOrdering(Nat)
    BY <2>2, <2>4 DEF StrictSubsetOrdering, FiniteSubsetsOf
  <2>6. V = {} \/ HasLast(V)
    BY <2>1, <2>4, <2>5
  <2>7. CASE V = {}
    <3>1. U = {x} /\ x <= x
      BY <2>2, <2>7
    <3> QED
      BY <2>2, <3>1
  <2>8. CASE HasLast(V)
    <3>1. PICK m \in V : \A j \in V : j <= m
      BY <2>8
    <3>2. m \in Nat /\ x \in Nat /\ U \subseteq Nat
      BY <2>2
    <3>3. CASE x <= m
      <4>1. \A j \in U : j <= m
        BY <3>1, <3>3
      <4> QED
        BY <2>2, <4>1
    <3>4. CASE ~(x <= m)
      <4>1. \A j \in U : j <= x
        BY <3>1, <3>2, <3>4
      <4> QED
        BY <2>2, <2>3, <4>1
    <3> QED
      BY <3>3, <3>4
  <2> QED
    BY <2>6, <2>7, <2>8
<1>2. HasLast(S)
  BY <1>1 DEF FiniteSubsetsOf
<1> QED
  BY <1>2 DEF Last

(* A page is what a cursor passes: every thread of the reader after the last  *)
(* id of the client and up to the new one is in the page.                     *)
LEMMA PageWhole ==
  ASSUME Ids \in SUBSET Nat, IsFiniteSet(Ids), NEW from \in Nat
  PROVE  LET rows == Fetched(from)
             next == NextLastId(rows, from)
         IN  /\ next \in Nat /\ next >= from
             /\ next = from \/ next \in Ids
             /\ \A i \in Ids : from < i /\ i <= next => i \in PageOf(rows)
<1> DEFINE ids == {i \in Ids : i > from}
<1> DEFINE rows == Fetched(from)
<1> DEFINE page == PageOf(rows)
<1>1. /\ rows = {i \in ids : Cardinality({j \in ids : j <= i}) <= PageSize + 1}
      /\ rows \subseteq ids /\ ids \in SUBSET Nat
  BY DEF Fetched
<1>2. rows \in SUBSET Nat /\ page \in SUBSET rows
  BY <1>1 DEF PageOf
<1>3. IsFiniteSet(ids) /\ IsFiniteSet(rows) /\ IsFiniteSet(page)
  <2>1. IsFiniteSet(ids)
    BY FS_Subset
  <2>2. IsFiniteSet(rows)
    BY <1>1, <2>1, FS_Subset
  <2> QED
    BY <1>2, <2>1, <2>2, FS_Subset
<1>4. CASE page = {}
  BY <1>4 DEF NextLastId
<1>5. CASE page # {}
  <2> DEFINE m == Last(page)
  <2>1. m \in page /\ page \in SUBSET Nat
    BY <1>2, <1>3, <1>5, LastExists
  <2>2. NextLastId(rows, from) = m
    BY <1>5 DEF NextLastId
  <2>3. m \in rows /\ m \in Ids /\ m > from /\ m \in Nat
    BY <1>1, <1>2, <2>1
  <2>4. ASSUME NEW i \in Ids, from < i, i <= m PROVE i \in page
    <3>1. i \in ids /\ i \in Nat
      BY <2>4
    <3>2. i \in rows
      <4> DEFINE A == {j \in ids : j <= i}
      <4> DEFINE B == {j \in ids : j <= m}
      <4>1. A \in SUBSET B /\ B \in SUBSET ids
        <5>1. ASSUME NEW j \in ids, j <= i PROVE j <= m
          <6> HIDE DEF m
          <6> QED
            BY <1>1, <2>3, <2>4, <3>1, <5>1
        <5> QED
          BY <5>1
      <4>2. IsFiniteSet(B)
        BY <1>3, <4>1, FS_Subset
      <4>3. Cardinality(A) <= Cardinality(B)
        BY <4>1, <4>2, FS_Subset
      <4>4. Cardinality(A) \in Nat /\ Cardinality(B) \in Nat
        BY <4>1, <4>2, FS_Subset, FS_CardinalityType
      <4>5. Cardinality(B) <= PageSize + 1
        BY <1>1, <2>3
      <4>6. Cardinality(A) <= PageSize + 1
        <5> HIDE DEF A, B
        <5> QED
          BY <4>3, <4>4, <4>5, PagingAssumption
      <4> QED
        BY <1>1, <3>1, <4>6
    <3>3. CASE LoadMore(rows)
      <4>1. page = rows \ {Last(rows)}
        BY <3>3 DEF PageOf
      <4>2. Last(rows) \in rows /\ \A j \in rows : j <= Last(rows)
        BY <1>2, <1>3, <2>3, LastExists
      <4>3. m # Last(rows) /\ m <= Last(rows) /\ Last(rows) \in Nat
        BY <1>2, <2>1, <2>3, <4>1, <4>2
      <4>4. i # Last(rows)
        <5> DEFINE l == Last(rows)
        <5> HIDE DEF l, m
        <5> QED
          BY <2>3, <2>4, <3>1, <4>3 DEF l
      <4> QED
        BY <3>2, <4>1, <4>4
    <3>4. CASE ~LoadMore(rows)
      BY <3>2, <3>4 DEF PageOf
    <3> QED
      BY <3>3, <3>4
  <2> QED
    BY <2>2, <2>3, <2>4
<1> QED
  BY <1>4, <1>5

-----------------------------------------------------------------------------
(* Ids are handed out in increasing order beyond the cursor, and an id that a *)
(* page went past while its transaction was open is in late.                  *)
Pending(s) == (pc[s] = "open" \/ wchat[s] # {}) /\ Reader \in Pair(s)

PagingInv ==
  /\ cursor \in Nat /\ cursor < nextThread
  /\ \A c \in chats : c.id < nextThread
  /\ \A s \in Server : thread[s] < nextThread
  /\ \A s \in Server : Pending(s) /\ thread[s] <= cursor => thread[s] \in late

LEMMA PagingStep == [PagingNext]_<<vars, pageVars>> => [Next]_vars
BY DEF PagingNext, GetUserThreads

LEMMA IdsFinite ==
  ASSUME TypeOK, PagingInv
  PROVE  Ids \in SUBSET Nat /\ IsFiniteSet(Ids)
<1>1. Ids \in SUBSET Nat /\ \A i \in Ids : i <= nextThread
  BY DEF Ids, TypeOK, Chat, PagingInv
<1> QED
  BY <1>1, FS_BoundedSetOfNaturals DEF TypeOK

(* What a step of Friends does to the threads: an id is new, or read; what is *)
(* committed was pending, and what is pending was or is new.                  *)
ThreadStep(s) ==
  /\ nextThread' \in {nextThread, nextThread + 1}
  /\ chats' \subseteq chats \cup wchat[s]
  /\ \/ thread'[s] = thread[s]
     \/ thread'[s] = 0
     \/ \E c \in chats : thread'[s] = c.id
     \/ thread'[s] = nextThread /\ nextThread' = nextThread + 1
  /\ Pending(s)' => \/ Pending(s) /\ thread'[s] = thread[s]
                    \/ thread'[s] = nextThread

LEMMA EveryThreadStep ==
  ASSUME TypeOK, ChatInv, NEW s \in Server, Take(s) \/ Statement(s)
  PROVE  ThreadStep(s)
<1>1. CASE Take(s)
  <2>1. pc'[s] # "open"
    BY <1>1 DEF Take, Goto, First, Request, Kinds, TypeOK
  <2>2. wchat'[s] = {}
    BY <1>1 DEF Take, ChatInv, ChatTx, tx
  <2> QED
    BY <1>1, <2>1, <2>2 DEF Take, ThreadStep, Pending, TypeOK, tables
<1>2. CASE SelectThread(s)
  <2>1. wchat'[s] = {}
    BY <1>2 DEF SelectThread, ChatInv, ChatTx
  <2>2. pc'[s] # "open"
    BY <1>2 DEF SelectThread, Goto, AfterThread, TypeOK
  <2>3. \/ thread'[s] = thread[s]
        \/ \E c \in chats : thread'[s] = c.id
    BY <1>2 DEF SelectThread, Rows, TypeOK
  <2> QED
    BY <1>2, <2>1, <2>2, <2>3 DEF SelectThread, ThreadStep, Pending, tables
<1>3. CASE AllocThread(s)
  BY <1>3 DEF AllocThread, ThreadStep, TypeOK, tables
<1>4. CASE OpenThread(s)
  <2>1. pc[s] = "open" /\ Pair(s)' = Pair(s)
    BY <1>4 DEF OpenThread, Pair, local
  <2> QED
    BY <1>4, <2>1 DEF OpenThread, ThreadStep, Pending, tables, local
<1>5. CASE Commit(s) \/ Rollback(s)
  <2>1. wchat'[s] = {} /\ pc'[s] = "reply" /\ thread' = thread
    BY <1>5 DEF Commit, Rollback, EndTx, Answer, Goto, TypeOK
  <2> QED
    BY <1>5, <2>1 DEF Commit, Rollback, ThreadStep, Pending, tables
<1>6. ASSUME \/ CheckFriend(s) \/ GetApplyState(s) \/ AddFriendApply(s)
             \/ AuthFriendApply(s) \/ RejectFriendApply(s) \/ InsertMine(s)
             \/ InsertTheirs(s) \/ Greet(s) \/ SendReply(s)
      PROVE  ThreadStep(s)
  <2>1. pc'[s] # "open"
    BY <1>6 DEF CheckFriend, GetApplyState, AddFriendApply, AuthFriendApply,
      RejectFriendApply, InsertMine, InsertTheirs, Greet, SendReply, Answer,
      Goto, TypeOK
  <2>2. UNCHANGED <<req, thread, wchat, chats, nextThread>>
    BY <1>6 DEF CheckFriend, GetApplyState, AddFriendApply, AuthFriendApply,
      RejectFriendApply, InsertMine, InsertTheirs, Greet, SendReply, Answer,
      tables, local, tx
  <2>3. Pending(s)' => Pending(s)
    BY <2>1, <2>2 DEF Pending, Pair
  <2> QED
    BY <2>2, <2>3 DEF ThreadStep
<1> QED
  BY <1>1, <1>2, <1>3, <1>4, <1>5, <1>6 DEF Statement

LEMMA WorkerPaging ==
  ASSUME TypeOK, ChatInv, PagingInv, NothingSkipped, UNCHANGED pageVars,
         NEW s \in Server, Take(s) \/ Statement(s)
  PROVE  PagingInv' /\ NothingSkipped'
<1>1. \A t \in Server \ {s} : Untouched(t)
  BY OneWorker
<1>2. ThreadStep(s)
  BY EveryThreadStep
<1>3. /\ cursor' = cursor /\ seen' = seen /\ late' = late
      /\ cursor \in Nat /\ nextThread \in Nat \ {0}
      /\ nextThread' \in Nat /\ nextThread' >= nextThread
      /\ \A t \in Server : thread[t] \in Nat
      /\ \A c \in chats : c.id \in Nat
  BY <1>2 DEF pageVars, PagingInv, TypeOK, ThreadStep, Chat
<1>4. ASSUME NEW c \in wchat[s]
      PROVE  c.id = thread[s] /\ (Reader \in c.pair => Pending(s))
  <2>1. c = [id |-> thread[s], pair |-> Pair(s)]
    BY <1>4 DEF ChatInv, ChatTx
  <2> QED
    BY <1>4, <2>1 DEF Pending
<1>5. \A c \in chats' : c.id < nextThread'
  <2>1. ASSUME NEW c \in chats' PROVE c.id < nextThread /\ c.id \in Nat
    BY <1>2, <1>3, <1>4, <2>1 DEF ThreadStep, PagingInv
  <2> QED
    BY <1>3, <2>1
<1>6. ASSUME NEW t \in Server PROVE thread'[t] < nextThread'
  <2>1. CASE t = s
    BY <1>2, <1>3, <2>1 DEF ThreadStep, PagingInv
  <2>2. CASE t # s
    BY <1>1, <1>3, <2>2 DEF Untouched, PagingInv
  <2> QED
    BY <2>1, <2>2
<1>7. ASSUME NEW t \in Server, Pending(t)', thread'[t] <= cursor'
      PROVE  thread'[t] \in late'
  <2>1. CASE t = s
    BY <1>2, <1>3, <1>7, <2>1 DEF ThreadStep, PagingInv
  <2>2. CASE t # s
    <3>1. Pending(t) /\ thread'[t] = thread[t]
      BY <1>1, <1>7, <2>2 DEF Untouched, Pending, Pair
    <3> QED
      BY <1>3, <1>7, <3>1 DEF PagingInv
  <2> QED
    BY <2>1, <2>2
<1>8. PagingInv'
  BY <1>3, <1>5, <1>6, <1>7 DEF PagingInv
<1>9. ASSUME NEW i \in Ids', i <= cursor PROVE i \in seen \cup late
  <2>1. PICK c \in chats' : Reader \in c.pair /\ i = c.id
    BY DEF Ids
  <2>2. CASE c \in chats
    BY <1>9, <2>1, <2>2 DEF Ids, NothingSkipped
  <2>3. CASE c \in wchat[s]
    BY <1>4, <1>9, <2>1, <2>3 DEF PagingInv
  <2> QED
    BY <1>2, <2>2, <2>3 DEF ThreadStep
<1> QED
  BY <1>3, <1>8, <1>9 DEF NothingSkipped

(* A page puts everything it passes in seen or, if it is uncommitted, in      *)
(* late.                                                                      *)
LEMMA PagePaging ==
  ASSUME TypeOK, PagingInv, NothingSkipped, NEW s \in Server, GetUserThreads(s)
  PROVE  PagingInv' /\ NothingSkipped'
<1>1. Ids \in SUBSET Nat /\ IsFiniteSet(Ids) /\ cursor \in Nat
  BY IdsFinite DEF PagingInv
<1>2. /\ cursor' = NextLastId(Fetched(cursor), cursor)
      /\ seen' = seen \cup PageOf(Fetched(cursor))
      /\ late' = late \cup {i \in Uncommitted : i <= cursor'}
      /\ UNCHANGED vars
  BY DEF GetUserThreads
<1>3. /\ cursor' \in Nat /\ cursor' >= cursor
      /\ cursor' = cursor \/ cursor' \in Ids
      /\ \A i \in Ids : cursor < i /\ i <= cursor' => i \in PageOf(Fetched(cursor))
  BY <1>1, <1>2, PageWhole
<1>4. Ids' = Ids
  BY <1>2 DEF Ids, vars, tables
<1>5. ASSUME NEW t \in Server PROVE Pending(t)' = Pending(t) /\ thread'[t] = thread[t]
  BY <1>2 DEF Pending, Pair, vars, local, tx
<1>6. cursor' < nextThread'
  BY <1>2, <1>3 DEF PagingInv, Ids, vars
<1>7. ASSUME NEW t \in Server, Pending(t), thread[t] <= cursor'
      PROVE  thread[t] \in late'
  <2>1. thread[t] \in Uncommitted
    BY <1>7 DEF Uncommitted, Pending
  <2> QED
    BY <1>2, <1>7, <2>1
<1>8. PagingInv'
  BY <1>2, <1>3, <1>5, <1>6, <1>7 DEF PagingInv, vars, tables, local
<1>9. ASSUME NEW i \in Ids, i <= cursor' PROVE i \in seen' \cup late'
  <2>1. CASE i <= cursor
    BY <1>2, <2>1 DEF NothingSkipped
  <2>2. CASE ~(i <= cursor)
    BY <1>1, <1>2, <1>3, <1>9, <2>2
  <2> QED
    BY <2>1, <2>2
<1> QED
  BY <1>4, <1>8, <1>9 DEF NothingSkipped

LEMMA NextPaging ==
  TypeOK /\ ChatInv /\ PagingInv /\ NothingSkipped
    /\ [PagingNext]_<<vars, pageVars>> => PagingInv' /\ NothingSkipped'
<1> SUFFICES ASSUME TypeOK, ChatInv, PagingInv, NothingSkipped,
                    [PagingNext]_<<vars, pageVars>>
             PROVE  PagingInv' /\ NothingSkipped'
  OBVIOUS
<1>1. CASE \E s \in Server : GetUserThreads(s)
  BY <1>1, PagePaging
<1>2. CASE UNCHANGED <<vars, pageVars>>
  BY <1>2 DEF PagingInv, NothingSkipped, Pending, Pair, Ids, vars, pageVars,
    tables, local, tx
<1>3. ASSUME Next, UNCHANGED pageVars PROVE PagingInv' /\ NothingSkipped'
  <2>1. CASE Quiet
    BY <1>2, <1>3, <2>1 DEF Quiet
  <2>2. CASE \E s \in Server : Take(s) \/ Statement(s)
    BY <1>3, <2>2, WorkerPaging
  <2> QED
    BY <1>3, <2>1, <2>2 DEF Next
<1> QED
  BY <1>1, <1>2, <1>3 DEF PagingNext

LEMMA InitPaging == PagingInit => Init /\ PagingInv /\ NothingSkipped
<1> SUFFICES ASSUME PagingInit PROVE Init /\ PagingInv /\ NothingSkipped
  OBVIOUS
<1>1. Init /\ cursor = 0 /\ chats = {} /\ nextThread = 1
      /\ \A s \in Server : thread[s] = 0 /\ pc[s] = "idle" /\ wchat[s] = {}
  BY DEF PagingInit, Init
<1> QED
  BY <1>1 DEF PagingInv, NothingSkipped, Pending, Ids

(* A client that pages through its threads while chats are being opened       *)
(* misses none, except one whose transaction was still open when a page with  *)
(* a larger id was served: the AUTO_INCREMENT ids come in the order of the    *)
(* insertions, the rows in the order of the commits (MysqlDao::               *)
(* GetUserThreads).                                                           *)
THEOREM PagingComplete == PagingSpec => []NothingSkipped
<1>1. PagingSpec => [](TypeOK /\ ChatInv)
  BY InitPaging, PagingStep, InitTypeOK, NextTypeOK, InitChatInv, NextChatInv,
    PTL DEF PagingSpec
<1> QED
  BY <1>1, InitPaging, NextPaging, PTL DEF PagingSpec

-----------------------------------------------------------------------------
(* Two applications cross only by overlapping.                                *)
LEMMA NextCrossing ==
  ASSUME ~MayFail
  PROVE  TypeOK /\ CrossingNeedsOverlap /\ [CrossingNext]_<<vars, pageVars, behind>>
           => CrossingNeedsOverlap'
<1> SUFFICES ASSUME TypeOK, CrossingNeedsOverlap,
                    [CrossingNext]_<<vars, pageVars, behind>>
             PROVE  CrossingNeedsOverlap'
  OBVIOUS
<1>1. CASE UNCHANGED vars /\ behind' = {s \in Server : FiledMeanwhile(s)}
  BY <1>1 DEF CrossingNeedsOverlap, FiledMeanwhile, Theirs, vars, tables, local
<1>2. CASE UNCHANGED <<vars, behind>>
  BY <1>2 DEF CrossingNeedsOverlap, Theirs, vars, tables, local
<1>3. ASSUME NEW s \in Server, Take(s) \/ Statement(s),
             behind' = {t \in Server : FiledMeanwhile(t)},
             NEW t \in Server, pc'[t] = "apply", applies'[Theirs(t)'] = "pending"
      PROVE  t \in behind'
  <2>1. CASE pc[t] = "apply" /\ req'[t] = req[t]
    <3>1. Theirs(t)' = Theirs(t)
      BY <2>1 DEF Theirs
    <3>2. applies[Theirs(t)] = "pending" => t \in behind
      BY <2>1 DEF CrossingNeedsOverlap
    <3> QED
      BY <1>3, <2>1, <3>1, <3>2 DEF FiledMeanwhile
  <2>2. CASE t = s /\ pc[s] # "apply"
    <3>1. GetApplyState(s)
      <4>1. pc'[s] = "apply"
        BY <1>3, <2>2
      <4>2. ~Take(s) /\ ~CheckFriend(s)
        BY <4>1 DEF Take, CheckFriend, Answer, Goto, First, Request, Kinds,
          TypeOK
      <4>3. ~AddFriendApply(s) /\ ~AuthFriendApply(s) /\ ~RejectFriendApply(s)
        BY <4>1 DEF AddFriendApply, AuthFriendApply, RejectFriendApply, Answer,
          Goto, TypeOK
      <4>4. /\ ~InsertMine(s) /\ ~InsertTheirs(s) /\ ~SelectThread(s)
            /\ ~AllocThread(s) /\ ~OpenThread(s) /\ ~Greet(s)
        BY <4>1 DEF InsertMine, InsertTheirs, SelectThread, AllocThread,
          OpenThread, Greet, AfterThread, Goto, TypeOK
      <4>5. ~Commit(s) /\ ~Rollback(s) /\ ~SendReply(s)
        BY <4>1 DEF Commit, Rollback, SendReply, Answer, Goto, TypeOK
      <4> QED
        BY <1>3, <4>2, <4>3, <4>4, <4>5 DEF Statement
    <3>2. applies' = applies /\ Theirs(s)' = Theirs(s)
      BY <3>1 DEF GetApplyState, tables, local, Theirs
    <3>3. applies[Theirs(s)] # "pending"
      BY <1>3, <2>2, <3>1 DEF GetApplyState, Goto, TypeOK
    <3> QED
      BY <1>3, <2>2, <3>2, <3>3
  <2>3. CASE t # s
    BY <1>3, <2>1, <2>3, OneWorker DEF Untouched
  <2>4. CASE t = s /\ pc[s] = "apply"
    <3>1. AddFriendApply(s)
      BY <1>3, <2>4 DEF Take, Statement, CheckFriend, GetApplyState,
        AuthFriendApply, RejectFriendApply, InsertMine, InsertTheirs,
        SelectThread, AllocThread, OpenThread, Greet, Commit, Rollback,
        SendReply, InTx
    <3>2. pc'[s] = "reply"
      BY <3>1 DEF AddFriendApply, Answer, Goto, TypeOK
    <3> QED
      BY <1>3, <2>4, <3>2
  <2> QED
    BY <2>2, <2>3, <2>4
<1>4. CASE CrossingNext
  <2>1. UNCHANGED vars \/ \E s \in Server : Take(s) \/ Statement(s)
    BY <1>4 DEF CrossingNext, PagingNext, GetUserThreads, Next, Quiet
  <2> QED
    BY <1>1, <1>3, <1>4, <2>1 DEF CrossingNext, CrossingNeedsOverlap
<1> QED
  BY <1>2, <1>4

(* When no query fails, an application is filed beside a pending one of the   *)
(* other user only if that one came between GetApplyState and AddFriendApply: *)
(* otherwise it is taken for an acceptance (LogicSystem::AddFriendApply).     *)
THEOREM CrossingOverlaps ==
  ASSUME ~MayFail PROVE CrossingSpec => []CrossingNeedsOverlap
<1>1. CrossingInit => TypeOK /\ CrossingNeedsOverlap
  <2>1. CrossingInit => Init
    BY DEF CrossingInit, PagingInit
  <2> QED
    BY <2>1, InitTypeOK DEF Init, CrossingNeedsOverlap
<1>2. [CrossingNext]_<<vars, pageVars, behind>> => [Next]_vars
  BY PagingStep DEF CrossingNext
<1> QED
  BY <1>1, <1>2, NextTypeOK, NextCrossing, PTL DEF CrossingSpec
=============================================================================
