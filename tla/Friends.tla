------------------------------- MODULE Friends -------------------------------
(* Friend applications, friendships and private chats: the handlers          *)
(* AddFriendApply, AuthFriendApply and CreatePrivateChat of LogicSystem over *)
(* the statements MysqlDao sends to the one MySQL database of all servers.   *)
(* Every server has one worker, so two requests interleave statement by      *)
(* statement when they are handled on different servers.                     *)
(*                                                                           *)
(* MySQL is external: an autocommitted statement is one step; a transaction  *)
(* keeps its rows to itself until it commits, an insertion waits for another *)
(* transaction's uncommitted row with the same key, and SELECT .. FOR UPDATE *)
(* locks the row it finds, or the gap where it found none (shared among      *)
(* readers, closed to inserters).  A cycle of waits is broken by rolling     *)
(* back a transaction that changed the fewest rows.                          *)
EXTENDS Integers, FiniteSets

CONSTANTS
  User,          \* the users
  Server,        \* the chat servers: one worker each
  Kind,          \* the requests clients make: a subset of Kinds
  MaxRequests,   \* bound: the requests handled in a behaviour
  MayFail,       \* statements may fail, or be done and reported as failed
  CountsMatched  \* getAffectedItemsCount counts rows matched, not rows changed

Kinds == {"add", "agree", "refuse", "chat"}

ASSUME ConstantsAssumption ==
  /\ IsFiniteSet(Server)
  /\ Kind \subseteq Kinds
  /\ MaxRequests \in Nat
  /\ MayFail \in BOOLEAN
  /\ CountsMatched \in BOOLEAN

VARIABLES
  applies,     \* friend_apply: the status of the row of <<from, to>>
  friend,      \* friend: the pairs <<uid, frienduid>>, committed
  chats,       \* private_chat: [id, pair], committed
  greetings,   \* chat_message: the threads greeted, committed
  nextThread,  \* the AUTO_INCREMENT counter of chat_thread
  pc,          \* what the worker of a server does next
  req,         \* the request it handles
  res,         \* the error field of its reply
  thread,      \* its local thread_id
  locked,      \* its transaction has the lock of SELECT .. FOR UPDATE
  wfriend,     \* rows of friend its transaction has inserted
  wchat,       \* rows of private_chat its transaction has inserted
  wgreet,      \* rows of chat_message its transaction has inserted
  requests,    \* requests still to come
  wished       \* history: <<u, v>> once u has applied to v or accepted v

tables == <<applies, friend, chats, greetings>>
tx     == <<locked, wfriend, wchat, wgreet>>
local  == <<req, res, thread>>
vars   == <<tables, nextThread, pc, local, tx, requests, wished>>

Status    == {"none", "pending", "accepted", "rejected"}
Direction == {d \in User \X User : d[1] # d[2]}
Couple    == {{d[1], d[2]} : d \in Direction}
Chat      == [id : Nat \ {0}, pair : Couple]
Request   == {r \in [kind : Kinds, me : User, other : User] : r.me # r.other}
NoRequest == [kind |-> "none"]
Reply     == {"Success", "FriendInvalid", "RPCFailed"}
Place     == {"idle", "check", "state", "apply", "auth", "reject", "mine",
              "theirs", "select", "alloc", "open", "greet", "commit", "reply"}
InTx      == {"mine", "theirs", "select", "alloc", "open", "greet", "commit"}

Mine(s)   == <<req[s].me, req[s].other>>
Theirs(s) == <<req[s].other, req[s].me>>
Pair(s)   == {req[s].me, req[s].other}

(* The rows of private_chat a locking read of the pair of s finds.           *)
Rows(s) == {c \in chats : c.pair = Pair(s)}

-----------------------------------------------------------------------------
(* The statement s is at has to wait for the transaction of t.               *)
WaitsFor(s, t) ==
  /\ s # t
  /\ \/ pc[s] = "mine" /\ Mine(s) \in wfriend[t]
     \/ pc[s] = "theirs" /\ Theirs(s) \in wfriend[t]
     \/ /\ pc[s] = "select"
        /\ locked[t] /\ Pair(t) = Pair(s)
        /\ Rows(s) # {} \/ wchat[t] # {}
     \/ pc[s] = "open" /\ locked[t] /\ Pair(t) = Pair(s)

Blocked(s) == \E t \in Server : WaitsFor(s, t)

Weight(s) == Cardinality(wfriend[s]) + IF thread[s] = 0 THEN 0 ELSE 1

(* s waits in a knot of transactions and changed no more rows than another.  *)
Victim(s) ==
  \E D \in SUBSET Server :
    /\ s \in D
    /\ \A t \in D : Weight(s) <= Weight(t) /\ \E u \in D : WaitsFor(t, u)

Goto(s, place) == pc' = [pc EXCEPT ![s] = place]

(* The codes of a failure, CREATE_CHAT_FAILED and UidInvalid among them, are *)
(* all RPCFailed here.  Notices to the other user are not part of the model. *)
Answer(s, code) ==
  /\ Goto(s, "reply")
  /\ res' = [res EXCEPT ![s] = code]
  /\ UNCHANGED <<req, thread>>

-----------------------------------------------------------------------------
(* The worker of s takes a request; for a user who answers an application,   *)
(* me is the approver whichever way round the message names the two.         *)
First == [add |-> "check", agree |-> "auth", refuse |-> "reject",
          chat |-> "select"]

Take(s) ==
  /\ pc[s] = "idle" /\ requests > 0
  /\ \E r \in Request :
       /\ r.kind \in Kind
       /\ req' = [req EXCEPT ![s] = r]
       /\ Goto(s, First[r.kind])
       /\ wished' = IF r.kind \in {"add", "agree"}
                    THEN wished \cup {<<r.me, r.other>>}
                    ELSE wished
  /\ res' = [res EXCEPT ![s] = "Success"]
  /\ thread' = [thread EXCEPT ![s] = 0]
  /\ requests' = requests - 1
  /\ UNCHANGED <<tables, nextThread, tx>>

(* MysqlDao::CheckFriend: a failed query counts as not a friend.             *)
CheckFriend(s) ==
  /\ pc[s] = "check"
  /\ \/ Mine(s) \in friend /\ Answer(s, "FriendInvalid")
     \/ /\ Mine(s) \notin friend \/ MayFail
        /\ Goto(s, "state")
        /\ UNCHANGED local
  /\ UNCHANGED <<tables, nextThread, tx, requests, wished>>

(* Mutant: the two users are bound the wrong way round.                      *)
GetApplyStateOwn(s) ==
  /\ pc[s] = "state"
  /\ Goto(s, IF applies[Mine(s)] = "pending" THEN "auth" ELSE "apply")
  /\ UNCHANGED <<tables, nextThread, local, tx, requests, wished>>

(* MysqlDao::GetApplyState of the reverse application: pending makes this    *)
(* application an acceptance; a failed query counts as no row.               *)
GetApplyState(s) ==
  /\ pc[s] = "state"
  /\ \/ applies[Theirs(s)] = "pending" /\ Goto(s, "auth")
     \/ /\ applies[Theirs(s)] # "pending" \/ MayFail
        /\ Goto(s, "apply")
  /\ UNCHANGED <<tables, nextThread, local, tx, requests, wished>>

(* MysqlDao::AddFriendApply: INSERT .. ON DUPLICATE KEY UPDATE status = 0.   *)
AddFriendApply(s) ==
  /\ pc[s] = "apply"
  /\ \/ /\ applies' = [applies EXCEPT ![Mine(s)] = "pending"]
        /\ Answer(s, "Success")
     \/ /\ MayFail
        /\ applies' \in {applies, [applies EXCEPT ![Mine(s)] = "pending"]}
        /\ Answer(s, "RPCFailed")
  /\ UNCHANGED <<friend, chats, greetings, nextThread, tx, requests, wished>>

(* Mutant: the number of rows is not looked at.                              *)
AffectedAlways(d, status) == TRUE

(* UPDATE friend_apply SET status: the rows counted by the driver.           *)
Affected(d, status) ==
  applies[d] \notin (IF CountsMatched THEN {"none"} ELSE {"none", status})

Updated(d, status) ==
  IF applies[d] = "none" THEN applies ELSE [applies EXCEPT ![d] = status]

(* MysqlDao::AuthFriendApply; the transaction of AddFriend follows.  That    *)
(* the applicant's profile cannot be read, before, is one of the failures.   *)
AuthFriendApply(s) ==
  /\ pc[s] = "auth"
  /\ \/ /\ applies' = Updated(Theirs(s), "accepted")
        /\ \/ /\ Affected(Theirs(s), "accepted")
              /\ Goto(s, "mine")
              /\ UNCHANGED local
           \/ ~Affected(Theirs(s), "accepted") /\ Answer(s, "RPCFailed")
     \/ /\ MayFail
        /\ applies' \in {applies, Updated(Theirs(s), "accepted")}
        /\ Answer(s, "RPCFailed")
  /\ UNCHANGED <<friend, chats, greetings, nextThread, tx, requests, wished>>

(* MysqlDao::RejectFriendApply; that the applicant cannot be told is         *)
(* reported as a failure although the application has been rejected.         *)
RejectFriendApply(s) ==
  /\ pc[s] = "reject"
  /\ \/ /\ applies' = Updated(Theirs(s), "rejected")
        /\ \/ Affected(Theirs(s), "rejected") /\ Answer(s, "Success")
           \/ Answer(s, "RPCFailed")
     \/ /\ MayFail
        /\ applies' \in {applies, Updated(Theirs(s), "rejected")}
        /\ Answer(s, "RPCFailed")
  /\ UNCHANGED <<friend, chats, greetings, nextThread, tx, requests, wished>>

-----------------------------------------------------------------------------
(* Mutant: AddFriend starts no transaction, each insertion commits.          *)
InsertMineAutocommit(s) ==
  /\ pc[s] = "mine" /\ ~Blocked(s)
  /\ friend' = friend \cup {Mine(s)}
  /\ Goto(s, "theirs")
  /\ UNCHANGED <<applies, chats, greetings, nextThread, local, tx, requests,
                 wished>>

(* The transaction of MysqlDao::AddFriend: both directions with INSERT       *)
(* IGNORE, the private chat found or made, the greeting.  The transaction of *)
(* MysqlDao::CreatePrivateChat is its middle part.                           *)
InsertMine(s) ==
  /\ pc[s] = "mine" /\ ~Blocked(s)
  /\ wfriend' = [wfriend EXCEPT ![s] = @ \cup ({Mine(s)} \ friend)]
  /\ Goto(s, "theirs")
  /\ UNCHANGED <<tables, nextThread, local, locked, wchat, wgreet, requests,
                 wished>>

InsertTheirs(s) ==
  /\ pc[s] = "theirs" /\ ~Blocked(s)
  /\ wfriend' = [wfriend EXCEPT ![s] = @ \cup ({Theirs(s)} \ friend)]
  /\ Goto(s, "select")
  /\ UNCHANGED <<tables, nextThread, local, locked, wchat, wgreet, requests,
                 wished>>

AfterThread(s) == IF req[s].kind = "chat" THEN "commit" ELSE "greet"

(* Mutant: SELECT without FOR UPDATE.                                        *)
SelectThreadUnlocked(s) ==
  /\ pc[s] = "select"
  /\ \/ /\ \E c \in Rows(s) : thread' = [thread EXCEPT ![s] = c.id]
        /\ Goto(s, AfterThread(s))
     \/ Rows(s) = {} /\ Goto(s, "alloc") /\ UNCHANGED thread
  /\ UNCHANGED <<tables, nextThread, req, res, tx, requests, wished>>

SelectThread(s) ==
  /\ pc[s] = "select" /\ ~Blocked(s)
  /\ locked' = [locked EXCEPT ![s] = TRUE]
  /\ \/ /\ \E c \in Rows(s) : thread' = [thread EXCEPT ![s] = c.id]
        /\ Goto(s, AfterThread(s))
     \/ /\ Rows(s) = {}
        /\ Goto(s, "alloc")
        /\ UNCHANGED thread
  /\ UNCHANGED <<tables, nextThread, req, res, wfriend, wchat, wgreet,
                 requests, wished>>

(* INSERT INTO chat_thread: a roll-back does not give the id back.           *)
AllocThread(s) ==
  /\ pc[s] = "alloc"
  /\ thread' = [thread EXCEPT ![s] = nextThread]
  /\ nextThread' = nextThread + 1
  /\ Goto(s, "open")
  /\ UNCHANGED <<tables, req, res, tx, requests, wished>>

OpenThread(s) ==
  /\ pc[s] = "open" /\ ~Blocked(s)
  /\ wchat' = [wchat EXCEPT ![s] = {[id |-> thread[s], pair |-> Pair(s)]}]
  /\ Goto(s, AfterThread(s))
  /\ UNCHANGED <<tables, nextThread, local, locked, wfriend, wgreet, requests,
                 wished>>

Greet(s) ==
  /\ pc[s] = "greet"
  /\ wgreet' = [wgreet EXCEPT ![s] = {thread[s]}]
  /\ Goto(s, "commit")
  /\ UNCHANGED <<tables, nextThread, local, locked, wfriend, wchat, requests,
                 wished>>

EndTx(s) ==
  /\ locked'  = [locked EXCEPT ![s] = FALSE]
  /\ wfriend' = [wfriend EXCEPT ![s] = {}]
  /\ wchat'   = [wchat EXCEPT ![s] = {}]
  /\ wgreet'  = [wgreet EXCEPT ![s] = {}]

(* Mutant: AddFriend returns without committing.                             *)
CommitForgotten(s) ==
  /\ pc[s] = "commit"
  /\ EndTx(s)
  /\ Answer(s, "Success")
  /\ UNCHANGED <<tables, nextThread, requests, wished>>

(* A commit whose answer is lost is reported as a failure.                   *)
Commit(s) ==
  /\ pc[s] = "commit"
  /\ friend' = friend \cup wfriend[s]
  /\ chats' = chats \cup wchat[s]
  /\ greetings' = greetings \cup wgreet[s]
  /\ EndTx(s)
  /\ Answer(s, "Success") \/ (MayFail /\ Answer(s, "RPCFailed"))
  /\ UNCHANGED <<applies, nextThread, requests, wished>>

(* Mutants: the catch clause does not roll back; or does not return false.   *)
RollbackForgotten(s) ==
  /\ pc[s] \in InTx
  /\ MayFail \/ Victim(s)
  /\ Answer(s, "RPCFailed")
  /\ UNCHANGED <<tables, nextThread, tx, requests, wished>>

RollbackSuccess(s) ==
  /\ pc[s] \in InTx
  /\ MayFail \/ Victim(s)
  /\ EndTx(s)
  /\ Answer(s, "Success")
  /\ UNCHANGED <<tables, nextThread, requests, wished>>

(* The catch clauses: a statement failed or was chosen to break a deadlock.  *)
Rollback(s) ==
  /\ pc[s] \in InTx
  /\ MayFail \/ Victim(s)
  /\ EndTx(s)
  /\ Answer(s, "RPCFailed")
  /\ UNCHANGED <<tables, nextThread, requests, wished>>

(* The Defer of the handler sends the reply; the worker is free again.       *)
SendReply(s) ==
  /\ pc[s] = "reply"
  /\ Goto(s, "idle")
  /\ UNCHANGED <<tables, nextThread, local, tx, requests, wished>>

-----------------------------------------------------------------------------
Init ==
  /\ applies = [d \in Direction |-> "none"]
  /\ friend = {} /\ chats = {} /\ greetings = {}
  /\ nextThread = 1
  /\ pc = [s \in Server |-> "idle"]
  /\ req = [s \in Server |-> NoRequest]
  /\ res = [s \in Server |-> "Success"]
  /\ thread = [s \in Server |-> 0]
  /\ locked = [s \in Server |-> FALSE]
  /\ wfriend = [s \in Server |-> {}]
  /\ wchat = [s \in Server |-> {}]
  /\ wgreet = [s \in Server |-> {}]
  /\ requests = MaxRequests
  /\ wished = {}

(* What the worker of s does once it has taken a request.                    *)
Statement(s) ==
  \/ CheckFriend(s) \/ GetApplyState(s) \/ AddFriendApply(s)
  \/ AuthFriendApply(s) \/ RejectFriendApply(s)
  \/ InsertMine(s) \/ InsertTheirs(s) \/ SelectThread(s) \/ AllocThread(s)
  \/ OpenThread(s) \/ Greet(s) \/ Commit(s) \/ Rollback(s) \/ SendReply(s)

(* The bound is reached and nothing is left to do.                           *)
Quiet ==
  /\ requests = 0
  /\ \A s \in Server : pc[s] = "idle"
  /\ UNCHANGED vars

Next == (\E s \in Server : Take(s) \/ Statement(s)) \/ Quiet

(* A worker keeps running, and MySQL answers every statement that is not     *)
(* waiting for a lock; it breaks deadlocks, and need not report failures.    *)
Fairness ==
  \A s \in Server : WF_vars(Statement(s) /\ (Rollback(s) => Victim(s)))

Spec == Init /\ [][Next]_vars
FairSpec == Spec /\ Fairness

-----------------------------------------------------------------------------
(* Types, and which transaction holds what where.                            *)
TypeOK ==
  /\ applies \in [Direction -> Status]
  /\ friend \subseteq Direction
  /\ chats \subseteq Chat
  /\ greetings \subseteq Nat
  /\ nextThread \in Nat \ {0}
  /\ pc \in [Server -> Place]
  /\ req \in [Server -> Request \cup {NoRequest}]
  /\ \A s \in Server : pc[s] # "idle" => req[s] \in Request
  /\ \A s \in Server : pc[s] = "open" => thread[s] # 0
  /\ res \in [Server -> Reply]
  /\ thread \in [Server -> Nat]
  /\ locked \in [Server -> BOOLEAN]
  /\ wfriend \in [Server -> SUBSET Direction]
  /\ wchat \in [Server -> SUBSET Chat]
  /\ wgreet \in [Server -> SUBSET Nat]
  /\ requests \in Nat
  /\ wished \subseteq Direction

(* Friendship is mutual at every instant another server can look, whatever   *)
(* transactions fail or are rolled back half-way (AddFriend).                *)
FriendSymmetric == \A d \in friend : <<d[2], d[1]>> \in friend

(* Nobody becomes a friend without having asked: each of two friends has     *)
(* applied to the other or accepted the other's application.                 *)
Consent == \A d \in friend : d \in wished

(* Two users never get two private chats, although AddFriend and             *)
(* CreatePrivateChat both look one up and make it when there is none.        *)
OneChat == \A c, d \in chats : c.pair = d.pair => c = d

(* Friends have a private chat with a greeting in it.                        *)
FriendsGreeted ==
  \A d \in friend :
    \E c \in chats : c.pair = {d[1], d[2]} /\ c.id \in greetings

(* With no failing statement, an accepted application is a friendship or is  *)
(* on its way to one, even when transactions deadlock.                       *)
AcceptedAreFriends ==
  \A d \in Direction :
    applies[d] = "accepted" =>
      \/ d \in friend
      \/ \E s \in Server :
           /\ pc[s] \in InTx /\ req[s].kind # "chat"
           /\ Pair(s) = {d[1], d[2]}

(* A reply without an error is true: an acceptance made friends, a chat was  *)
(* opened, an application was filed or has made friends.                     *)
AnswerHonest ==
  \A s \in Server :
    pc[s] = "reply" /\ res[s] = "Success" =>
      CASE req[s].kind = "agree"  -> Mine(s) \in friend
        [] req[s].kind = "add"    -> Mine(s) \in friend
                                     \/ applies[Mine(s)] # "none"
        [] req[s].kind = "chat"   -> \E c \in Rows(s) : c.id = thread[s]
        [] req[s].kind = "refuse" -> applies[Theirs(s)] # "none"

(* An application is filed only for the user who applies and answered only   *)
(* for the user it is addressed to.                                          *)
ApplyAuthority ==
  [][\A d \in Direction :
       applies'[d] # applies[d] =>
         \E s \in Server :
           /\ pc'[s] # pc[s]
           /\ IF applies'[d] = "pending" THEN d = Mine(s) ELSE d = Theirs(s)]_vars

(* Every request is answered: no wait between transactions lasts for ever.   *)
Answered == \A s \in Server : pc[s] # "idle" ~> pc[s] = "idle"
=============================================================================
