------------------------------ MODULE MCLogins ------------------------------
(***************************************************************************)
(* The way to a token: codes, accounts and tokens (Accounts, which this    *)
(* module extends) and StatusServer's choice of the chat server; and the   *)
(* logins at a chat server that may die and start again (ChatLogin).       *)
(* part chooses the one that runs; the others stand still.                 *)
(***************************************************************************)
EXTENDS Accounts, TLC, Sequences

CONSTANTS
  a, b, n1, e1, e2, p1, p2, t1, t2, s1, u1, c1, c2,
  Threads, servers, Full, NoThread, Loads, MaxCalls, MaxMisses,  \* StatusServer
  Server, User, Session, NoUser, NoServer, NoSession, Free, Orphan,  \* ChatLogin
  RpcAddr, At, Of, LockMayExpire, AcquireMayFail, KickMayTimeOut, MaxLogins, MayCrash,
  MaxMishaps

VARIABLES
  part,
  count, mtx, place, at, best, bestCount, calls, misses, steady,
  sock, rd, out, userUid, logins, pend, sessions, userSession, que, wpc, kicks,
  due, cpc, csess, cuid, uip, usession, lock, mishaps

statusVars == <<count, mtx, place, at, best, bestCount, calls, misses, steady>>
chatVars ==
  <<sock, rd, out, userUid, logins, pend, sessions, userSession, que, wpc, kicks,
    due, cpc, csess, cuid, uip, usession, lock, mishaps>>

Status == INSTANCE StatusServer WITH
  Thread <- Threads, MaxFaults <- MaxMisses, pc <- place, faults <- misses

Restarts == INSTANCE ChatLogin WITH MaxFaults <- MaxMishaps, faults <- mishaps

\* What each part supposes of its constants (config.ini names a chat server, and an
\* absent count stands for one that no count exceeds).
ASSUME StatusAssumption ==
  /\ servers \in Seq(STRING) /\ servers # <<>>
  /\ Loads \subseteq Nat /\ Full \in Nat /\ \A n \in Loads : n <= Full
  /\ NoThread \notin Threads /\ MaxCalls \in Nat /\ MaxMisses \in Nat
ASSUME ChatAssumption ==
  /\ NoUser \notin User /\ NoServer \notin Server /\ NoSession \notin Session
  /\ At \in [Session -> Server] /\ Of \in [Session -> User]
  /\ \A s \in Server : RpcAddr[s] # NoServer
  /\ {LockMayExpire, AcquireMayFail, KickMayTimeOut, MayCrash} \subseteq BOOLEAN
  /\ MaxLogins \in Nat /\ MaxMishaps \in Nat
  /\ {Free, Orphan} \cap Restarts!Thread = {} /\ Free # Orphan

\* Each client's user reads one mailbox.
OwnMail == (a :> {e1}) @@ (b :> {e2})
SwapPwds == Permutations({p1, p2})

\* Three servers: one before and one after the least loaded.
ThreeServers == <<"chat1", "chat2", "chat3">>

\* One chat server, known by its name, and two connections of one user.
AtOne == (c1 :> s1) @@ (c2 :> s1)
OfOne == (c1 :> u1) @@ (c2 :> u1)
NamedOne == s1 :> s1

SystemInit ==
  /\ part \in {"accounts", "status", "chat"}
  /\ Init /\ Status!Init /\ Restarts!Init

SystemNext ==
  \/ part = "accounts" /\ Next /\ UNCHANGED <<part, statusVars, chatVars>>
  \/ part = "status" /\ Status!Next /\ UNCHANGED <<part, vars, chatVars>>
  \/ part = "chat" /\ Restarts!Next /\ UNCHANGED <<part, vars, statusVars>>

SystemSpec == SystemInit /\ [][SystemNext]_<<part, vars, statusVars, chatVars>>
-----------------------------------------------------------------------------
\* getChatServer picks the least loaded server, the first of equals, and its mutex
\* is not waited for by its holder.
PickedLeast == Status!TypeOK /\ Status!PickedLeast

\* However the chat server dies and starts again, between logins a session that is
\* logged in as a user is the one Redis registers for the user.
SingleSession == Restarts!SingleSession
=============================================================================
