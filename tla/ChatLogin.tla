------------------------------ MODULE ChatLogin ------------------------------
(***************************************************************************)
(* Login, session registry, eviction and clean-up across the chat servers. *)
(*                                                                         *)
(* Each chat server runs, concurrently: one logic worker (LogicSystem::    *)
(* DealMsg) that handles queued messages one at a time; io threads that    *)
(* complete the reads and writes of its sessions (CSession); the main      *)
(* thread that accepts connections and runs the 60 s timer (CServer); and  *)
(* gRPC threads that serve the kicks of other servers (ChatServiceImpl).   *)
(* The servers share Redis: where a user is (uip_), which session it has   *)
(* (usession_), and a lock per user id (DistLock).                         *)
(*                                                                         *)
(* A session object is identified with the connection it serves and is     *)
(* never reused.  Only login messages are modelled: the other handlers     *)
(* leave every variable here unchanged.  ChatServer2/ is the same code.    *)
(***************************************************************************)
EXTENDS Naturals, Sequences

CONSTANTS
  Server,          \* the chat servers, as the names of [SelfServer] Name
  User,            \* user ids; uid 0, "not logged in", is NoUser
  Session,         \* the connections
  NoUser, NoServer, NoSession,
  Free, Orphan,    \* a lock nobody holds; a lock whose holder has crashed
  RpcAddr,         \* RpcAddr[s] = host:port of s in the others' config.ini
  At,              \* At[c]: the server that accepts connection c
  Of,              \* Of[c]: the user whose client opened c
  LockMayExpire,   \* a critical section may outlive LOCK_TIME_OUT (10 s)
  AcquireMayFail,  \* acquireLock may give up after ACQUIRE_TIME_OUT (5 s)
  KickMayTimeOut,  \* the 500 ms deadline of NotifyKickUser may pass
  MaxLogins,       \* bound: login messages per connection
  MayCrash,        \* chat servers may die and restart
  MaxFaults        \* bound: hang-ups, bad headers, expiries, crashes

Uid == User \cup {NoUser}

ASSUME ConstantsAssumption ==
  /\ NoUser \notin User /\ NoServer \notin Server /\ NoSession \notin Session
  /\ At \in [Session -> Server]
  /\ Of \in [Session -> User]
  /\ \A s \in Server : RpcAddr[s] # NoServer
  /\ {LockMayExpire, AcquireMayFail, KickMayTimeOut, MayCrash} \subseteq BOOLEAN
  /\ MaxLogins \in Nat /\ MaxFaults \in Nat

Worker(s) == <<"worker", s>>
Timer(s)  == <<"timer", s>>
Io(c)     == <<"io", c>>
Cleaner == {Timer(s) : s \in Server} \cup {Io(c) : c \in Session}
Thread  == Cleaner \cup {Worker(s) : s \in Server}
OwnerOf(p) == IF p[1] = "io" THEN At[p[2]] ELSE p[2]  \* the server running p

ASSUME LockOwnersAssumption == {Free, Orphan} \cap Thread = {} /\ Free # Orphan

VARIABLES
  sock,         \* CSession::_socket: "idle" before the accept, "open", "closed"
  rd,           \* the reader: "off", "read" (async_read pending), "post"
  out,          \* _send_que: "idle" (nothing sent yet), "busy" (a write may
                \* still fail), "dead" (a write failed; nothing more is sent)
  userUid,      \* CSession::_user_uid
  logins,       \* login messages received so far, to apply MaxLogins
  pend,         \* the session between Start() and its insertion in _sessions
  sessions,     \* CServer::_sessions, of all the servers
  userSession,  \* UserMgr::_uid_to_session of each server
  que, wpc,     \* LogicSystem::_msg_que and the worker's place in LoginHandler
  kicks,        \* NotifyKickUser calls in flight
  due,          \* expired sessions on_timer has yet to deal with
  cpc, csess, cuid,  \* DealExceptionSession: place, session, uid it read
  uip, usession, lock,  \* Redis
  faults

connVars  == <<sock, rd, out, userUid, logins, pend, sessions>>
workVars  == <<que, wpc, kicks>>
cleanVars == <<due, cpc, csess, cuid>>
redisVars == <<uip, usession, lock>>
vars == <<connVars, userSession, workVars, cleanVars, redisVars, faults>>

CleanerPc == {"none", "lock", "get", "delSession", "delIp", "clear", "release"}
WorkerPc  == {"idle", "lock", "getIp", "evict", "kick", "setUid", "setIp",
              "setLocal", "setSession", "release", "reply"}
Kick == [by : Session, to : Server, victim : Session \cup {NoSession}]

Init ==
  /\ sock = [c \in Session |-> "idle"]
  /\ rd = [c \in Session |-> "off"]
  /\ out = [c \in Session |-> "idle"]
  /\ userUid = [c \in Session |-> NoUser]
  /\ logins = [c \in Session |-> 0]
  /\ pend = [s \in Server |-> NoSession]
  /\ sessions = {}
  /\ userSession = [s \in Server |-> [u \in Uid |-> NoSession]]
  /\ que = [s \in Server |-> <<>>]
  /\ wpc = [s \in Server |-> "idle"]
  /\ kicks = {}
  /\ due = [s \in Server |-> {}]
  /\ cpc = [p \in Cleaner |-> "none"]
  /\ csess = [p \in Cleaner |-> NoSession]
  /\ cuid = [p \in Cleaner |-> NoUser]
  /\ uip = [u \in Uid |-> NoServer]
  /\ usession = [u \in Uid |-> NoSession]
  /\ lock = [u \in Uid |-> Free]
  /\ faults = 0

-----------------------------------------------------------------------------
(* Helpers, named for the functions they stand for.                        *)

\* CSession::Send.  A queue whose head failed to be written is never popped.
SendTo(c) == out' = [out EXCEPT ![c] = IF @ = "idle" THEN "busy" ELSE @]

\* Mutant of RmvUserSession: the session id is not compared.
RmvUserSessionOfAny(u, c) ==
  userSession' = [userSession EXCEPT ![At[c]][u] = NoSession]

\* UserMgr::RmvUserSession, on the server of c: only c's own binding.
RmvUserSession(u, c) ==
  userSession' = [userSession EXCEPT ![At[c]][u] = IF @ = c THEN NoSession ELSE @]

\* Mutant of ClearSession: nothing is done for a session that never logged in.
ClearSessionLoggedIn(c) ==
  IF c \in sessions /\ userUid[c] # NoUser
    THEN RmvUserSession(userUid[c], c) /\ sessions' = sessions \ {c}
    ELSE UNCHANGED <<userSession, sessions>>

\* CServer::ClearSession, under CServer::_mutex.
ClearSession(c) ==
  /\ IF c \in sessions THEN RmvUserSession(userUid[c], c)
                       ELSE UNCHANGED userSession
  /\ sessions' = sessions \ {c}

\* Mutant of ReleaseLock: a plain DEL.
ReleaseLockByDel(u, p) == lock' = [lock EXCEPT ![u] = Free]

\* DistLock::releaseLock: delete the key if it still holds p's identifier.
ReleaseLock(u, p) == lock' = [lock EXCEPT ![u] = IF @ = p THEN Free ELSE @]

\* The peers whose connection pool ChatGrpcClient finds under a given name:
\* _pools is keyed by the host:port of the peer's RPC service.
PeerPools(s, name) == {t \in Server \ {s} : RpcAddr[t] = name}

\* CSession::Close, then DealExceptionSession by p as far as reading the uid.
CloseAndDeal(p, c) ==
  /\ sock' = [sock EXCEPT ![c] = "closed"]
  /\ cpc' = [cpc EXCEPT ![p] = "lock"]
  /\ csess' = [csess EXCEPT ![p] = c]
  /\ cuid' = [cuid EXCEPT ![p] = userUid[c]]

\* The main thread of s is neither inside on_timer nor inside HandleAccept.
MainFree(s) == due[s] = {} /\ cpc[Timer(s)] = "none" /\ pend[s] = NoSession

\* The io thread of c is not inside a handler of c.
IoFree(c) == cpc[Io(c)] = "none" /\ rd[c] # "post"

\* The bound on what goes wrong from outside: a connection that was open is
\* lost, or a server dies.
Fault == faults < MaxFaults /\ faults' = faults + 1
FaultIf(b) == IF b THEN Fault ELSE UNCHANGED faults

-----------------------------------------------------------------------------
(* Connections: CServer::HandleAccept and the handlers of CSession.        *)

\* HandleAccept, first half: Start() posts the first read...
Accept(c) ==
  /\ sock[c] = "idle" /\ MainFree(At[c])
  /\ sock' = [sock EXCEPT ![c] = "open"]
  /\ rd' = [rd EXCEPT ![c] = "read"]
  /\ pend' = [pend EXCEPT ![At[c]] = c]
  /\ UNCHANGED <<out, userUid, logins, sessions, userSession, workVars,
                 cleanVars, redisVars, faults>>

\* ... second half: only now does the session enter _sessions.
Insert(s) ==
  /\ pend[s] # NoSession
  /\ sessions' = sessions \cup {pend[s]}
  /\ pend' = [pend EXCEPT ![s] = NoSession]
  /\ UNCHANGED <<sock, rd, out, userUid, logins, userSession, workVars,
                 cleanVars, redisVars, faults>>

\* A login message was read and CheckValid finds the session.  A read that had
\* completed when the socket was closed is still handled, here and in the two
\* actions below.
Receive(c) ==
  /\ rd[c] = "read" /\ IoFree(c) /\ c \in sessions
  /\ logins[c] < MaxLogins
  /\ logins' = [logins EXCEPT ![c] = @ + 1]
  /\ rd' = [rd EXCEPT ![c] = "post"]
  /\ UNCHANGED <<sock, out, userUid, pend, sessions, userSession, workVars,
                 cleanVars, redisVars, faults>>

\* PostMsgToQue waits for LogicSystem::_mutex, which the worker holds for as
\* long as it runs a handler; then the next header is read.
Post(c) ==
  /\ rd[c] = "post" /\ wpc[At[c]] = "idle"
  /\ que' = [que EXCEPT ![At[c]] = Append(@, c)]
  /\ rd' = [rd EXCEPT ![c] = "read"]
  /\ UNCHANGED <<sock, out, userUid, logins, pend, sessions, userSession, wpc,
                 kicks, cleanVars, redisVars, faults>>

\* Data arrived for a session that is not in _sessions: Close, no clean-up.
ReceiveInvalid(c) ==
  /\ rd[c] = "read" /\ IoFree(c) /\ c \notin sessions
  /\ sock' = [sock EXCEPT ![c] = "closed"]
  /\ rd' = [rd EXCEPT ![c] = "off"]
  /\ UNCHANGED <<out, userUid, logins, pend, sessions, userSession, workVars,
                 cleanVars, redisVars, faults>>

\* A header whose id or length is out of range: ClearSession, no Close, and
\* no further read.
BadHeader(c) ==
  /\ rd[c] = "read" /\ IoFree(c) /\ c \in sessions
  /\ Fault
  /\ ClearSession(c)
  /\ rd' = [rd EXCEPT ![c] = "off"]
  /\ UNCHANGED <<sock, out, userUid, logins, pend, workVars, cleanVars,
                 redisVars>>

\* The pending read fails: the peer hung up, or the socket has been closed.
ReadError(c) ==
  /\ rd[c] = "read" /\ IoFree(c)
  /\ FaultIf(sock[c] = "open")
  /\ rd' = [rd EXCEPT ![c] = "off"]
  /\ CloseAndDeal(Io(c), c)
  /\ UNCHANGED <<out, userUid, logins, pend, sessions, userSession, workVars,
                 due, redisVars>>

\* HandleWrite: the pending write fails.
WriteError(c) ==
  /\ out[c] = "busy" /\ IoFree(c)
  /\ FaultIf(sock[c] = "open")
  /\ out' = [out EXCEPT ![c] = "dead"]
  /\ CloseAndDeal(Io(c), c)
  /\ UNCHANGED <<rd, userUid, logins, pend, sessions, userSession, workVars,
                 due, redisVars>>

-----------------------------------------------------------------------------
(* CServer::on_timer.  Any session of the server may be past its heartbeat *)
(* threshold: the clock of a session starts when the previous connection   *)
(* was accepted.  The HSet of the session count is not read here.          *)

Tick(s, expired) ==
  /\ MainFree(s) /\ expired # {}
  /\ FaultIf(\E c \in expired : sock[c] = "open")
  /\ sock' = [c \in Session |-> IF c \in expired THEN "closed" ELSE sock[c]]
  /\ due' = [due EXCEPT ![s] = expired]
  /\ UNCHANGED <<rd, out, userUid, logins, pend, sessions, userSession,
                 workVars, cpc, csess, cuid, redisVars>>

SessionsOf(s) == {c \in sessions : At[c] = s}

TimerDeal(s, c) ==
  /\ c \in due[s] /\ cpc[Timer(s)] = "none"
  /\ due' = [due EXCEPT ![s] = @ \ {c}]
  /\ CloseAndDeal(Timer(s), c)
  /\ UNCHANGED <<rd, out, userUid, logins, pend, sessions, userSession,
                 workVars, redisVars, faults>>

-----------------------------------------------------------------------------
(* CSession::DealExceptionSession by p: an io thread or the timer.         *)

Goto(p, from, to) == cpc[p] = from /\ cpc' = [cpc EXCEPT ![p] = to]

DealLock(p) ==
  /\ \/ /\ lock[cuid[p]] = Free
        /\ Goto(p, "lock", "get")
        /\ lock' = [lock EXCEPT ![cuid[p]] = p]
     \/ /\ AcquireMayFail
        /\ Goto(p, "lock", "clear")
        /\ UNCHANGED lock
  /\ UNCHANGED <<connVars, userSession, workVars, due, csess, cuid, uip,
                 usession, faults>>

\* Mutant of DealGet: the comparison with the registered session is inverted.
DealGetInverted(p) ==
  /\ Goto(p, "get", IF usession[cuid[p]] # csess[p] THEN "delSession" ELSE "clear")
  /\ UNCHANGED <<connVars, userSession, workVars, due, csess, cuid, redisVars,
                 faults>>

\* Read the registered session and compare it with this one.
DealGet(p) ==
  /\ Goto(p, "get", IF usession[cuid[p]] = csess[p] THEN "delSession" ELSE "clear")
  /\ UNCHANGED <<connVars, userSession, workVars, due, csess, cuid, redisVars,
                 faults>>

DealDelSession(p) ==
  /\ Goto(p, "delSession", "delIp")
  /\ usession' = [usession EXCEPT ![cuid[p]] = NoSession]
  /\ UNCHANGED <<connVars, userSession, workVars, due, csess, cuid, uip, lock,
                 faults>>

\* Mutant of DealDelIp: the uip_ key is forgotten.
DealDelIpForgotten(p) ==
  /\ Goto(p, "delIp", "clear")
  /\ UNCHANGED <<connVars, userSession, workVars, due, csess, cuid, redisVars,
                 faults>>

DealDelIp(p) ==
  /\ Goto(p, "delIp", "clear")
  /\ uip' = [uip EXCEPT ![cuid[p]] = NoServer]
  /\ UNCHANGED <<connVars, userSession, workVars, due, csess, cuid, usession,
                 lock, faults>>

\* The Defer block: ClearSession, then releaseLock.
DealClear(p) ==
  /\ Goto(p, "clear", "release")
  /\ ClearSession(csess[p])
  /\ UNCHANGED <<sock, rd, out, userUid, logins, pend, workVars, due, csess,
                 cuid, redisVars, faults>>

DealRelease(p) ==
  /\ Goto(p, "release", "none")
  /\ ReleaseLock(cuid[p], p)
  /\ csess' = [csess EXCEPT ![p] = NoSession]
  /\ cuid' = [cuid EXCEPT ![p] = NoUser]
  /\ UNCHANGED <<connVars, userSession, workVars, due, uip, usession, faults>>

DealStep(p) ==
  \/ DealLock(p) \/ DealGet(p) \/ DealDelSession(p)
  \/ DealDelIp(p) \/ DealClear(p) \/ DealRelease(p)

-----------------------------------------------------------------------------
(* LogicSystem::DealMsg and LoginHandler, by the worker of s.  The message *)
(* is popped only when its handler has returned.                           *)

Cur(s)  == Head(que[s])
Luid(s) == Of[Cur(s)]
Step(s, from, to) == wpc[s] = from /\ wpc' = [wpc EXCEPT ![s] = to]

\* The token and the user's profile are checked first; either may be missing.
LoginBegin(s) ==
  /\ que[s] # <<>>
  /\ \/ Step(s, "idle", "lock")
     \/ Step(s, "idle", "reply")
  /\ UNCHANGED <<connVars, userSession, que, kicks, cleanVars, redisVars, faults>>

\* Mutant of LoginLock: SET without NX, which takes the lock over.
LoginLockTakesOver(s) ==
  /\ Step(s, "lock", "getIp")
  /\ lock' = [lock EXCEPT ![Luid(s)] = Worker(s)]
  /\ UNCHANGED <<connVars, userSession, que, kicks, cleanVars, uip, usession,
                 faults>>

\* An empty identifier (acquireLock gave up) is not checked.
LoginLock(s) ==
  /\ Step(s, "lock", "getIp")
  /\ \/ /\ lock[Luid(s)] = Free
        /\ lock' = [lock EXCEPT ![Luid(s)] = Worker(s)]
     \/ AcquireMayFail /\ UNCHANGED lock
  /\ UNCHANGED <<connVars, userSession, que, kicks, cleanVars, uip, usession,
                 faults>>

\* Where does Redis say the user is?  Here, nowhere, or on another server: then
\* the kick goes to the peer whose pool has that name, and fails if there is none.
LoginGetIp(s) ==
  /\ wpc[s] = "getIp"
  /\ \/ /\ uip[Luid(s)] = s
        /\ Step(s, "getIp", "evict") /\ UNCHANGED kicks
     \/ /\ uip[Luid(s)] # s /\ PeerPools(s, uip[Luid(s)]) = {}
        /\ Step(s, "getIp", "setUid") /\ UNCHANGED kicks
     \/ /\ uip[Luid(s)] # s
        /\ \E t \in PeerPools(s, uip[Luid(s)]) :
             kicks' = kicks \cup {[by |-> Cur(s), to |-> t, victim |-> NoSession]}
        /\ Step(s, "getIp", "kick")
  /\ UNCHANGED <<connVars, userSession, que, cleanVars, redisVars, faults>>

\* Mutant of LoginEvict: the old session is told, and kept.
LoginEvictNotifyOnly(s) ==
  LET old == userSession[s][Luid(s)] IN
  /\ Step(s, "evict", "setUid")
  /\ IF old = NoSession THEN UNCHANGED out ELSE SendTo(old)
  /\ UNCHANGED <<sock, rd, userUid, logins, pend, sessions, userSession, que,
                 kicks, cleanVars, redisVars, faults>>

\* Same server: tell the old session and drop it (its socket stays open).
LoginEvict(s) ==
  /\ Step(s, "evict", "setUid")
  /\ LET old == userSession[s][Luid(s)] IN
     IF old = NoSession THEN UNCHANGED <<out, userSession, sessions>>
                        ELSE SendTo(old) /\ ClearSession(old)
  /\ UNCHANGED <<sock, rd, userUid, logins, pend, que, kicks, cleanVars,
                 redisVars, faults>>

\* Mutant of LoginKicked: the call has no deadline.
LoginKickedNoDeadline(s) ==
  /\ Step(s, "kick", "setUid")
  /\ ~ \E k \in kicks : k.by = Cur(s)
  /\ UNCHANGED <<connVars, userSession, que, kicks, cleanVars, redisVars, faults>>

\* NotifyKickUser returns: answered, or past its deadline.  Either way the
\* result is ignored.
LoginKicked(s) ==
  /\ Step(s, "kick", "setUid")
  /\ KickMayTimeOut \/ ~ \E k \in kicks : k.by = Cur(s)
  /\ UNCHANGED <<connVars, userSession, que, kicks, cleanVars, redisVars, faults>>

\* Mutant of LoginSetUid: the session does not learn its user.
LoginSetUidForgotten(s) ==
  /\ Step(s, "setUid", "setIp")
  /\ UNCHANGED <<connVars, userSession, que, kicks, cleanVars, redisVars, faults>>

LoginSetUid(s) ==
  /\ Step(s, "setUid", "setIp")
  /\ userUid' = [userUid EXCEPT ![Cur(s)] = Luid(s)]
  /\ UNCHANGED <<sock, rd, out, logins, pend, sessions, userSession, que, kicks,
                 cleanVars, redisVars, faults>>

LoginSetIp(s) ==
  /\ Step(s, "setIp", "setLocal")
  /\ uip' = [uip EXCEPT ![Luid(s)] = s]
  /\ UNCHANGED <<connVars, userSession, que, kicks, cleanVars, usession, lock,
                 faults>>

LoginSetLocal(s) ==
  /\ Step(s, "setLocal", "setSession")
  /\ userSession' = [userSession EXCEPT ![s][Luid(s)] = Cur(s)]
  /\ UNCHANGED <<connVars, que, kicks, cleanVars, redisVars, faults>>

LoginSetSession(s) ==
  /\ Step(s, "setSession", "release")
  /\ usession' = [usession EXCEPT ![Luid(s)] = Cur(s)]
  /\ UNCHANGED <<connVars, userSession, que, kicks, cleanVars, uip, lock, faults>>

LoginRelease(s) ==
  /\ Step(s, "release", "reply")
  /\ ReleaseLock(Luid(s), Worker(s))
  /\ UNCHANGED <<connVars, userSession, que, kicks, cleanVars, uip, usession,
                 faults>>

\* The reply is sent on the way out of LoginHandler; then DealMsg pops.  The
\* key named after the server, set just before, is read by nobody.
LoginReply(s) ==
  /\ Step(s, "reply", "idle")
  /\ SendTo(Cur(s))
  /\ que' = [que EXCEPT ![s] = Tail(@)]
  /\ UNCHANGED <<sock, rd, userUid, logins, pend, sessions, userSession, kicks,
                 cleanVars, redisVars, faults>>

LoginStep(s) ==
  \/ LoginBegin(s) \/ LoginLock(s) \/ LoginGetIp(s) \/ LoginEvict(s)
  \/ LoginKicked(s) \/ LoginSetUid(s) \/ LoginSetIp(s) \/ LoginSetLocal(s)
  \/ LoginSetSession(s) \/ LoginRelease(s) \/ LoginReply(s)

-----------------------------------------------------------------------------
(* ChatServiceImpl::NotifyKickUser, on a gRPC thread of the called server. *)

KickLookup(k) ==
  LET v == userSession[k.to][Of[k.by]] IN
  /\ k.victim = NoSession
  /\ IF v = NoSession
       THEN kicks' = kicks \ {k} /\ UNCHANGED out
       ELSE kicks' = (kicks \ {k}) \cup {[k EXCEPT !.victim = v]} /\ SendTo(v)
  /\ UNCHANGED <<sock, rd, userUid, logins, pend, sessions, userSession, que,
                 wpc, cleanVars, redisVars, faults>>

KickClear(k) ==
  /\ k.victim # NoSession
  /\ ClearSession(k.victim)
  /\ kicks' = kicks \ {k}
  /\ UNCHANGED <<sock, rd, out, userUid, logins, pend, que, wpc, cleanVars,
                 redisVars, faults>>

\* The deadline cancels a call the peer has not started on.
KickLost(k) ==
  /\ KickMayTimeOut /\ k.victim = NoSession
  /\ kicks' = kicks \ {k}
  /\ UNCHANGED <<connVars, userSession, que, wpc, cleanVars, redisVars, faults>>

-----------------------------------------------------------------------------
(* The environment: Redis expires lock keys, chat servers die.             *)

Expire(u) ==
  /\ lock[u] # Free /\ (LockMayExpire \/ lock[u] = Orphan)
  /\ lock' = [lock EXCEPT ![u] = Free]
  /\ UNCHANGED <<connVars, userSession, workVars, cleanVars, uip, usession, faults>>

\* The process of s dies and is started again at once: memory is lost, Redis is
\* not, and main() clears neither uip_ nor usession_.
Crash(s) ==
  LET gone == {c \in Session : At[c] = s /\ sock[c] # "idle"}
      Lost(f, v) == [c \in Session |-> IF c \in gone THEN v ELSE f[c]]
      Dead(p) == OwnerOf(p) = s
  IN
  /\ MayCrash /\ Fault
  /\ sock' = Lost(sock, "closed")
  /\ rd' = Lost(rd, "off")
  /\ out' = Lost(out, "dead")
  /\ userUid' = Lost(userUid, NoUser)
  /\ sessions' = sessions \ gone
  /\ pend' = [pend EXCEPT ![s] = NoSession]
  /\ userSession' = [userSession EXCEPT ![s] = [u \in Uid |-> NoSession]]
  /\ que' = [que EXCEPT ![s] = <<>>]
  /\ wpc' = [wpc EXCEPT ![s] = "idle"]
  /\ kicks' = {k \in kicks : k.to # s}
  /\ due' = [due EXCEPT ![s] = {}]
  /\ cpc' = [p \in Cleaner |-> IF Dead(p) THEN "none" ELSE cpc[p]]
  /\ csess' = [p \in Cleaner |-> IF Dead(p) THEN NoSession ELSE csess[p]]
  /\ cuid' = [p \in Cleaner |-> IF Dead(p) THEN NoUser ELSE cuid[p]]
  /\ lock' = [u \in Uid |-> IF lock[u] \in Thread /\ Dead(lock[u])
                            THEN Orphan ELSE lock[u]]
  /\ UNCHANGED <<logins, uip, usession>>

-----------------------------------------------------------------------------
IoStep(c) ==
  \/ Receive(c) \/ Post(c) \/ ReceiveInvalid(c) \/ BadHeader(c)
  \/ ReadError(c) \/ WriteError(c)

Next ==
  \/ \E c \in Session : Accept(c) \/ IoStep(c)
  \/ \E s \in Server : Insert(s) \/ LoginStep(s) \/ Crash(s)
  \/ \E s \in Server : \E expired \in SUBSET SessionsOf(s) : Tick(s, expired)
  \/ \E s \in Server, c \in Session : TimerDeal(s, c)
  \/ \E p \in Cleaner : DealStep(p)
  \/ \E k \in kicks : KickLookup(k) \/ KickClear(k) \/ KickLost(k)
  \/ \E u \in Uid : Expire(u)

Spec == Init /\ [][Next]_vars

\* Threads that can run do run.  A closed socket aborts its pending read.  The
\* timer is re-armed for ever and a closed session gets no more heartbeats, so
\* it is in the expired set of every later tick.
TickOver(c) ==
  /\ sock[c] = "closed"
  /\ \E expired \in SUBSET SessionsOf(At[c]) : c \in expired /\ Tick(At[c], expired)

Fairness ==
  /\ \A p \in Cleaner : WF_vars(DealStep(p))
  /\ \A s \in Server : WF_vars(Insert(s)) /\ WF_vars(LoginStep(s))
  /\ \A s \in Server : WF_vars(\E c \in Session : TimerDeal(s, c))
  /\ \A c \in Session : WF_vars(Post(c)) /\ SF_vars(TickOver(c))

FairSpec == Spec /\ Fairness
-----------------------------------------------------------------------------
(* Properties.                                                             *)

ConnTypeOK ==
  /\ sock \in [Session -> {"idle", "open", "closed"}]
  /\ rd \in [Session -> {"off", "read", "post"}]
  /\ out \in [Session -> {"idle", "busy", "dead"}]
  /\ userUid \in [Session -> Uid]
  /\ \A c \in Session : userUid[c] \in {NoUser, Of[c]}
  /\ logins \in [Session -> 0..MaxLogins]
  /\ pend \in [Server -> Session \cup {NoSession}]
  /\ sessions \subseteq Session
  /\ faults \in 0..MaxFaults

BindTypeOK ==
  /\ userSession \in [Server -> [Uid -> Session \cup {NoSession}]]
  /\ \A s \in Server, u \in Uid :
       userSession[s][u] # NoSession =>
         At[userSession[s][u]] = s /\ Of[userSession[s][u]] = u

WorkTypeOK ==
  /\ que \in [Server -> Seq(Session)]
  /\ \A s \in Server : \A i \in 1..Len(que[s]) : At[que[s][i]] = s
  /\ wpc \in [Server -> WorkerPc]
  /\ \A s \in Server : wpc[s] # "idle" => que[s] # <<>>
  /\ kicks \subseteq Kick

DealTypeOK ==
  /\ due \in [Server -> SUBSET Session]
  /\ cpc \in [Cleaner -> CleanerPc]
  /\ csess \in [Cleaner -> Session \cup {NoSession}]
  /\ \A p \in Cleaner : cpc[p] # "none" => csess[p] # NoSession
  /\ cuid \in [Cleaner -> Uid]

RedisTypeOK ==
  /\ uip \in [Uid -> Server \cup {NoServer}]
  /\ usession \in [Uid -> Session \cup {NoSession}]
  /\ lock \in [Uid -> Thread \cup {Free, Orphan}]

\* Every variable keeps its shape; besides, a server queues and binds only
\* connections it accepted, a binding is filed under the connection's own user,
\* and the message a handler works on stays at the head of the queue.
TypeOK == ConnTypeOK /\ BindTypeOK /\ WorkTypeOK /\ DealTypeOK /\ RedisTypeOK

\* A thread inside a critical section holds the lock of the user it works for,
\* so no two threads of any servers are inside one for the same user.
InDeal(p)  == cpc[p] \in {"get", "delSession", "delIp", "clear", "release"}
InLogin(s) == wpc[s] \in {"getIp", "evict", "kick", "setUid", "setIp", "setLocal",
                          "setSession", "release"}
LockExclusion ==
  /\ \A p \in Cleaner : InDeal(p) => lock[cuid[p]] = p
  /\ \A s \in Server : InLogin(s) => lock[Luid(s)] = Worker(s)

\* Whenever nobody holds a user's lock, the two Redis keys that locate the user
\* tell one story: both absent, or the server named is the one that accepted
\* the registered session (LoginHandler writes them and DealExceptionSession
\* deletes them in two commands each, on different machines).
Agree(u) ==
  /\ usession[u] = NoSession => uip[u] = NoServer
  /\ usession[u] # NoSession => uip[u] = At[usession[u]] /\ Of[usession[u]] = u
RegistryAgrees == \A u \in Uid : lock[u] = Free => Agree(u)

\* A registered session that its server still keeps, or still reads from, is kept
\* and is the one that server delivers the user's messages to: no late clean-up,
\* eviction or kick of an older session takes the newer one out of _sessions or
\* its binding away.  (For clients that send one login per connection.)
Delivery ==
  \A u \in User, c \in Session :
    LET alive == c \in sessions \/ (sock[c] = "open" /\ rd[c] # "off")
    IN usession[u] = c /\ lock[u] = Free /\ alive =>
         c \in sessions /\ userUid[c] = u /\ userSession[At[c]][u] = c

\* One session per user: between logins, a session that a server keeps and that
\* is logged in as u is the one Redis registers for u, so no two are.
SingleSession ==
  \A c \in sessions :
    userUid[c] # NoUser /\ lock[userUid[c]] = Free => usession[userUid[c]] = c

\* A held lock becomes free only when its holder releases it or Redis expires
\* it (a step of no thread): a release that comes after the lock has passed to
\* somebody else does not free it (the Lua script of releaseLock).
LockOwnership ==
  [][\A u \in Uid :
       lock[u] \in Thread /\ lock'[u] = Free =>
         \A p \in Thread \ {lock[u]} :
           IF p \in Cleaner THEN cpc'[p] = cpc[p] ELSE wpc'[p[2]] = wpc[p[2]]]_vars

\* A server delivers a user's messages only to a connection it accepted itself
\* from that user and that has been marked as logged in as that user, whatever
\* expires, times out or crashes.
LocalBinding ==
  \A s \in Server, u \in User :
    LET c == userSession[s][u] IN c # NoSession => At[c] = s /\ userUid[c] = u

\* The assumption under which the lock protects: Redis keeps the key of a live
\* holder, and waiters wait for it.
LockReliable == ~LockMayExpire /\ ~AcquireMayFail

\* What the registry promises its readers, stated without locks or threads.
Registry == INSTANCE Presence WITH reg <- usession,
                                   down <- {c \in Session : sock[c] = "closed"}
RegistryRefined == Registry!Spec

\* A session whose socket the server has closed leaves _sessions, also when it
\* was closed before it was even inserted, and whatever the lock does.
ClosedLeaves == \A c \in Session : sock[c] = "closed" ~> c \notin sessions

\* A user whose connection breaks once logged in ends up off line: if the session
\* was registered while it was still being read, its closing is followed by the
\* removal, or the replacement, of the registration.
GoesOffline ==
  \A c \in Session :
    LET Online == /\ rd[c] = "read" /\ sock[c] = "open" /\ c \in sessions
                  /\ usession[Of[c]] = c /\ lock[Of[c]] = Free
    IN [](Online => [](sock[c] = "closed" => <>(usession[Of[c]] # c)))

\* A login that was posted is answered (or lost in a crash): the single worker
\* is not stuck behind a lock, a kick or a session that has gone.
LoginAnswered ==
  \A c \in Session :
    (\E i \in DOMAIN que[At[c]] : que[At[c]][i] = c)
      ~> ~ \E i \in DOMAIN que[At[c]] : que[At[c]][i] = c

\* Refuted by kick_shipped.  README.md:178 says that what must reach another server
\* is sent to that server through ChatGrpcClient, and lists NotifyKickUser (:192);
\* then a login that finds its user on another server does not go on to take the
\* user over without having sent that server a kick.
KickForwarded ==
  [][\A s \in Server :
       wpc[s] = "getIp" /\ wpc'[s] = "setUid" => uip[Luid(s)] \notin Server \ {s}]_vars

\* Refuted by ghost_login.  CServer.cpp:40 says of ClearSession that it deletes
\* the session and the association between the user and the session; then a
\* session that has been erased from _sessions is no longer bound to its user.
ErasedIsUnbound ==
  \A c \in Session :
    sock[c] # "idle" /\ c \notin sessions /\ pend[At[c]] # c =>
      userSession[At[c]][Of[c]] # c
=============================================================================
