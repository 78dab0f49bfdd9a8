------------------------------ MODULE ConnPool ------------------------------
(***************************************************************************)
(* The connection pools.  ChatServer, WeChatServer and StatusServer keep   *)
(* their Redis contexts, MySQL sessions and gRPC stubs in pools that are   *)
(* copies of one monitor: a queue, a mutex, a condition variable and an    *)
(* atomic stop flag.  The copies differ in what they do with a connection  *)
(* that turns out broken and in the thread that checks the idle ones, so   *)
(* one module models them all and  kind  says which pool it is:            *)
(*                                                                         *)
(*   chat_redis    ChatServer/include/RedisMgr.h (with its check thread    *)
(*                 and the jobs of DistLock, which keep a connection while *)
(*                 they wait for a lock)                                   *)
(*   chat_mysql    ChatServer/include/MysqlDao.h                           *)
(*   gate_mysql    WeChatServer/MysqlDao.h                                 *)
(*   gate_redis    WeChatServer/RedisConPool.cpp                           *)
(*   status_redis  StatusServer/RedisConPool.cpp                           *)
(*   stubs         ChatConPool, StatusConPool, RPConPool                   *)
(*                                                                         *)
(* Every section under the mutex is one step, except that a thread which   *)
(* found nothing to take keeps the mutex until it sleeps: Close sets its   *)
(* flag and notifies without the mutex, so it can fall in between.         *)
(***************************************************************************)
EXTENDS Naturals, Sequences, FiniteSets

CONSTANTS
  Threads,    \* the threads that use the pool
  Conns,      \* identities of connections
  Made,       \* the connections each pool's constructor succeeds in making
  Kinds,      \* the pools to consider
  Users,      \* the threads that use each pool
  NoConn,     \* no connection
  NoThread,   \* nobody holds the lock
  MaxJobs,    \* bound: jobs a thread begins; one more counts a wake-up nobody sent
  MaxBreaks,  \* bound: connections broken or gone at a time
  MaxRounds   \* bound: rounds of the check thread

ASSUME PoolAssumption ==
  /\ Made \in [Kinds -> Seq(Conns)]
  /\ \A k \in Kinds : \A i, j \in DOMAIN Made[k] : Made[k][i] = Made[k][j] => i = j
  /\ Users \in [Kinds -> SUBSET Threads]
  /\ IsFiniteSet(Threads) /\ IsFiniteSet(Conns)
  /\ NoConn \notin Conns
  /\ NoThread \notin Threads
  /\ MaxJobs \in Nat /\ MaxBreaks \in Nat /\ MaxRounds \in Nat

AllKinds == {"chat_redis", "chat_mysql", "gate_mysql", "gate_redis", "status_redis", "stubs"}

VARIABLES
  kind,         \* which pool this is
  connections,  \* connections_, the idle connections
  broken,       \* the connections whose next command fails
  stop,         \* b_stop_
  closer,       \* progress of Close: open, stopping, joining, closed
  place,        \* where each thread is
  job,          \* what each thread wants its connection for
  hold,         \* the connection in each thread's hands
  lock,         \* whose lock key is in Redis
  owes,         \* threads that acquired the lock and have not run releaseLock
  jobs,         \* jobs each thread has begun
  checker,      \* the check thread: phase, connections left, connection in hand, rounds
  failCount,    \* fail_count_
  dropped,      \* history: connections the pool has lost count of
  missed        \* history: threads that tested the flag before Close and slept after it

poolVars == <<connections, broken, stop, closer, checker, failCount, dropped, missed>>
jobVars == <<place, job, hold, lock, owes, jobs>>
vars == <<kind, poolVars, jobVars>>

Jobs == {"command", "acquire", "release", "check_email"}

Idle == {connections[i] : i \in DOMAIN connections}
Held == {hold[t] : t \in Threads} \cup {checker.conn}
Live == Idle \cup (Held \ {NoConn})
Fresh == Conns \ Live

\* A thread that found nothing keeps the mutex until its wait() releases it.
MutexFree == \A t \in Threads : place[t] # "drowsy"

Waiting(t) == place[t] \in {"drowsy", "asleep", "woken"}
Asleep == {t \in Threads : place[t] = "asleep"}
Woken == {t \in Threads : place[t] = "woken"}

\* The threads' places after notify_one: one sleeper, whichever, if there is one.
NotifyOne(p) ==
  IF \E t \in Threads : p[t] = "asleep"
  THEN {[p EXCEPT ![t] = "woken"] : t \in {u \in Threads : p[u] = "asleep"}}
  ELSE {p}

\* Mutant: notify only when the queue was empty, as PostMsgToQue does.
PushFirstNotifies(c, p) ==
  IF stop THEN connections' = connections /\ place' = p
  ELSE /\ connections' = Append(connections, c)
       /\ place' \in IF connections = <<>> THEN NotifyOne(p) ELSE {p}

\* returnConnection: a stopped pool keeps nothing and wakes nobody.
Push(c, p) ==
  IF stop THEN connections' = connections /\ place' = p
  ELSE connections' = Append(connections, c) /\ place' \in NotifyOne(p)
-----------------------------------------------------------------------------
\* The constructor connects; a connection that fails is skipped, and not
\* counted in fail_count_.  The MySQL pool of ChatServer starts its check at
\* once, its body is no loop; the others check periodically or not at all.
Init ==
  /\ kind \in Kinds
  /\ connections = Made[kind]
  /\ broken = {} /\ stop = FALSE /\ closer = "open"
  /\ place = [t \in Threads |-> "out"]
  /\ job = [t \in Threads |-> "command"]
  /\ hold = [t \in Threads |-> NoConn]
  /\ lock = NoThread /\ owes = {}
  /\ jobs = [t \in Threads |-> 0]
  /\ checker = [phase |-> "sleeping", left |-> 0, conn |-> NoConn, rounds |-> 0]
  /\ failCount = 0 /\ dropped = 0 /\ missed = {}

\* getConnection, from its first test or after a wake-up: the predicate and
\* what follows it are one section under the mutex.
GetConnection(t) ==
  /\ MutexFree
  /\ IF stop
     THEN /\ place' = [place EXCEPT ![t] = "denied"]
          /\ UNCHANGED <<connections, hold>>
     ELSE IF connections = <<>>
     THEN /\ place' = [place EXCEPT ![t] = "drowsy"]
          /\ UNCHANGED <<connections, hold>>
     ELSE /\ place' = [place EXCEPT ![t] = "using"]
          /\ hold' = [hold EXCEPT ![t] = Head(connections)]
          /\ connections' = Tail(connections)

JobsOf(t) ==
  {"command"}
  \cup (IF kind = "chat_redis" /\ t \notin owes THEN {"acquire"} ELSE {})
  \cup (IF kind = "gate_mysql" THEN {"check_email"} ELSE {})

\* A handler or a clean-up turns to the pool.
Begin(t) ==
  /\ t \in Users[kind] /\ place[t] = "out"
  /\ jobs[t] < MaxJobs
  /\ \E j \in JobsOf(t) : job' = [job EXCEPT ![t] = j]
  /\ jobs' = [jobs EXCEPT ![t] = @ + 1]
  /\ GetConnection(t)
  /\ UNCHANGED <<kind, broken, stop, closer, lock, owes, checker, failCount, dropped, missed>>

\* The Defer of a handler that acquired the lock calls releaseLock, which
\* needs a connection of its own.
BeginRelease(t) ==
  /\ place[t] = "out"
  /\ t \in owes
  /\ job' = [job EXCEPT ![t] = "release"]
  /\ owes' = owes \ {t}
  /\ GetConnection(t)
  /\ UNCHANGED <<kind, broken, stop, closer, lock, jobs, checker, failCount, dropped, missed>>

FallAsleep(t) ==
  /\ place[t] = "drowsy"
  /\ place' = [place EXCEPT ![t] = "asleep"]
  /\ UNCHANGED <<kind, poolVars, job, hold, lock, owes, jobs>>

Retry(t) ==
  /\ place[t] = "woken"
  /\ GetConnection(t)
  /\ UNCHANGED <<kind, broken, stop, closer, job, lock, owes, jobs, checker, failCount, dropped, missed>>

\* A condition variable may wake a thread that nobody notified.
Spurious(t) ==
  /\ place[t] = "asleep"
  /\ jobs[t] <= MaxJobs
  /\ jobs' = [jobs EXCEPT ![t] = @ + 1]
  /\ place' = [place EXCEPT ![t] = "woken"]
  /\ UNCHANGED <<kind, poolVars, job, hold, lock, owes>>
-----------------------------------------------------------------------------
Leaves(t) == [place EXCEPT ![t] = "out"]

\* Mutant: an early return gives the connection back, and so does its Defer.
GiveBackTwice(t) ==
  /\ MutexFree
  /\ connections' = connections \o <<hold[t], hold[t]>>
  /\ place' \in NotifyOne(Leaves(t))
  /\ hold' = [hold EXCEPT ![t] = NoConn]
  /\ UNCHANGED <<kind, stop, closer, job, jobs, checker, failCount, missed>>

\* The connection goes back whatever became of it.
GiveBack(t) ==
  /\ MutexFree
  /\ Push(hold[t], Leaves(t))
  /\ hold' = [hold EXCEPT ![t] = NoConn]
  /\ UNCHANGED <<kind, stop, closer, job, jobs, checker, failCount, missed>>

\* A command is answered.
Command(t) ==
  /\ place[t] = "using" /\ job[t] = "command"
  /\ hold[t] \notin broken
  /\ GiveBack(t)
  /\ UNCHANGED <<broken, lock, owes, dropped>>

\* A command without an answer, in the pools that give the connection back as
\* it is.
BrokenReturned(t) ==
  /\ place[t] = "using" /\ job[t] = "command"
  /\ kind \in {"chat_mysql", "gate_mysql", "gate_redis"}
  /\ hold[t] \in broken
  /\ GiveBack(t)
  /\ UNCHANGED <<broken, lock, owes, dropped>>

\* RedisMgr of ChatServer frees the context and does not tell the pool.
BrokenFreed(t) ==
  /\ place[t] = "using" /\ job[t] = "command"
  /\ kind = "chat_redis"
  /\ hold[t] \in broken
  /\ place' = Leaves(t)
  /\ hold' = [hold EXCEPT ![t] = NoConn]
  /\ broken' = broken \ {hold[t]}
  /\ dropped' = dropped + 1
  /\ UNCHANGED <<kind, connections, stop, closer, job, lock, owes, jobs, checker, failCount, missed>>

\* The pool of StatusServer makes a new connection in place of a broken one.
BrokenReplaced(t) ==
  /\ place[t] = "using" /\ job[t] = "command"
  /\ kind = "status_redis"
  /\ hold[t] \in broken
  /\ GiveBack(t)
  /\ broken' = broken \ {hold[t]}
  /\ UNCHANGED <<lock, owes, dropped>>

\* ... or, when that fails, wakes a waiter that will find nothing.
BrokenDropped(t) ==
  /\ place[t] = "using" /\ job[t] = "command"
  /\ kind = "status_redis" /\ ~stop
  /\ hold[t] \in broken
  /\ MutexFree
  /\ place' \in NotifyOne(Leaves(t))
  /\ hold' = [hold EXCEPT ![t] = NoConn]
  /\ broken' = broken \ {hold[t]}
  /\ dropped' = dropped + 1
  /\ UNCHANGED <<kind, connections, stop, closer, job, lock, owes, jobs, checker, failCount, missed>>

\* CheckEmail of the gate: a row leaves the loop by return, and the session is
\* destroyed with its unique_ptr; without a row, or on an error, it goes back.
EmailFound(t) ==
  /\ place[t] = "using" /\ job[t] = "check_email"
  /\ hold[t] \notin broken
  /\ place' = Leaves(t)
  /\ hold' = [hold EXCEPT ![t] = NoConn]
  /\ dropped' = dropped + 1
  /\ UNCHANGED <<kind, connections, broken, stop, closer, job, lock, owes, jobs, checker, failCount, missed>>

EmailNotFound(t) ==
  /\ place[t] = "using" /\ job[t] = "check_email"
  /\ GiveBack(t)
  /\ UNCHANGED <<broken, lock, owes, dropped>>
-----------------------------------------------------------------------------
\* DistLock::acquireLock polls on one connection until the key is its own ...
LockTaken(t) ==
  /\ place[t] = "using" /\ job[t] = "acquire"
  /\ hold[t] \notin broken
  /\ lock = NoThread
  /\ lock' = t
  /\ owes' = owes \cup {t}
  /\ GiveBack(t)
  /\ UNCHANGED <<broken, dropped>>

\* Mutant: without the lock there is no way out but the lock.
GiveUpNever(t) ==
  /\ place[t] = "using" /\ job[t] = "acquire"
  /\ lock # NoThread /\ t \in owes
  /\ GiveBack(t)
  /\ UNCHANGED <<broken, lock, owes, dropped>>

\* ... or five seconds have passed; RedisMgr gives the connection back, broken
\* or not.
GiveUp(t) ==
  /\ place[t] = "using" /\ job[t] = "acquire"
  /\ lock # NoThread \/ hold[t] \in broken
  /\ GiveBack(t)
  /\ UNCHANGED <<broken, lock, owes, dropped>>

\* DistLock::releaseLock deletes the key if it is the caller's own.
LockReleased(t) ==
  /\ place[t] = "using" /\ job[t] = "release"
  /\ lock' = IF lock = t /\ hold[t] \notin broken THEN NoThread ELSE lock
  /\ GiveBack(t)
  /\ UNCHANGED <<broken, owes, dropped>>

\* The key expires.
Expire ==
  /\ lock # NoThread
  /\ lock' = NoThread
  /\ UNCHANGED <<kind, poolVars, place, job, hold, owes, jobs>>

\* The peer of a connection goes away.
Break ==
  /\ kind # "stubs"
  /\ Cardinality(broken) + failCount + dropped < MaxBreaks
  /\ \E c \in Live \ broken : broken' = broken \cup {c}
  /\ UNCHANGED <<kind, connections, stop, closer, checker, failCount, dropped, missed, jobVars>>
-----------------------------------------------------------------------------
UsesChecker == kind \in {"chat_redis", "chat_mysql"}

\* checkThreadPro and checkConnectionPro look at as many connections as were
\* idle at the start.
SweepBegin ==
  /\ UsesChecker /\ checker.phase = "sleeping"
  /\ MutexFree
  /\ kind = "chat_redis" => ~stop
  /\ checker.rounds < MaxRounds
  /\ checker' = [checker EXCEPT !.phase = "sweeping", !.left = Len(connections), !.rounds = @ + 1]
  /\ UNCHANGED <<kind, connections, broken, stop, closer, failCount, dropped, missed, jobVars>>

SweepTake ==
  /\ checker.phase = "sweeping" /\ checker.conn = NoConn /\ checker.left > 0
  /\ kind = "chat_redis" => ~stop
  /\ connections # <<>>
  /\ MutexFree
  /\ checker' = [checker EXCEPT !.left = @ - 1, !.conn = Head(connections)]
  /\ connections' = Tail(connections)
  /\ UNCHANGED <<kind, broken, stop, closer, failCount, dropped, missed, jobVars>>

\* The connection answers, or is not asked: checkConnectionPro compares seconds
\* with milliseconds, so no session ever seems to be due for a test.  Its push
\* does not look at the stop flag and always notifies.
SweepKeep ==
  /\ checker.conn # NoConn
  /\ kind = "chat_redis" => checker.conn \notin broken
  /\ MutexFree
  /\ IF kind = "chat_mysql"
     THEN /\ connections' = Append(connections, checker.conn)
          /\ place' \in NotifyOne(place)
     ELSE Push(checker.conn, place)
  /\ checker' = [checker EXCEPT !.conn = NoConn]
  /\ UNCHANGED <<kind, broken, stop, closer, failCount, dropped, missed, job, hold, lock, owes, jobs>>

\* PING fails: the context is freed and counted.
SweepFail ==
  /\ kind = "chat_redis"
  /\ checker.conn \in broken
  /\ broken' = broken \ {checker.conn}
  /\ failCount' = failCount + 1
  /\ checker' = [checker EXCEPT !.conn = NoConn]
  /\ UNCHANGED <<kind, connections, stop, closer, dropped, missed, jobVars>>

\* Mutant: the loop counts on finding every connection it saw.
SweepEndCounted ==
  /\ checker.phase = "sweeping" /\ checker.conn = NoConn
  /\ checker.left = 0 \/ (kind = "chat_redis" /\ stop)
  /\ checker' = [checker EXCEPT !.phase = IF kind = "chat_redis" THEN "connecting" ELSE "ended", !.left = 0]
  /\ UNCHANGED <<kind, connections, broken, stop, closer, failCount, dropped, missed, jobVars>>

\* The loop ends: nothing left, nothing idle, or the pool is stopped.
SweepEnd ==
  /\ checker.phase = "sweeping" /\ checker.conn = NoConn
  /\ checker.left = 0 \/ connections = <<>> \/ (kind = "chat_redis" /\ stop)
  /\ MutexFree
  /\ checker' = [checker EXCEPT !.phase = IF kind = "chat_redis" THEN "connecting" ELSE "ended", !.left = 0]
  /\ UNCHANGED <<kind, connections, broken, stop, closer, failCount, dropped, missed, jobVars>>

\* Mutant: the failure stays counted after its reconnection.
ReconnectUncounted ==
  /\ checker.phase = "connecting" /\ failCount > 0
  /\ MutexFree
  /\ Fresh # {}
  /\ Push(CHOOSE c \in Fresh : TRUE, place)
  /\ UNCHANGED <<kind, broken, stop, closer, checker, failCount, dropped, missed, job, hold, lock, owes, jobs>>

\* A reconnection succeeds and is returned to the pool like any other.
Reconnect ==
  /\ checker.phase = "connecting" /\ failCount > 0
  /\ MutexFree
  /\ Fresh # {}
  /\ Push(CHOOSE c \in Fresh : TRUE, place)
  /\ failCount' = failCount - 1
  /\ UNCHANGED <<kind, broken, stop, closer, checker, dropped, missed, job, hold, lock, owes, jobs>>

\* One fails, and the rest is left for the next round, or none is left to make.
ReconnectEnd ==
  /\ checker.phase = "connecting"
  /\ checker' = [checker EXCEPT !.phase = "sleeping"]
  /\ UNCHANGED <<kind, connections, broken, stop, closer, failCount, dropped, missed, jobVars>>

\* checkExpiredConnections of the gate: under the mutex, idle sessions that have
\* expired are replaced, or lost when the server cannot be reached; those kept keep
\* their order.
ReplaceExpired ==
  /\ kind = "gate_mysql" /\ closer # "closed"
  /\ MutexFree
  /\ \E expired \in SUBSET DOMAIN connections : \E lost \in SUBSET expired :
       LET n == Len(connections) - Cardinality(lost) IN
       /\ expired # {}
       /\ \E kept \in [1 .. n -> DOMAIN connections \ lost] :
            /\ \A i, j \in 1 .. n : i < j => kept[i] < kept[j]
            /\ connections' = [i \in 1 .. n |-> connections[kept[i]]]
       /\ broken' = broken \ {connections[i] : i \in expired}
       /\ dropped' = dropped + Cardinality(lost)
  /\ UNCHANGED <<kind, stop, closer, checker, failCount, missed, jobVars>>
-----------------------------------------------------------------------------
\* Close: the flag first ...
CloseBegin ==
  /\ closer = "open" /\ kind # "stubs"
  /\ stop' = TRUE /\ closer' = "stopping"
  /\ UNCHANGED <<kind, connections, broken, checker, failCount, dropped, missed, jobVars>>

AllWoken == [t \in Threads |-> IF place[t] = "asleep" THEN "woken" ELSE place[t]]

\* ... then notify_all, still without the mutex: a thread about to sleep is not
\* among those woken.
CloseNotify ==
  /\ closer = "stopping"
  /\ place' = AllWoken
  /\ missed' = {t \in Threads : place[t] = "drowsy"}
  /\ closer' = "joining"
  /\ UNCHANGED <<kind, connections, broken, stop, checker, failCount, dropped, job, hold, lock, owes, jobs>>

\* The stub pools are closed by destructors that hold the mutex.
CloseLocked ==
  /\ closer = "open" /\ kind = "stubs"
  /\ MutexFree
  /\ stop' = TRUE /\ closer' = "closed"
  /\ place' = AllWoken
  /\ UNCHANGED <<kind, connections, broken, checker, failCount, dropped, missed, job, hold, lock, owes, jobs>>

\* Close joins the check thread, which leaves its loop at the next test of the
\* flag, once the round it is in has ended.
CloseJoin ==
  /\ closer = "joining"
  /\ checker.phase \in {"sleeping", "ended"}
  /\ kind = "chat_mysql" => checker.phase = "ended"
  /\ closer' = "closed"
  /\ UNCHANGED <<kind, connections, broken, stop, checker, failCount, dropped, missed, jobVars>>
-----------------------------------------------------------------------------
Use(t) ==
  \/ Command(t) \/ BrokenReturned(t) \/ BrokenFreed(t) \/ BrokenReplaced(t) \/ BrokenDropped(t)
  \/ EmailFound(t) \/ EmailNotFound(t)
  \/ LockTaken(t) \/ GiveUp(t) \/ LockReleased(t)

ThreadStep(t) ==
  \/ BeginRelease(t) \/ FallAsleep(t) \/ Retry(t) \/ Use(t)

Sweep == SweepBegin \/ SweepTake \/ SweepKeep \/ SweepFail \/ SweepEnd \/ Reconnect \/ ReconnectEnd

CloseStep == CloseNotify \/ CloseJoin

Next ==
  \/ \E t \in Threads : Begin(t) \/ Spurious(t) \/ ThreadStep(t)
  \/ Expire \/ Break
  \/ Sweep \/ ReplaceExpired
  \/ CloseBegin \/ CloseStep \/ CloseLocked

\* Threads run; a command is answered or fails; the five seconds of
\* acquireLock pass; a round of the check thread ends.  Nobody need begin a job,
\* break, expire, reconnect successfully or close anything.
Fairness ==
  /\ \A t \in Threads :
       WF_vars(BeginRelease(t)) /\ WF_vars(FallAsleep(t)) /\ WF_vars(Retry(t)) /\ WF_vars(Use(t))
  /\ WF_vars(SweepTake) /\ WF_vars(SweepKeep) /\ WF_vars(SweepFail) /\ WF_vars(SweepEnd)
  /\ WF_vars(ReconnectEnd)
  /\ WF_vars(kind = "chat_mysql" /\ SweepBegin)
  /\ WF_vars(CloseStep)

Spec == Init /\ [][Next]_vars /\ Fairness
-----------------------------------------------------------------------------
Phases == {"sleeping", "sweeping", "connecting", "ended"}
Checker == [phase : Phases, left : Nat, conn : Conns \cup {NoConn}, rounds : 0 .. MaxRounds]
Places == {"out", "drowsy", "asleep", "woken", "using", "denied"}

\* Every variable holds a value of its kind, and a thread has a connection in
\* hand exactly while it uses it.
TypeOK ==
  /\ kind \in Kinds
  /\ connections \in Seq(Conns) /\ broken \in SUBSET Conns
  /\ stop \in BOOLEAN /\ closer \in {"open", "stopping", "joining", "closed"}
  /\ stop <=> closer # "open"
  /\ place \in [Threads -> Places]
  /\ job \in [Threads -> Jobs]
  /\ hold \in [Threads -> Conns \cup {NoConn}]
  /\ \A t \in Threads : hold[t] # NoConn <=> place[t] = "using"
  /\ lock \in Threads \cup {NoThread} /\ owes \in SUBSET Threads
  /\ jobs \in [Threads -> 0 .. MaxJobs + 1]
  /\ checker \in Checker
  /\ failCount \in Nat /\ dropped \in Nat
  /\ missed \in SUBSET Threads

\* No connection is in two hands: none is queued twice, held by two threads, by
\* a thread and the check thread, or held and queued.  A reply read by a thread
\* that did not ask for it would corrupt both (hiredis contexts and MySQL
\* sessions are not thread safe).
NotShared ==
  /\ \A i, j \in DOMAIN connections : connections[i] = connections[j] => i = j
  /\ \A t, u \in Threads : hold[t] = hold[u] /\ hold[t] # NoConn => t = u
  /\ \A t \in Threads : hold[t] \notin Idle /\ (hold[t] = checker.conn => hold[t] = NoConn)
  /\ checker.conn \notin Idle

InHand == Cardinality({t \in Threads : hold[t] # NoConn}) + (IF checker.conn = NoConn THEN 0 ELSE 1)

\* Until the pool is stopped, a connection is idle, in use, or waiting to be
\* made again; the only ones gone for good are those a command freed behind the
\* pool's back, CheckEmail kept, or a replacement failed for.  In particular
\* the check thread never adds more than was lost.
Conservation ==
  ~stop => Len(connections) + InHand + failCount + dropped = Len(Made[kind])

\* No lost wake-up: while threads sleep in an open pool, every idle connection has a thread
\* that was woken for it.
NoLostWakeup ==
  ~stop /\ Asleep # {} => Len(connections) <= Cardinality(Woken)

\* Whoever asks the pool for a connection gets one, or nullptr after Close:
\* although waiters for a lock sit on connections while its holder needs one to
\* release it, although broken connections come and go, and however many are
\* woken.  Not served are those who wait when the pool has no connection left at
\* all, and a thread that slept just after Close had notified.
Served ==
  \A t \in Threads :
    Waiting(t) ~> (~Waiting(t) \/ (Live = {} /\ ~stop) \/ t \in missed)

\* Close returns, whatever round the check thread is in.
CloseReturns == stop ~> (closer = "closed")
=============================================================================
