---------------------------- MODULE ChatProcess ----------------------------
(***************************************************************************)
(* The threads of one chat server process: the io threads that post        *)
(* messages, LogicSystem's queue with its one worker, and main, which on   *)
(* SIGINT or SIGTERM stops the io threads, closes the Redis pool and, on   *)
(* the way out, destroys LogicSystem.                                      *)
(*                                                                         *)
(* The worker keeps LogicSystem's mutex while a handler runs, so posting   *)
(* waits for the handler; a thread that found the queue empty keeps it     *)
(* until it sleeps.  The destructor sets _b_stop and notifies without the  *)
(* mutex.  What the handlers do is left to Routing, ChatLogin and Friends: *)
(* here a handler is served or refused, by whether the Redis pool is open. *)
(***************************************************************************)
EXTENDS Naturals, Sequences

CONSTANTS
  Clients,     \* the clients, each with a session on an io thread of its own
  MaxMessages  \* bound: messages a client sends

VARIABLES
  reader,    \* what each client's io thread does: reading, posting, notifying, gone
  sent,      \* messages each client has sent
  msgQue,    \* _msg_que, of <<client, number>>
  worker,    \* the worker: top, drowsy, asleep, woken, handling, draining, done
  main,      \* main: running, stopping, leaving, exiting, flagged, joining, ended
  bStop,     \* _b_stop
  redisOpen, \* the Redis pool has not been closed
  served,    \* history: messages handled with the Redis pool open
  refused,   \* history: messages handled after Close, whose lookups all fail
  missed     \* history: the worker was about to sleep when the destructor notified

vars == <<reader, sent, msgQue, worker, main, bStop, redisOpen, served, refused, missed>>

Init ==
  /\ reader = [c \in Clients |-> "reading"]
  /\ sent = [c \in Clients |-> 0]
  /\ msgQue = <<>>
  /\ worker = "top"
  /\ main = "running"
  /\ bStop = FALSE /\ redisOpen = TRUE
  /\ served = {} /\ refused = {} /\ missed = FALSE

\* Mutant: the worker lets the mutex go before it sleeps.
MutexFreeEarly == worker \notin {"handling", "draining"}

\* LogicSystem's _mutex is free.
MutexFree == worker \notin {"drowsy", "handling", "draining"}

\* What notify_one does to the only waiter.
Wake(w) == IF w = "asleep" THEN "woken" ELSE w
-----------------------------------------------------------------------------
\* A whole message has been read; the io thread calls PostMsgToQue.
Receive(c) ==
  /\ reader[c] = "reading"
  /\ sent[c] < MaxMessages
  /\ sent' = [sent EXCEPT ![c] = @ + 1]
  /\ reader' = [reader EXCEPT ![c] = "posting"]
  /\ UNCHANGED <<msgQue, worker, main, bStop, redisOpen, served, refused, missed>>

\* Mutant: the size is taken before the push.
PostMsgToQueSecond(c) ==
  /\ reader[c] = "posting"
  /\ MutexFree
  /\ msgQue' = Append(msgQue, <<c, sent[c]>>)
  /\ reader' = [reader EXCEPT ![c] = IF Len(msgQue) = 1 THEN "notifying" ELSE "reading"]
  /\ UNCHANGED <<sent, worker, main, bStop, redisOpen, served, refused, missed>>

\* PostMsgToQue pushes, and will notify if its message is the only one.
PostMsgToQue(c) ==
  /\ reader[c] = "posting"
  /\ MutexFree
  /\ msgQue' = Append(msgQue, <<c, sent[c]>>)
  /\ reader' = [reader EXCEPT ![c] = IF Len(msgQue') = 1 THEN "notifying" ELSE "reading"]
  /\ UNCHANGED <<sent, worker, main, bStop, redisOpen, served, refused, missed>>

\* It does so after unlocking.
Notify(c) ==
  /\ reader[c] = "notifying"
  /\ worker' = Wake(worker)
  /\ reader' = [reader EXCEPT ![c] = "reading"]
  /\ UNCHANGED <<sent, msgQue, main, bStop, redisOpen, served, refused, missed>>

\* The client disconnects and its session is cleaned up.
Disconnect(c) ==
  /\ reader[c] = "reading"
  /\ reader' = [reader EXCEPT ![c] = "gone"]
  /\ UNCHANGED <<sent, msgQue, worker, main, bStop, redisOpen, served, refused, missed>>
-----------------------------------------------------------------------------
\* DealMsg from its test: sleep, leave, drain or handle the first message.
Test ==
  /\ worker \in {"top", "woken"}
  /\ worker' = IF bStop THEN IF msgQue = <<>> THEN "done" ELSE "draining"
               ELSE IF msgQue = <<>> THEN "drowsy" ELSE "handling"
  /\ UNCHANGED <<reader, sent, msgQue, main, bStop, redisOpen, served, refused, missed>>

Sleep ==
  /\ worker = "drowsy"
  /\ worker' = "asleep"
  /\ UNCHANGED <<reader, sent, msgQue, main, bStop, redisOpen, served, refused, missed>>

\* The condition variable may wake the worker by itself.
Spurious ==
  /\ worker = "asleep"
  /\ worker' = "woken"
  /\ UNCHANGED <<reader, sent, msgQue, main, bStop, redisOpen, served, refused, missed>>

\* The callback of the first message runs to its end, and the message is popped.
HandleFirst ==
  /\ msgQue' = Tail(msgQue)
  /\ IF redisOpen
     THEN served' = served \cup {Head(msgQue)} /\ refused' = refused
     ELSE refused' = refused \cup {Head(msgQue)} /\ served' = served

Handle ==
  /\ worker = "handling"
  /\ HandleFirst
  /\ worker' = "top"
  /\ UNCHANGED <<reader, sent, main, bStop, redisOpen, missed>>

\* After _b_stop the worker empties the queue without looking at it again.
Drain ==
  /\ worker = "draining"
  /\ HandleFirst
  /\ worker' = IF Len(msgQue) = 1 THEN "done" ELSE "draining"
  /\ UNCHANGED <<reader, sent, main, bStop, redisOpen, missed>>
-----------------------------------------------------------------------------
MainAt(from, to) == main = from /\ main' = to

\* SIGINT or SIGTERM: main's own io_context is stopped, which ends accepting and
\* the timer, and AsioIOServicePool::Stop resets the work guards.
Signal ==
  /\ MainAt("running", "stopping")
  /\ UNCHANGED <<reader, sent, msgQue, worker, bStop, redisOpen, served, refused, missed>>

\* Stop joins the io threads.  Each returns from run() when it has nothing left
\* to wait for, which is when its last session has ended.
JoinIoThreads ==
  /\ MainAt("stopping", "leaving")
  /\ \A c \in Clients : reader[c] = "gone"
  /\ UNCHANGED <<reader, sent, msgQue, worker, bStop, redisOpen, served, refused, missed>>

\* The gRPC server is shut down, run() returns, and the Defer of main deletes
\* the login count and closes the Redis pool.
CloseRedis ==
  /\ MainAt("leaving", "exiting")
  /\ redisOpen' = FALSE
  /\ UNCHANGED <<reader, sent, msgQue, worker, bStop, served, refused, missed>>

\* ~LogicSystem, run by exit: the flag, ...
SetStop ==
  /\ MainAt("exiting", "flagged")
  /\ bStop' = TRUE
  /\ UNCHANGED <<reader, sent, msgQue, worker, redisOpen, served, refused, missed>>

\* Mutant: no notification.
NotifyStopForgotten ==
  /\ MainAt("flagged", "joining")
  /\ UNCHANGED <<reader, sent, msgQue, worker, bStop, redisOpen, served, refused, missed>>

\* ... the notification, ...
NotifyStop ==
  /\ MainAt("flagged", "joining")
  /\ worker' = Wake(worker)
  /\ missed' = (worker = "drowsy")
  /\ UNCHANGED <<reader, sent, msgQue, bStop, redisOpen, served, refused>>

\* ... and the join.
JoinWorker ==
  /\ MainAt("joining", "ended")
  /\ worker = "done"
  /\ UNCHANGED <<reader, sent, msgQue, worker, bStop, redisOpen, served, refused, missed>>

IoStep(c) == PostMsgToQue(c) \/ Notify(c)
WorkerStep == Test \/ Sleep \/ Handle \/ Drain
MainStep == JoinIoThreads \/ CloseRedis \/ SetStop \/ NotifyStop \/ JoinWorker

Next ==
  \/ \E c \in Clients : Receive(c) \/ IoStep(c) \/ Disconnect(c)
  \/ WorkerStep \/ Spurious
  \/ Signal \/ MainStep

\* Threads run and handlers end (Routing and ChatLogin check that they do).  The
\* worker unlocks between two handlers, and some io thread waiting for the mutex
\* gets it in the end, but perhaps not the next time.  Clients and signals are
\* free.
Fairness ==
  /\ SF_vars(\E c \in Clients : PostMsgToQue(c))
  /\ WF_vars(\E c \in Clients : Notify(c))
  /\ WF_vars(WorkerStep) /\ WF_vars(MainStep)

Spec == Init /\ [][Next]_vars /\ Fairness
-----------------------------------------------------------------------------
Messages == Clients \X (1 .. MaxMessages)

TypeOK ==
  /\ reader \in [Clients -> {"reading", "posting", "notifying", "gone"}]
  /\ sent \in [Clients -> 0 .. MaxMessages]
  /\ msgQue \in Seq(Messages)
  /\ worker \in {"top", "drowsy", "asleep", "woken", "handling", "draining", "done"}
  /\ main \in {"running", "stopping", "leaving", "exiting", "flagged", "joining", "ended"}
  /\ bStop \in BOOLEAN /\ redisOpen \in BOOLEAN /\ missed \in BOOLEAN
  /\ served \in SUBSET Messages /\ refused \in SUBSET Messages

\* What has left the queue and what is in it.
Handled == served \cup refused
Queued == {msgQue[i] : i \in DOMAIN msgQue}

\* The messages of c that PostMsgToQue has pushed are the first so many.
Pushed(c) == IF reader[c] = "posting" THEN sent[c] - 1 ELSE sent[c]

\* Every message that was pushed is either in the queue or handled, never both and
\* handled in one way only; and each client's are handled in the order it sent them.
MessagesKept ==
  /\ \A c \in Clients, n \in 1 .. MaxMessages :
       n <= Pushed(c) <=> <<c, n>> \in Handled \cup Queued
  /\ Handled \cap Queued = {} /\ served \cap refused = {}
  /\ \A c \in Clients : \A n \in 1 .. MaxMessages : \A m \in 1 .. n :
       <<c, n>> \in Handled => <<c, m>> \in Handled
  /\ \A i, j \in DOMAIN msgQue :
       i < j /\ msgQue[i][1] = msgQue[j][1] => msgQue[i][2] < msgQue[j][2]

\* The worker never sleeps, nor is about to, on a queue that is not empty unless a
\* notification is on its way; nor after the destructor's, but where that was missed.
WakeupsKept ==
  worker \in {"drowsy", "asleep"} =>
    /\ msgQue # <<>> => \E c \in Clients : reader[c] = "notifying"
    /\ main \in {"joining", "ended"} => missed

\* A message is refused only when its client has gone; and when the process ends, every
\* message that was ever read has been handled.
NothingDropped ==
  /\ \A m \in refused : reader[m[1]] = "gone"
  /\ main = "ended" => \A c \in Clients : \A n \in 1 .. sent[c] : <<c, n>> \in Handled

\* Every posted message is handled: no notification is lost between PostMsgToQue and
\* a worker that goes to sleep, and the worker empties the queue before it ends.  A
\* message is handled without Redis, whose pool main closes first, only when its
\* client has gone.
AllHandled ==
  \A c \in Clients, n \in 1 .. MaxMessages :
    (sent[c] >= n) ~> \/ <<c, n>> \in served
                      \/ <<c, n>> \in refused /\ reader[c] = "gone"

\* After a signal the process ends once its last client has gone, but for the
\* one case where the destructor's notification passes a worker that is about to
\* sleep.  (While a client stays connected Stop waits for it: no timer ends it.)
ShutdownEnds ==
  (main = "stopping" /\ \A c \in Clients : reader[c] = "gone") ~> (main = "ended" \/ missed)
=============================================================================
