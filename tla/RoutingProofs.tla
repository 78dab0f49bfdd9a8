---------------------------- MODULE RoutingProofs ----------------------------
(***************************************************************************)
(* Machine-checked proofs about Routing, for any number of servers, users, *)
(* requests, logins and failures.                                          *)
(*                                                                         *)
(* What carries them is that a worker's queue is sorted: requests are      *)
(* numbered as they are posted, so whatever a worker has dealt with is     *)
(* smaller than everything it still has to deal with.                      *)
(***************************************************************************)
EXTENDS Routing, TLAPS

Codes == {"none", "Success", "RPCFailed"}
Pcs   == {"idle", "uip", "local", "status", "forward", "await"}
Call  == [id : Id, at : Server, done : BOOLEAN]

WorkTyped ==
  /\ que \in [Server -> Seq(Nat)]
  /\ \A s \in Server : \A i \in DOMAIN que[s] :
       que[s][i] \in Id /\ msg[que[s][i]].via = s
  /\ pc \in [Server -> Pcs]
  /\ \A s \in Server : pc[s] # "idle" => que[s] # <<>>
  /\ place = [s \in Server |-> place[s]]
  /\ calls \subseteq Call
  /\ reply \in [1 .. MaxRequests -> Codes]

PresenceTyped ==
  /\ uip \in [Receiver -> Server \cup {NoServer}]
  /\ bound \in [Server -> SUBSET Receiver]
  /\ moves \in Nat

HistoryTyped ==
  /\ msg \in Seq(Msg) /\ Len(msg) <= MaxRequests
  /\ inbox \in [Receiver -> Seq(Nat)]
  /\ \A u \in Receiver : \A i \in DOMAIN inbox[u] :
       inbox[u][i] \in Id /\ msg[inbox[u][i]].to = u
  /\ hit \subseteq Id
  /\ home \in [Server -> Server \cup {NoServer}]

\* The variables keep their shape; a worker queues the requests that reached
\* its own server, keeps the one it works on at the head, and a user is sent
\* only notices meant for it.
Typed == WorkTyped /\ PresenceTyped /\ HistoryTyped

-----------------------------------------------------------------------------
(* Sequences.                                                              *)

LEMMA AppendElements ==
  ASSUME NEW S, NEW q \in Seq(S), NEW e \in S
  PROVE  /\ Append(q, e) \in Seq(S)
         /\ DOMAIN Append(q, e) = 1 .. Len(q) + 1
         /\ DOMAIN q = 1 .. Len(q)
         /\ \A i \in 1 .. Len(q) : Append(q, e)[i] = q[i]
         /\ Append(q, e)[Len(q) + 1] = e
         /\ q # <<>> => Head(Append(q, e)) = Head(q)
         /\ Append(q, e) # <<>>
         /\ \A i \in DOMAIN Append(q, e) :
              \/ Append(q, e)[i] = e
              \/ i \in DOMAIN q /\ Append(q, e)[i] = q[i]
<1>1. /\ Append(q, e) \in Seq(S) /\ Len(Append(q, e)) = Len(q) + 1
      /\ \A i \in 1 .. Len(q) : Append(q, e)[i] = q[i]
      /\ Append(q, e)[Len(q) + 1] = e
  OBVIOUS
<1>2. q # <<>> => 1 \in 1 .. Len(q) /\ Head(q) = q[1]
  OBVIOUS
<1>3. Append(q, e) # <<>> /\ Head(Append(q, e)) = Append(q, e)[1]
  BY <1>1
<1> QED
  BY <1>1, <1>2, <1>3

LEMMA TailElements ==
  ASSUME NEW S, NEW q \in Seq(S), q # <<>>
  PROVE  /\ Tail(q) \in Seq(S)
         /\ DOMAIN Tail(q) = 1 .. Len(q) - 1
         /\ DOMAIN q = 1 .. Len(q)
         /\ Len(q) \in Nat \ {0}
         /\ \A i \in 1 .. Len(q) - 1 : Tail(q)[i] = q[i + 1]
         /\ Head(q) = q[1]
OBVIOUS

-----------------------------------------------------------------------------
(* Type correctness.                                                       *)

LEMMA InitTyped == Init => Typed
BY RoutingAssumption DEF Init, Typed, WorkTyped, PresenceTyped, HistoryTyped,
  Id, Call, Codes, Pcs

\* What a worker works on is a request that reached its server.
LEMMA CurrentRequest ==
  ASSUME Typed, NEW s \in Server, que[s] # <<>>
  PROVE  /\ Current(s) \in Id /\ Current(s) \in 1 .. MaxRequests
         /\ msg[Current(s)] \in Msg /\ msg[Current(s)].via = s
         /\ Addressee(s) \in Receiver
         /\ 1 \in DOMAIN que[s] /\ que[s][1] = Current(s)
<1>1. que[s] \in Seq(Nat)
  BY DEF Typed, WorkTyped
<1>2. 1 \in DOMAIN que[s] /\ que[s][1] = Current(s)
  BY <1>1, TailElements DEF Current
<1>3. Current(s) \in Id /\ msg[Current(s)].via = s
  BY <1>2 DEF Typed, WorkTyped
<1>4. Current(s) \in 1 .. MaxRequests /\ msg[Current(s)] \in Msg
  BY <1>3, RoutingAssumption DEF Typed, HistoryTyped, Id
<1>5. Addressee(s) \in Receiver
  BY <1>4 DEF Addressee, Msg
<1> QED
  BY <1>2, <1>3, <1>4, <1>5

\* The end of a handler, and the moves of workers and users, keep the types.
LEMMA FinishTyped ==
  ASSUME Typed, NEW s \in Server, pc[s] # "idle", NEW code \in Codes, Finish(s, code),
         UNCHANGED <<msg, place>>, calls' \subseteq calls
  PROVE  WorkTyped'
<1>1. que[s] \in Seq(Nat) /\ que[s] # <<>>
  BY DEF Typed, WorkTyped
<1>2. Tail(que[s]) \in Seq(Nat)
  BY <1>1, TailElements
<1>3. \A i \in DOMAIN Tail(que[s]) : \E j \in DOMAIN que[s] : Tail(que[s])[i] = que[s][j]
  BY <1>1, TailElements
<1>4. que' = [que EXCEPT ![s] = Tail(que[s])] /\ que' \in [Server -> Seq(Nat)]
  BY <1>2 DEF Finish, Typed, WorkTyped
<1>5. \A t \in Server : \A i \in DOMAIN que'[t] :
        que'[t][i] \in Id' /\ msg'[que'[t][i]].via = t
  BY <1>3, <1>4 DEF Typed, WorkTyped, Id
<1>6. pc' \in [Server -> Pcs] /\ \A t \in Server : pc'[t] # "idle" => que'[t] # <<>>
  BY <1>4 DEF Finish, Goto, Typed, WorkTyped, Pcs
<1>7. reply' \in [1 .. MaxRequests -> Codes]
  BY <1>1 DEF Finish, Typed, WorkTyped
<1> QED
  BY <1>4, <1>5, <1>6, <1>7 DEF Typed, WorkTyped, Call, Id

LEMMA FailedCode == \A s \in Server : Failed(s) \in Codes
BY DEF Failed, Codes

LEMMA GotoTyped ==
  ASSUME Typed, NEW s \in Server, que[s] # <<>>, NEW step \in Pcs, Goto(s, step),
         UNCHANGED <<msg, que, reply>>, place' = [t \in Server |-> place'[t]],
         calls' \subseteq Call
  PROVE  WorkTyped'
BY DEF Goto, Typed, WorkTyped, Call, Id

LEMMA WorkFrame == WorkTyped /\ UNCHANGED <<msg, work>> => WorkTyped'
BY DEF WorkTyped, work, Call, Id
LEMMA PresenceFrame == PresenceTyped /\ UNCHANGED presence => PresenceTyped'
BY DEF PresenceTyped, presence
LEMMA HistoryFrame ==
  HistoryTyped /\ UNCHANGED <<msg, inbox>> /\ hit' \subseteq Id /\
    home' \in [Server -> Server \cup {NoServer}] => HistoryTyped'
BY DEF HistoryTyped, Id

LEMMA DeliverTyped ==
  ASSUME Typed, NEW n \in Id, Deliver(n), UNCHANGED <<msg, hit, home>>
  PROVE  HistoryTyped'
<1>1. msg[n] \in Msg /\ n \in Nat
  <2>1. msg \in Seq(Msg) /\ n \in DOMAIN msg
    BY DEF Typed, HistoryTyped, Id
  <2> QED
    BY <2>1
<1> DEFINE u == msg[n].to
<1>2. u \in Receiver
  BY <1>1 DEF Msg
<1>3. inbox' = [inbox EXCEPT ![u] = Append(inbox[u], n)]
  BY DEF Deliver
<1>4. inbox[u] \in Seq(Nat) /\ inbox \in [Receiver -> Seq(Nat)]
  BY <1>2 DEF Typed, HistoryTyped
<1>5. \A i \in DOMAIN Append(inbox[u], n) :
        \/ Append(inbox[u], n)[i] = n
        \/ i \in DOMAIN inbox[u] /\ Append(inbox[u], n)[i] = inbox[u][i]
  BY <1>1, <1>4, AppendElements
<1>6. inbox' \in [Receiver -> Seq(Nat)]
  BY <1>1, <1>3, <1>4, AppendElements
<1>7. ASSUME NEW v \in Receiver, NEW i \in DOMAIN inbox'[v]
      PROVE  inbox'[v][i] \in Id /\ msg[inbox'[v][i]].to = v
  <2>1. CASE v = u
    BY <1>2, <1>3, <1>4, <1>5, <2>1 DEF Typed, HistoryTyped
  <2>2. CASE v # u
    BY <1>3, <1>4, <2>2 DEF Typed, HistoryTyped
  <2> QED
    BY <2>1, <2>2
<1> QED
  BY <1>6, <1>7 DEF Typed, HistoryTyped, Id

\* Every step keeps the state typed.
LEMMA NextTyped ==
  ASSUME Typed, [Next]_vars
  PROVE  Typed'
<1> USE DEF Typed
<1>0. \A u \in Receiver : HomeOf(u) \in Server \cup {NoServer}
  BY DEF HomeOf, PresenceTyped
<1>1. ASSUME NEW m \in Msg, Post(m)
      PROVE  Typed'
  <2> DEFINE n == Len(msg) + 1
  <2>1. /\ msg \in Seq(Msg) /\ msg' = Append(msg, m)
        /\ que' = [que EXCEPT ![m.via] = Append(que[m.via], n)]
        /\ Len(msg) < MaxRequests /\ m.via \in Server /\ MaxRequests \in Nat
    BY <1>1, RoutingAssumption DEF Post, HistoryTyped, Msg
  <2>2. /\ msg' \in Seq(Msg) /\ Len(msg') <= MaxRequests
        /\ Id = 1 .. Len(msg) /\ Id' = 1 .. n
        /\ \A i \in Id : msg'[i] = msg[i]
        /\ msg'[n] = m /\ n \in Id' /\ n \in Nat
    BY <2>1 DEF Id
  <2>3. /\ Append(que[m.via], n) \in Seq(Nat) /\ Append(que[m.via], n) # <<>>
        /\ \A i \in DOMAIN Append(que[m.via], n) :
             \/ Append(que[m.via], n)[i] = n
             \/ i \in DOMAIN que[m.via] /\ Append(que[m.via], n)[i] = que[m.via][i]
    <3>1. que[m.via] \in Seq(Nat) /\ n \in Nat
      BY <2>1, <2>2 DEF WorkTyped
    <3> QED
      BY <3>1, AppendElements
  <2>4. /\ que' \in [Server -> Seq(Nat)]
        /\ \A s \in Server : pc[s] # "idle" => que'[s] # <<>>
    BY <2>1, <2>3 DEF WorkTyped
  <2>5. \A s \in Server : \A i \in DOMAIN que'[s] :
          que'[s][i] \in Id' /\ msg'[que'[s][i]].via = s
    <3> SUFFICES ASSUME NEW s \in Server, NEW i \in DOMAIN que'[s]
                 PROVE  que'[s][i] \in Id' /\ msg'[que'[s][i]].via = s
      OBVIOUS
    <3>1. CASE s = m.via
      BY <2>1, <2>2, <2>3, <3>1 DEF WorkTyped
    <3>2. CASE s # m.via
      BY <2>1, <2>2, <3>2 DEF WorkTyped
    <3> QED
      BY <3>1, <3>2
  <2>6. calls \subseteq Call'
    BY <2>2 DEF WorkTyped, Call
  <2>7. WorkTyped'
    BY <1>1, <2>4, <2>5, <2>6 DEF WorkTyped, Post
  <2>8. HistoryTyped'
    BY <1>1, <2>2 DEF HistoryTyped, Post
  <2> QED
    BY <1>1, <2>7, <2>8, PresenceFrame DEF Post
<1>2. ASSUME NEW s \in Server, Begin(s)
      PROVE  Typed'
  <2>1. que[s] # <<>> /\ Addressee(s) \in Receiver
    BY <1>2, CurrentRequest DEF Begin
  <2>2. home' \in [Server -> Server \cup {NoServer}]
    BY <1>2, <2>1, <1>0 DEF Begin, HistoryTyped
  <2>3. WorkTyped'
    BY <1>2, <2>1, GotoTyped DEF Begin, Pcs, WorkTyped
  <2> QED
    BY <1>2, <2>2, <2>3, PresenceFrame, HistoryFrame DEF Begin, HistoryTyped
<1>3. ASSUME NEW s \in Server, LookLocal(s)
      PROVE  Typed'
  <2>1. que[s] # <<>> /\ pc[s] # "idle" /\ Current(s) \in Id
    BY <1>3, CurrentRequest DEF LookLocal, WorkTyped
  <2>2. WorkTyped'
    BY <1>3, <2>1, GotoTyped, FinishTyped DEF LookLocal, Pcs, Codes, WorkTyped
  <2>3. HistoryTyped'
    BY <1>3, <2>1, DeliverTyped, HistoryFrame DEF LookLocal, HistoryTyped
  <2> QED
    BY <1>3, <2>2, <2>3, PresenceFrame DEF LookLocal
<1>4. ASSUME NEW s \in Server, LookUip(s)
      PROVE  Typed'
  <2>1. que[s] # <<>>
    BY <1>4 DEF LookUip, WorkTyped
  <2>2. WorkTyped'
    <3>1. place' = [t \in Server |-> place'[t]]
      BY <1>4 DEF LookUip, GoTo, WorkTyped
    <3>2. \E step \in Pcs : Goto(s, step)
      BY <1>4 DEF LookUip, GoTo, Pcs
    <3> QED
      BY <1>4, <2>1, <3>1, <3>2, GotoTyped DEF LookUip, WorkTyped
  <2> QED
    BY <1>4, <2>2, PresenceFrame, HistoryFrame DEF LookUip, HistoryTyped
<1>5. ASSUME NEW s \in Server, AskStatus(s)
      PROVE  Typed'
  <2>1. que[s] # <<>> /\ pc[s] # "idle" /\ Current(s) \in Id
    BY <1>5, CurrentRequest DEF AskStatus, WorkTyped
  <2>2. ASSUME Finish(s, Failed(s)), UNCHANGED place
        PROVE  WorkTyped'
    BY <1>5, <2>1, <2>2, FinishTyped, FailedCode DEF AskStatus
  <2>3. ASSUME UNCHANGED <<que, reply>>,
               \E t \in Server : IF msg[Current(s)].kind = "apply"
                                   THEN GoTo(s, ClientAddr[t])
                                   ELSE Goto(s, "forward") /\
                                        place' = [place EXCEPT ![s] = ClientAddr[t]]
        PROVE  WorkTyped'
    <3>1. place' = [t \in Server |-> place'[t]]
      BY <2>3 DEF GoTo, WorkTyped
    <3>2. \E step \in Pcs : Goto(s, step)
      BY <2>3 DEF GoTo, Pcs
    <3> QED
      BY <1>5, <2>1, <2>3, <3>1, <3>2, GotoTyped DEF AskStatus, WorkTyped
  <2>4. WorkTyped'
    BY <1>5, <2>2, <2>3 DEF AskStatus
  <2>5. HistoryTyped'
    BY <1>5, <2>1, HistoryFrame DEF AskStatus, HistoryTyped
  <2> QED
    BY <1>5, <2>4, <2>5, PresenceFrame DEF AskStatus
<1>6. ASSUME NEW s \in Server, Forward(s)
      PROVE  Typed'
  <2>1. que[s] # <<>> /\ pc[s] # "idle" /\ Current(s) \in Id
    BY <1>6, CurrentRequest DEF Forward, WorkTyped
  <2>2. ASSUME Finish(s, Failed(s)), UNCHANGED calls
        PROVE  WorkTyped'
    BY <1>6, <2>1, <2>2, FinishTyped, FailedCode DEF Forward
  <2>3. ASSUME NEW t \in Server,
               calls' = calls \cup {[id |-> Current(s), at |-> t, done |-> FALSE]},
               Goto(s, "await"), UNCHANGED <<que, reply>>
        PROVE  WorkTyped'
    <3>1. [id |-> Current(s), at |-> t, done |-> FALSE] \in Call
      BY <2>1, <2>3 DEF Call
    <3>2. calls' \subseteq Call
      BY <2>3, <3>1 DEF WorkTyped
    <3> QED
      BY <1>6, <2>1, <2>3, <3>2, GotoTyped DEF Forward, Pcs, WorkTyped
  <2>4. WorkTyped'
    BY <1>6, <2>2, <2>3 DEF Forward
  <2> QED
    BY <1>6, <2>4, PresenceFrame, HistoryFrame DEF Forward, HistoryTyped
<1>7. ASSUME NEW s \in Server, DeadlinePasses(s)
      PROVE  Typed'
  <2>1. que[s] # <<>> /\ pc[s] # "idle" /\ Current(s) \in Id
    BY <1>7, CurrentRequest DEF DeadlinePasses, WorkTyped
  <2>2. WorkTyped'
    BY <1>7, <2>1, FinishTyped, FailedCode DEF DeadlinePasses
  <2>3. HistoryTyped'
    BY <1>7, <2>1, HistoryFrame DEF DeadlinePasses, HistoryTyped
  <2> QED
    BY <1>7, <2>2, <2>3, PresenceFrame DEF DeadlinePasses
<1>8. ASSUME NEW s \in Server, NEW c \in calls, Answered(s, c)
      PROVE  Typed'
  <2>1. pc[s] # "idle"
    BY <1>8 DEF Answered, Awaited
  <2>2. WorkTyped'
    BY <1>8, <2>1, FinishTyped DEF Answered, Codes
  <2> QED
    BY <1>8, <2>2, PresenceFrame, HistoryFrame DEF Answered, HistoryTyped
<1>9. ASSUME NEW c \in calls, Serve(c)
      PROVE  Typed'
  <2>1. c \in Call /\ [c EXCEPT !.done = TRUE] \in Call
    BY DEF WorkTyped, Call
  <2>2. WorkTyped'
    BY <1>9, <2>1 DEF Serve, WorkTyped, Call, Id
  <2>3. HistoryTyped'
    BY <1>9, <2>1, DeliverTyped, HistoryFrame DEF Serve, HistoryTyped, Call
  <2> QED
    BY <1>9, <2>2, <2>3, PresenceFrame DEF Serve
<1>10. ASSUME NEW c \in calls, Lose(c)
      PROVE  Typed'
  <2>1. c.id \in Id
    BY DEF WorkTyped, Call
  <2>2. WorkTyped'
    BY <1>10 DEF Lose, WorkTyped, Call, Id
  <2>3. HistoryTyped'
    BY <1>10, <2>1, HistoryFrame DEF Lose, HistoryTyped
  <2> QED
    BY <1>10, <2>2, <2>3, PresenceFrame DEF Lose
<1>11. ASSUME NEW u \in Receiver, Move(u)
      PROVE  Typed'
  <2>1. UNCHANGED <<msg, work, inbox, hit>> /\ Unsettle(u)
    BY <1>11 DEF Move, Bind, Unregister, Register, Unbind
  <2>2. home' \in [Server -> Server \cup {NoServer}]
    BY <2>1 DEF Unsettle, HistoryTyped
  <2>3. PresenceTyped'
    BY <1>11 DEF Move, Bind, Unregister, Register, Unbind, PresenceTyped
  <2> QED
    BY <2>1, <2>2, <2>3, WorkFrame, HistoryFrame DEF HistoryTyped
<1>12. CASE UNCHANGED vars
  BY <1>12, WorkFrame, PresenceFrame, HistoryFrame DEF vars, HistoryTyped
<1> QED
  BY <1>1, <1>2, <1>3, <1>4, <1>5, <1>6, <1>7, <1>8, <1>9, <1>10, <1>11, <1>12
    DEF Next, WorkerStep

-----------------------------------------------------------------------------
(* The queue of a worker.                                                  *)

\* The worker has done with n: everything it still has was posted later.
Past(n) == \A i \in DOMAIN que[msg[n].via] : n < que[msg[n].via][i]

\* n has been passed on, or its passing on has failed: the worker has done with
\* it, or is waiting for the peer to answer.
Passed(n) ==
  \/ Past(n)
  \/ /\ pc[msg[n].via] = "await" /\ que[msg[n].via] # <<>>
     /\ Current(msg[n].via) = n

\* Requests wait in the order in which they were posted.
Sorted == \A s \in Server : \A i, j \in DOMAIN que[s] : i < j => que[s][i] < que[s][j]

\* A request that has been passed on was posted no later than the current one.
LEMMA PassedBefore ==
  ASSUME Typed, NEW s \in Server, que[s] # <<>>, NEW n \in Id, msg[n].via = s, Passed(n)
  PROVE  n < Current(s) \/ (n = Current(s) /\ pc[s] = "await")
BY CurrentRequest DEF Passed, Past

\* A step adds to what has been passed on, and takes the current request out of
\* the queue at most; a request that is past keeps its reply.
QueueStep ==
  /\ Sorted'
  /\ \A n \in Id : n \in Id' /\ msg'[n] = msg[n]
  /\ \A n \in Id : Past(n) => Past(n)' /\ reply'[n] = reply[n]
  /\ \A n \in Id : Passed(n) => Passed(n)'
  /\ \A n \in Id : Passed(n) /\ Past(n)' =>
       \/ Past(n)
       \/ /\ pc[msg[n].via] = "await" /\ pc'[msg[n].via] = "idle"
          /\ n = Current(msg[n].via)

LEMMA PostQueue ==
  ASSUME Typed, Sorted, NEW m \in Msg, Post(m)
  PROVE  QueueStep
<1> DEFINE n == Len(msg) + 1
<1> USE DEF Typed
<1>1. /\ msg \in Seq(Msg) /\ msg' = Append(msg, m) /\ m.via \in Server
      /\ que' = [que EXCEPT ![m.via] = Append(que[m.via], n)]
      /\ UNCHANGED <<pc, reply>> /\ pc[m.via] = "idle"
  BY DEF Post, HistoryTyped, Msg
<1>2. /\ Id = 1 .. Len(msg) /\ n \in Nat /\ Id \subseteq Nat
      /\ \A i \in Id : i < n /\ i \in Id' /\ msg'[i] = msg[i]
  BY <1>1 DEF Id
<1>3. que \in [Server -> Seq(Nat)] /\ que[m.via] \in Seq(Nat)
  BY <1>1 DEF WorkTyped
<1>4. /\ DOMAIN que[m.via] = 1 .. Len(que[m.via]) /\ Len(que[m.via]) \in Nat
      /\ DOMAIN que'[m.via] = 1 .. Len(que[m.via]) + 1
      /\ \A i \in DOMAIN que[m.via] : que'[m.via][i] = que[m.via][i]
      /\ que'[m.via][Len(que[m.via]) + 1] = n
      /\ que[m.via] # <<>> => Head(que'[m.via]) = Head(que[m.via])
  <2>1. que'[m.via] = Append(que[m.via], n)
    BY <1>1, <1>3
  <2>2. Len(que[m.via]) \in Nat
    BY <1>3
  <2> QED
    BY <1>2, <1>3, <2>1, <2>2, AppendElements
<1>5. \A s \in Server : s # m.via => que'[s] = que[s]
  BY <1>1, <1>3
<1>6. \A i \in DOMAIN que[m.via] : que[m.via][i] < n
  BY <1>1, <1>2 DEF WorkTyped
<1>7. Sorted'
  <2> SUFFICES ASSUME NEW s \in Server, NEW i \in DOMAIN que'[s],
                      NEW j \in DOMAIN que'[s], i < j
               PROVE  que'[s][i] < que'[s][j]
    BY DEF Sorted
  <2>1. CASE s = m.via
    <3>1. i \in DOMAIN que[s]
      BY <1>4, <2>1
    <3>2. CASE j \in DOMAIN que[s]
      BY <1>4, <2>1, <3>1, <3>2 DEF Sorted
    <3>3. CASE j = Len(que[s]) + 1
      BY <1>4, <1>6, <2>1, <3>1, <3>3
    <3> QED
      BY <1>4, <2>1, <3>2, <3>3
  <2>2. CASE s # m.via
    BY <1>5, <2>2 DEF Sorted
  <2> QED
    BY <2>1, <2>2
<1>8. ASSUME NEW i \in Id
      PROVE  msg[i].via \in Server /\ (Past(i)' <=> Past(i))
  <2>1. msg[i] \in Msg /\ msg[i].via \in Server
    BY <1>1, <1>2 DEF Msg
  <2>2. CASE msg[i].via = m.via
    <3>1. /\ DOMAIN que[m.via] \subseteq DOMAIN que'[m.via]
          /\ \A k \in DOMAIN que'[m.via] :
               k \in DOMAIN que[m.via] \/ que'[m.via][k] = n
      BY <1>4
    <3>2. /\ Past(i) <=> \A k \in DOMAIN que[m.via] : i < que[m.via][k]
          /\ Past(i)' <=> \A k \in DOMAIN que'[m.via] : i < que'[m.via][k]
      BY <1>2, <2>2 DEF Past
    <3>3. i < n /\ \A k \in DOMAIN que[m.via] : que'[m.via][k] = que[m.via][k]
      BY <1>2, <1>4
    <3> HIDE DEF n
    <3> QED
      BY <2>1, <3>1, <3>2, <3>3
  <2>3. CASE msg[i].via # m.via
    BY <1>2, <1>5, <2>1, <2>3 DEF Past
  <2> QED
    BY <2>1, <2>2, <2>3
<1>9. ASSUME NEW i \in Id, Passed(i)
      PROVE  Passed(i)'
  BY <1>1, <1>2, <1>5, <1>8, <1>9 DEF Passed, Current
<1> QED
  BY <1>1, <1>2, <1>7, <1>8, <1>9 DEF QueueStep

\* The request that a worker has finished with is past.
LEMMA FinishPast ==
  ASSUME Typed, Sorted, NEW s \in Server, pc[s] # "idle", NEW code \in Codes,
         Finish(s, code), UNCHANGED msg, NEW n, n = Current(s)
  PROVE  Past(n)'
<1>1. /\ que \in [Server -> Seq(Nat)] /\ que[s] \in Seq(Nat) /\ que[s] # <<>>
      /\ que' = [que EXCEPT ![s] = Tail(que[s])]
  BY DEF Finish, Typed, WorkTyped
<1>2. /\ que'[s] = Tail(que[s]) /\ DOMAIN que'[s] = 1 .. Len(que[s]) - 1
      /\ DOMAIN que[s] = 1 .. Len(que[s]) /\ Len(que[s]) \in Nat \ {0}
      /\ \A i \in DOMAIN que'[s] : que'[s][i] = que[s][i + 1]
      /\ n = que[s][1]
  BY <1>1, TailElements DEF Current
<1>3. ASSUME NEW i \in DOMAIN que'[s]
      PROVE  n < que'[s][i]
  <2>1. 1 \in DOMAIN que[s] /\ i + 1 \in DOMAIN que[s] /\ 1 < i + 1
    BY <1>2
  <2> QED
    BY <1>2, <2>1 DEF Sorted
<1>4. msg'[n].via = s
  BY <1>1, CurrentRequest
<1> QED
  BY <1>3, <1>4 DEF Past

LEMMA FinishQueue ==
  ASSUME Typed, Sorted, NEW s \in Server, pc[s] # "idle", NEW code \in Codes,
         Finish(s, code), UNCHANGED msg
  PROVE  QueueStep
<1> USE DEF Typed
<1>1. /\ que \in [Server -> Seq(Nat)] /\ que[s] \in Seq(Nat) /\ que[s] # <<>>
      /\ que' = [que EXCEPT ![s] = Tail(que[s])]
      /\ pc' = [pc EXCEPT ![s] = "idle"] /\ pc \in [Server -> Pcs]
      /\ reply' = [reply EXCEPT ![Current(s)] = code]
      /\ reply \in [1 .. MaxRequests -> Codes]
  BY DEF Finish, Goto, WorkTyped
<1>2. /\ que'[s] = Tail(que[s]) /\ DOMAIN que'[s] = 1 .. Len(que[s]) - 1
      /\ DOMAIN que[s] = 1 .. Len(que[s]) /\ Len(que[s]) \in Nat \ {0}
      /\ \A i \in DOMAIN que'[s] : que'[s][i] = que[s][i + 1]
      /\ Current(s) = que[s][1]
  BY <1>1, TailElements DEF Current
<1>3. \A t \in Server : t # s => que'[t] = que[t]
  BY <1>1
<1>4. Id' = Id /\ Id \subseteq Nat /\ Current(s) \in Id /\ \A n \in Id : msg[n].via \in Server
  <2>1. msg \in Seq(Msg)
    BY DEF HistoryTyped
  <2>2. \A n \in Id : msg[n] \in Msg /\ n \in Nat
    BY <2>1 DEF Id
  <2> QED
    BY <1>1, <2>2, CurrentRequest DEF Id, Msg
<1>5. Sorted'
  <2> SUFFICES ASSUME NEW t \in Server, NEW i \in DOMAIN que'[t],
                      NEW j \in DOMAIN que'[t], i < j
               PROVE  que'[t][i] < que'[t][j]
    BY DEF Sorted
  <2>1. CASE t = s
    <3>1. i \in 1 .. Len(que[s]) - 1 /\ j \in 1 .. Len(que[s]) - 1
      BY <1>2, <2>1
    <3>2. i + 1 \in DOMAIN que[s] /\ j + 1 \in DOMAIN que[s] /\ i + 1 < j + 1
      BY <1>2, <3>1
    <3> QED
      BY <1>2, <2>1, <3>2 DEF Sorted
  <2>2. CASE t # s
    BY <1>3, <2>2 DEF Sorted
  <2> QED
    BY <2>1, <2>2
<1>6. ASSUME NEW n \in Id, Past(n)
      PROVE  Past(n)' /\ reply'[n] = reply[n]
  <2>1. CASE msg[n].via = s
    <3>1. n < Current(s)
      BY <1>2, <1>6, <2>1 DEF Past
    <3>2. \A i \in DOMAIN que'[s] : i + 1 \in DOMAIN que[s]
      BY <1>2
    <3>3. Past(n)'
      BY <1>2, <1>6, <2>1, <3>2 DEF Past
    <3> QED
      BY <1>1, <1>4, <3>1, <3>3
  <2>2. CASE msg[n].via # s
    <3>1. n # Current(s)
      BY <1>1, <2>2, CurrentRequest
    <3> QED
      BY <1>1, <1>3, <1>4, <1>6, <2>2, <3>1 DEF Past
  <2> QED
    BY <2>1, <2>2
<1>7. ASSUME NEW n \in Id, Passed(n)
      PROVE  /\ Passed(n)'
             /\ Past(n)' =>
                  \/ Past(n)
                  \/ /\ pc[msg[n].via] = "await" /\ pc'[msg[n].via] = "idle"
                     /\ n = Current(msg[n].via)
  <2>1. CASE Past(n)
    BY <1>6, <2>1 DEF Passed
  <2>2. CASE ~Past(n) /\ msg[n].via = s
    <3>1. pc[s] = "await" /\ n = Current(s)
      BY <1>7, <2>2 DEF Passed
    <3>2. Past(n)'
      BY <3>1, FinishPast
    <3> QED
      BY <1>1, <2>2, <3>1, <3>2 DEF Passed
  <2>3. CASE ~Past(n) /\ msg[n].via # s
    <3>1. pc'[msg[n].via] = pc[msg[n].via] /\ que'[msg[n].via] = que[msg[n].via]
      BY <1>1, <1>3, <1>4, <2>3
    <3> QED
      BY <1>7, <2>3, <3>1 DEF Passed, Past, Current
  <2> QED
    BY <2>1, <2>2, <2>3
<1> QED
  BY <1>4, <1>5, <1>6, <1>7 DEF QueueStep

LEMMA GotoQueue ==
  ASSUME Typed, Sorted, NEW s \in Server, pc[s] # "await", NEW step \in Pcs,
         Goto(s, step), UNCHANGED <<msg, que, reply>>
  PROVE  QueueStep
<1>1. \A n \in Id : Past(n)' = Past(n)
  BY DEF Past
<1>2. \A t \in Server : t # s => pc'[t] = pc[t]
  BY DEF Goto, Typed, WorkTyped
<1>3. \A n \in Id : msg[n].via \in Server
  <2>1. msg \in Seq(Msg)
    BY DEF Typed, HistoryTyped
  <2>2. \A n \in Id : msg[n] \in Msg
    BY <2>1 DEF Id
  <2> QED
    BY <2>2 DEF Msg
<1>4. \A n \in Id : Passed(n) => Passed(n)'
  BY <1>1, <1>2, <1>3 DEF Passed, Current
<1> QED
  BY <1>1, <1>4 DEF QueueStep, Sorted, Id

LEMMA QueueFrame ==
  ASSUME Sorted, UNCHANGED <<msg, que, pc, reply>>
  PROVE  QueueStep
BY DEF QueueStep, Sorted, Id, Past, Passed, Current

\* Every step is a step of the queues.
LEMMA NextQueue ==
  ASSUME Typed, Sorted, [Next]_vars
  PROVE  QueueStep
<1>1. ASSUME NEW m \in Msg, Post(m)
      PROVE  QueueStep
  BY <1>1, PostQueue
<1>2. ASSUME NEW s \in Server, Begin(s)
      PROVE  QueueStep
  BY <1>2, GotoQueue DEF Begin, Pcs
<1>3. ASSUME NEW s \in Server, LookLocal(s)
      PROVE  QueueStep
  <2>1. CASE Finish(s, "Success")
    BY <1>3, <2>1, FinishQueue DEF LookLocal, Codes
  <2>2. CASE Goto(s, "status") /\ UNCHANGED <<que, reply>>
    BY <1>3, <2>2, GotoQueue DEF LookLocal, Pcs
  <2> QED
    BY <1>3, <2>1, <2>2 DEF LookLocal
<1>4. ASSUME NEW s \in Server, LookUip(s)
      PROVE  QueueStep
  <2>1. \E step \in Pcs : Goto(s, step)
    BY <1>4 DEF LookUip, GoTo, Pcs
  <2> QED
    BY <1>4, <2>1, GotoQueue DEF LookUip
<1>5. ASSUME NEW s \in Server, AskStatus(s)
      PROVE  QueueStep
  <2>1. (Finish(s, Failed(s))) \/ (UNCHANGED <<que, reply>> /\ \E step \in Pcs : Goto(s, step))
    BY <1>5 DEF AskStatus, GoTo, Pcs
  <2> QED
    BY <1>5, <2>1, FinishQueue, GotoQueue, FailedCode DEF AskStatus
<1>6. ASSUME NEW s \in Server, Forward(s)
      PROVE  QueueStep
  <2>1. (Finish(s, Failed(s))) \/ (UNCHANGED <<que, reply>> /\ Goto(s, "await"))
    BY <1>6 DEF Forward
  <2> QED
    BY <1>6, <2>1, FinishQueue, GotoQueue, FailedCode DEF Forward, Pcs
<1>7. ASSUME NEW s \in Server, DeadlinePasses(s)
      PROVE  QueueStep
  BY <1>7, FinishQueue, FailedCode DEF DeadlinePasses
<1>8. ASSUME NEW s \in Server, NEW c \in calls, Answered(s, c)
      PROVE  QueueStep
  BY <1>8, FinishQueue DEF Answered, Awaited, Codes
<1>9. ASSUME NEW c \in calls, Serve(c) \/ Lose(c)
      PROVE  QueueStep
  BY <1>9, QueueFrame DEF Serve, Lose
<1>10. ASSUME NEW u \in Receiver, Move(u)
      PROVE  QueueStep
  <2>1. UNCHANGED <<msg, que, pc, reply>>
    BY <1>10 DEF Move, Bind, Unregister, Register, Unbind, work
  <2> QED
    BY <2>1, QueueFrame
<1>11. CASE UNCHANGED vars
  BY <1>11, QueueFrame DEF vars, work
<1> QED
  BY <1>1, <1>2, <1>3, <1>4, <1>5, <1>6, <1>7, <1>8, <1>9, <1>10, <1>11
    DEF Next, WorkerStep

-----------------------------------------------------------------------------
(* Once only, and in order.                                                *)

TimedOut(n) == n \in hit /\ (msg[n].kind \in Reports => reply[n] = "RPCFailed")

\* A request has one call at most, which the peer may serve late, but then the
\* worker has given it up and has told a sender who is told; and a call that is
\* yet to be served has delivered nothing.
CallsOK ==
  /\ \A c, d \in calls : c.id = d.id => c = d
  /\ \A c \in calls : Passed(c.id)
  /\ \A c \in calls : ~c.done =>
       /\ \A u \in Receiver : \A i \in DOMAIN inbox[u] : inbox[u][i] # c.id
       /\ Past(c.id) => TimedOut(c.id)

\* What a user has been sent has been passed on.
SentPassed == \A u \in Receiver : \A i \in DOMAIN inbox[u] : Passed(inbox[u][i])

Inboxes  == SentPassed /\ OnceOnly /\ InOrder
Ordering == Sorted /\ CallsOK /\ Inboxes

LEMMA RequestFields ==
  ASSUME Typed, NEW n \in Id
  PROVE  n \in Nat /\ msg[n] \in Msg /\ msg[n].via \in Server /\ msg[n].to \in Receiver
<1>1. msg \in Seq(Msg)
  BY DEF Typed, HistoryTyped
<1>2. n \in Nat /\ msg[n] \in Msg
  BY <1>1 DEF Id
<1> QED
  BY <1>2 DEF Msg

LEMMA SameVia ==
  ASSUME Typed, NEW m \in Id, NEW n \in Id, SameStream(m, n)
  PROVE  msg[m].via = msg[n].via
<1>1. msg[n] \in [kind : Kinds, from : Sender, to : Receiver, via : Server]
  BY RequestFields DEF Msg
<1>2. [msg[n] EXCEPT !.kind = msg[m].kind].via = msg[n].via
  BY <1>1
<1> QED
  BY <1>2 DEF SameStream

LEMMA InOrderMeans ==
  InOrder <=>
    \A u \in Receiver : \A i, j \in DOMAIN inbox[u] :
      i < j /\ inbox[u][j] < inbox[u][i] /\ SameStream(inbox[u][j], inbox[u][i])
        => TimedOut(inbox[u][j])
BY DEF InOrder, TimedOut

LEMMA InOrderMeansNext ==
  InOrder' <=>
    \A u \in Receiver : \A i, j \in DOMAIN inbox'[u] :
      i < j /\ inbox'[u][j] < inbox'[u][i] /\ SameStream(inbox[u][j], inbox[u][i])'
        => TimedOut(inbox[u][j])'
BY DEF InOrder, TimedOut

\* A request that a later one of its connection has overtaken is past, and so
\* keeps its reply.
LEMMA Overtaken ==
  ASSUME Typed, NEW early \in Id, NEW later \in Id, early < later,
         SameStream(early, later), Passed(early), Passed(later)
  PROVE  Past(early)
<1> DEFINE s == msg[early].via
<1>1. s \in Server /\ msg[later].via = s /\ early \in Nat /\ later \in Nat
  BY SameVia, RequestFields
<1>2. SUFFICES ASSUME que[s] # <<>>, Current(s) = early
               PROVE  FALSE
  BY DEF Passed
<1>3. later < Current(s) \/ later = Current(s)
  BY <1>1, <1>2, PassedBefore
<1> QED
  BY <1>1, <1>2, <1>3

LEMMA SameStreamNext ==
  ASSUME QueueStep, NEW m \in Id, NEW n \in Id
  PROVE  SameStream(m, n)' <=> SameStream(m, n)
BY DEF QueueStep, SameStream

LEMMA TimedOutNext ==
  ASSUME QueueStep, hit \subseteq hit', NEW n \in Id, Past(n), TimedOut(n)
  PROVE  TimedOut(n)'
BY DEF QueueStep, TimedOut

\* A step that sends nothing keeps what was sent in order.
LEMMA InboxFrame ==
  ASSUME Typed, Inboxes, QueueStep, UNCHANGED inbox, hit \subseteq hit'
  PROVE  Inboxes'
<1>1. \A u \in Receiver : \A i \in DOMAIN inbox[u] : inbox[u][i] \in Id
  BY DEF Typed, HistoryTyped
<1>2. SentPassed' /\ OnceOnly'
  BY <1>1 DEF Inboxes, SentPassed, OnceOnly, QueueStep
<1>3. InOrder'
  <2> SUFFICES ASSUME NEW u \in Receiver, NEW i \in DOMAIN inbox[u],
                      NEW j \in DOMAIN inbox[u], i < j, inbox[u][j] < inbox[u][i],
                      SameStream(inbox[u][j], inbox[u][i])'
               PROVE  TimedOut(inbox[u][j])'
    BY InOrderMeansNext
  <2>1. SameStream(inbox[u][j], inbox[u][i])
    BY <1>1, SameStreamNext
  <2>2. Past(inbox[u][j])
    BY <1>1, <2>1, Overtaken DEF Inboxes, SentPassed
  <2>3. TimedOut(inbox[u][j])
    BY <2>1, InOrderMeans DEF Inboxes
  <2> QED
    BY <1>1, <2>2, <2>3, TimedOutNext
<1> QED
  BY <1>2, <1>3 DEF Inboxes

LEMMA DeliverElements ==
  ASSUME Typed, NEW n \in Id, Deliver(n), NEW u \in Receiver, NEW i \in DOMAIN inbox'[u]
  PROVE  /\ inbox[u] \in Seq(Nat) /\ DOMAIN inbox[u] = 1 .. Len(inbox[u])
         /\ \/ /\ i \in DOMAIN inbox[u] /\ inbox'[u][i] = inbox[u][i]
            \/ u = msg[n].to /\ i = Len(inbox[u]) + 1 /\ inbox'[u][i] = n
<1>1. inbox \in [Receiver -> Seq(Nat)] /\ n \in Nat /\ inbox[u] \in Seq(Nat)
  BY RequestFields DEF Typed, HistoryTyped
<1>2. DOMAIN inbox[u] = 1 .. Len(inbox[u])
  BY <1>1
<1>3. CASE u = msg[n].to
  <2>1. inbox'[u] = Append(inbox[u], n)
    BY <1>1, <1>3 DEF Deliver
  <2>2. i \in 1 .. Len(inbox[u]) + 1 /\ Len(inbox[u]) \in Nat
    BY <1>1, <2>1, AppendElements
  <2>3. i \in 1 .. Len(inbox[u]) \/ i = Len(inbox[u]) + 1
    BY <2>2
  <2> QED
    BY <1>1, <1>2, <1>3, <2>1, <2>3, AppendElements
<1>4. CASE u # msg[n].to
  BY <1>1, <1>2, <1>4 DEF Deliver
<1> QED
  BY <1>3, <1>4

\* Sending the notice of a request that has not been sent, and that is past
\* only if it timed out, keeps what is sent in order.
LEMMA DeliverInbox ==
  ASSUME Typed, Inboxes, QueueStep, hit \subseteq hit', NEW n \in Id, Deliver(n),
         \A u \in Receiver : \A i \in DOMAIN inbox[u] : inbox[u][i] # n,
         Passed(n)', Past(n) => TimedOut(n),
         ~Past(n) => que[msg[n].via] # <<>> /\ n = Current(msg[n].via)
  PROVE  Inboxes'
<1>1. \A u \in Receiver : \A i \in DOMAIN inbox[u] :
        inbox[u][i] \in Id /\ Passed(inbox[u][i])
  BY DEF Typed, HistoryTyped, Inboxes, SentPassed
<1>2. SentPassed'
  BY <1>1, DeliverElements DEF SentPassed, QueueStep
<1>3. OnceOnly'
  <2> SUFFICES ASSUME NEW u \in Receiver, NEW i \in DOMAIN inbox'[u],
                      NEW j \in DOMAIN inbox'[u], i # j
               PROVE  inbox'[u][i] # inbox'[u][j]
    BY DEF OnceOnly
  <2> QED
    BY DeliverElements DEF Inboxes, OnceOnly
<1>4. InOrder'
  <2> SUFFICES ASSUME NEW u \in Receiver, NEW i \in DOMAIN inbox'[u],
                      NEW j \in DOMAIN inbox'[u], i < j, inbox'[u][j] < inbox'[u][i],
                      SameStream(inbox[u][j], inbox[u][i])'
               PROVE  TimedOut(inbox[u][j])'
    BY InOrderMeansNext
  <2>1. i \in DOMAIN inbox[u] /\ inbox'[u][i] = inbox[u][i]
    <3>1. DOMAIN inbox[u] = 1 .. Len(inbox[u]) /\ Len(inbox[u]) \in Nat
      BY DeliverElements
    <3>2. j \in 1 .. Len(inbox[u]) \/ j = Len(inbox[u]) + 1
      BY <3>1, DeliverElements
    <3>3. i # Len(inbox[u]) + 1
      BY <3>1, <3>2, DeliverElements
    <3> QED
      BY <3>3, DeliverElements
  <2>2. CASE j \in DOMAIN inbox[u] /\ inbox'[u][j] = inbox[u][j]
    <3>1. SameStream(inbox[u][j], inbox[u][i])
      BY <1>1, <2>1, <2>2, SameStreamNext
    <3>2. Past(inbox[u][j])
      BY <1>1, <2>1, <2>2, <3>1, Overtaken
    <3>3. TimedOut(inbox[u][j])
      BY <2>1, <2>2, <3>1, InOrderMeans DEF Inboxes
    <3> QED
      BY <1>1, <2>2, <3>2, <3>3, TimedOutNext
  <2>3. CASE inbox'[u][j] = n
    <3>1. SameStream(n, inbox[u][i]) /\ n < inbox[u][i]
      BY <1>1, <2>1, <2>3, SameStreamNext
    <3>2. Past(n)
      <4>1. SUFFICES ASSUME que[msg[n].via] # <<>>, n = Current(msg[n].via)
                     PROVE  FALSE
        OBVIOUS
      <4>2. msg[n].via \in Server /\ msg[inbox[u][i]].via = msg[n].via
        BY <1>1, <2>1, <3>1, SameVia, RequestFields
      <4>3. inbox[u][i] < n \/ inbox[u][i] = n
        BY <1>1, <2>1, <4>1, <4>2, PassedBefore
      <4> QED
        BY <1>1, <2>1, <3>1, <4>3, RequestFields
    <3> QED
      BY <2>3, <3>2, TimedOutNext
  <2> QED
    BY <2>2, <2>3, DeliverElements
<1> QED
  BY <1>2, <1>3, <1>4 DEF Inboxes

\* A step that makes no call and sends nothing that a call is yet to send keeps
\* the calls as they should be; the one step to look at is that which ends the
\* wait for a call.
LEMMA CallsStep ==
  ASSUME Typed, CallsOK, QueueStep, calls' \subseteq calls, hit \subseteq hit',
         \A c \in calls' : ~c.done =>
           \A u \in Receiver : \A i \in DOMAIN inbox'[u] : inbox'[u][i] # c.id,
         \A c \in calls' :
           (/\ pc[msg[c.id].via] = "await" /\ pc'[msg[c.id].via] = "idle"
            /\ c.id = Current(msg[c.id].via)) => TimedOut(c.id)'
  PROVE  CallsOK'
<1>1. \A c \in calls : c.id \in Id
  BY DEF Typed, WorkTyped, Call
<1>2. ASSUME NEW c \in calls', ~c.done, Past(c.id)'
      PROVE  TimedOut(c.id)'
  <2>1. c \in calls /\ c.id \in Id /\ Passed(c.id)
    BY <1>1 DEF CallsOK
  <2>2. CASE Past(c.id)
    BY <1>2, <2>1, <2>2, TimedOutNext DEF CallsOK
  <2>3. CASE ~Past(c.id)
    BY <1>2, <2>1, <2>3 DEF QueueStep
  <2> QED
    BY <2>2, <2>3
<1>3. \A c \in calls' : Passed(c.id)'
  BY <1>1 DEF CallsOK, QueueStep
<1> QED
  BY <1>2, <1>3 DEF CallsOK

LEMMA ServedCall ==
  ASSUME NEW c \in Call
  PROVE  LET d == [c EXCEPT !.done = TRUE]
         IN  d.id = c.id /\ d.at = c.at /\ d.done = TRUE
BY DEF Call

\* Every step keeps the order.
LEMMA NextOrdering ==
  ASSUME Typed, Ordering, [Next]_vars
  PROVE  Ordering'
<1> QueueStep
  BY NextQueue DEF Ordering
<1> Sorted' /\ Sorted /\ CallsOK /\ Inboxes
  BY DEF Ordering, QueueStep
<1> SUFFICES CallsOK' /\ Inboxes'
  BY DEF Ordering
<1> calls \subseteq Call /\ pc \in [Server -> Pcs]
  BY DEF Typed, WorkTyped
<1>0. ASSUME NEW c \in calls
      PROVE  c.id \in Id /\ msg[c.id].via \in Server /\ Passed(c.id)
  BY RequestFields DEF Call, CallsOK
<1>f. ASSUME UNCHANGED <<calls, inbox, hit>>,
             \A s \in Server : pc[s] = "await" => pc'[s] # "idle"
      PROVE  CallsOK' /\ Inboxes'
  BY <1>0, <1>f, CallsStep, InboxFrame DEF CallsOK
<1>1. ASSUME NEW m \in Msg, Post(m)
      PROVE  CallsOK' /\ Inboxes'
  BY <1>1, <1>f DEF Post
<1>2. ASSUME NEW s \in Server, Begin(s)
      PROVE  CallsOK' /\ Inboxes'
  BY <1>2, <1>f DEF Begin, Goto
<1>3. ASSUME NEW s \in Server, LookLocal(s)
      PROVE  CallsOK' /\ Inboxes'
  <2>1. \A t \in Server : pc[t] = "await" => pc'[t] # "idle"
    BY <1>3 DEF LookLocal, Finish, Goto
  <2>2. CASE Addressee(s) \notin bound[s]
    BY <1>3, <2>1, <2>2, <1>f DEF LookLocal
  <2>3. CASE Addressee(s) \in bound[s]
    <3> PICK n : n = Current(s)
      OBVIOUS
    <3>0. Deliver(n) /\ Finish(s, "Success") /\ pc[s] = "local"
      BY <1>3, <2>3 DEF LookLocal
    <3>1. que[s] # <<>> /\ n \in Id /\ msg[n].via = s /\ n \in Nat
      BY <1>3, CurrentRequest, RequestFields DEF LookLocal, Typed, WorkTyped
    <3>2. ~Passed(n) /\ ~Past(n)
      BY <1>3, <3>1, PassedBefore DEF LookLocal, Passed
    <3>3. \A u \in Receiver : \A i \in DOMAIN inbox[u] : inbox[u][i] # n
      BY <3>2 DEF Inboxes, SentPassed
    <3>4. \A c \in calls : c.id # n
      BY <3>2 DEF CallsOK
    <3>5. \A c \in calls : ~c.done =>
            \A u \in Receiver : \A i \in DOMAIN inbox'[u] : inbox'[u][i] # c.id
      BY <3>0, <3>1, <3>4, DeliverElements DEF CallsOK
    <3>6. UNCHANGED <<calls, hit, msg>>
      BY <1>3 DEF LookLocal
    <3>7. Passed(n)'
      BY <3>0, <3>6, FinishPast DEF Codes, Passed
    <3>8. CallsOK'
      BY <2>1, <3>5, <3>6, <1>0, CallsStep
    <3>9. Inboxes'
      BY <3>0, <3>1, <3>2, <3>3, <3>6, <3>7, DeliverInbox
    <3> QED
      BY <3>8, <3>9
  <2> QED
    BY <2>2, <2>3
<1>4. ASSUME NEW s \in Server, LookUip(s)
      PROVE  CallsOK' /\ Inboxes'
  <2>1. \A t \in Server : pc[t] = "await" => pc'[t] # "idle"
    BY <1>4 DEF LookUip, GoTo, Goto
  <2> QED
    BY <1>4, <2>1, <1>f DEF LookUip
<1>5. ASSUME NEW s \in Server, AskStatus(s)
      PROVE  CallsOK' /\ Inboxes'
  <2>1. \A t \in Server : pc[t] = "await" => pc'[t] # "idle"
    BY <1>5 DEF AskStatus, GoTo, Goto, Finish
  <2>2. UNCHANGED <<calls, inbox>> /\ hit \subseteq hit'
    BY <1>5 DEF AskStatus
  <2> QED
    BY <2>1, <2>2, <1>0, CallsStep, InboxFrame DEF CallsOK
<1>6. ASSUME NEW s \in Server, Forward(s)
      PROVE  CallsOK' /\ Inboxes'
  <2>1. \A t \in Server : pc[t] = "await" => pc'[t] # "idle"
    BY <1>6 DEF Forward, Goto, Finish
  <2>2. UNCHANGED <<inbox, hit>>
    BY <1>6 DEF Forward
  <2>3. CASE UNCHANGED calls
    BY <2>1, <2>2, <2>3, <1>f
  <2>4. ASSUME NEW t \in Server,
               calls' = calls \cup {[id |-> Current(s), at |-> t, done |-> FALSE]},
               Goto(s, "await"), UNCHANGED que
        PROVE  CallsOK'
    <3> PICK n : n = Current(s)
      OBVIOUS
    <3>1. que[s] # <<>> /\ n \in Id /\ msg[n].via = s /\ n \in Nat
      BY <1>6, CurrentRequest, RequestFields DEF Forward, Typed, WorkTyped
    <3>2. ~Passed(n) /\ ~Past(n)
      BY <1>6, <3>1, PassedBefore DEF Forward, Passed
    <3>3. \A u \in Receiver : \A i \in DOMAIN inbox[u] : inbox[u][i] # n
      BY <3>2 DEF Inboxes, SentPassed
    <3>4. \A c \in calls : c.id # n
      BY <3>2 DEF CallsOK
    <3>5. Passed(n)' /\ ~Past(n)'
      <4>1. UNCHANGED msg /\ pc'[s] = "await"
        BY <1>6, <2>4 DEF Forward, Goto
      <4> QED
        BY <2>4, <3>1, <3>2, <4>1 DEF Passed, Past, Current
    <3>6. \A c \in calls :
            Passed(c.id)' /\ (~c.done /\ Past(c.id)' => TimedOut(c.id)')
      <4> TAKE c \in calls
      <4>1. Passed(c.id)'
        BY <1>0 DEF QueueStep
      <4>2. Past(c.id)' => Past(c.id)
        BY <1>0, <2>1 DEF QueueStep
      <4> QED
        BY <1>0, <2>2, <4>1, <4>2, TimedOutNext DEF CallsOK
    <3> DEFINE new == [id |-> n, at |-> t, done |-> FALSE]
    <3>7. calls' = calls \cup {new} /\ new.id = n /\ new.done = FALSE
      BY <2>4
    <3> HIDE DEF new
    <3>8. \A c, d \in calls' : c.id = d.id => c = d
      BY <3>4, <3>7 DEF CallsOK
    <3> QED
      BY <2>2, <3>3, <3>5, <3>6, <3>7, <3>8 DEF CallsOK
  <2>5. Inboxes'
    BY <2>2, InboxFrame
  <2> QED
    BY <1>6, <2>3, <2>4, <2>5 DEF Forward
<1>7. ASSUME NEW s \in Server, DeadlinePasses(s)
      PROVE  CallsOK' /\ Inboxes'
  <2>1. UNCHANGED <<msg, calls, inbox>> /\ hit' = hit \cup {Current(s)}
    BY <1>7 DEF DeadlinePasses
  <2>2. ASSUME NEW t \in Server, pc[t] = "await", pc'[t] = "idle"
        PROVE  t = s
    BY <1>7, <2>2 DEF DeadlinePasses, Finish, Goto
  <2>3. ASSUME NEW n \in Id, n = Current(s)
        PROVE  TimedOut(n)'
    <3>1. n \in 1 .. MaxRequests
      BY <1>7, <2>3, CurrentRequest DEF DeadlinePasses, Typed, WorkTyped
    <3>2. reply'[n] = IF msg[n].kind \in Reports THEN "RPCFailed" ELSE "Success"
      BY <1>7, <2>3, <3>1 DEF DeadlinePasses, Finish, Failed, Typed, WorkTyped
    <3> QED
      BY <2>1, <2>3, <3>2 DEF TimedOut
  <2>4. CallsOK'
    BY <2>1, <2>2, <2>3, <1>0, CallsStep DEF CallsOK
  <2> QED
    BY <2>1, <2>4, InboxFrame
<1>8. ASSUME NEW s \in Server, NEW c \in calls, Answered(s, c)
      PROVE  CallsOK' /\ Inboxes'
  <2>1. UNCHANGED <<msg, inbox, hit>> /\ calls' = calls \ {c} /\ c.id = Current(s)
    BY <1>8 DEF Answered, Awaited
  <2>2. ASSUME NEW t \in Server, pc[t] = "await", pc'[t] = "idle"
        PROVE  t = s
    BY <1>8, <2>2 DEF Answered, Finish, Goto
  <2>3. \A d \in calls' : d.id # Current(s)
    BY <2>1 DEF CallsOK
  <2>4. CallsOK'
    BY <2>1, <2>2, <2>3, <1>0, CallsStep DEF CallsOK
  <2> QED
    BY <2>1, <2>4, InboxFrame
<1>9. ASSUME NEW c \in calls, Serve(c)
      PROVE  CallsOK' /\ Inboxes'
  <2> DEFINE d == [c EXCEPT !.done = TRUE]
  <2>1. /\ ~c.done /\ calls' = (calls \ {c}) \cup {d}
        /\ UNCHANGED <<msg, que, pc, reply, hit>>
    BY <1>9 DEF Serve
  <2>2. d.id = c.id /\ d.done = TRUE
    BY ServedCall
  <2> HIDE DEF d
  <2>3. c.id \in Id /\ Passed(c.id) /\ Passed(c.id)'
    BY <1>0 DEF QueueStep
  <2>4. \A u \in Receiver : \A i \in DOMAIN inbox[u] : inbox[u][i] # c.id
    BY <2>1 DEF CallsOK
  <2>5. CASE UNCHANGED inbox
    <3>1. \A b \in calls' : \E a \in calls : a.id = b.id /\ (~b.done => a = b)
      BY <2>1, <2>2
    <3>2. CallsOK'
      BY <2>1, <2>2, <2>5, <3>1 DEF CallsOK, Passed, Past, Current, TimedOut
    <3> QED
      BY <2>1, <2>5, <3>2, InboxFrame
  <2>6. CASE Deliver(c.id)
    <3>1. \A b \in calls' : b = d \/ (b \in calls /\ b.id # c.id)
      BY <2>1 DEF CallsOK
    <3>2. \A b \in calls' : ~b.done =>
            \A u \in Receiver : \A i \in DOMAIN inbox'[u] : inbox'[u][i] # b.id
      BY <2>2, <2>3, <2>6, <3>1, DeliverElements DEF CallsOK
    <3>3. \A a, b \in calls' : a.id = b.id => a = b
      BY <2>2, <3>1 DEF CallsOK
    <3>4. \A b \in calls' : Passed(b.id)' /\ (~b.done /\ Past(b.id)' => TimedOut(b.id)')
      BY <2>1, <2>2, <2>3, <3>1 DEF CallsOK, Passed, Past, Current, TimedOut
    <3>5. CallsOK'
      BY <3>2, <3>3, <3>4 DEF CallsOK
    <3>6. /\ Past(c.id) => TimedOut(c.id)
          /\ ~Past(c.id) => que[msg[c.id].via] # <<>> /\ c.id = Current(msg[c.id].via)
      BY <2>1, <2>3 DEF CallsOK, Passed
    <3>7. Inboxes'
      BY <2>1, <2>3, <2>4, <2>6, <3>6, DeliverInbox
    <3> QED
      BY <3>5, <3>7
  <2> QED
    BY <1>9, <2>5, <2>6 DEF Serve
<1>10. ASSUME NEW c \in calls, Lose(c)
      PROVE  CallsOK' /\ Inboxes'
  <2>1. UNCHANGED <<pc, inbox>> /\ hit \subseteq hit' /\ calls' \subseteq calls
    BY <1>10 DEF Lose
  <2> QED
    BY <2>1, <1>0, CallsStep, InboxFrame DEF CallsOK
<1>11. ASSUME NEW u \in Receiver, Move(u)
      PROVE  CallsOK' /\ Inboxes'
  <2>1. UNCHANGED <<work, inbox, hit>>
    BY <1>11 DEF Move, Bind, Unregister, Register, Unbind
  <2> QED
    BY <2>1, <1>f DEF work
<1>12. CASE UNCHANGED vars
  BY <1>12, <1>f DEF vars, work
<1> QED
  BY <1>1, <1>2, <1>3, <1>4, <1>5, <1>6, <1>7, <1>8, <1>9, <1>10, <1>11, <1>12
    DEF Next, WorkerStep

LEMMA InitOrdering == Init => Ordering
BY DEF Init, Ordering, Sorted, CallsOK, Inboxes, SentPassed, OnceOnly, InOrder

\* The inductive invariant, and with it both promises of the routing.
LEMMA Routed == Spec => [](Typed /\ Ordering)
<1>1. Init => Typed /\ Ordering
  BY InitTyped, InitOrdering
<1>2. Typed /\ Ordering /\ [Next]_vars => (Typed /\ Ordering)'
  BY NextTyped, NextOrdering
<1> QED
  BY <1>1, <1>2, PTL DEF Spec

\* Workers queue, and users are sent, only what is meant for them.
THEOREM TypeCorrect == Spec => []Typed
BY Routed, PTL

\* No notice reaches its receiver twice, however late calls are served and
\* wherever the receiver moves.
THEOREM SentOnce == Spec => []OnceOnly
<1>1. Ordering => OnceOnly
  BY DEF Ordering, Inboxes
<1> QED
  BY <1>1, Routed, PTL

\* Notices arrive in the order in which they were asked for, unless the call for
\* the one that is overtaken was given up and the sender knows it.
THEOREM SentInOrder == Spec => []InOrder
<1>1. Ordering => InOrder
  BY DEF Ordering, Inboxes
<1> QED
  BY <1>1, Routed, PTL

-----------------------------------------------------------------------------
(* Friend applications.                                                    *)

\* A friend application whose receiver has stayed where it was is on its way to
\* that server: no lookup sends it anywhere else, and a call for it that has
\* been served has delivered it.
OnTheWay(s) ==
  pc[s] # "idle" /\ msg[Current(s)].kind = "apply" /\ home[s] # NoServer =>
    /\ uip[Addressee(s)] = home[s] /\ Addressee(s) \in bound[home[s]]
    /\ pc[s] \in {"uip", "local", "forward", "await"}
    /\ pc[s] = "local" => home[s] = s
    /\ pc[s] = "forward" => home[s] # s /\ place[s] = RpcAddr[home[s]]
    /\ pc[s] = "await" =>
         \A c \in calls : c.id = Current(s) =>
           c.at = home[s] /\ (c.done => Delivered(c.id))

Ways == \A s \in Server : OnTheWay(s)

\* No two servers are reached at one address.
AddressesDiffer == \A s, t \in Server : RpcAddr[s] = RpcAddr[t] => s = t

LEMMA DeliverDelivers ==
  ASSUME Typed, NEW n \in Id, Deliver(n), UNCHANGED msg
  PROVE  Delivered(n)'
<1>1. /\ inbox \in [Receiver -> Seq(Nat)] /\ msg[n].to \in Receiver /\ n \in Nat
      /\ inbox[msg[n].to] \in Seq(Nat)
  BY RequestFields DEF Typed, HistoryTyped
<1>2. inbox'[msg[n].to] = Append(inbox[msg[n].to], n)
  BY <1>1 DEF Deliver
<1>3. Len(inbox[msg[n].to]) + 1 \in 1 .. Len(inbox[msg[n].to]) + 1
  BY <1>1
<1> QED
  BY <1>1, <1>2, <1>3, AppendElements DEF Delivered

\* What has been delivered stays delivered.
LEMMA DeliveredStays ==
  ASSUME Typed, NEW m \in Id, Deliver(m) \/ UNCHANGED inbox,
         NEW n \in Id, msg'[n] = msg[n], Delivered(n)
  PROVE  Delivered(n)'
<1>1. /\ inbox \in [Receiver -> Seq(Nat)] /\ msg[n].to \in Receiver /\ m \in Nat
      /\ inbox[msg[n].to] \in Seq(Nat)
  BY RequestFields DEF Typed, HistoryTyped
<1>2. CASE UNCHANGED inbox
  BY <1>2 DEF Delivered
<1>3. CASE Deliver(m)
  <2>1. \/ inbox'[msg[n].to] = inbox[msg[n].to]
        \/ inbox'[msg[n].to] = Append(inbox[msg[n].to], m)
    <3>1. CASE msg[m].to = msg[n].to
      BY <1>1, <1>3, <3>1 DEF Deliver
    <3>2. CASE msg[m].to # msg[n].to
      BY <1>1, <1>3, <3>2 DEF Deliver
    <3> QED
      BY <3>1, <3>2
  <2>2. \A i \in DOMAIN inbox[msg[n].to] :
          i \in DOMAIN inbox'[msg[n].to] /\ inbox'[msg[n].to][i] = inbox[msg[n].to][i]
    <3> DEFINE q == inbox[msg[n].to]
    <3>1. /\ q \in Seq(Nat) /\ DOMAIN q = 1 .. Len(q) /\ Len(q) \in Nat
          /\ DOMAIN Append(q, m) = 1 .. Len(q) + 1
          /\ \A i \in 1 .. Len(q) : Append(q, m)[i] = q[i]
      BY <1>1, AppendElements
    <3> HIDE DEF q
    <3>2. \A i \in DOMAIN q : i \in DOMAIN Append(q, m) /\ Append(q, m)[i] = q[i]
      BY <3>1
    <3>3. inbox'[msg[n].to] = q \/ inbox'[msg[n].to] = Append(q, m)
      BY <2>1 DEF q
    <3>4. \A i \in DOMAIN q :
            i \in DOMAIN inbox'[msg[n].to] /\ inbox'[msg[n].to][i] = q[i]
      BY <3>2, <3>3
    <3> QED
      BY <3>4 DEF q
  <2> QED
    BY <2>2 DEF Delivered
<1> QED
  BY <1>2, <1>3

\* A worker that does not move keeps its application on the way while nothing is
\* called for it, and while its receiver stays.
LEMMA WayFrame ==
  ASSUME Typed, NEW s \in Server, OnTheWay(s),
         pc[s] # "idle" => /\ Current(s)' = Current(s)
                           /\ msg'[Current(s)] = msg[Current(s)],
         pc'[s] = pc[s], place'[s] = place[s],
         \/ home'[s] = NoServer
         \/ /\ home'[s] = home[s] /\ uip'[Addressee(s)] = uip[Addressee(s)]
            /\ bound'[home[s]] = bound[home[s]],
         \A c \in calls' : c.id = Current(s) =>
           \E d \in calls : d.id = c.id /\ d.at = c.at /\
             (c.done => d.done \/ Delivered(c.id)'),
         \A n \in Id : Delivered(n) => Delivered(n)'
  PROVE  OnTheWay(s)'
<1> SUFFICES ASSUME pc[s] # "idle", (msg[Current(s)].kind)' = "apply", home'[s] # NoServer
             PROVE  /\ uip'[Addressee(s)'] = home'[s] /\ Addressee(s)' \in bound'[home'[s]]
                    /\ pc'[s] \in {"uip", "local", "forward", "await"}
                    /\ pc'[s] = "local" => home'[s] = s
                    /\ pc'[s] = "forward" => home'[s] # s /\ place'[s] = RpcAddr[home'[s]]
                    /\ pc'[s] = "await" =>
                         \A c \in calls' : c.id = Current(s)' =>
                           c.at = home'[s] /\ (c.done => Delivered(c.id)')
  BY DEF OnTheWay
<1>1. /\ Current(s)' = Current(s) /\ msg'[Current(s)] = msg[Current(s)]
      /\ msg[Current(s)].kind = "apply" /\ home'[s] = home[s]
      /\ uip'[Addressee(s)] = uip[Addressee(s)] /\ bound'[home[s]] = bound[home[s]]
      /\ Addressee(s)' = Addressee(s)
  BY DEF Addressee
<1>2. /\ uip[Addressee(s)] = home[s] /\ Addressee(s) \in bound[home[s]]
      /\ pc[s] \in {"uip", "local", "forward", "await"}
      /\ pc[s] = "local" => home[s] = s
      /\ pc[s] = "forward" => home[s] # s /\ place[s] = RpcAddr[home[s]]
      /\ pc[s] = "await" =>
           \A c \in calls : c.id = Current(s) =>
             c.at = home[s] /\ (c.done => Delivered(c.id))
  BY <1>1 DEF OnTheWay
<1>3. \A d \in calls : d.id \in Id
  BY DEF Typed, WorkTyped, Call
<1>4. ASSUME pc[s] = "await", NEW c \in calls', c.id = Current(s)
      PROVE  c.at = home[s] /\ (c.done => Delivered(c.id)')
  <2>1. PICK d \in calls : d.id = c.id /\ d.at = c.at /\
                           (c.done => d.done \/ Delivered(c.id)')
    BY <1>4
  <2>2. d.at = home[s] /\ (d.done => Delivered(d.id)')
    BY <1>2, <1>3, <1>4, <2>1
  <2> QED
    BY <2>1, <2>2
<1> QED
  BY <1>1, <1>2, <1>4

\* Every step keeps every application on its way.
LEMMA NextWays ==
  ASSUME AddressesDiffer, Typed, Ordering, Ways, [Next]_vars
  PROVE  Ways'
<1> SUFFICES ASSUME NEW s \in Server
             PROVE  OnTheWay(s)'
  BY DEF Ways
<1> USE RoutingAssumption
<1> /\ pc \in [Server -> Pcs] /\ calls \subseteq Call /\ que \in [Server -> Seq(Nat)]
    /\ home \in [Server -> Server \cup {NoServer}] /\ msg \in Seq(Msg)
    /\ place = [t \in Server |-> place[t]]
  BY DEF Typed, WorkTyped, HistoryTyped
<1> OnTheWay(s)
  BY DEF Ways
<1>a. pc[s] # "idle" => que[s] # <<>> /\ Current(s) \in Id /\ Addressee(s) \in Receiver
                        /\ msg[Current(s)].via = s
  BY CurrentRequest DEF Typed, WorkTyped
<1>b. \A t \in Server \ {s} :
        pc[s] # "idle" /\ que[t] # <<>> => Current(t) # Current(s)
  BY <1>a, CurrentRequest
<1>c. \A c \in calls : c.id \in Id
  BY DEF Call
<1>d. UNCHANGED inbox /\ (\A n \in Id : msg'[n] = msg[n]) =>
        \A n \in Id : Delivered(n) => Delivered(n)'
  BY DEF Delivered
\* Steps that leave the worker of s where it is.
<1>f. ASSUME UNCHANGED <<msg, inbox, presence>>, que'[s] = que[s], pc'[s] = pc[s],
             place'[s] = place[s], home'[s] = home[s],
             \A c \in calls' : c.id = Current(s) => c \in calls
      PROVE  OnTheWay(s)'
  BY <1>d, <1>f, WayFrame DEF Current, presence
<1>1. ASSUME NEW m \in Msg, Post(m)
      PROVE  OnTheWay(s)'
  <2>1. /\ UNCHANGED <<pc, place, calls, inbox, presence, home>>
        /\ msg' = Append(msg, m) /\ \A n \in Id : msg'[n] = msg[n]
    BY <1>1 DEF Post, Id
  <2>2. pc[s] # "idle" => que'[s] = que[s]
    BY <1>1 DEF Post, Msg
  <2> QED
    BY <1>a, <1>d, <2>1, <2>2, WayFrame DEF Current, presence
<1>2. ASSUME NEW t \in Server, t # s, WorkerStep(t)
      PROVE  OnTheWay(s)'
  <2>1. /\ UNCHANGED <<msg, presence>> /\ que'[s] = que[s] /\ pc'[s] = pc[s]
        /\ place'[s] = place[s] /\ home'[s] = home[s]
    BY <1>2 DEF WorkerStep, Begin, LookLocal, LookUip, AskStatus, Forward, GoTo,
      DeadlinePasses, Answered, Finish, Goto
  <2>2. pc[s] # "idle" => \A c \in calls' : c.id = Current(s) => c \in calls
    <3> SUFFICES ASSUME pc[s] # "idle", NEW c \in calls', c.id = Current(s)
                 PROVE  c \in calls
      OBVIOUS
    <3>1. CASE Forward(t)
      <4>1. que[t] # <<>>
        BY <3>1 DEF Forward, Typed, WorkTyped
      <4>2. Current(t) # Current(s)
        BY <1>2, <1>b, <4>1
      <4>3. ASSUME NEW a, calls' = calls \cup {[id |-> Current(t), at |-> a, done |-> FALSE]}
            PROVE  c \in calls
        BY <4>2, <4>3
      <4> QED
        BY <3>1, <4>3 DEF Forward
    <3>2. CASE ~Forward(t)
      BY <1>2, <3>2 DEF WorkerStep, Begin, LookLocal, LookUip, AskStatus,
        DeadlinePasses, Answered
    <3> QED
      BY <3>1, <3>2
  <2>3. \A n \in Id : Delivered(n) => Delivered(n)'
    <3>1. CASE UNCHANGED inbox
      BY <1>d, <2>1, <3>1
    <3>2. CASE Deliver(Current(t)) /\ que[t] # <<>>
      BY <2>1, <3>2, CurrentRequest, DeliveredStays
    <3>3. LookLocal(t) => que[t] # <<>>
      BY DEF LookLocal, Typed, WorkTyped
    <3> QED
      BY <1>2, <3>1, <3>2, <3>3 DEF WorkerStep, Begin, LookLocal, LookUip, AskStatus,
        Forward, DeadlinePasses, Answered
  <2>4. CASE pc[s] = "idle"
    BY <2>1, <2>4 DEF OnTheWay
  <2>5. CASE pc[s] # "idle"
    BY <2>1, <2>2, <2>3, <2>5, WayFrame DEF Current, presence
  <2> QED
    BY <2>4, <2>5
<1>3. CASE pc'[s] = "idle"
  BY <1>3 DEF OnTheWay
<1>4. CASE Begin(s)
  <2>1. /\ UNCHANGED <<msg, que, uip, bound>> /\ que[s] # <<>>
        /\ pc' = [pc EXCEPT ![s] = IF msg[Current(s)].kind = "apply" THEN "uip" ELSE "local"]
        /\ home'[s] = HomeOf(Addressee(s))
    BY <1>4 DEF Begin, Goto, presence
  <2>2. Current(s)' = Current(s) /\ Addressee(s)' = Addressee(s)
    BY <2>1 DEF Current, Addressee
  <2>3. home'[s] # NoServer =>
          /\ uip[Addressee(s)] = home'[s]
          /\ Addressee(s) \in bound[home'[s]]
    BY <2>1 DEF HomeOf
  <2> QED
    BY <2>1, <2>2, <2>3 DEF OnTheWay
<1>5. CASE LookLocal(s) /\ pc'[s] # "idle"
  <2>1. /\ UNCHANGED <<msg, que>> /\ msg[Current(s)].kind # "apply"
    BY <1>5 DEF LookLocal, Finish, Goto
  <2> QED
    BY <2>1 DEF OnTheWay, Current
<1>6. CASE LookUip(s)
  <2>1. /\ UNCHANGED <<msg, que, uip, bound, home>> /\ pc[s] = "uip"
    BY <1>6 DEF LookUip, presence
  <2>2. Current(s)' = Current(s) /\ Addressee(s)' = Addressee(s)
    BY <2>1 DEF Current, Addressee
  <2> SUFFICES ASSUME msg[Current(s)].kind = "apply", home[s] # NoServer
               PROVE  OnTheWay(s)'
    BY <2>1, <2>2 DEF OnTheWay
  <2>3. uip[Addressee(s)] = home[s] /\ Addressee(s) \in bound[home[s]]
    BY <2>1 DEF OnTheWay
  <2>4. GoTo(s, home[s])
    BY <1>6, <2>3 DEF LookUip
  <2>5. /\ pc'[s] = IF home[s] = s THEN "local" ELSE "forward"
        /\ home[s] # s => place'[s] = RpcAddr[home[s]]
    BY <2>4 DEF GoTo, Goto, KeyOf
  <2> QED
    BY <2>1, <2>2, <2>3, <2>5 DEF OnTheWay
<1>7. CASE AskStatus(s)
  <2>1. /\ UNCHANGED <<msg, home>> /\ pc[s] = "status" /\ (pc'[s] # "idle" => UNCHANGED que)
    BY <1>7 DEF AskStatus, Finish, Goto
  <2> QED
    BY <2>1 DEF OnTheWay, Current
<1>8. CASE Forward(s) /\ pc'[s] # "idle"
  <2>1. /\ UNCHANGED <<msg, que, uip, bound, home>> /\ pc[s] = "forward" /\ pc'[s] = "await"
    BY <1>8 DEF Forward, Finish, Goto, presence
  <2>2. PICK t \in Server \ {s} :
          /\ RpcAddr[t] = place[s]
          /\ calls' = calls \cup {[id |-> Current(s), at |-> t, done |-> FALSE]}
    BY <1>8, <2>1 DEF Forward, Finish, Goto
  <2>3. Current(s)' = Current(s) /\ Addressee(s)' = Addressee(s)
    BY <2>1 DEF Current, Addressee
  <2> SUFFICES ASSUME msg[Current(s)].kind = "apply", home[s] # NoServer
               PROVE  OnTheWay(s)'
    BY <2>1, <2>3 DEF OnTheWay
  <2>4. /\ uip[Addressee(s)] = home[s] /\ Addressee(s) \in bound[home[s]]
        /\ place[s] = RpcAddr[home[s]] /\ home[s] \in Server
    BY <2>1 DEF OnTheWay
  <2>5. t = home[s]
    BY <2>2, <2>4 DEF AddressesDiffer
  <2>6. \A c \in calls : c.id # Current(s)
    <3>1. ASSUME NEW n \in Id, n = Current(s), Passed(n)
          PROVE  FALSE
      <4>1. que[s] # <<>> /\ msg[n].via = s /\ n \in Nat
        BY <1>a, <2>1, <3>1, RequestFields
      <4>2. n < Current(s) \/ pc[s] = "await"
        BY <3>1, <4>1, PassedBefore
      <4> QED
        BY <2>1, <3>1, <4>1, <4>2
    <3> QED
      BY <1>c, <3>1 DEF Ordering, CallsOK
  <2>7. \A c \in calls' : c.id = Current(s) => c.at = home[s] /\ c.done = FALSE
    BY <2>2, <2>5, <2>6
  <2> QED
    BY <2>1, <2>3, <2>4, <2>7 DEF OnTheWay
<1>9. ASSUME DeadlinePasses(s) \/ \E c \in calls : Answered(s, c)
      PROVE  OnTheWay(s)'
  BY <1>9, <1>3 DEF DeadlinePasses, Answered, Finish, Goto
<1>10. ASSUME NEW c \in calls, Serve(c)
      PROVE  OnTheWay(s)'
  <2> DEFINE d == [c EXCEPT !.done = TRUE]
  <2>1. /\ calls' = (calls \ {c}) \cup {d}
        /\ UNCHANGED <<msg, que, pc, place, presence, home>>
        /\ IF msg[c.id].to \in bound[c.at] THEN Deliver(c.id) ELSE UNCHANGED inbox
        /\ ~c.done
    BY <1>10 DEF Serve
  <2>2. d.id = c.id /\ d.at = c.at
    BY ServedCall
  <2> HIDE DEF d
  <2>3. \A n \in Id : Delivered(n) => Delivered(n)'
    BY <1>c, <2>1, DeliveredStays
  <2>4. CASE pc[s] = "await" /\ c.id = Current(s) /\ msg[c.id].kind = "apply"
              /\ home[s] # NoServer
    <3>1. c.at = home[s] /\ msg[c.id].to \in bound[c.at]
      BY <2>4 DEF OnTheWay, Addressee
    <3>2. Delivered(c.id)'
      BY <1>c, <2>1, <3>1, DeliverDelivers
    <3>3. \A b \in calls' : b.id = Current(s) =>
            \E a \in calls : a.id = b.id /\ a.at = b.at /\
              (b.done => a.done \/ Delivered(b.id)')
      <4> SUFFICES ASSUME NEW b \in calls', b.id = Current(s)
                   PROVE  \E a \in calls : a.id = b.id /\ a.at = b.at /\
                            (b.done => a.done \/ Delivered(b.id)')
        OBVIOUS
      <4>1. CASE b = d
        BY <2>2, <2>4, <3>2, <4>1
      <4>2. CASE b \in calls
        BY <4>2
      <4> QED
        BY <2>1, <4>1, <4>2
    <3> QED
      BY <2>1, <2>3, <3>3, WayFrame DEF Current, presence
  <2>5. CASE c.id # Current(s)
    <3>1. \A b \in calls' : b.id = Current(s) => b \in calls
      BY <2>1, <2>2, <2>5
    <3> QED
      BY <2>1, <2>3, <3>1, WayFrame DEF Current, presence
  <2>6. CASE ~(pc[s] = "await" /\ msg[Current(s)].kind = "apply" /\ home[s] # NoServer)
    BY <2>1, <2>6 DEF OnTheWay, Current, Addressee, presence
  <2> QED
    BY <2>4, <2>5, <2>6
<1>11. ASSUME NEW c \in calls, Lose(c)
      PROVE  OnTheWay(s)'
  BY <1>11, <1>f DEF Lose
<1>12. ASSUME NEW u \in Receiver, Move(u)
      PROVE  OnTheWay(s)'
  <2>1. UNCHANGED <<msg, work, inbox>> /\ Unsettle(u)
    BY <1>12 DEF Move, Bind, Unregister, Register, Unbind
  <2>2. /\ \A v \in Receiver \ {u} : uip'[v] = uip[v]
        /\ \A v \in Receiver \ {u}, t \in Server : v \in bound'[t] <=> v \in bound[t]
    <3>1. uip \in [Receiver -> Server \cup {NoServer}] /\ bound \in [Server -> SUBSET Receiver]
      BY DEF Typed, PresenceTyped
    <3>2. CASE Bind(u)
      BY <3>1, <3>2 DEF Bind
    <3>3. CASE Unregister(u)
      BY <3>1, <3>3 DEF Unregister
    <3>4. CASE \E a \in Server : Register(u, a)
      BY <3>1, <3>4 DEF Register
    <3>5. CASE \E a \in Server : Unbind(u, a)
      BY <3>1, <3>5 DEF Unbind
    <3> QED
      BY <1>12, <3>2, <3>3, <3>4, <3>5 DEF Move
  <2>3. CASE pc[s] # "idle" /\ Addressee(s) = u
    BY <1>a, <2>1, <2>3 DEF Unsettle, OnTheWay, work
  <2>4. CASE pc[s] # "idle" /\ Addressee(s) # u
    BY <1>a, <2>1, <2>2, <2>4 DEF Unsettle, OnTheWay, work, Current, Addressee, Delivered
  <2>5. CASE pc[s] = "idle"
    BY <2>1, <2>5 DEF OnTheWay, work
  <2> QED
    BY <2>3, <2>4, <2>5
<1>13. CASE UNCHANGED vars
  BY <1>13, <1>f DEF vars, work
<1> QED
  BY <1>1, <1>2, <1>3, <1>4, <1>5, <1>6, <1>7, <1>8, <1>9, <1>10, <1>11, <1>12,
    <1>13 DEF Next, WorkerStep

\* The step that ends the handling of an application leaves it delivered, unless
\* its receiver moved meanwhile or a call failed.
LEMMA StepReaches ==
  ASSUME Typed, Ways, [Next]_vars, NEW s \in Server,
         pc[s] # "idle", pc'[s] = "idle", msg[Current(s)].kind = "apply",
         home[s] # NoServer, Current(s) \notin hit', NEW n \in Id, n = Current(s)
  PROVE  Delivered(n)'
<1> USE RoutingAssumption
<1>1. /\ que[s] # <<>> /\ Addressee(s) = msg[n].to /\ home[s] \in Server
      /\ pc \in [Server -> Pcs]
  BY DEF Typed, WorkTyped, HistoryTyped, Addressee
<1>2. /\ Addressee(s) \in bound[home[s]]
      /\ pc[s] \in {"uip", "local", "forward", "await"}
      /\ pc[s] = "local" => home[s] = s
      /\ pc[s] = "forward" => home[s] # s /\ place[s] = RpcAddr[home[s]]
      /\ pc[s] = "await" => \A c \in calls : c.id = n =>
                              c.at = home[s] /\ (c.done => Delivered(n))
  BY DEF Ways, OnTheWay
<1>3. CASE LookLocal(s)
  <2>1. Deliver(n) /\ UNCHANGED msg
    BY <1>2, <1>3 DEF LookLocal
  <2> QED
    BY <2>1, DeliverDelivers
<1>4. CASE Forward(s)
  <2>1. pc[s] = "forward" /\ ~ \A t \in Server \ {s} : RpcAddr[t] # place[s]
    BY <1>1, <1>2, <1>4 DEF Forward
  <2> QED
    BY <1>1, <1>4, <2>1 DEF Forward, Goto
<1>5. ASSUME NEW c \in calls, Answered(s, c)
      PROVE  Delivered(n)'
  <2>1. Delivered(n) /\ UNCHANGED <<msg, inbox>>
    BY <1>2, <1>5 DEF Answered, Awaited
  <2> QED
    BY <2>1 DEF Delivered
<1>6. ASSUME LookUip(s) \/ Begin(s)
      PROVE  FALSE
  BY <1>1, <1>6 DEF LookUip, Begin, GoTo, Goto
<1>7. ASSUME AskStatus(s) \/ DeadlinePasses(s)
      PROVE  FALSE
  BY <1>1, <1>2, <1>7 DEF AskStatus, DeadlinePasses
<1>8. ASSUME NEW t \in Server, t # s, WorkerStep(t)
      PROVE  FALSE
  <2>1. pc'[s] = pc[s]
    BY <1>1, <1>8 DEF WorkerStep, Begin, LookLocal, LookUip, AskStatus, Forward,
      GoTo, DeadlinePasses, Answered, Finish, Goto
  <2> QED
    BY <2>1
<1>9. ASSUME \/ \E m \in Msg : Post(m)
             \/ \E c \in calls : Serve(c) \/ Lose(c)
             \/ \E u \in Receiver : Move(u)
             \/ UNCHANGED vars
      PROVE  FALSE
  <2>1. UNCHANGED pc
    BY <1>9 DEF Post, Serve, Lose, Move, Bind, Unregister, Register, Unbind, work, vars
  <2> QED
    BY <2>1
<1> QED
  BY <1>3, <1>4, <1>5, <1>6, <1>7, <1>8, <1>9 DEF Next, WorkerStep

\* A friend application reaches a receiver who was logged in at one server all
\* along unless a call failed, for any number of servers at distinct addresses
\* and whatever StatusServer gives out as addresses.
THEOREM ApplicationsReach ==
  ASSUME AddressesDiffer
  PROVE  Spec => ApplyReaches
<1>1. Init => Ways
  BY DEF Init, Ways, OnTheWay
<1>2. Typed /\ Ordering /\ Ways /\ [Next]_vars => Ways'
  BY NextWays
<1>3. Typed /\ Ways /\ [Next]_vars =>
        [\A s \in Server :
           Ends(s) /\ msg[Current(s)].kind = "apply" => Reaches(s)]_vars
  BY StepReaches DEF Ends, Reaches
<1> QED
  BY <1>1, <1>2, <1>3, Routed, PTL DEF Spec, ApplyReaches
=============================================================================
