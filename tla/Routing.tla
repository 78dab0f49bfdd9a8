------------------------------- MODULE Routing -------------------------------
(* How a chat server passes a notice on to another user: text messages       *)
(* (DealChatTextMsg), friend applications (AddFriendApply) and answers to    *)
(* them (AuthFriendApply), over the handlers of ChatServiceImpl on the peer. *)
(*                                                                           *)
(* A receiver who is bound locally is sent the notice.  Otherwise a friend   *)
(* application goes to the server named by uip_, and everything else to the  *)
(* server that StatusServer would assign next, whichever that is.  A peer    *)
(* is reached through the pool whose key is the host:port of its RPC port in *)
(* config.ini.                                                               *)
(*                                                                           *)
(* What ChatLogin details is reduced here to its effect on uip_ and on the   *)
(* tables of UserMgr; the rows Friends details are left out.  StatusServer   *)
(* chooses by session counts up to 60 s old: here, any server.               *)
EXTENDS Naturals, Sequences, FiniteSets

CONSTANTS
  Sender,      \* users who make requests
  Receiver,    \* users whom the requests concern
  Server,
  NoServer,    \* no such Redis key
  RpcAddr,     \* RpcAddr[s]: host:port of s in the peers' config.ini
  ClientAddr,  \* ClientAddr[s]: host:port of s in StatusServer's config.ini
  Kind,        \* the requests clients make: a subset of Kinds
  MaxRequests, \* bound: requests
  MaxMoves,    \* bound: logins
  MaxFaults    \* bound: deadlines passed, calls lost, StatusServer failures

Kinds == {"text", "apply", "agree", "refuse"}

ASSUME RoutingAssumption ==
  /\ Kind \subseteq Kinds
  /\ NoServer \notin Server
  /\ {MaxRequests, MaxMoves, MaxFaults} \subseteq Nat

VARIABLES
  msg,    \* the requests so far: [kind, from, to, via]; a request is its index
  que,    \* LogicSystem::_msg_que of each server
  pc,     \* what the worker of a server does next
  place,  \* its local to_ip_value, then server_key
  calls,  \* RPCs to peers under way: [id, at, done]
  reply,  \* the error field of the reply to a request
  inbox,  \* history: requests whose notice a user's session was sent, in order
  uip,    \* Redis: uip_<uid>
  bound,  \* UserMgr::_uid_to_session: the users bound on each server
  moves,  \* logins so far
  hit,    \* history: requests whose RPC was lost, late or refused
  home    \* history: the one server the receiver of the request being handled
          \* has been at all along, else NoServer

work     == <<que, pc, place, calls, reply>>
presence == <<uip, bound, moves>>
vars     == <<msg, work, inbox, presence, hit, home>>

Id      == DOMAIN msg
Msg     == {m \in [kind : Kinds, from : Sender, to : Receiver, via : Server] :
              m.from # m.to}
Current(s)  == Head(que[s])
Addressee(s) == msg[Current(s)].to
Goto(s, step) == pc' = [pc EXCEPT ![s] = step]

(* Kinds whose reply carries the error of the RPC.  (A refusal is routed and *)
(* answered just as a text is.)                                              *)
Reports == {"text", "refuse"}

(* CSession::Send of the notice to the session that GetSession(uid) found.   *)
Deliver(n) == inbox' = [inbox EXCEPT ![msg[n].to] = Append(@, n)]

(* Where the receiver is, if it is fully logged in at exactly one server.    *)
HomeOf(u) ==
  IF uip[u] # NoServer /\ {s \in Server : u \in bound[s]} = {uip[u]}
    THEN uip[u] ELSE NoServer

(* The receiver u of some requests moves.                                    *)
Unsettle(u) ==
  home' = [s \in Server |->
             IF que[s] # <<>> /\ pc[s] # "idle" /\ Addressee(s) = u
               THEN NoServer ELSE home[s]]

-----------------------------------------------------------------------------
(* A client sends a request; the io thread of its connection queues it, for  *)
(* which it needs the mutex that the worker holds while a handler runs.      *)
Post(m) ==
  /\ Len(msg) < MaxRequests
  /\ m.kind \in Kind
  /\ pc[m.via] = "idle"
  /\ msg' = Append(msg, m)
  /\ que' = [que EXCEPT ![m.via] = Append(@, Len(msg) + 1)]
  /\ UNCHANGED <<pc, place, calls, reply, inbox, presence, hit, home>>

(* The worker ends a handler: the Defer sends the reply, DealMsg pops.       *)
Finish(s, code) ==
  /\ reply' = [reply EXCEPT ![Current(s)] = code]
  /\ que' = [que EXCEPT ![s] = Tail(@)]
  /\ Goto(s, "idle")

(* The error field when passing the notice on has failed.                    *)
Failed(s) == IF msg[Current(s)].kind \in Reports THEN "RPCFailed" ELSE "Success"

(* The worker takes the request at the head of the queue and leaves it there.*)
Begin(s) ==
  /\ pc[s] = "idle" /\ que[s] # <<>>
  /\ Goto(s, IF msg[Current(s)].kind = "apply" THEN "uip" ELSE "local")
  /\ home' = [home EXCEPT ![s] = HomeOf(Addressee(s))]
  /\ UNCHANGED <<msg, que, place, calls, reply, inbox, presence, hit>>

(* UserMgr::GetSession(touid), and the notice if there is a session.  An     *)
(* application whose receiver is registered here goes nowhere else.          *)
LookLocal(s) ==
  /\ pc[s] = "local"
  /\ IF Addressee(s) \in bound[s]
       THEN Deliver(Current(s)) /\ Finish(s, "Success")
       ELSE /\ UNCHANGED inbox
            /\ IF msg[Current(s)].kind = "apply"
                 THEN Finish(s, "Success")
                 ELSE Goto(s, "status") /\ UNCHANGED <<que, reply>>
  /\ UNCHANGED <<msg, place, calls, presence, hit, home>>

(* Mutant: the name in uip_ is used as the key.                              *)
KeyOfName(s, where) == where

(* to_ip_value == self_name; otherwise the peer's section of config.ini, if  *)
(* there is one of that name, gives its host:port.                           *)
KeyOf(s, where) == IF where \in Server \ {s} THEN RpcAddr[where] ELSE where

GoTo(s, where) ==
  /\ Goto(s, IF where = s THEN "local" ELSE "forward")
  /\ place' = [place EXCEPT ![s] = KeyOf(s, where)]

LookUip(s) ==
  /\ pc[s] = "uip"
  /\ IF uip[Addressee(s)] = NoServer
       THEN Goto(s, "status") /\ UNCHANGED place
       ELSE GoTo(s, uip[Addressee(s)])
  /\ UNCHANGED <<msg, que, calls, reply, inbox, presence, hit, home>>

(* StatusGrpcClient::GetChatServer(touid), which has no deadline.            *)
AskStatus(s) ==
  /\ pc[s] = "status"
  /\ \/ /\ \E t \in Server :
             IF msg[Current(s)].kind = "apply"
               THEN GoTo(s, ClientAddr[t])
               ELSE /\ Goto(s, "forward")
                    /\ place' = [place EXCEPT ![s] = ClientAddr[t]]
        /\ UNCHANGED <<que, reply, hit>>
     \/ /\ Cardinality(hit) < MaxFaults
        /\ hit' = hit \cup {Current(s)}
        /\ Finish(s, Failed(s))
        /\ UNCHANGED place
  /\ UNCHANGED <<msg, calls, inbox, presence, home>>

(* ChatGrpcClient finds the pool of the key and makes the call, with a       *)
(* deadline of 500 ms.                                                       *)
Forward(s) ==
  /\ pc[s] = "forward"
  /\ \/ \E t \in Server \ {s} :
          /\ RpcAddr[t] = place[s]
          /\ calls' = calls \cup {[id |-> Current(s), at |-> t, done |-> FALSE]}
          /\ Goto(s, "await")
          /\ UNCHANGED <<que, reply>>
     \/ /\ \A t \in Server \ {s} : RpcAddr[t] # place[s]
        /\ Finish(s, Failed(s))
        /\ UNCHANGED calls
  /\ UNCHANGED <<msg, place, inbox, presence, hit, home>>

(* Mutant: the handler may be run again for the same call (a retry).         *)
ServeAgain(c) ==
  /\ calls' = (calls \ {c}) \cup {[c EXCEPT !.done = TRUE]}
  /\ IF msg[c.id].to \in bound[c.at] THEN Deliver(c.id) ELSE UNCHANGED inbox
  /\ UNCHANGED <<msg, que, pc, place, reply, presence, hit, home>>

(* ChatServiceImpl::Notify*, on a gRPC thread of the peer: Success whether   *)
(* or not the receiver has a session there.                                  *)
Serve(c) ==
  /\ ~c.done
  /\ calls' = (calls \ {c}) \cup {[c EXCEPT !.done = TRUE]}
  /\ IF msg[c.id].to \in bound[c.at] THEN Deliver(c.id) ELSE UNCHANGED inbox
  /\ UNCHANGED <<msg, que, pc, place, reply, presence, hit, home>>

Awaited(s, c) == pc[s] = "await" /\ c.id = Current(s)

Answered(s, c) ==
  /\ Awaited(s, c) /\ c.done
  /\ Finish(s, "Success")
  /\ calls' = calls \ {c}
  /\ UNCHANGED <<msg, place, inbox, presence, hit, home>>

(* Mutant: the error of a call that ran out of time is not looked at.        *)
DeadlineIgnored(s) ==
  /\ pc[s] = "await"
  /\ Cardinality(hit \cup {Current(s)}) <= MaxFaults
  /\ hit' = hit \cup {Current(s)}
  /\ Finish(s, "Success")
  /\ UNCHANGED <<msg, place, calls, inbox, presence, home>>

(* Mutant: no deadline for a call that was lost.                             *)
DeadlineOfCall(s) ==
  /\ pc[s] = "await" /\ \E c \in calls : Awaited(s, c)
  /\ Cardinality(hit \cup {Current(s)}) <= MaxFaults
  /\ hit' = hit \cup {Current(s)}
  /\ Finish(s, Failed(s))
  /\ UNCHANGED <<msg, place, calls, inbox, presence, home>>

(* The deadline passes.  The peer may run the handler all the same.          *)
DeadlinePasses(s) ==
  /\ pc[s] = "await"
  /\ Cardinality(hit \cup {Current(s)}) <= MaxFaults
  /\ hit' = hit \cup {Current(s)}
  /\ Finish(s, Failed(s))
  /\ UNCHANGED <<msg, place, calls, inbox, presence, home>>

(* A call, or its answer, is lost: only the deadline ends the wait for it.   *)
Lose(c) ==
  /\ Cardinality(hit \cup {c.id}) <= MaxFaults
  /\ hit' = hit \cup {c.id}
  /\ calls' = calls \ {c}
  /\ UNCHANGED <<msg, que, pc, place, reply, inbox, presence, home>>

-----------------------------------------------------------------------------
(* The steps of a login or a departure that routing can tell apart:          *)
(* LoginHandler registers the server and then binds the session;             *)
(* DealExceptionSession deletes the registration and then the binding; a     *)
(* kick or an eviction removes the binding alone.                            *)
Register(u, s) ==
  /\ moves < MaxMoves
  /\ moves' = moves + 1
  /\ uip' = [uip EXCEPT ![u] = s]
  /\ Unsettle(u)
  /\ UNCHANGED <<msg, work, inbox, bound, hit>>

Bind(u) ==
  /\ uip[u] # NoServer /\ u \notin bound[uip[u]]
  /\ bound' = [bound EXCEPT ![uip[u]] = @ \cup {u}]
  /\ Unsettle(u)
  /\ UNCHANGED <<msg, work, inbox, uip, moves, hit>>

Unregister(u) ==
  /\ uip[u] # NoServer
  /\ uip' = [uip EXCEPT ![u] = NoServer]
  /\ Unsettle(u)
  /\ UNCHANGED <<msg, work, inbox, bound, moves, hit>>

Unbind(u, s) ==
  /\ u \in bound[s]
  /\ bound' = [bound EXCEPT ![s] = @ \ {u}]
  /\ Unsettle(u)
  /\ UNCHANGED <<msg, work, inbox, uip, moves, hit>>

-----------------------------------------------------------------------------
Init ==
  /\ msg = <<>> /\ reply = [n \in 1 .. MaxRequests |-> "none"]
  /\ que = [s \in Server |-> <<>>] /\ pc = [s \in Server |-> "idle"]
  /\ place = [s \in Server |-> NoServer]
  /\ calls = {} /\ hit = {}
  /\ inbox = [u \in Receiver |-> <<>>]
  /\ uip = [u \in Receiver |-> NoServer] /\ bound = [s \in Server |-> {}]
  /\ moves = 0
  /\ home = [s \in Server |-> NoServer]

WorkerStep(s) ==
  \/ Begin(s) \/ LookLocal(s) \/ LookUip(s) \/ AskStatus(s) \/ Forward(s)
  \/ DeadlinePasses(s)
  \/ \E c \in calls : Answered(s, c)

Move(u) ==
  \/ Bind(u) \/ Unregister(u)
  \/ \E s \in Server : Register(u, s) \/ Unbind(u, s)

Next ==
  \/ \E m \in Msg : Post(m)
  \/ \E s \in Server : WorkerStep(s)
  \/ \E c \in calls : Serve(c) \/ Lose(c)
  \/ \E u \in Receiver : Move(u)

Spec == Init /\ [][Next]_vars

(* Workers run, peers run the handlers of calls that reach them, StatusServer*)
(* answers, and time passes.                                                 *)
Fairness ==
  /\ \A s \in Server : WF_vars(WorkerStep(s))
  /\ WF_vars(\E c \in calls : Serve(c))

FairSpec == Spec /\ Fairness

-----------------------------------------------------------------------------
(* A notice reaches its receiver at most once, although a call may run out   *)
(* of time and be served later, and the receiver may have sessions on two    *)
(* servers.                                                                  *)
OnceOnly ==
  \A u \in Receiver : \A i, j \in DOMAIN inbox[u] : i # j => inbox[u][i] # inbox[u][j]

(* Two requests of one connection to one receiver.                           *)
SameStream(m, n) == msg[m] = [msg[n] EXCEPT !.kind = msg[m].kind]

(* Notices for a receiver arrive in the order the sender asked for them,     *)
(* unless the call for the one that is overtaken ran out of time; a sender   *)
(* of a text or of a refusal has then been told that it failed.              *)
InOrder ==
  \A u \in Receiver : \A i, j \in DOMAIN inbox[u] :
    LET early == inbox[u][j]
        later == inbox[u][i]
    IN  i < j /\ early < later /\ SameStream(early, later) =>
          /\ early \in hit
          /\ msg[early].kind \in Reports => reply[early] = "RPCFailed"

Delivered(n) == \E i \in DOMAIN inbox[msg[n].to] : inbox[msg[n].to][i] = n

(* The request s has been handling is answered.                              *)
Ends(s) == pc[s] # "idle" /\ pc'[s] = "idle"

Reaches(s) ==
  \A n \in Id :
    n = Current(s) /\ home[s] # NoServer /\ n \notin hit' => Delivered(n)'

(* A friend application is passed on to a receiver who was logged in at one  *)
(* server all along, unless a call failed (with the names and addresses of   *)
(* the shipped config.ini).                                                  *)
ApplyReaches ==
  [][\A s \in Server :
       Ends(s) /\ msg[Current(s)].kind = "apply" => Reaches(s)]_vars

(* Refuted by text_routing.  README.md:178 says that what has to reach       *)
(* another server is sent through ChatGrpcClient to the target server: a text*)
(* message then reaches a receiver who was logged in at one server all along.*)
TextReaches ==
  [][\A s \in Server :
       Ends(s) /\ msg[Current(s)].kind = "text" => Reaches(s)]_vars

(* Every request is answered: the only waits of a handler are for a peer,    *)
(* which ends with the deadline, and for StatusServer.                       *)
RequestAnswered ==
  \A s \in Server : (que[s] # <<>>) ~> (que[s] = <<>>)
=============================================================================
