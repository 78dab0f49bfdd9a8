----------------------------- MODULE HttpServer -----------------------------
(***************************************************************************)
(* The gate's listening side: CServer accepts one connection after the     *)
(* other, each given in advance to an HttpConnection on one of the io      *)
(* threads in turn; an io thread runs the handler of a request to its end, *)
(* so the connections of one thread wait for each other.  The deadline     *)
(* timer is set when the object is built, which is when the connection     *)
(* before it was accepted, and looked at only once a request is handled.   *)
(***************************************************************************)
EXTENDS Naturals

CONSTANTS
  MaxConn,   \* bound: HttpConnection objects
  Threads    \* the size of AsioIOServicePool

Conn == 1 .. MaxConn
IoOf(c) == c % Threads

VARIABLES
  state,    \* unbuilt, accepting, reading, handling, writing, silent, over
  past,     \* the objects 1 .. past are 60 seconds old
  waiting   \* the wait for the deadline is armed

vars == <<state, past, waiting>>

Init ==
  /\ state = [c \in Conn |-> IF c = 1 THEN "accepting" ELSE "unbuilt"]
  /\ past = 0
  /\ waiting = [c \in Conn |-> FALSE]
-----------------------------------------------------------------------------
\* CServer::Start, once c has been dealt with: the next object is built.
StartAfter(c, to) ==
  state' = [d \in Conn |-> IF d = c THEN to ELSE IF d = c + 1 THEN "accepting" ELSE state[d]]

\* A client connects: HttpConnection::Start reads, CServer::Start goes on.
Accept(c) ==
  /\ state[c] = "accepting"
  /\ StartAfter(c, "reading")
  /\ UNCHANGED <<past, waiting>>

\* The accept fails: the object is dropped, the accepting goes on.
AcceptError(c) ==
  /\ state[c] = "accepting"
  /\ StartAfter(c, "over")
  /\ UNCHANGED <<past, waiting>>

ThreadFree(i) == \A c \in Conn : state[c] = "handling" => IoOf(c) # i

\* A request has come; HandleReq begins.
Read(c) ==
  /\ state[c] = "reading" /\ ThreadFree(IoOf(c))
  /\ state' = [state EXCEPT ![c] = "handling"]
  /\ UNCHANGED <<past, waiting>>

\* The client goes away without one.
ReadError(c) ==
  /\ state[c] = "reading"
  /\ state' = [state EXCEPT ![c] = "over"]
  /\ UNCHANGED <<past, waiting>>

\* Mutant: the deadline is not waited for when there is no response.
HandledUntimed(c) ==
  /\ state[c] = "handling"
  /\ \E to \in {"writing", "silent"} :
       /\ state' = [state EXCEPT ![c] = to]
       /\ waiting' = [waiting EXCEPT ![c] = to = "writing"]
  /\ UNCHANGED past

\* GET and POST are answered, with an error or not; another method is not.  Then
\* CheckDeadline waits for the timer.
Handled(c) ==
  /\ state[c] = "handling"
  /\ \E to \in {"writing", "silent"} : state' = [state EXCEPT ![c] = to]
  /\ waiting' = [waiting EXCEPT ![c] = TRUE]
  /\ UNCHANGED past

\* The response is out, or writing it failed: shutdown_send, and the wait is cancelled.
Written(c) ==
  /\ state[c] = "writing" /\ ThreadFree(IoOf(c))
  /\ state' = [state EXCEPT ![c] = "over"]
  /\ waiting' = [waiting EXCEPT ![c] = FALSE]
  /\ UNCHANGED past

\* The deadline is over: the socket is closed, response or not.
Cut(c) ==
  /\ waiting[c] /\ c <= past /\ ThreadFree(IoOf(c))
  /\ state' = [state EXCEPT ![c] = "over"]
  /\ waiting' = [waiting EXCEPT ![c] = FALSE]
  /\ UNCHANGED past

\* Another object is 60 seconds old, were it still waiting to be used.
Age ==
  /\ past < MaxConn /\ state[past + 1] # "unbuilt"
  /\ past' = past + 1
  /\ UNCHANGED <<state, waiting>>

Next ==
  \/ \E c \in Conn : Accept(c) \/ AcceptError(c) \/ Read(c) \/ ReadError(c)
                     \/ Handled(c) \/ Written(c) \/ Cut(c)
  \/ Age

\* Handlers end, time passes and timers fire.  Clients may keep a response from
\* being written, and need not send anything.
Fairness ==
  /\ WF_vars(Age)
  /\ WF_vars(\E c \in Conn : Handled(c))
  /\ WF_vars(\E c \in Conn : Cut(c))

Spec == Init /\ [][Next]_vars /\ Fairness
-----------------------------------------------------------------------------
States == {"unbuilt", "accepting", "reading", "handling", "writing", "silent", "over"}

TypeOK ==
  /\ past \in 0 .. MaxConn
  /\ state \in [Conn -> States] /\ waiting \in [Conn -> BOOLEAN]

\* The deadline is waited for exactly while a handled request's connection is open,
\* whether or not there is a response to write.
DeadlineArmed == \A c \in Conn : waiting[c] <=> state[c] \in {"writing", "silent"}

\* A request that has been read is over in the end, answered or cut by the deadline.
RequestEnds == \A c \in Conn : (state[c] = "handling") ~> (state[c] = "over")
=============================================================================
