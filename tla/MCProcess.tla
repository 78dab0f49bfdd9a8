----------------------------- MODULE MCProcess -----------------------------
(***************************************************************************)
(* Machines inside single processes that share nothing with each other:    *)
(* part chooses the one that runs, while the others rest.  SessionStream   *)
(* is the one extended, for its assumption and its properties.             *)
(***************************************************************************)
EXTENDS SessionStream

CONSTANTS
  Clients, MaxMessages,  \* ChatProcess
  MaxConn, Threads       \* HttpServer

ASSUME PartsAssumption ==
  MaxMessages \in Nat /\ MaxConn \in Nat \ {0} /\ Threads \in Nat \ {0}

VARIABLES
  part,
  reader, sent, msgQue, worker, main, bStop, redisOpen, served, refused, missed,
  state, past, waiting

processVars == <<reader, sent, msgQue, worker, main, bStop, redisOpen, served, refused, missed>>
httpVars == <<state, past, waiting>>
partsVars == <<part, processVars, vars, httpVars>>

P == INSTANCE ChatProcess
H == INSTANCE HttpServer

ProcessRests ==
  /\ reader = [c \in Clients |-> "gone"] /\ sent = [c \in Clients |-> 0]
  /\ msgQue = <<>> /\ worker = "done" /\ main = "ended"
  /\ bStop = TRUE /\ redisOpen = FALSE
  /\ served = {} /\ refused = {} /\ missed = FALSE

\* No byte comes, nobody sends.
StreamRests == Init /\ lens = [i \in 1 .. Frames |-> 0]

\* Every connection has come and gone.
HttpRests ==
  state = [c \in H!Conn |-> "over"] /\ past = MaxConn /\ waiting = [c \in H!Conn |-> FALSE]

PartsInit ==
  /\ part \in {"process", "stream", "http"}
  /\ IF part = "process" THEN P!Init ELSE ProcessRests
  /\ IF part = "stream" THEN Init ELSE StreamRests
  /\ IF part = "http" THEN H!Init ELSE HttpRests

PartsNext ==
  \/ part = "process" /\ P!Next /\ UNCHANGED <<part, vars, httpVars>>
  \/ part = "stream" /\ Next /\ UNCHANGED <<part, processVars, httpVars>>
  \/ part = "http" /\ H!Next /\ UNCHANGED <<part, processVars, vars>>

\* A machine at rest has no step that fairness asks for.
PartsSpec == PartsInit /\ [][PartsNext]_partsVars /\ P!Fairness /\ H!Fairness
-----------------------------------------------------------------------------
\* The values of all machines' variables have their types (the send queue holds one
\* message more than MAX_SENDQUE, never two); LogicSystem's queue neither loses nor
\* repeats nor reorders a client's messages and loses no wake-up; and the gate's
\* deadline timer runs for each open connection whose request has been handled.
PartsSound ==
  /\ P!TypeOK /\ P!MessagesKept /\ P!WakeupsKept /\ P!NothingDropped
  /\ TypeOK
  /\ H!TypeOK /\ H!DeadlineArmed

\* Every posted message is handled, shutdown included, and with Redis unless its
\* client has gone.
AllHandled == P!AllHandled

\* The process ends after a signal, unless ~LogicSystem's notification is missed.
ShutdownEnds == P!ShutdownEnds

\* A request the gate has read is answered, or its connection closed.
RequestEnds == H!RequestEnds
=============================================================================
