--------------------------- MODULE SessionStream ---------------------------
(***************************************************************************)
(* The byte stream of one CSession.  Reading: the client's frames, a head  *)
(* of HeadLen bytes that holds the length of the body behind it, arrive in *)
(* pieces of any size and are put together by asyncReadFull.  Writing: the *)
(* worker and the gRPC threads call Send, which queues and starts a write  *)
(* when none is under way; HandleWrite starts the next.  Both ends share   *)
(* the socket.  A byte is its place in what the client sends, a message to *)
(* the client a pair of its sender and a number.                           *)
(***************************************************************************)
EXTENDS Integers, Sequences, SequencesExt

CONSTANTS
  HeadLen,     \* HEAD_TOTAL_LEN
  BodyLens,    \* bound: the lengths of bodies to consider
  Frames,      \* bound: frames the client sends
  Senders,     \* threads of the server that send to this client
  MaxSends,    \* bound: messages each of them sends
  MaxSendQue   \* MAX_SENDQUE

ASSUME StreamAssumption ==
  /\ HeadLen \in Nat \ {0} /\ BodyLens \subseteq Nat
  /\ Frames \in Nat /\ MaxSends \in Nat /\ MaxSendQue \in Nat

VARIABLES
  lens,      \* the lengths of the bodies the client sends
  arrived,   \* bytes that have reached the socket
  taken,     \* bytes read from it
  phase,     \* what is being read: head, body, or nothing more
  want,      \* total_len of the read under way
  data,      \* _data, as far as it is filled
  posted,    \* contents of the messages given to LogicSystem
  listed,    \* the session is in CServer's _sessions
  open,      \* the socket has not been closed
  sendQue,   \* _send_que
  writes,    \* async_write operations under way
  wire,      \* messages the client has received
  sends,     \* messages each sender has sent
  accepted   \* history: messages Send has queued

rxVars == <<lens, arrived, taken, phase, want, data, posted>>
txVars == <<sendQue, writes, wire, sends, accepted>>
vars == <<rxVars, listed, open, txVars>>

Bytes(from, to) == [j \in 1 .. to - from |-> from + j]
End[i \in 0 .. Frames] == IF i = 0 THEN 0 ELSE End[i - 1] + HeadLen + lens[i]
HeadOf(i) == Bytes(End[i - 1], End[i - 1] + HeadLen)
BodyOf(i) == Bytes(End[i - 1] + HeadLen, End[i])

Init ==
  /\ lens \in [1 .. Frames -> BodyLens]
  /\ arrived = 0 /\ taken = 0
  /\ phase = "head" /\ want = HeadLen /\ data = <<>>
  /\ posted = <<>>
  /\ listed = TRUE /\ open = TRUE
  /\ sendQue = <<>> /\ writes = 0 /\ wire = <<>>
  /\ sends = [s \in Senders |-> 0] /\ accepted = <<>>
-----------------------------------------------------------------------------
\* TCP delivers another byte.
Arrive ==
  /\ open /\ arrived < End[Frames]
  /\ arrived' = arrived + 1
  /\ UNCHANGED <<lens, taken, phase, want, data, posted, listed, open, txVars>>

\* The length a head names; four bytes that are no head would name anything.
LengthIn(bytes) ==
  CHOOSE n \in BodyLens : \A i \in 1 .. Frames : bytes = HeadOf(i) => n = lens[i]

Missing == want - Len(data)
Chunk(n) == Bytes(taken, taken + n)

\* Mutant: every read asks for the whole length.
ReadSomeWhole(n) ==
  /\ open /\ phase \in {"head", "body"}
  /\ n \in (IF want = 0 THEN {0} ELSE 1 .. want)
  /\ taken + n <= arrived
  /\ taken' = taken + n
  /\ UNCHANGED <<lens, arrived, sendQue, writes, wire, sends, accepted>>

\* asyncReadLen: a read of the bytes still missing completes with n of them.
ReadSome(n) ==
  /\ open /\ phase \in {"head", "body"}
  /\ n \in (IF Missing = 0 THEN {0} ELSE 1 .. Missing)
  /\ taken + n <= arrived
  /\ taken' = taken + n
  /\ UNCHANGED <<lens, arrived, sendQue, writes, wire, sends, accepted>>

\* Too few yet: the rest is asked for, behind what has come.
ReadPart(n) ==
  /\ ReadSome(n)
  /\ Len(data) + n < want
  /\ data' = data \o Chunk(n)
  /\ UNCHANGED <<phase, want, posted, listed, open>>

\* The handler of AsyncReadHead, with a valid head.
HeadRead(n) ==
  /\ ReadSome(n)
  /\ phase = "head" /\ listed
  /\ Len(data) + n >= want
  /\ phase' = "body"
  /\ want' = LengthIn(data \o Chunk(n))
  /\ data' = <<>>
  /\ UNCHANGED <<posted, listed, open>>

\* The handler of AsyncReadBody: the message is posted, the next head awaited.
BodyRead(n) ==
  /\ ReadSome(n)
  /\ phase = "body" /\ listed
  /\ Len(data) + n >= want
  /\ posted' = Append(posted, data \o Chunk(n))
  /\ phase' = "head" /\ want' = HeadLen /\ data' = <<>>
  /\ UNCHANGED <<listed, open>>

\* CheckValid fails in either handler: the session was cleared meanwhile.
ReadInvalid(n) ==
  /\ ReadSome(n)
  /\ ~listed
  /\ Len(data) + n >= want
  /\ phase' = "over" /\ open' = FALSE
  /\ UNCHANGED <<want, data, posted, listed>>

\* The client closed the connection or it broke, or the socket was closed here.
ReadError ==
  /\ phase \in {"head", "body"}
  /\ phase' = "over" /\ open' = FALSE
  /\ UNCHANGED <<lens, arrived, taken, want, data, posted, listed, txVars>>

\* ClearSession, by another login, the timer or a clean-up of this session.
Clear ==
  /\ listed
  /\ listed' = FALSE
  /\ UNCHANGED <<rxVars, open, txVars>>
-----------------------------------------------------------------------------
Message(s) == <<s, sends[s] + 1>>

\* Send, under _send_lock: dropped beyond the limit, queued behind a write under
\* way, or written at once.  A closed socket is not noticed.
SendDropped(s) ==
  /\ sends[s] < MaxSends
  /\ Len(sendQue) > MaxSendQue
  /\ sends' = [sends EXCEPT ![s] = @ + 1]
  /\ UNCHANGED <<rxVars, listed, open, sendQue, writes, wire, accepted>>

Send(s) ==
  /\ sends[s] < MaxSends
  /\ Len(sendQue) <= MaxSendQue
  /\ sends' = [sends EXCEPT ![s] = @ + 1]
  /\ sendQue' = Append(sendQue, Message(s))
  /\ accepted' = Append(accepted, Message(s))
  /\ writes' = IF sendQue = <<>> THEN writes + 1 ELSE writes
  /\ UNCHANGED <<rxVars, listed, open, wire>>

\* Mutant: the newest message is popped instead of the one that was written.
WrittenPopsLast ==
  /\ writes > 0 /\ open
  /\ wire' = Append(wire, Head(sendQue))
  /\ sendQue' = Front(sendQue)
  /\ writes' = IF Tail(sendQue) = <<>> THEN writes - 1 ELSE writes
  /\ UNCHANGED <<rxVars, listed, open, sends, accepted>>

\* HandleWrite without an error: the first message is out, the next is written.
Written ==
  /\ writes > 0 /\ open
  /\ wire' = Append(wire, Head(sendQue))
  /\ sendQue' = Tail(sendQue)
  /\ writes' = IF Tail(sendQue) = <<>> THEN writes - 1 ELSE writes
  /\ UNCHANGED <<rxVars, listed, open, sends, accepted>>

\* HandleWrite with an error: Close and DealExceptionSession.  The message stays
\* at the head of the queue, so nothing is written any more.
WriteError ==
  /\ writes > 0
  /\ writes' = writes - 1
  /\ open' = FALSE
  /\ UNCHANGED <<rxVars, listed, sendQue, wire, sends, accepted>>

Read == \E n \in 0 .. want : ReadPart(n) \/ HeadRead(n) \/ BodyRead(n) \/ ReadInvalid(n)

Next ==
  \/ Arrive \/ Read \/ ReadError \/ Clear
  \/ \E s \in Senders : SendDropped(s) \/ Send(s)
  \/ Written \/ WriteError

Spec == Init /\ [][Next]_vars
-----------------------------------------------------------------------------
TypeOK ==
  /\ lens \in [1 .. Frames -> BodyLens]
  /\ arrived \in 0 .. End[Frames] /\ taken \in 0 .. arrived
  /\ phase \in {"head", "body", "over"}
  /\ want \in {HeadLen} \cup BodyLens
  /\ Len(data) \in 0 .. want
  /\ listed \in BOOLEAN /\ open \in BOOLEAN
  /\ sends \in [Senders -> 0 .. MaxSends]
  /\ writes \in {0, 1}
  /\ Len(sendQue) <= MaxSendQue + 1
  /\ DOMAIN posted \subseteq 1 .. Frames

\* What is posted is, frame by frame, what the client sent, however the stream was
\* cut up on the way, bodies of length zero included; and nothing is read past the
\* frame under way.
FramesIntact ==
  /\ posted = [i \in 1 .. Len(posted) |-> BodyOf(i)]
  /\ phase # "over" =>
       taken = End[Len(posted)]
               + (IF phase = "body" THEN HeadLen ELSE 0) + Len(data)

\* The client receives the messages whole, in the order Send took them, none
\* twice and none left out: however the senders interleave with the completion of
\* a write, there is one write under way exactly while an open connection has
\* something to send.
WireInOrder ==
  /\ wire \o sendQue = accepted
  /\ open => (writes = 1 <=> sendQue # <<>>)
=============================================================================
