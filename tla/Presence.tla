------------------------------ MODULE Presence ------------------------------
(***************************************************************************)
(* The registry of logged-in users, as the rest of the system may rely on  *)
(* it: for each user at most one registered session.  A login replaces     *)
(* whatever was registered; a registration is only ever withdrawn for a    *)
(* session whose connection has been closed, never for one that another    *)
(* login has just put in its place.                                        *)
(***************************************************************************)
CONSTANTS User, Session, Of, NoUser, NoSession

VARIABLES
  reg,   \* reg[u]: the session registered for u
  down   \* the sessions whose connection is closed

Init ==
  /\ reg = [u \in User \cup {NoUser} |-> NoSession]
  /\ down = {}

Register(c) ==
  /\ reg' = [reg EXCEPT ![Of[c]] = c]
  /\ UNCHANGED down

\* Connections close, several at once when a server dies.
Close ==
  /\ \E D \in SUBSET Session : down' = down \cup D
  /\ UNCHANGED reg

Withdraw(u) ==
  /\ reg[u] \in down
  /\ reg' = [reg EXCEPT ![u] = NoSession]
  /\ UNCHANGED down

Next ==
  \/ \E c \in Session : Register(c)
  \/ Close
  \/ \E u \in User : Withdraw(u)

Spec == Init /\ [][Next]_<<reg, down>>
=============================================================================
