--------------------------- MODULE ConnPoolProofs ---------------------------
(* Machine-checked proofs about ConnPool, for any number of threads and       *)
(* connections and for every kind of pool.                                    *)
EXTENDS ConnPool, FiniteSetTheorems, SequenceTheorems, TLAPS

(* notify_one wakes one sleeper, if there is one.                             *)
LEMMA Notified ==
  ASSUME NEW p \in [Threads -> Places], NEW q \in NotifyOne(p)
  PROVE  /\ q \in [Threads -> Places]
         /\ \A t \in Threads : q[t] = p[t] \/ (p[t] = "asleep" /\ q[t] = "woken")
         /\ \/ q = p /\ \A t \in Threads : p[t] # "asleep"
            \/ \E u \in Threads : p[u] = "asleep" /\ q = [p EXCEPT ![u] = "woken"]
BY DEF NotifyOne, Places

LEMMA Pushed ==
  ASSUME connections \in Seq(Conns), NEW c \in Conns, NEW p \in [Threads -> Places], Push(c, p)
  PROVE  /\ connections' \in Seq(Conns)
         /\ place' \in [Threads -> Places]
         /\ \A t \in Threads : place'[t] = p[t] \/ (p[t] = "asleep" /\ place'[t] = "woken")
BY Notified DEF Push

(* Whoever asks gets a connection, a refusal, or a place to wait.             *)
LEMMA Asked ==
  ASSUME TypeOK, NEW t \in Threads, GetConnection(t)
  PROVE  \/ /\ stop /\ place' = [place EXCEPT ![t] = "denied"]
            /\ UNCHANGED <<connections, hold>>
         \/ /\ ~stop /\ connections = <<>> /\ place' = [place EXCEPT ![t] = "drowsy"]
            /\ UNCHANGED <<connections, hold>>
         \/ /\ connections # <<>> /\ place' = [place EXCEPT ![t] = "using"]
            /\ hold' = [hold EXCEPT ![t] = Head(connections)]
            /\ connections' = Tail(connections)
            /\ Head(connections) \in Conns /\ connections' \in Seq(Conns)
<1>1. connections # <<>> => Head(connections) \in Conns /\ Tail(connections) \in Seq(Conns)
  BY HeadTailProperties DEF TypeOK
<1> QED
  BY <1>1 DEF GetConnection

LEMMA AskedTypeOK ==
  ASSUME TypeOK, NEW t \in Threads, place[t] # "using", GetConnection(t)
  PROVE  /\ connections' \in Seq(Conns)
         /\ place' \in [Threads -> Places]
         /\ hold' \in [Threads -> Conns \cup {NoConn}]
         /\ \A u \in Threads : hold'[u] # NoConn <=> place'[u] = "using"
<1>1. CASE /\ place' = [place EXCEPT ![t] = "denied"] \/ place' = [place EXCEPT ![t] = "drowsy"]
           /\ UNCHANGED <<connections, hold>>
  BY <1>1 DEF TypeOK, Places
<1>2. CASE /\ place' = [place EXCEPT ![t] = "using"]
           /\ hold' = [hold EXCEPT ![t] = Head(connections)]
           /\ Head(connections) \in Conns /\ connections' \in Seq(Conns)
  <2>1. Head(connections) # NoConn
    BY <1>2, PoolAssumption
  <2> QED
    BY <1>2, <2>1 DEF TypeOK, Places
<1> QED
  BY <1>1, <1>2, Asked

\* The records of the check thread.
LEMMA Checking ==
  ASSUME NEW k \in Checker
  PROVE  /\ \A p \in Phases, n \in Nat : [k EXCEPT !.phase = p, !.left = n] \in Checker
         /\ \A n \in Nat, r \in 0 .. MaxRounds :
              [k EXCEPT !.phase = "sweeping", !.left = n, !.rounds = r] \in Checker
         /\ \A n \in Nat, c \in Conns : [k EXCEPT !.left = n, !.conn = c] \in Checker
         /\ [k EXCEPT !.conn = NoConn] \in Checker
         /\ [k EXCEPT !.phase = "sleeping"] \in Checker
         /\ k.left \in Nat /\ k.rounds \in 0 .. MaxRounds /\ k.conn \in Conns \cup {NoConn}
BY DEF Checker, Phases

LEMMA CheckerTypeOK ==
  ASSUME TypeOK, SweepBegin \/ SweepTake \/ SweepEnd \/ ReconnectEnd
  PROVE  checker' \in Checker
<1>1. checker \in Checker /\ connections \in Seq(Conns)
  BY DEF TypeOK
<1>2. /\ checker.left \in Nat /\ checker.rounds \in 0 .. MaxRounds
      /\ Len(connections) \in Nat
  BY <1>1, Checking, LenProperties
<1>3. CASE SweepBegin
  <2>1. checker.rounds < MaxRounds
    BY <1>3 DEF SweepBegin
  <2>2. checker.rounds + 1 \in 0 .. MaxRounds
    BY <1>2, <2>1, PoolAssumption
  <2>3. checker' = [checker EXCEPT !.phase = "sweeping", !.left = Len(connections),
                                   !.rounds = checker.rounds + 1]
    BY <1>3 DEF SweepBegin
  <2> QED
    BY <1>1, <1>2, <2>2, <2>3, Checking
<1>4. CASE SweepTake
  <2>1. checker.left - 1 \in Nat
    BY <1>2, <1>4 DEF SweepTake
  <2>2. Head(connections) \in Conns
    BY <1>1, <1>4, HeadTailProperties DEF SweepTake
  <2>3. checker' = [checker EXCEPT !.left = checker.left - 1, !.conn = Head(connections)]
    BY <1>4 DEF SweepTake
  <2> QED
    BY <1>1, <2>1, <2>2, <2>3, Checking
<1>5. CASE SweepEnd
  <2>1. "connecting" \in Phases /\ "ended" \in Phases /\ 0 \in Nat
    BY DEF Phases
  <2>2. CASE kind = "chat_redis"
    <3>1. checker' = [checker EXCEPT !.phase = "connecting", !.left = 0]
      BY <1>5, <2>2 DEF SweepEnd
    <3> QED
      BY <1>1, <2>1, <3>1, Checking
  <2>3. CASE kind # "chat_redis"
    <3>1. checker' = [checker EXCEPT !.phase = "ended", !.left = 0]
      BY <1>5, <2>3 DEF SweepEnd
    <3> QED
      BY <1>1, <2>1, <3>1, Checking
  <2> QED
    BY <2>2, <2>3
<1>6. CASE ReconnectEnd
  BY <1>1, <1>6, Checking DEF ReconnectEnd
<1> QED
  BY <1>3, <1>4, <1>5, <1>6

LEMMA GaveTypeOK ==
  ASSUME TypeOK, NEW t \in Threads, place[t] = "using", GiveBack(t)
  PROVE  /\ connections' \in Seq(Conns)
         /\ place' \in [Threads -> Places]
         /\ hold' \in [Threads -> Conns \cup {NoConn}]
         /\ \A u \in Threads : hold'[u] # NoConn <=> place'[u] = "using"
<1>1. Leaves(t) \in [Threads -> Places] /\ hold[t] \in Conns
  BY DEF Leaves, TypeOK, Places
<1>2. Push(hold[t], Leaves(t)) /\ hold' = [hold EXCEPT ![t] = NoConn]
  BY DEF GiveBack
<1>3. /\ connections' \in Seq(Conns)
      /\ place' \in [Threads -> Places]
      /\ \A u \in Threads : place'[u] = Leaves(t)[u] \/ (Leaves(t)[u] = "asleep" /\ place'[u] = "woken")
  BY <1>1, <1>2, Pushed DEF TypeOK
<1> QED
  BY <1>2, <1>3 DEF Leaves, TypeOK

\* The sessions that checkExpiredConnections keeps.
LEMMA Replaced ==
  ASSUME connections \in Seq(Conns), broken \in SUBSET Conns, dropped \in Nat, ReplaceExpired
  PROVE  \E n \in Nat : \E kept \in [1 .. n -> DOMAIN connections] :
           /\ \A i, j \in 1 .. n : i < j => kept[i] < kept[j]
           /\ connections' = [i \in 1 .. n |-> connections[kept[i]]]
           /\ connections' \in Seq(Conns) /\ Len(connections') = n
           /\ dropped' \in Nat /\ dropped' + n = dropped + Len(connections)
           /\ n <= Len(connections)
           /\ broken' \in SUBSET Conns
<1>1. PICK lost \in SUBSET DOMAIN connections :
        LET n == Len(connections) - Cardinality(lost) IN
        /\ \E kept \in [1 .. n -> DOMAIN connections \ lost] :
             /\ \A i, j \in 1 .. n : i < j => kept[i] < kept[j]
             /\ connections' = [i \in 1 .. n |-> connections[kept[i]]]
        /\ dropped' = dropped + Cardinality(lost)
  BY DEF ReplaceExpired
<1>2. DOMAIN connections = 1 .. Len(connections) /\ Len(connections) \in Nat
  BY LenProperties
<1>3. /\ IsFiniteSet(DOMAIN connections) /\ Cardinality(DOMAIN connections) = Len(connections)
  <2>1. 1 \in Int /\ Len(connections) \in Int
    BY <1>2
  <2>2. /\ IsFiniteSet(1 .. Len(connections))
        /\ Cardinality(1 .. Len(connections)) = Len(connections)
    <3>1. Cardinality(1 .. Len(connections)) =
            IF 1 > Len(connections) THEN 0 ELSE Len(connections) - 1 + 1
      BY <2>1, FS_Interval
    <3> QED
      BY <1>2, <2>1, <3>1, FS_Interval
  <2> QED
    BY <1>2, <2>2
<1>4. /\ Cardinality(lost) \in Nat /\ Cardinality(lost) <= Len(connections)
  BY <1>3, FS_Subset, FS_CardinalityType
<1> DEFINE n == Len(connections) - Cardinality(lost)
<1>5. n \in Nat
  BY <1>2, <1>4
<1>6. PICK kept \in [1 .. n -> DOMAIN connections \ lost] :
        /\ \A i, j \in 1 .. n : i < j => kept[i] < kept[j]
        /\ connections' = [i \in 1 .. n |-> connections[kept[i]]]
  BY <1>1
<1>7. \A i \in 1 .. n : connections[kept[i]] \in Conns
  BY <1>2, <1>6, ElementOfSeq
<1>8. connections' \in Seq(Conns) /\ Len(connections') = n
  BY <1>5, <1>6, <1>7, IsASeq, LenProperties
<1>9. broken' \in SUBSET Conns
  BY DEF ReplaceExpired
<1>10. dropped' \in Nat /\ dropped' + n = dropped + Len(connections) /\ n <= Len(connections)
  BY <1>1, <1>2, <1>4
<1>11. kept \in [1 .. n -> DOMAIN connections]
  BY <1>6
<1> QED
  BY <1>5, <1>6, <1>8, <1>9, <1>10, <1>11

LEMMA InitTypeOK == Init => TypeOK
<1> SUFFICES ASSUME Init PROVE TypeOK
  OBVIOUS
<1>1. connections \in Seq(Conns)
  BY PoolAssumption DEF Init
<1>2. checker \in Checker /\ jobs \in [Threads -> 0 .. MaxJobs + 1]
  BY PoolAssumption DEF Init, Checker, Phases
<1> QED
  BY <1>1, <1>2 DEF Init, TypeOK, Places, Jobs

LEMMA NextTypeOK == TypeOK /\ [Next]_vars => TypeOK'
<1> SUFFICES ASSUME TypeOK, [Next]_vars PROVE TypeOK'
  OBVIOUS
<1> USE DEF TypeOK
<1>1. ASSUME NEW t \in Threads, Begin(t) PROVE TypeOK'
  BY <1>1, AskedTypeOK, PoolAssumption DEF Begin, JobsOf, Jobs
<1>2. ASSUME NEW t \in Threads, BeginRelease(t) PROVE TypeOK'
  BY <1>2, AskedTypeOK DEF BeginRelease, Jobs
<1>3. ASSUME NEW t \in Threads, Retry(t) PROVE TypeOK'
  BY <1>3, AskedTypeOK DEF Retry
<1>4. ASSUME NEW t \in Threads, FallAsleep(t) PROVE TypeOK'
  BY <1>4 DEF FallAsleep, poolVars, Places
<1>5. ASSUME NEW t \in Threads, Spurious(t) PROVE TypeOK'
  BY <1>5, PoolAssumption DEF Spurious, poolVars, Places
<1>6. ASSUME NEW t \in Threads, Command(t) \/ BrokenReturned(t) \/ EmailNotFound(t) \/ GiveUp(t)
      PROVE  TypeOK'
  BY <1>6, GaveTypeOK DEF Command, BrokenReturned, EmailNotFound, GiveUp, GiveBack
<1>7. ASSUME NEW t \in Threads, BrokenReplaced(t) PROVE TypeOK'
  BY <1>7, GaveTypeOK DEF BrokenReplaced, GiveBack
<1>8. ASSUME NEW t \in Threads, LockTaken(t) \/ LockReleased(t) PROVE TypeOK'
  BY <1>8, GaveTypeOK DEF LockTaken, LockReleased, GiveBack
<1>9. ASSUME NEW t \in Threads, BrokenFreed(t) \/ EmailFound(t) PROVE TypeOK'
  <2>1. /\ place' = Leaves(t) /\ hold' = [hold EXCEPT ![t] = NoConn]
        /\ dropped' \in Nat /\ broken' \in SUBSET Conns
        /\ UNCHANGED <<kind, connections, stop, closer, job, lock, owes, jobs, checker, failCount, missed>>
    BY <1>9 DEF BrokenFreed, EmailFound
  <2> QED
    BY <2>1 DEF Leaves, Places
<1>10. ASSUME NEW t \in Threads, BrokenDropped(t) PROVE TypeOK'
  <2>1. Leaves(t) \in [Threads -> Places]
    BY DEF Leaves, Places
  <2>2. /\ place' \in NotifyOne(Leaves(t)) /\ hold' = [hold EXCEPT ![t] = NoConn]
        /\ dropped' \in Nat /\ broken' \in SUBSET Conns
        /\ UNCHANGED <<kind, connections, stop, closer, job, lock, owes, jobs, checker, failCount, missed>>
    BY <1>10 DEF BrokenDropped
  <2>3. /\ place' \in [Threads -> Places]
        /\ \A u \in Threads : place'[u] = Leaves(t)[u] \/ (Leaves(t)[u] = "asleep" /\ place'[u] = "woken")
    BY <2>1, <2>2, Notified
  <2>4. \A u \in Threads : hold'[u] # NoConn <=> place'[u] = "using"
    BY <2>2, <2>3 DEF Leaves
  <2> QED
    BY <2>2, <2>3, <2>4
<1>11. CASE Expire \/ Break
  <2>1. CASE Expire
    BY <2>1 DEF Expire, poolVars
  <2>2. CASE Break
    <3>1. Live \subseteq Conns
      <4>1. Idle \subseteq Conns
        BY LenProperties, ElementOfSeq DEF Idle
      <4>2. Held \ {NoConn} \subseteq Conns
        BY Checking DEF Held
      <4> QED
        BY <4>1, <4>2 DEF Live
    <3> QED
      BY <2>2, <3>1 DEF Break, jobVars
  <2> QED
    BY <1>11, <2>1, <2>2
<1>12. CASE SweepBegin
  BY <1>12, CheckerTypeOK DEF SweepBegin, jobVars
<1>13. CASE SweepTake
  BY <1>13, CheckerTypeOK, HeadTailProperties DEF SweepTake, jobVars
<1>14. CASE SweepKeep
  <2>1. checker.conn \in Conns
    BY <1>14, Checking DEF SweepKeep
  <2>2. /\ connections' \in Seq(Conns) /\ place' \in [Threads -> Places]
        /\ \A u \in Threads : place'[u] = place[u] \/ (place[u] = "asleep" /\ place'[u] = "woken")
    <3>1. CASE kind = "chat_mysql"
      <4>1. connections' = Append(connections, checker.conn) /\ place' \in NotifyOne(place)
        BY <1>14, <3>1 DEF SweepKeep
      <4> QED
        BY <2>1, <4>1, Notified
    <3>2. CASE Push(checker.conn, place)
      BY <2>1, <3>2, Pushed
    <3> QED
      BY <1>14, <3>1, <3>2 DEF SweepKeep
  <2>3. /\ checker' \in Checker
        /\ UNCHANGED <<kind, broken, stop, closer, failCount, dropped, missed, job, hold, lock, owes, jobs>>
    BY <1>14, Checking DEF SweepKeep
  <2> QED
    BY <2>2, <2>3
<1>15. CASE SweepFail
  <2>1. checker' \in Checker
    BY <1>15, Checking DEF SweepFail
  <2> QED
    BY <1>15, <2>1 DEF SweepFail, jobVars
<1>16. CASE SweepEnd \/ ReconnectEnd
  BY <1>16, CheckerTypeOK DEF SweepEnd, ReconnectEnd, jobVars
<1>17. CASE Reconnect
  <2>1. (CHOOSE c \in Fresh : TRUE) \in Conns
    BY <1>17 DEF Reconnect, Fresh
  <2>2. /\ connections' \in Seq(Conns) /\ place' \in [Threads -> Places]
        /\ \A u \in Threads : place'[u] = place[u] \/ (place[u] = "asleep" /\ place'[u] = "woken")
    BY <1>17, <2>1, Pushed DEF Reconnect
  <2> QED
    BY <1>17, <2>2 DEF Reconnect
<1>18. CASE ReplaceExpired
  <2>1. connections' \in Seq(Conns) /\ dropped' \in Nat /\ broken' \in SUBSET Conns
    BY <1>18, Replaced
  <2> QED
    BY <1>18, <2>1 DEF ReplaceExpired, jobVars
<1>19. CASE CloseBegin \/ CloseNotify \/ CloseLocked \/ CloseJoin
  BY <1>19 DEF CloseBegin, CloseNotify, CloseLocked, CloseJoin, AllWoken, Places, jobVars
<1>20. CASE UNCHANGED vars
  BY <1>20 DEF vars, poolVars, jobVars
<1> QED
  BY <1>1, <1>2, <1>3, <1>4, <1>5, <1>6, <1>7, <1>8, <1>9, <1>10, <1>11, <1>12, <1>13, <1>14,
    <1>15, <1>16, <1>17, <1>18, <1>19, <1>20 DEF Next, ThreadStep, Use, Sweep, CloseStep

\* Every variable holds a value of its kind, and a thread has a connection in hand
\* exactly while it uses it.
THEOREM TypeCorrect == Spec => []TypeOK
BY InitTypeOK, NextTypeOK, PTL DEF Spec

-----------------------------------------------------------------------------
(* What a step does with connections: at most one changes hands, and until    *)
(* the pool is stopped none gets lost uncounted.                              *)

Counts(f, d) == failCount' = failCount + f /\ dropped' = dropped + d

Taken(t) ==
  /\ connections # <<>> /\ connections' = Tail(connections)
  /\ hold[t] = NoConn /\ hold' = [hold EXCEPT ![t] = Head(connections)]
  /\ checker'.conn = checker.conn /\ Counts(0, 0)

Queued(c) == connections' = Append(connections, c) \/ (stop /\ connections' = connections)

Given(t) ==
  /\ hold[t] # NoConn /\ hold' = [hold EXCEPT ![t] = NoConn]
  /\ Queued(hold[t])
  /\ checker'.conn = checker.conn /\ Counts(0, 0)

Freed(t) ==
  /\ hold[t] # NoConn /\ hold' = [hold EXCEPT ![t] = NoConn]
  /\ connections' = connections
  /\ checker'.conn = checker.conn /\ Counts(0, 1)

Inspected ==
  /\ connections # <<>> /\ connections' = Tail(connections)
  /\ checker.conn = NoConn /\ checker'.conn = Head(connections)
  /\ hold' = hold /\ Counts(0, 0)

Returned ==
  /\ checker.conn # NoConn /\ checker'.conn = NoConn
  /\ Queued(checker.conn)
  /\ hold' = hold /\ Counts(0, 0)

Condemned ==
  /\ checker.conn # NoConn /\ checker'.conn = NoConn
  /\ UNCHANGED <<connections, hold>> /\ Counts(1, 0)

Reconnected ==
  /\ \E c \in Fresh : Queued(c)
  /\ UNCHANGED <<hold, checker>>
  /\ failCount > 0 /\ failCount' = failCount - 1 /\ dropped' = dropped

Still ==
  /\ UNCHANGED <<connections, hold, failCount, dropped>>
  /\ checker'.conn = checker.conn

LEMMA AskedMoves ==
  ASSUME TypeOK, NEW t \in Threads, place[t] # "using", GetConnection(t),
         UNCHANGED <<checker, failCount, dropped>>
  PROVE  Taken(t) \/ Still
<1>1. hold[t] = NoConn /\ failCount \in Nat /\ dropped \in Nat
  BY DEF TypeOK
<1> QED
  BY <1>1, Asked DEF Taken, Still, Counts

LEMMA GaveMoves ==
  ASSUME TypeOK, NEW t \in Threads, place[t] = "using", GiveBack(t), dropped' = dropped
  PROVE  Given(t)
<1>1. hold[t] # NoConn /\ failCount \in Nat /\ dropped \in Nat
  BY DEF TypeOK
<1> QED
  BY <1>1 DEF GiveBack, Push, Given, Queued, Counts

LEMMA UseMoves ==
  ASSUME TypeOK, NEW t \in Threads, Use(t)
  PROVE  Given(t) \/ Freed(t)
<1>1. place[t] = "using"
  BY DEF Use, Command, BrokenReturned, BrokenFreed, BrokenReplaced, BrokenDropped, EmailFound,
    EmailNotFound, LockTaken, GiveUp, LockReleased
<1>2. CASE BrokenFreed(t) \/ BrokenDropped(t) \/ EmailFound(t)
  <2>1. hold[t] # NoConn /\ failCount \in Nat
    BY <1>1 DEF TypeOK
  <2> QED
    BY <1>2, <2>1 DEF BrokenFreed, BrokenDropped, EmailFound, Freed, Counts
<1>3. CASE GiveBack(t) /\ dropped' = dropped
  BY <1>1, <1>3, GaveMoves
<1> QED
  BY <1>2, <1>3 DEF Use, Command, BrokenReturned, BrokenReplaced, EmailNotFound, LockTaken, GiveUp,
    LockReleased

LEMMA SweepMoves ==
  ASSUME TypeOK, Sweep
  PROVE  Inspected \/ Returned \/ Condemned \/ Reconnected \/ Still
<1>1. failCount \in Nat /\ dropped \in Nat /\ checker \in Checker
  BY DEF TypeOK
<1>2. CASE SweepBegin \/ SweepEnd \/ ReconnectEnd
  <2>1. checker'.conn = checker.conn
    BY <1>1, <1>2 DEF SweepBegin, SweepEnd, ReconnectEnd, Checker
  <2> QED
    BY <1>2, <2>1 DEF SweepBegin, SweepEnd, ReconnectEnd, jobVars, Still
<1>3. CASE SweepTake
  <2>1. checker'.conn = Head(connections)
    BY <1>1, <1>3 DEF SweepTake, Checker
  <2> QED
    BY <1>1, <1>3, <2>1 DEF SweepTake, jobVars, Inspected, Counts
<1>4. CASE SweepKeep
  <2>1. checker'.conn = NoConn
    BY <1>1, <1>4 DEF SweepKeep, Checker
  <2> QED
    BY <1>1, <1>4, <2>1 DEF SweepKeep, Push, Returned, Queued, Counts
<1>5. CASE SweepFail
  <2>1. checker'.conn = NoConn
    BY <1>1, <1>5 DEF SweepFail, Checker
  <2>2. checker.conn # NoConn
    BY <1>5, PoolAssumption DEF SweepFail, TypeOK
  <2> QED
    BY <1>1, <1>5, <2>1, <2>2 DEF SweepFail, jobVars, Condemned, Counts
<1>6. CASE Reconnect
  <2>1. (CHOOSE c \in Fresh : TRUE) \in Fresh
    BY <1>6 DEF Reconnect
  <2> QED
    BY <1>6, <2>1 DEF Reconnect, Push, Reconnected, Queued
<1> QED
  BY <1>2, <1>3, <1>4, <1>5, <1>6 DEF Sweep

LEMMA Moves ==
  ASSUME TypeOK, [Next]_vars
  PROVE  \/ \E t \in Threads : Taken(t) \/ Given(t) \/ Freed(t)
         \/ Inspected \/ Returned \/ Condemned \/ Reconnected \/ Still
         \/ ReplaceExpired
<1>1. ASSUME NEW t \in Threads, Begin(t) \/ BeginRelease(t) \/ Retry(t) PROVE Taken(t) \/ Still
  BY <1>1, AskedMoves DEF Begin, BeginRelease, Retry
<1>2. ASSUME NEW t \in Threads, FallAsleep(t) \/ Spurious(t) PROVE Still
  BY <1>2 DEF FallAsleep, Spurious, poolVars, Still
<1>3. CASE Expire \/ Break
  BY <1>3 DEF Expire, Break, poolVars, jobVars, Still
<1>4. CASE CloseBegin \/ CloseNotify \/ CloseLocked \/ CloseJoin
  BY <1>4 DEF CloseBegin, CloseNotify, CloseLocked, CloseJoin, jobVars, Still
<1>5. CASE UNCHANGED vars
  BY <1>5 DEF vars, poolVars, jobVars, Still
<1> QED
  BY <1>1, <1>2, <1>3, <1>4, <1>5, UseMoves, SweepMoves DEF Next, ThreadStep, CloseStep

-----------------------------------------------------------------------------
(* No connection is in two hands.                                             *)

Distinct(s) == \A i, j \in DOMAIN s : s[i] = s[j] => i = j
In(s) == {s[i] : i \in DOMAIN s}

LEMMA OfTail ==
  ASSUME NEW s \in Seq(Conns), s # <<>>, Distinct(s)
  PROVE  /\ Distinct(Tail(s)) /\ Head(s) \in In(s)
         /\ In(Tail(s)) \subseteq In(s) \ {Head(s)}
<1>1. /\ Len(s) \in Nat \ {0} /\ DOMAIN s = 1 .. Len(s)
      /\ Head(s) = s[1] /\ Tail(s) \in Seq(Conns) /\ Len(Tail(s)) = Len(s) - 1
      /\ \A i \in 1 .. Len(s) - 1 : Tail(s)[i] = s[i + 1]
  BY LenProperties, EmptySeq, HeadTailProperties
<1>2. DOMAIN Tail(s) = 1 .. Len(s) - 1
  BY <1>1, LenProperties
<1> QED
  BY <1>1, <1>2 DEF Distinct, In

LEMMA OfAppend ==
  ASSUME NEW s \in Seq(Conns), NEW c \in Conns, c \notin In(s), Distinct(s)
  PROVE  Distinct(Append(s, c)) /\ In(Append(s, c)) = In(s) \cup {c}
<1>1. /\ Len(s) \in Nat /\ DOMAIN s = 1 .. Len(s)
      /\ Append(s, c) \in Seq(Conns) /\ Len(Append(s, c)) = Len(s) + 1
      /\ \A i \in 1 .. Len(s) : Append(s, c)[i] = s[i]
      /\ Append(s, c)[Len(s) + 1] = c
  BY LenProperties, AppendProperties
<1>2. DOMAIN Append(s, c) = 1 .. Len(s) + 1
  BY <1>1, LenProperties
<1> QED
  BY <1>1, <1>2 DEF Distinct, In

LEMMA OfReplaced ==
  ASSUME TypeOK, Distinct(connections), ReplaceExpired
  PROVE  Distinct(connections') /\ In(connections') \subseteq In(connections)
<1>1. PICK n \in Nat : \E kept \in [1 .. n -> DOMAIN connections] :
        /\ \A i, j \in 1 .. n : i < j => kept[i] < kept[j]
        /\ connections' = [i \in 1 .. n |-> connections[kept[i]]]
  BY Replaced DEF TypeOK
<1>2. PICK kept \in [1 .. n -> DOMAIN connections] :
        /\ \A i, j \in 1 .. n : i < j => kept[i] < kept[j]
        /\ connections' = [i \in 1 .. n |-> connections[kept[i]]]
  BY <1>1
<1>3. DOMAIN connections = 1 .. Len(connections) /\ Len(connections) \in Nat
  BY LenProperties DEF TypeOK
<1>4. \A i, j \in 1 .. n : kept[i] = kept[j] => i = j
  BY <1>2, <1>3
<1> QED
  BY <1>2, <1>4 DEF Distinct, In

LEMMA SharedOrNot ==
  NotShared <=>
    /\ Distinct(connections)
    /\ \A t, u \in Threads : hold[t] = hold[u] /\ hold[t] # NoConn => t = u
    /\ \A t \in Threads :
         hold[t] \notin In(connections) /\ (hold[t] = checker.conn => hold[t] = NoConn)
    /\ checker.conn \notin In(connections)
BY DEF NotShared, Distinct, In, Idle

\* What becomes of the queue when a connection nobody else has is put back.
LEMMA OfQueued ==
  ASSUME TypeOK, NEW c \in Conns, c \notin In(connections), Distinct(connections), Queued(c)
  PROVE  Distinct(connections') /\ In(connections') \subseteq In(connections) \cup {c}
<1>1. CASE connections' = Append(connections, c)
  <2>1. connections \in Seq(Conns)
    BY DEF TypeOK
  <2>2. Distinct(Append(connections, c)) /\ In(Append(connections, c)) = In(connections) \cup {c}
    BY <2>1, OfAppend
  <2> QED
    BY <1>1, <2>2 DEF Distinct, In
<1>2. CASE connections' = connections
  BY <1>2
<1> QED
  BY <1>1, <1>2 DEF Queued

LEMMA NextNotShared == TypeOK /\ NotShared /\ [Next]_vars => NotShared'
<1> SUFFICES ASSUME TypeOK, NotShared, [Next]_vars PROVE NotShared'
  OBVIOUS
<1> DEFINE Apart(q, h, k) ==
      /\ Distinct(q)
      /\ \A t, u \in Threads : h[t] = h[u] /\ h[t] # NoConn => t = u
      /\ \A t \in Threads : h[t] \notin In(q) /\ (h[t] = k => h[t] = NoConn)
      /\ k \notin In(q)
<1>1. Apart(connections, hold, checker.conn)
  BY SharedOrNot
<1>2. /\ connections \in Seq(Conns) /\ In(connections) \subseteq Conns
      /\ hold \in [Threads -> Conns \cup {NoConn}] /\ checker.conn \in Conns \cup {NoConn}
      /\ NoConn \notin Conns
  <2>1. connections \in Seq(Conns) /\ hold \in [Threads -> Conns \cup {NoConn}] /\ checker \in Checker
    BY DEF TypeOK
  <2>2. In(connections) \subseteq Conns
    BY <2>1, LenProperties, ElementOfSeq DEF In
  <2> QED
    BY <2>1, <2>2, PoolAssumption, Checking
<1>3. NoConn \notin In(connections)
  BY <1>2
<1> SUFFICES Apart(connections', hold', checker'.conn)
  BY DEF NotShared, Distinct, In, Idle
<1>4. ASSUME NEW t \in Threads, Taken(t) PROVE Apart(connections', hold', checker'.conn)
  <2>1. /\ Distinct(connections') /\ Head(connections) \in In(connections)
        /\ In(connections') \subseteq In(connections) \ {Head(connections)}
    BY <1>1, <1>2, <1>4, OfTail DEF Taken
  <2>2. /\ hold'[t] = Head(connections) /\ \A u \in Threads \ {t} : hold'[u] = hold[u]
        /\ checker'.conn = checker.conn
    BY <1>2, <1>4 DEF Taken
  <2> QED
    BY <1>1, <1>3, <2>1, <2>2
<1>5. ASSUME NEW t \in Threads, Given(t) PROVE Apart(connections', hold', checker'.conn)
  <2>1. /\ Distinct(connections') /\ In(connections') \subseteq In(connections) \cup {hold[t]}
    BY <1>1, <1>2, <1>5, OfQueued DEF Given
  <2>2. /\ hold'[t] = NoConn /\ \A u \in Threads \ {t} : hold'[u] = hold[u]
        /\ checker'.conn = checker.conn /\ hold[t] # NoConn
    BY <1>2, <1>5 DEF Given
  <2> QED
    BY <1>1, <1>3, <2>1, <2>2
<1>6. ASSUME NEW t \in Threads, Freed(t) PROVE Apart(connections', hold', checker'.conn)
  <2>1. /\ hold'[t] = NoConn /\ \A u \in Threads \ {t} : hold'[u] = hold[u]
        /\ checker'.conn = checker.conn /\ connections' = connections
    BY <1>2, <1>6 DEF Freed
  <2> QED
    BY <1>1, <1>3, <2>1
<1>7. ASSUME Inspected PROVE Apart(connections', hold', checker'.conn)
  <2>1. /\ Distinct(connections') /\ Head(connections) \in In(connections)
        /\ In(connections') \subseteq In(connections) \ {Head(connections)}
    BY <1>1, <1>2, <1>7, OfTail DEF Inspected
  <2>2. hold' = hold /\ checker'.conn = Head(connections)
    BY <1>7 DEF Inspected
  <2> QED
    BY <1>1, <2>1, <2>2
<1>8. ASSUME Returned PROVE Apart(connections', hold', checker'.conn)
  <2>1. /\ Distinct(connections')
        /\ In(connections') \subseteq In(connections) \cup {checker.conn}
    BY <1>1, <1>2, <1>8, OfQueued DEF Returned
  <2>2. hold' = hold /\ checker'.conn = NoConn /\ checker.conn # NoConn
    BY <1>8 DEF Returned
  <2> QED
    BY <1>1, <1>3, <2>1, <2>2
<1>9. ASSUME Condemned PROVE Apart(connections', hold', checker'.conn)
  <2>1. hold' = hold /\ checker'.conn = NoConn /\ connections' = connections
    BY <1>9 DEF Condemned
  <2> QED
    BY <1>1, <1>3, <2>1
<1>10. ASSUME Reconnected PROVE Apart(connections', hold', checker'.conn)
  <2>1. PICK c \in Fresh : Queued(c)
    BY <1>10 DEF Reconnected
  <2>2. /\ c \in Conns /\ c \notin In(connections)
        /\ \A t \in Threads : hold[t] # c
        /\ checker.conn # c
    BY <1>2, <2>1 DEF Fresh, Live, Idle, In, Held
  <2>3. Distinct(connections') /\ In(connections') \subseteq In(connections) \cup {c}
    BY <1>1, <2>1, <2>2, OfQueued
  <2>4. UNCHANGED <<hold, checker>>
    BY <1>10 DEF Reconnected
  <2> QED
    BY <1>1, <2>2, <2>3, <2>4
<1>11. ASSUME ReplaceExpired PROVE Apart(connections', hold', checker'.conn)
  <2>1. hold' = hold /\ checker' = checker
    BY <1>11 DEF ReplaceExpired, jobVars
  <2>2. Distinct(connections') /\ In(connections') \subseteq In(connections)
    BY <1>1, <1>11, OfReplaced
  <2> QED
    BY <1>1, <2>1, <2>2
<1>12. ASSUME Still PROVE Apart(connections', hold', checker'.conn)
  BY <1>1, <1>12 DEF Still
<1> QED
  BY <1>4, <1>5, <1>6, <1>7, <1>8, <1>9, <1>10, <1>11, <1>12, Moves

\* No connection is queued twice, held by two threads or held and queued: a reply is
\* read by the thread that asked.
THEOREM ConnectionsNotShared == Spec => []NotShared
<1>1. Init => NotShared
  BY PoolAssumption DEF Init, NotShared, Idle
<1> QED
  BY <1>1, NextNotShared, TypeCorrect, PTL DEF Spec

-----------------------------------------------------------------------------
(* Connections are not lost uncounted.                                        *)

Hands == {t \in Threads : hold[t] # NoConn}
Checked == IF checker.conn = NoConn THEN 0 ELSE 1
Adds(l, h, k, f, d) ==
  /\ Len(connections') = Len(connections) + l
  /\ Cardinality(Hands') = Cardinality(Hands) + h
  /\ Checked' = Checked + k
  /\ failCount' = failCount + f /\ dropped' = dropped + d
Total == Len(connections) + (Cardinality(Hands) + Checked) + failCount + dropped

LEMMA Stays == TypeOK /\ [Next]_vars => kind' = kind /\ (~stop' => ~stop)
<1> SUFFICES ASSUME TypeOK, [Next]_vars PROVE kind' = kind /\ (~stop' => ~stop)
  OBVIOUS
<1>1. ASSUME NEW t \in Threads, Begin(t) \/ Spurious(t) \/ ThreadStep(t)
      PROVE  kind' = kind /\ stop' = stop
  BY <1>1 DEF Begin, Spurious, ThreadStep, BeginRelease, FallAsleep, Retry, Use, Command,
    BrokenReturned, BrokenFreed, BrokenReplaced, BrokenDropped, EmailFound, EmailNotFound,
    LockTaken, GiveUp, LockReleased, GiveBack, poolVars
<1>2. CASE Sweep \/ ReplaceExpired \/ Expire \/ Break
  BY <1>2 DEF Sweep, SweepBegin, SweepTake, SweepKeep, SweepFail, SweepEnd, Reconnect, ReconnectEnd,
    ReplaceExpired, Expire, Break, poolVars
<1>3. CASE CloseBegin \/ CloseStep \/ CloseLocked
  BY <1>3 DEF CloseBegin, CloseStep, CloseNotify, CloseJoin, CloseLocked
<1>4. CASE UNCHANGED vars
  BY <1>4 DEF vars, poolVars
<1> QED
  BY <1>1, <1>2, <1>3, <1>4 DEF Next

LEMMA HandsFinite == IsFiniteSet(Hands) /\ Cardinality(Hands) \in Nat
<1>1. Hands \in SUBSET Threads
  BY DEF Hands
<1> QED
  BY <1>1, PoolAssumption, FS_Subset, FS_CardinalityType

\* A hand more, a hand less.
LEMMA OneHand ==
  ASSUME hold \in [Threads -> Conns \cup {NoConn}], NEW t \in Threads
  PROVE  /\ \A c \in Conns : hold[t] = NoConn /\ hold' = [hold EXCEPT ![t] = c] =>
              Cardinality(Hands') = Cardinality(Hands) + 1
         /\ hold[t] # NoConn /\ hold' = [hold EXCEPT ![t] = NoConn] =>
              Cardinality(Hands') = Cardinality(Hands) - 1
<1>1. ASSUME NEW c \in Conns, hold[t] = NoConn, hold' = [hold EXCEPT ![t] = c]
      PROVE  Cardinality(Hands') = Cardinality(Hands) + 1
  <2>1. Hands' = Hands \cup {t} /\ t \notin Hands
    BY <1>1, PoolAssumption DEF Hands
  <2> QED
    BY <2>1, HandsFinite, FS_AddElement
<1>2. ASSUME hold[t] # NoConn, hold' = [hold EXCEPT ![t] = NoConn]
      PROVE  Cardinality(Hands') = Cardinality(Hands) - 1
  <2>1. Hands' = Hands \ {t} /\ t \in Hands
    BY <1>2 DEF Hands
  <2> QED
    BY <2>1, HandsFinite, FS_RemoveElement
<1> QED
  BY <1>1, <1>2

\* Until Close, every connection the constructor made is idle, in a hand, about to be
\* made again, or on the list of those the code loses (RedisMgr::Get frees a context
\* that failed, CheckEmail of the gate keeps the session of a row it found).
THEOREM ConnectionsConserved == Spec => []Conservation
<1>1. Init => Conservation
  <2> SUFFICES ASSUME Init PROVE Conservation
    OBVIOUS
  <2>1. {t \in Threads : hold[t] # NoConn} = {} /\ checker.conn = NoConn
    BY DEF Init
  <2>2. Cardinality({t \in Threads : hold[t] # NoConn}) = 0
    BY <2>1, FS_EmptySet
  <2>3. Len(connections) \in Nat
    BY PoolAssumption, LenProperties DEF Init
  <2> QED
    BY <2>1, <2>2, <2>3 DEF Init, Conservation, InHand
<1>2. TypeOK /\ Conservation /\ [Next]_vars => Conservation'
  <2> SUFFICES ASSUME TypeOK, Conservation, [Next]_vars, ~stop' PROVE Conservation'
    BY DEF Conservation
  <2>1. ~stop /\ kind' = kind
    BY Stays
  <2>2. /\ connections \in Seq(Conns) /\ Len(connections) \in Nat
        /\ failCount \in Nat /\ dropped \in Nat
        /\ hold \in [Threads -> Conns \cup {NoConn}]
        /\ checker.conn \in Conns \cup {NoConn}
    BY LenProperties, Checking DEF TypeOK
  <2>3. Cardinality(Hands) \in Nat
    BY HandsFinite
  <2>4. connections # <<>> =>
          Head(connections) \in Conns /\ Len(Tail(connections)) = Len(connections) - 1
    BY <2>2, HeadTailProperties
  <2>5. \A c \in Conns : Queued(c) => Len(connections') = Len(connections) + 1
    BY <2>1, <2>2, AppendProperties DEF Queued
  <2>6. SUFFICES Total' = Total
    <3>1. Total = Len(Made[kind])
      BY <2>1 DEF Conservation, InHand, Total, Hands, Checked
    <3>2. Total' = Len(Made[kind'])
      BY <2>1, <3>1
    <3> QED
      BY <3>2 DEF Conservation, InHand, Total, Hands, Checked
  <2>7. Checked \in Nat
    BY DEF Checked
  <2>8. ASSUME NEW l \in Int, NEW h \in Int, NEW k \in Int, NEW f \in Int, NEW d \in Int,
               Adds(l, h, k, f, d), l + h + k + f + d = 0
        PROVE  Total' = Total
    BY <2>2, <2>3, <2>7, <2>8 DEF Total, Adds
  <2>9. hold' = hold => Cardinality(Hands') = Cardinality(Hands) + 0
    BY <2>3 DEF Hands
  <2>10. checker'.conn = checker.conn => Checked' = Checked + 0
    BY DEF Checked
  <2>11. ASSUME NEW t \in Threads, Taken(t) PROVE Total' = Total
    <3>1. Adds(-1, 1, 0, 0, 0)
      BY <2>2, <2>4, <2>10, <2>11, OneHand DEF Adds, Taken, Counts
    <3> QED
      BY <2>8, <3>1
  <2>12. ASSUME NEW t \in Threads, Given(t) PROVE Total' = Total
    <3>1. Adds(1, -1, 0, 0, 0)
      BY <2>2, <2>5, <2>10, <2>12, OneHand DEF Adds, Given, Counts
    <3> QED
      BY <2>8, <3>1
  <2>13. ASSUME NEW t \in Threads, Freed(t) PROVE Total' = Total
    <3>1. Adds(0, -1, 0, 0, 1)
      <4>1. Cardinality(Hands') = Cardinality(Hands) - 1
        BY <2>2, <2>13, OneHand DEF Freed
      <4>2. Len(connections') = Len(connections) /\ Checked' = Checked + 0
        BY <2>10, <2>13 DEF Freed
      <4> QED
        BY <2>2, <2>3, <2>13, <4>1, <4>2 DEF Adds, Freed, Counts
    <3> QED
      BY <2>8, <3>1
  <2>14. ASSUME Inspected PROVE Total' = Total
    <3>1. Adds(-1, 0, 1, 0, 0)
      BY <2>2, <2>4, <2>9, <2>14, PoolAssumption DEF Adds, Inspected, Counts, Checked
    <3> QED
      BY <2>8, <3>1
  <2>15. ASSUME Returned PROVE Total' = Total
    <3>1. Adds(1, 0, -1, 0, 0)
      BY <2>2, <2>5, <2>9, <2>15 DEF Adds, Returned, Counts, Checked
    <3> QED
      BY <2>8, <3>1
  <2>16. ASSUME Condemned PROVE Total' = Total
    <3>1. Adds(0, 0, -1, 1, 0)
      BY <2>2, <2>9, <2>16 DEF Adds, Condemned, Counts, Checked
    <3> QED
      BY <2>8, <3>1
  <2>17. ASSUME Reconnected PROVE Total' = Total
    <3>1. Adds(1, 0, 0, -1, 0)
      BY <2>2, <2>5, <2>9, <2>10, <2>17 DEF Adds, Reconnected, Fresh
    <3> QED
      BY <2>8, <3>1
  <2>18. ASSUME ReplaceExpired PROVE Total' = Total
    <3>1. PICK n \in Nat : Len(connections') = n /\ dropped' \in Nat /\ dropped' + n = dropped + Len(connections)
      BY <2>2, <2>18, Replaced DEF TypeOK
    <3>2. UNCHANGED <<hold, checker, failCount>>
      BY <2>18 DEF ReplaceExpired, jobVars
    <3>3. Adds(n - Len(connections), 0, 0, 0, Len(connections) - n)
      BY <2>2, <2>9, <2>10, <3>1, <3>2 DEF Adds
    <3> QED
      BY <2>2, <2>8, <3>3
  <2>19. ASSUME Still PROVE Total' = Total
    <3>1. Adds(0, 0, 0, 0, 0)
      BY <2>2, <2>9, <2>10, <2>19 DEF Adds, Still
    <3> QED
      BY <2>8, <3>1
  <2> QED
    BY <2>11, <2>12, <2>13, <2>14, <2>15, <2>16, <2>17, <2>18, <2>19, Moves
<1> QED
  BY <1>1, <1>2, TypeCorrect, PTL DEF Spec

-----------------------------------------------------------------------------
(* No wake-up is lost: a thread about to sleep has seen an empty queue, which *)
(* stays empty until it sleeps, because it keeps the mutex.                   *)

DrowsyEmpty == \A t \in Threads : place[t] = "drowsy" /\ ~stop => connections = <<>>

\* notify_one leaves nobody asleep, or one more awake.
LEMMA OneMoreAwake ==
  ASSUME TypeOK, NEW p \in [Threads -> Places], place' \in NotifyOne(p),
         \A t \in Threads : p[t] = place[t] \/ (place[t] = "using" /\ p[t] = "out")
  PROVE  /\ Asleep' \subseteq Asleep /\ (place' = p => Woken' = Woken)
         /\ Asleep' = {} \/ Cardinality(Woken') = Cardinality(Woken) + 1
         /\ Cardinality(Woken) <= Cardinality(Woken')
<1>1. IsFiniteSet(Woken) /\ Cardinality(Woken) \in Nat
  <2>1. Woken \in SUBSET Threads
    BY DEF Woken
  <2> QED
    BY <2>1, PoolAssumption, FS_Subset, FS_CardinalityType
<1>2. CASE place' = p /\ \A t \in Threads : p[t] # "asleep"
  <2>1. Woken' = Woken /\ Asleep' = {}
    BY <1>2 DEF Woken, Asleep
  <2> QED
    BY <1>1, <2>1
<1>3. ASSUME NEW u \in Threads, p[u] = "asleep", place' = [p EXCEPT ![u] = "woken"]
      PROVE  /\ Asleep' \subseteq Asleep /\ place' # p
             /\ Cardinality(Woken') = Cardinality(Woken) + 1
  <2>1. Woken' = Woken \cup {u} /\ u \notin Woken /\ Asleep' \subseteq Asleep /\ place' # p
    BY <1>3 DEF Woken, Asleep
  <2> QED
    BY <1>1, <2>1, FS_AddElement
<1> QED
  BY <1>1, <1>2, <1>3, Notified

LEMMA NextDrowsyEmpty == TypeOK /\ DrowsyEmpty /\ [Next]_vars => DrowsyEmpty'
<1> SUFFICES ASSUME TypeOK, DrowsyEmpty, [Next]_vars, ~stop' PROVE DrowsyEmpty'
  BY DEF DrowsyEmpty
<1>1. ~stop
  BY Stays
<1>2. ASSUME MutexFree, \A t \in Threads : place'[t] # "drowsy" \/ place'[t] = place[t]
      PROVE  DrowsyEmpty'
  BY <1>2 DEF MutexFree, DrowsyEmpty
<1>3. ASSUME connections' = connections, \A t \in Threads : place'[t] # "drowsy" \/ place'[t] = place[t]
      PROVE  DrowsyEmpty'
  BY <1>1, <1>3 DEF DrowsyEmpty
<1>4. ASSUME NEW t \in Threads, GetConnection(t) PROVE DrowsyEmpty'
  <2>1. MutexFree
    BY <1>4 DEF GetConnection
  <2> QED
    BY <1>1, <1>2, <1>4, <2>1, Asked DEF DrowsyEmpty, TypeOK
<1>5. ASSUME NEW t \in Threads, FallAsleep(t) \/ Spurious(t) PROVE DrowsyEmpty'
  BY <1>3, <1>5 DEF FallAsleep, Spurious, poolVars, TypeOK
<1>6. ASSUME NEW t \in Threads, GiveBack(t) PROVE DrowsyEmpty'
  <2>1. Leaves(t) \in [Threads -> Places] /\ place' \in NotifyOne(Leaves(t)) /\ MutexFree
    BY <1>1, <1>6 DEF GiveBack, Push, Leaves, TypeOK, Places
  <2>2. \A u \in Threads : place'[u] = Leaves(t)[u] \/ place'[u] = "woken"
    BY <2>1, Notified
  <2>3. \A u \in Threads : place'[u] # "drowsy" \/ place'[u] = place[u]
    BY <2>2 DEF Leaves, TypeOK
  <2> QED
    BY <1>2, <2>1, <2>3
<1>7. ASSUME NEW t \in Threads, BrokenDropped(t) PROVE DrowsyEmpty'
  <2>1. Leaves(t) \in [Threads -> Places] /\ place' \in NotifyOne(Leaves(t)) /\ MutexFree
    BY <1>1, <1>7 DEF BrokenDropped, Leaves, TypeOK, Places
  <2>2. \A u \in Threads : place'[u] = Leaves(t)[u] \/ place'[u] = "woken"
    BY <2>1, Notified
  <2>3. \A u \in Threads : place'[u] # "drowsy" \/ place'[u] = place[u]
    BY <2>2 DEF Leaves, TypeOK
  <2> QED
    BY <1>2, <2>1, <2>3
<1>8. ASSUME NEW t \in Threads, BrokenFreed(t) \/ EmailFound(t) PROVE DrowsyEmpty'
  BY <1>3, <1>8 DEF BrokenFreed, EmailFound, Leaves, TypeOK
<1>9. ASSUME NEW t \in Threads, Use(t) PROVE DrowsyEmpty'
  BY <1>6, <1>7, <1>8, <1>9 DEF Use, Command, BrokenReturned, BrokenReplaced, EmailNotFound,
    LockTaken, GiveUp, LockReleased
<1>10. CASE SweepKeep \/ Reconnect
  <2>1. place' \in NotifyOne(place) /\ MutexFree
    BY <1>1, <1>10 DEF SweepKeep, Reconnect, Push
  <2> QED
    BY <1>2, <2>1, Notified DEF TypeOK
<1>11. CASE SweepTake \/ ReplaceExpired
  BY <1>2, <1>11 DEF SweepTake, ReplaceExpired, jobVars
<1>12. CASE SweepBegin \/ SweepFail \/ SweepEnd \/ ReconnectEnd
  BY <1>3, <1>12 DEF SweepBegin, SweepFail, SweepEnd, ReconnectEnd, jobVars
<1>13. CASE Expire \/ Break \/ UNCHANGED vars
  BY <1>3, <1>13 DEF Expire, Break, vars, poolVars, jobVars
<1>14. CASE CloseBegin \/ CloseStep \/ CloseLocked
  BY <1>3, <1>14 DEF CloseBegin, CloseStep, CloseNotify, CloseJoin, CloseLocked, AllWoken, jobVars, TypeOK
<1> QED
  BY <1>4, <1>5, <1>9, <1>10, <1>11, <1>12, <1>13, <1>14
    DEF Next, Begin, ThreadStep, BeginRelease, Retry, Sweep

LEMMA NextAwake == TypeOK /\ DrowsyEmpty /\ NoLostWakeup /\ [Next]_vars => NoLostWakeup'
<1> SUFFICES ASSUME TypeOK, DrowsyEmpty, NoLostWakeup, [Next]_vars, ~stop' PROVE NoLostWakeup'
  BY DEF NoLostWakeup
<1>1. ~stop
  BY Stays
<1>2. /\ connections \in Seq(Conns) /\ Len(connections) \in Nat
      /\ IsFiniteSet(Woken) /\ Cardinality(Woken) \in Nat
  <2>1. Woken \in SUBSET Threads
    BY DEF Woken
  <2> QED
    BY <2>1, PoolAssumption, FS_Subset, FS_CardinalityType, LenProperties DEF TypeOK
<1>3. connections # <<>> => Len(Tail(connections)) = Len(connections) - 1
  BY <1>2, HeadTailProperties
<1>4. connections = <<>> => Len(connections) = 0
  BY <1>2, EmptySeq
<1>5. Woken' \in SUBSET Threads /\ Cardinality(Woken') \in Nat
  <2>1. Woken' \in SUBSET Threads
    BY DEF Woken
  <2> QED
    BY <2>1, PoolAssumption, FS_Subset, FS_CardinalityType
\* Nobody falls asleep, and the queue is not longer than those awake are more.
<1>6. ASSUME Asleep' \subseteq Asleep, Cardinality(Woken) <= Cardinality(Woken'),
             Len(connections') \in Nat, Len(connections') <= Len(connections)
      PROVE  NoLostWakeup'
  BY <1>1, <1>2, <1>5, <1>6 DEF NoLostWakeup
<1>7. ASSUME NEW c \in Conns, NEW p \in [Threads -> Places], place' \in NotifyOne(p),
             \A t \in Threads : p[t] = place[t] \/ (place[t] = "using" /\ p[t] = "out"),
             connections' = Append(connections, c)
      PROVE  NoLostWakeup'
  <2>1. Len(connections') = Len(connections) + 1
    BY <1>2, <1>7, AppendProperties
  <2>2. Asleep' \subseteq Asleep /\ (Asleep' = {} \/ Cardinality(Woken') = Cardinality(Woken) + 1)
    BY <1>7, OneMoreAwake
  <2> QED
    BY <1>1, <1>2, <1>5, <2>1, <2>2 DEF NoLostWakeup
<1>8. ASSUME NEW t \in Threads, place[t] = "out" \/ place[t] = "woken", GetConnection(t)
      PROVE  NoLostWakeup'
  <2>1. CASE connections' = connections /\ place' = [place EXCEPT ![t] = "drowsy"] /\ connections = <<>>
    BY <1>4, <1>5, <2>1 DEF NoLostWakeup
  <2>2. CASE connections # <<>> /\ connections' = Tail(connections) /\ place' = [place EXCEPT ![t] = "using"]
    <3>1. Asleep' = Asleep /\ Woken' = Woken \ {t}
      BY <1>8, <2>2 DEF Asleep, Woken, TypeOK
    <3>2. Cardinality(Woken') >= Cardinality(Woken) - 1
      BY <1>2, <3>1, FS_RemoveElement
    <3> QED
      BY <1>1, <1>2, <1>3, <1>5, <2>2, <3>1, <3>2 DEF NoLostWakeup
  <2> QED
    BY <1>1, <1>8, <2>1, <2>2, Asked
<1>9. ASSUME NEW t \in Threads, FallAsleep(t) PROVE NoLostWakeup'
  BY <1>1, <1>4, <1>5, <1>9 DEF FallAsleep, poolVars, DrowsyEmpty, NoLostWakeup
<1>10. ASSUME NEW t \in Threads, Spurious(t) PROVE NoLostWakeup'
  <2>1. Asleep' \subseteq Asleep /\ Woken' = Woken \cup {t} /\ connections' = connections
    BY <1>10 DEF Spurious, poolVars, Asleep, Woken, TypeOK
  <2>2. Cardinality(Woken) <= Cardinality(Woken')
    <3>1. Cardinality(Woken \cup {t}) =
            IF t \in Woken THEN Cardinality(Woken) ELSE Cardinality(Woken) + 1
      BY <1>2, FS_AddElement
    <3> QED
      BY <1>2, <2>1, <3>1
  <2> QED
    BY <1>2, <1>6, <2>1, <2>2
<1>11. ASSUME NEW t \in Threads, place[t] = "using", GiveBack(t) PROVE NoLostWakeup'
  <2>1. /\ Leaves(t) \in [Threads -> Places] /\ place' \in NotifyOne(Leaves(t))
        /\ connections' = Append(connections, hold[t]) /\ hold[t] \in Conns
    BY <1>1, <1>11 DEF GiveBack, Push, Leaves, TypeOK, Places
  <2> QED
    BY <1>7, <1>11, <2>1 DEF Leaves, TypeOK
<1>12. ASSUME NEW t \in Threads, place[t] = "using", BrokenDropped(t) PROVE NoLostWakeup'
  <2>1. /\ Leaves(t) \in [Threads -> Places] /\ place' \in NotifyOne(Leaves(t))
        /\ connections' = connections
        /\ \A u \in Threads : Leaves(t)[u] = place[u] \/ (place[u] = "using" /\ Leaves(t)[u] = "out")
    BY <1>12 DEF BrokenDropped, Leaves, TypeOK, Places
  <2> QED
    BY <1>2, <1>6, <2>1, OneMoreAwake
<1>13. ASSUME NEW t \in Threads, place[t] = "using", BrokenFreed(t) \/ EmailFound(t) PROVE NoLostWakeup'
  <2>1. Asleep' = Asleep /\ Woken' = Woken /\ connections' = connections
    BY <1>13 DEF BrokenFreed, EmailFound, Leaves, Asleep, Woken, TypeOK
  <2> QED
    BY <1>2, <1>6, <2>1
<1>14. ASSUME NEW t \in Threads, Use(t) PROVE NoLostWakeup'
  BY <1>11, <1>12, <1>13, <1>14 DEF Use, Command, BrokenReturned, BrokenFreed, BrokenReplaced,
    BrokenDropped, EmailFound, EmailNotFound, LockTaken, GiveUp, LockReleased
<1>15. CASE SweepKeep \/ Reconnect
  <2>1. \E c \in Conns : connections' = Append(connections, c)
    <3>1. SweepKeep => checker.conn \in Conns
      BY Checking DEF SweepKeep, TypeOK
    <3>2. Reconnect => (CHOOSE c \in Fresh : TRUE) \in Conns
      BY DEF Reconnect, Fresh
    <3> QED
      BY <1>1, <1>15, <3>1, <3>2 DEF SweepKeep, Reconnect, Push
  <2>2. place' \in NotifyOne(place) /\ place \in [Threads -> Places]
    BY <1>1, <1>15 DEF SweepKeep, Reconnect, Push, TypeOK
  <2> QED
    BY <1>7, <2>1, <2>2
<1>16. ASSUME place' = place, Len(connections') \in Nat, Len(connections') <= Len(connections)
       PROVE  NoLostWakeup'
  BY <1>1, <1>2, <1>16 DEF NoLostWakeup, Asleep, Woken
<1>17. CASE SweepTake
  BY <1>2, <1>3, <1>16, <1>17, EmptySeq DEF SweepTake, jobVars
<1>18. CASE ReplaceExpired
  <2>1. PICK n \in Nat : Len(connections') = n /\ n <= Len(connections)
    BY <1>18, Replaced DEF TypeOK
  <2> QED
    BY <1>16, <1>18, <2>1 DEF ReplaceExpired, jobVars
<1>19. ASSUME UNCHANGED <<place, connections>> PROVE NoLostWakeup'
  BY <1>2, <1>16, <1>19
<1>20. CASE CloseBegin \/ CloseStep \/ CloseLocked
  BY <1>1, <1>19, <1>20 DEF CloseBegin, CloseStep, CloseNotify, CloseJoin, CloseLocked, jobVars, TypeOK
<1> QED
  BY <1>8, <1>9, <1>10, <1>14, <1>15, <1>17, <1>18, <1>19, <1>20
    DEF Next, Begin, ThreadStep, BeginRelease, Retry, Sweep, SweepBegin, SweepFail, SweepEnd,
      ReconnectEnd, Expire, Break, vars, poolVars, jobVars

\* While threads sleep in getConnection of an open pool, every idle connection has a
\* thread that was woken for it: notify_one after each push is enough, even though
\* threads that never slept may take what was meant for the woken.
THEOREM NoWakeupLost == Spec => []NoLostWakeup
<1>1. Init => DrowsyEmpty /\ NoLostWakeup
  BY DEF Init, DrowsyEmpty, NoLostWakeup, Asleep
<1> QED
  BY <1>1, NextDrowsyEmpty, NextAwake, TypeCorrect, PTL DEF Spec
=============================================================================
