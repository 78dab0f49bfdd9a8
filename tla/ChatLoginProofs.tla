-------------------------- MODULE ChatLoginProofs --------------------------
(***************************************************************************)
(* Machine-checked proofs about ChatLogin, for every number of servers,    *)
(* users and connections and every placement of the connections.           *)
(***************************************************************************)
EXTENDS ChatLogin, TLAPS

LEMMA Threads ==
  /\ \A s \in Server : Timer(s) \in Cleaner /\ Worker(s) \in Thread
  /\ \A c \in Session : Io(c) \in Cleaner
  /\ Cleaner \subseteq Thread
BY DEF Timer, Worker, Io, Cleaner, Thread

-----------------------------------------------------------------------------
(* Type correctness.                                                       *)

\* A part of the state that a step leaves alone keeps its type.
LEMMA ConnFrame == ConnTypeOK /\ UNCHANGED <<connVars, faults>> => ConnTypeOK'
BY DEF ConnTypeOK, connVars
LEMMA BindFrame == BindTypeOK /\ UNCHANGED userSession => BindTypeOK'
BY DEF BindTypeOK
LEMMA WorkFrame == WorkTypeOK /\ UNCHANGED workVars => WorkTypeOK'
BY DEF WorkTypeOK, workVars
LEMMA DealFrame == DealTypeOK /\ UNCHANGED cleanVars => DealTypeOK'
BY DEF DealTypeOK, cleanVars
LEMMA RedisFrame == RedisTypeOK /\ UNCHANGED redisVars => RedisTypeOK'
BY DEF RedisTypeOK, redisVars

\* The message a handler works on is one of its own server's connections.
LEMMA CurrentLogin ==
  ASSUME TypeOK, NEW s \in Server, wpc[s] # "idle"
  PROVE  Cur(s) \in Session /\ At[Cur(s)] = s /\ Luid(s) \in User
BY ConstantsAssumption DEF TypeOK, WorkTypeOK, Cur, Luid

\* ClearSession removes a binding or leaves the bindings alone.
LEMMA ClearSessionBind ==
  ASSUME TypeOK, NEW c \in Session, ClearSession(c)
  PROVE  BindTypeOK'
<1>1. CASE c \in sessions
  <2>1. userUid[c] \in Uid /\ At[c] \in Server
    BY ConstantsAssumption DEF TypeOK, ConnTypeOK
  <2>2. userSession' = [userSession EXCEPT ![At[c]][userUid[c]] =
                          IF @ = c THEN NoSession ELSE @]
    BY <1>1 DEF ClearSession, RmvUserSession
  <2>3. userSession \in [Server -> [Uid -> Session \cup {NoSession}]]
    BY DEF TypeOK, BindTypeOK
  <2>4. userSession' \in [Server -> [Uid -> Session \cup {NoSession}]]
    BY <2>1, <2>2, <2>3
  <2>5. ASSUME NEW s \in Server, NEW u \in Uid
        PROVE  userSession'[s][u] \in {NoSession, userSession[s][u]}
    BY <2>1, <2>2, <2>3
  <2> QED
    BY <2>4, <2>5 DEF TypeOK, BindTypeOK
<1>2. CASE c \notin sessions
  BY <1>2, BindFrame DEF TypeOK, ClearSession
<1> QED
  BY <1>1, <1>2

\* The initial state is typed.
LEMMA InitTypeOK == Init => TypeOK
BY ConstantsAssumption DEF Init, TypeOK, ConnTypeOK, BindTypeOK, WorkTypeOK,
  DealTypeOK, RedisTypeOK, Uid, CleanerPc, WorkerPc, Kick

\* Every step keeps the state typed.
LEMMA NextTypeOK == TypeOK /\ [Next]_vars => TypeOK'
<1> SUFFICES ASSUME TypeOK, [Next]_vars PROVE TypeOK'
  OBVIOUS
<1> USE Threads, ConstantsAssumption DEF TypeOK
<1>1. ASSUME NEW c \in Session, Accept(c)
     PROVE  TypeOK'
  <2>1. ConnTypeOK'
    BY <1>1 DEF Accept, Timer, ConnTypeOK, Uid, connVars
  <2>2. BindTypeOK'
    BY <1>1, BindFrame DEF Accept
  <2>3. WorkTypeOK'
    BY <1>1, WorkFrame DEF Accept, workVars
  <2>4. DealTypeOK'
    BY <1>1, DealFrame DEF Accept, cleanVars
  <2>5. RedisTypeOK'
    BY <1>1, RedisFrame DEF Accept, redisVars
  <2> QED
    BY <2>1, <2>2, <2>3, <2>4, <2>5
<1>2. ASSUME NEW c \in Session, Receive(c)
     PROVE  TypeOK'
  <2>1. ConnTypeOK'
    BY <1>2 DEF Receive, ConnTypeOK, Uid, connVars
  <2>2. BindTypeOK'
    BY <1>2, BindFrame DEF Receive
  <2>3. WorkTypeOK'
    BY <1>2, WorkFrame DEF Receive, workVars
  <2>4. DealTypeOK'
    BY <1>2, DealFrame DEF Receive, cleanVars
  <2>5. RedisTypeOK'
    BY <1>2, RedisFrame DEF Receive, redisVars
  <2> QED
    BY <2>1, <2>2, <2>3, <2>4, <2>5
<1>3. ASSUME NEW c \in Session, Post(c)
     PROVE  TypeOK'
  <2>1. ConnTypeOK'
    BY <1>3 DEF Post, ConnTypeOK, Uid, connVars
  <2>2. BindTypeOK'
    BY <1>3, BindFrame DEF Post
  <2>3. WorkTypeOK'
    BY <1>3 DEF Post, WorkTypeOK, WorkerPc, Kick, workVars
  <2>4. DealTypeOK'
    BY <1>3, DealFrame DEF Post, cleanVars
  <2>5. RedisTypeOK'
    BY <1>3, RedisFrame DEF Post, redisVars
  <2> QED
    BY <2>1, <2>2, <2>3, <2>4, <2>5
<1>4. ASSUME NEW c \in Session, ReceiveInvalid(c)
     PROVE  TypeOK'
  <2>1. ConnTypeOK'
    BY <1>4 DEF ReceiveInvalid, ConnTypeOK, Uid, connVars
  <2>2. BindTypeOK'
    BY <1>4, BindFrame DEF ReceiveInvalid
  <2>3. WorkTypeOK'
    BY <1>4, WorkFrame DEF ReceiveInvalid, workVars
  <2>4. DealTypeOK'
    BY <1>4, DealFrame DEF ReceiveInvalid, cleanVars
  <2>5. RedisTypeOK'
    BY <1>4, RedisFrame DEF ReceiveInvalid, redisVars
  <2> QED
    BY <2>1, <2>2, <2>3, <2>4, <2>5
<1>5. ASSUME NEW c \in Session, BadHeader(c)
     PROVE  TypeOK'
  <2>1. ConnTypeOK'
    BY <1>5 DEF BadHeader, ClearSession, Fault, ConnTypeOK, Uid, connVars
  <2>2. BindTypeOK'
    BY <1>5, ClearSessionBind DEF BadHeader
  <2>3. WorkTypeOK'
    BY <1>5, WorkFrame DEF BadHeader, workVars
  <2>4. DealTypeOK'
    BY <1>5, DealFrame DEF BadHeader, cleanVars
  <2>5. RedisTypeOK'
    BY <1>5, RedisFrame DEF BadHeader, redisVars
  <2> QED
    BY <2>1, <2>2, <2>3, <2>4, <2>5
<1>6. ASSUME NEW c \in Session, ReadError(c)
     PROVE  TypeOK'
  <2>1. ConnTypeOK'
    BY <1>6 DEF ReadError, CloseAndDeal, Fault, FaultIf, ConnTypeOK, Uid,
      connVars
  <2>2. BindTypeOK'
    BY <1>6, BindFrame DEF ReadError
  <2>3. WorkTypeOK'
    BY <1>6, WorkFrame DEF ReadError, workVars
  <2>4. DealTypeOK'
    BY <1>6 DEF ReadError, CloseAndDeal, ConnTypeOK, DealTypeOK, CleanerPc,
      Uid, cleanVars
  <2>5. RedisTypeOK'
    BY <1>6, RedisFrame DEF ReadError, redisVars
  <2> QED
    BY <2>1, <2>2, <2>3, <2>4, <2>5
<1>7. ASSUME NEW c \in Session, WriteError(c)
     PROVE  TypeOK'
  <2>1. ConnTypeOK'
    BY <1>7 DEF WriteError, CloseAndDeal, Fault, FaultIf, ConnTypeOK, Uid,
      connVars
  <2>2. BindTypeOK'
    BY <1>7, BindFrame DEF WriteError
  <2>3. WorkTypeOK'
    BY <1>7, WorkFrame DEF WriteError, workVars
  <2>4. DealTypeOK'
    BY <1>7 DEF WriteError, CloseAndDeal, ConnTypeOK, DealTypeOK, CleanerPc,
      Uid, cleanVars
  <2>5. RedisTypeOK'
    BY <1>7, RedisFrame DEF WriteError, redisVars
  <2> QED
    BY <2>1, <2>2, <2>3, <2>4, <2>5
<1>8. ASSUME NEW s \in Server, Insert(s)
     PROVE  TypeOK'
  <2>1. ConnTypeOK'
    BY <1>8 DEF Insert, ConnTypeOK, Uid, connVars
  <2>2. BindTypeOK'
    BY <1>8, BindFrame DEF Insert
  <2>3. WorkTypeOK'
    BY <1>8, WorkFrame DEF Insert, workVars
  <2>4. DealTypeOK'
    BY <1>8, DealFrame DEF Insert, cleanVars
  <2>5. RedisTypeOK'
    BY <1>8, RedisFrame DEF Insert, redisVars
  <2> QED
    BY <2>1, <2>2, <2>3, <2>4, <2>5
<1>9. ASSUME NEW s \in Server, NEW expired \in SUBSET SessionsOf(s), Tick(s, expired)
     PROVE  TypeOK'
  <2>1. ConnTypeOK'
    BY <1>9 DEF Tick, Fault, FaultIf, SessionsOf, ConnTypeOK, Uid, connVars
  <2>2. BindTypeOK'
    BY <1>9, BindFrame DEF Tick
  <2>3. WorkTypeOK'
    BY <1>9, WorkFrame DEF Tick, workVars
  <2>4. DealTypeOK'
    BY <1>9 DEF Tick, SessionsOf, ConnTypeOK, DealTypeOK, CleanerPc, Uid,
      cleanVars
  <2>5. RedisTypeOK'
    BY <1>9, RedisFrame DEF Tick, redisVars
  <2> QED
    BY <2>1, <2>2, <2>3, <2>4, <2>5
<1>10. ASSUME NEW s \in Server,
              NEW c \in Session, TimerDeal(s, c)
     PROVE  TypeOK'
  <2>1. ConnTypeOK'
    BY <1>10 DEF TimerDeal, CloseAndDeal, ConnTypeOK, Uid, connVars
  <2>2. BindTypeOK'
    BY <1>10, BindFrame DEF TimerDeal
  <2>3. WorkTypeOK'
    BY <1>10, WorkFrame DEF TimerDeal, workVars
  <2>4. DealTypeOK'
    BY <1>10 DEF TimerDeal, CloseAndDeal, ConnTypeOK, DealTypeOK, CleanerPc,
      Uid, cleanVars
  <2>5. RedisTypeOK'
    BY <1>10, RedisFrame DEF TimerDeal, redisVars
  <2> QED
    BY <2>1, <2>2, <2>3, <2>4, <2>5
<1>11. ASSUME NEW p \in Cleaner, DealLock(p)
     PROVE  TypeOK'
  <2>1. ConnTypeOK'
    BY <1>11, ConnFrame DEF DealLock, connVars, Goto
  <2>2. BindTypeOK'
    BY <1>11, BindFrame DEF DealLock, Goto
  <2>3. WorkTypeOK'
    BY <1>11, WorkFrame DEF DealLock, workVars, Goto
  <2>4. DealTypeOK'
    BY <1>11 DEF DealLock, Goto, DealTypeOK, CleanerPc, Uid, cleanVars
  <2>5. RedisTypeOK'
    BY <1>11 DEF DealLock, DealTypeOK, RedisTypeOK, Uid, redisVars
  <2> QED
    BY <2>1, <2>2, <2>3, <2>4, <2>5
<1>12. ASSUME NEW p \in Cleaner, DealGet(p)
     PROVE  TypeOK'
  <2>1. ConnTypeOK'
    BY <1>12, ConnFrame DEF DealGet, connVars, Goto
  <2>2. BindTypeOK'
    BY <1>12, BindFrame DEF DealGet, Goto
  <2>3. WorkTypeOK'
    BY <1>12, WorkFrame DEF DealGet, workVars, Goto
  <2>4. DealTypeOK'
    BY <1>12 DEF DealGet, Goto, DealTypeOK, CleanerPc, Uid, cleanVars
  <2>5. RedisTypeOK'
    BY <1>12, RedisFrame DEF DealGet, redisVars, Goto
  <2> QED
    BY <2>1, <2>2, <2>3, <2>4, <2>5
<1>13. ASSUME NEW p \in Cleaner, DealDelSession(p)
     PROVE  TypeOK'
  <2>1. ConnTypeOK'
    BY <1>13, ConnFrame DEF DealDelSession, connVars, Goto
  <2>2. BindTypeOK'
    BY <1>13, BindFrame DEF DealDelSession, Goto
  <2>3. WorkTypeOK'
    BY <1>13, WorkFrame DEF DealDelSession, workVars, Goto
  <2>4. DealTypeOK'
    BY <1>13 DEF DealDelSession, Goto, DealTypeOK, CleanerPc, Uid, cleanVars
  <2>5. RedisTypeOK'
    BY <1>13 DEF DealDelSession, DealTypeOK, RedisTypeOK, Uid, redisVars
  <2> QED
    BY <2>1, <2>2, <2>3, <2>4, <2>5
<1>14. ASSUME NEW p \in Cleaner, DealDelIp(p)
     PROVE  TypeOK'
  <2>1. ConnTypeOK'
    BY <1>14, ConnFrame DEF DealDelIp, connVars, Goto
  <2>2. BindTypeOK'
    BY <1>14, BindFrame DEF DealDelIp, Goto
  <2>3. WorkTypeOK'
    BY <1>14, WorkFrame DEF DealDelIp, workVars, Goto
  <2>4. DealTypeOK'
    BY <1>14 DEF DealDelIp, Goto, DealTypeOK, CleanerPc, Uid, cleanVars
  <2>5. RedisTypeOK'
    BY <1>14 DEF DealDelIp, DealTypeOK, RedisTypeOK, Uid, redisVars
  <2> QED
    BY <2>1, <2>2, <2>3, <2>4, <2>5
<1>15. ASSUME NEW p \in Cleaner, DealClear(p)
     PROVE  TypeOK'
  <2>1. ConnTypeOK'
    BY <1>15 DEF DealClear, ClearSession, ConnTypeOK, Uid, connVars
  <2>2. BindTypeOK'
    BY <1>15, ClearSessionBind DEF DealClear, DealTypeOK, Goto
  <2>3. WorkTypeOK'
    BY <1>15, WorkFrame DEF DealClear, workVars, Goto
  <2>4. DealTypeOK'
    BY <1>15 DEF DealClear, Goto, DealTypeOK, CleanerPc, Uid, cleanVars
  <2>5. RedisTypeOK'
    BY <1>15, RedisFrame DEF DealClear, redisVars, Goto
  <2> QED
    BY <2>1, <2>2, <2>3, <2>4, <2>5
<1>16. ASSUME NEW p \in Cleaner, DealRelease(p)
     PROVE  TypeOK'
  <2>1. ConnTypeOK'
    BY <1>16, ConnFrame DEF DealRelease, connVars, Goto
  <2>2. BindTypeOK'
    BY <1>16, BindFrame DEF DealRelease, Goto
  <2>3. WorkTypeOK'
    BY <1>16, WorkFrame DEF DealRelease, workVars, Goto
  <2>4. DealTypeOK'
    BY <1>16 DEF DealRelease, Goto, DealTypeOK, CleanerPc, Uid, cleanVars
  <2>5. RedisTypeOK'
    BY <1>16 DEF DealRelease, ReleaseLock, DealTypeOK, RedisTypeOK, Uid,
      redisVars
  <2> QED
    BY <2>1, <2>2, <2>3, <2>4, <2>5
<1>17. ASSUME NEW s \in Server, LoginBegin(s)
     PROVE  TypeOK'
  <2>1. ConnTypeOK'
    BY <1>17, ConnFrame DEF LoginBegin, connVars
  <2>2. BindTypeOK'
    BY <1>17, BindFrame DEF LoginBegin
  <2>3. WorkTypeOK'
    BY <1>17 DEF LoginBegin, Step, WorkTypeOK, WorkerPc, Kick, workVars
  <2>4. DealTypeOK'
    BY <1>17, DealFrame DEF LoginBegin, cleanVars
  <2>5. RedisTypeOK'
    BY <1>17, RedisFrame DEF LoginBegin, redisVars
  <2> QED
    BY <2>1, <2>2, <2>3, <2>4, <2>5
<1>18. ASSUME NEW s \in Server, LoginLock(s)
     PROVE  TypeOK'
  <2> Cur(s) \in Session /\ At[Cur(s)] = s /\ Luid(s) \in User
    BY <1>18, CurrentLogin DEF LoginLock, Step
  <2>1. ConnTypeOK'
    BY <1>18, ConnFrame DEF LoginLock, connVars
  <2>2. BindTypeOK'
    BY <1>18, BindFrame DEF LoginLock
  <2>3. WorkTypeOK'
    BY <1>18 DEF LoginLock, Step, WorkTypeOK, WorkerPc, Kick, workVars
  <2>4. DealTypeOK'
    BY <1>18, DealFrame DEF LoginLock, cleanVars
  <2>5. RedisTypeOK'
    BY <1>18 DEF LoginLock, RedisTypeOK, Uid, redisVars
  <2> QED
    BY <2>1, <2>2, <2>3, <2>4, <2>5
<1>19. ASSUME NEW s \in Server, LoginGetIp(s)
     PROVE  TypeOK'
  <2> Cur(s) \in Session
    BY <1>19, CurrentLogin DEF LoginGetIp
  <2>1. ConnTypeOK'
    BY <1>19, ConnFrame DEF LoginGetIp, connVars
  <2>2. BindTypeOK'
    BY <1>19, BindFrame DEF LoginGetIp
  <2>3. WorkTypeOK'
    <3>1. wpc' \in [Server -> WorkerPc] /\ UNCHANGED que
      BY <1>19 DEF LoginGetIp, Step, WorkTypeOK, WorkerPc
    <3>2. \A t \in Server : wpc'[t] # "idle" => que'[t] # <<>>
      BY <1>19 DEF LoginGetIp, Step, WorkTypeOK
    <3>3. \A t \in PeerPools(s, uip[Luid(s)]) :
            [by |-> Cur(s), to |-> t, victim |-> NoSession] \in Kick
      BY DEF PeerPools, Kick
    <3>4. kicks' \subseteq Kick
      BY <1>19, <3>3 DEF LoginGetIp, WorkTypeOK
    <3> QED
      BY <3>1, <3>2, <3>4 DEF WorkTypeOK
  <2>4. DealTypeOK'
    BY <1>19, DealFrame DEF LoginGetIp, cleanVars
  <2>5. RedisTypeOK'
    BY <1>19, RedisFrame DEF LoginGetIp, redisVars
  <2> QED
    BY <2>1, <2>2, <2>3, <2>4, <2>5
<1>20. ASSUME NEW s \in Server, LoginEvict(s)
     PROVE  TypeOK'
  <2> Cur(s) \in Session /\ At[Cur(s)] = s /\ Luid(s) \in User
    BY <1>20, CurrentLogin DEF LoginEvict, Step
  <2>1. ConnTypeOK'
    BY <1>20 DEF LoginEvict, SendTo, ClearSession, ConnTypeOK, Uid, connVars
  <2>2. BindTypeOK'
    <3> DEFINE old == userSession[s][Luid(s)]
    <3>1. CASE old = NoSession
      BY <1>20, <3>1, BindFrame DEF LoginEvict
    <3>2. CASE old # NoSession
      <4>1. old \in Session
        BY <3>2 DEF BindTypeOK, Uid
      <4>2. ClearSession(old)
        BY <1>20, <3>2 DEF LoginEvict
      <4> QED
        BY <4>1, <4>2, ClearSessionBind
    <3> QED
      BY <3>1, <3>2
  <2>3. WorkTypeOK'
    BY <1>20 DEF LoginEvict, Step, WorkTypeOK, WorkerPc, Kick, workVars
  <2>4. DealTypeOK'
    BY <1>20, DealFrame DEF LoginEvict, cleanVars
  <2>5. RedisTypeOK'
    BY <1>20, RedisFrame DEF LoginEvict, redisVars
  <2> QED
    BY <2>1, <2>2, <2>3, <2>4, <2>5
<1>21. ASSUME NEW s \in Server, LoginKicked(s)
     PROVE  TypeOK'
  <2>1. ConnTypeOK'
    BY <1>21, ConnFrame DEF LoginKicked, connVars
  <2>2. BindTypeOK'
    BY <1>21, BindFrame DEF LoginKicked
  <2>3. WorkTypeOK'
    BY <1>21 DEF LoginKicked, Step, WorkTypeOK, WorkerPc, Kick, workVars
  <2>4. DealTypeOK'
    BY <1>21, DealFrame DEF LoginKicked, cleanVars
  <2>5. RedisTypeOK'
    BY <1>21, RedisFrame DEF LoginKicked, redisVars
  <2> QED
    BY <2>1, <2>2, <2>3, <2>4, <2>5
<1>22. ASSUME NEW s \in Server, LoginSetUid(s)
     PROVE  TypeOK'
  <2> Cur(s) \in Session /\ At[Cur(s)] = s /\ Luid(s) \in User
    BY <1>22, CurrentLogin DEF LoginSetUid, Step
  <2>1. ConnTypeOK'
    <3>1. userUid' = [userUid EXCEPT ![Cur(s)] = Of[Cur(s)]]
      BY <1>22 DEF LoginSetUid, Luid
    <3>2. UNCHANGED <<sock, rd, out, logins, pend, sessions, faults>>
      BY <1>22 DEF LoginSetUid
    <3> QED
      BY <3>1, <3>2 DEF ConnTypeOK, Uid
  <2>2. BindTypeOK'
    BY <1>22, BindFrame DEF LoginSetUid
  <2>3. WorkTypeOK'
    BY <1>22 DEF LoginSetUid, Step, WorkTypeOK, WorkerPc, Kick, workVars
  <2>4. DealTypeOK'
    BY <1>22, DealFrame DEF LoginSetUid, cleanVars
  <2>5. RedisTypeOK'
    BY <1>22, RedisFrame DEF LoginSetUid, redisVars
  <2> QED
    BY <2>1, <2>2, <2>3, <2>4, <2>5
<1>23. ASSUME NEW s \in Server, LoginSetIp(s)
     PROVE  TypeOK'
  <2> Cur(s) \in Session /\ At[Cur(s)] = s /\ Luid(s) \in User
    BY <1>23, CurrentLogin DEF LoginSetIp, Step
  <2>1. ConnTypeOK'
    BY <1>23, ConnFrame DEF LoginSetIp, connVars
  <2>2. BindTypeOK'
    BY <1>23, BindFrame DEF LoginSetIp
  <2>3. WorkTypeOK'
    BY <1>23 DEF LoginSetIp, Step, WorkTypeOK, WorkerPc, Kick, workVars
  <2>4. DealTypeOK'
    BY <1>23, DealFrame DEF LoginSetIp, cleanVars
  <2>5. RedisTypeOK'
    BY <1>23 DEF LoginSetIp, RedisTypeOK, Uid, redisVars
  <2> QED
    BY <2>1, <2>2, <2>3, <2>4, <2>5
<1>24. ASSUME NEW s \in Server, LoginSetLocal(s)
     PROVE  TypeOK'
  <2> Cur(s) \in Session /\ At[Cur(s)] = s /\ Luid(s) \in User
    BY <1>24, CurrentLogin DEF LoginSetLocal, Step
  <2>1. ConnTypeOK'
    BY <1>24, ConnFrame DEF LoginSetLocal, connVars
  <2>2. BindTypeOK'
    <3>1. userSession' = [userSession EXCEPT ![s][Luid(s)] = Cur(s)]
      BY <1>24 DEF LoginSetLocal
    <3>2. Luid(s) \in Uid /\ Of[Cur(s)] = Luid(s)
      BY DEF Uid, Luid
    <3>3. userSession \in [Server -> [Uid -> Session \cup {NoSession}]]
      BY DEF BindTypeOK
    <3>4. userSession' \in [Server -> [Uid -> Session \cup {NoSession}]]
      BY <3>1, <3>2, <3>3
    <3>5. ASSUME NEW t \in Server, NEW u \in Uid
          PROVE  userSession'[t][u] = IF t = s /\ u = Luid(s) THEN Cur(s)
                                      ELSE userSession[t][u]
      BY <3>1, <3>2, <3>3
    <3> QED
      BY <3>2, <3>4, <3>5 DEF BindTypeOK
  <2>3. WorkTypeOK'
    BY <1>24 DEF LoginSetLocal, Step, WorkTypeOK, WorkerPc, Kick, workVars
  <2>4. DealTypeOK'
    BY <1>24, DealFrame DEF LoginSetLocal, cleanVars
  <2>5. RedisTypeOK'
    BY <1>24, RedisFrame DEF LoginSetLocal, redisVars
  <2> QED
    BY <2>1, <2>2, <2>3, <2>4, <2>5
<1>25. ASSUME NEW s \in Server, LoginSetSession(s)
     PROVE  TypeOK'
  <2> Cur(s) \in Session /\ At[Cur(s)] = s /\ Luid(s) \in User
    BY <1>25, CurrentLogin DEF LoginSetSession, Step
  <2>1. ConnTypeOK'
    BY <1>25, ConnFrame DEF LoginSetSession, connVars
  <2>2. BindTypeOK'
    BY <1>25, BindFrame DEF LoginSetSession
  <2>3. WorkTypeOK'
    BY <1>25 DEF LoginSetSession, Step, WorkTypeOK, WorkerPc, Kick, workVars
  <2>4. DealTypeOK'
    BY <1>25, DealFrame DEF LoginSetSession, cleanVars
  <2>5. RedisTypeOK'
    BY <1>25 DEF LoginSetSession, RedisTypeOK, Uid, redisVars
  <2> QED
    BY <2>1, <2>2, <2>3, <2>4, <2>5
<1>26. ASSUME NEW s \in Server, LoginRelease(s)
     PROVE  TypeOK'
  <2> Cur(s) \in Session /\ At[Cur(s)] = s /\ Luid(s) \in User
    BY <1>26, CurrentLogin DEF LoginRelease, Step
  <2>1. ConnTypeOK'
    BY <1>26, ConnFrame DEF LoginRelease, connVars
  <2>2. BindTypeOK'
    BY <1>26, BindFrame DEF LoginRelease
  <2>3. WorkTypeOK'
    BY <1>26 DEF LoginRelease, Step, WorkTypeOK, WorkerPc, Kick, workVars
  <2>4. DealTypeOK'
    BY <1>26, DealFrame DEF LoginRelease, cleanVars
  <2>5. RedisTypeOK'
    BY <1>26 DEF LoginRelease, ReleaseLock, RedisTypeOK, Uid, redisVars
  <2> QED
    BY <2>1, <2>2, <2>3, <2>4, <2>5
<1>27. ASSUME NEW s \in Server, LoginReply(s)
     PROVE  TypeOK'
  <2> Cur(s) \in Session /\ At[Cur(s)] = s /\ Luid(s) \in User
    BY <1>27, CurrentLogin DEF LoginReply, Step
  <2>1. ConnTypeOK'
    BY <1>27 DEF LoginReply, SendTo, ConnTypeOK, Uid, connVars
  <2>2. BindTypeOK'
    BY <1>27, BindFrame DEF LoginReply
  <2>3. WorkTypeOK'
    <3>1. /\ que[s] \in Seq(Session) /\ que[s] # <<>>
          /\ \A i \in 1..Len(que[s]) : At[que[s][i]] = s
      BY <1>27 DEF LoginReply, Step, TypeOK, WorkTypeOK
    <3>2. /\ Tail(que[s]) \in Seq(Session)
          /\ Len(Tail(que[s])) = Len(que[s]) - 1
          /\ \A i \in 1..Len(Tail(que[s])) : Tail(que[s])[i] = que[s][i + 1]
      BY <3>1
    <3>3. \A i \in 1..Len(Tail(que[s])) : At[Tail(que[s])[i]] = s
      BY <3>1, <3>2
    <3>4. /\ wpc' = [wpc EXCEPT ![s] = "idle"] /\ UNCHANGED kicks
          /\ que' = [que EXCEPT ![s] = Tail(que[s])]
      BY <1>27 DEF LoginReply, Step
    <3> QED
      BY <3>2, <3>3, <3>4 DEF TypeOK, WorkTypeOK, WorkerPc
  <2>4. DealTypeOK'
    BY <1>27, DealFrame DEF LoginReply, cleanVars
  <2>5. RedisTypeOK'
    BY <1>27, RedisFrame DEF LoginReply, redisVars
  <2> QED
    BY <2>1, <2>2, <2>3, <2>4, <2>5
<1>28. ASSUME NEW k \in kicks, KickLookup(k)
     PROVE  TypeOK'
  <2>1. ConnTypeOK'
    BY <1>28 DEF KickLookup, SendTo, ConnTypeOK, Uid, connVars
  <2>2. BindTypeOK'
    BY <1>28, BindFrame DEF KickLookup
  <2>3. WorkTypeOK'
    <3> DEFINE v == userSession[k.to][Of[k.by]]
    <3>1. k \in Kick /\ k.to \in Server /\ Of[k.by] \in Uid
      BY DEF WorkTypeOK, Kick, Uid
    <3>2. v \in Session \cup {NoSession}
      BY <3>1 DEF BindTypeOK
    <3>3. [k EXCEPT !.victim = v] \in Kick
      BY <3>1, <3>2 DEF Kick
    <3>4. kicks' \subseteq kicks \cup {[k EXCEPT !.victim = v]}
      BY <1>28 DEF KickLookup
    <3>5. UNCHANGED <<que, wpc>>
      BY <1>28 DEF KickLookup
    <3> QED
      BY <3>3, <3>4, <3>5 DEF WorkTypeOK
  <2>4. DealTypeOK'
    BY <1>28, DealFrame DEF KickLookup, cleanVars
  <2>5. RedisTypeOK'
    BY <1>28, RedisFrame DEF KickLookup, redisVars
  <2> QED
    BY <2>1, <2>2, <2>3, <2>4, <2>5
<1>29. ASSUME NEW k \in kicks, KickClear(k)
     PROVE  TypeOK'
  <2>1. ConnTypeOK'
    BY <1>29 DEF KickClear, ClearSession, ConnTypeOK, Uid, connVars
  <2>2. BindTypeOK'
    BY <1>29, ClearSessionBind DEF KickClear, WorkTypeOK, Kick
  <2>3. WorkTypeOK'
    BY <1>29 DEF KickClear, WorkTypeOK, WorkerPc, Kick, workVars
  <2>4. DealTypeOK'
    BY <1>29, DealFrame DEF KickClear, cleanVars
  <2>5. RedisTypeOK'
    BY <1>29, RedisFrame DEF KickClear, redisVars
  <2> QED
    BY <2>1, <2>2, <2>3, <2>4, <2>5
<1>30. ASSUME NEW k \in kicks, KickLost(k)
     PROVE  TypeOK'
  <2>1. ConnTypeOK'
    BY <1>30, ConnFrame DEF KickLost, connVars
  <2>2. BindTypeOK'
    BY <1>30, BindFrame DEF KickLost
  <2>3. WorkTypeOK'
    BY <1>30 DEF KickLost, WorkTypeOK, WorkerPc, Kick, workVars
  <2>4. DealTypeOK'
    BY <1>30, DealFrame DEF KickLost, cleanVars
  <2>5. RedisTypeOK'
    BY <1>30, RedisFrame DEF KickLost, redisVars
  <2> QED
    BY <2>1, <2>2, <2>3, <2>4, <2>5
<1>31. ASSUME NEW u \in Uid, Expire(u)
     PROVE  TypeOK'
  <2>1. ConnTypeOK'
    BY <1>31, ConnFrame DEF Expire, connVars
  <2>2. BindTypeOK'
    BY <1>31, BindFrame DEF Expire
  <2>3. WorkTypeOK'
    BY <1>31, WorkFrame DEF Expire, workVars
  <2>4. DealTypeOK'
    BY <1>31, DealFrame DEF Expire, cleanVars
  <2>5. RedisTypeOK'
    BY <1>31 DEF Expire, RedisTypeOK, Uid, redisVars
  <2> QED
    BY <2>1, <2>2, <2>3, <2>4, <2>5
<1>32. ASSUME NEW s \in Server, Crash(s)
     PROVE  TypeOK'
  <2>1. ConnTypeOK'
    BY <1>32 DEF Crash, Fault, ConnTypeOK, Uid, connVars
  <2>2. BindTypeOK'
    BY <1>32 DEF Crash, BindTypeOK, Uid
  <2>3. WorkTypeOK'
    BY <1>32 DEF Crash, WorkTypeOK, WorkerPc, Kick, workVars
  <2>4. DealTypeOK'
    BY <1>32 DEF Crash, DealTypeOK, CleanerPc, Uid, cleanVars
  <2>5. RedisTypeOK'
    BY <1>32 DEF Crash, RedisTypeOK, Uid, redisVars
  <2> QED
    BY <2>1, <2>2, <2>3, <2>4, <2>5
<1>33. CASE UNCHANGED vars
  BY <1>33, ConnFrame, BindFrame, WorkFrame, DealFrame, RedisFrame DEF vars
<1> QED
  BY <1>1, <1>2, <1>3, <1>4, <1>5, <1>6, <1>7, <1>8, <1>9, <1>10, <1>11,
    <1>12, <1>13, <1>14, <1>15, <1>16, <1>17, <1>18, <1>19, <1>20, <1>21,
    <1>22, <1>23, <1>24, <1>25, <1>26, <1>27, <1>28, <1>29, <1>30, <1>31,
    <1>32, <1>33 DEF Next, IoStep, LoginStep, DealStep

\* The type invariant holds for every value of the constants, in particular
\* whatever may expire, time out or crash.
THEOREM TypeCorrect == Spec => []TypeOK
<1>1. Init => TypeOK
  BY InitTypeOK
<1>2. TypeOK /\ [Next]_vars => TypeOK'
  BY NextTypeOK
<1> QED
  BY <1>1, <1>2, PTL DEF Spec

-----------------------------------------------------------------------------
(* Mutual exclusion.                                                       *)

\* Workers and cleaners are told apart by their names, and from a free lock.
LEMMA ThreadNames ==
  /\ \A s \in Server : Worker(s) \notin Cleaner
  /\ \A s, t \in Server : Worker(s) = Worker(t) => s = t
  /\ \A s \in Server : OwnerOf(Worker(s)) = s
  /\ Free \notin Thread /\ Orphan \notin Thread
BY LockOwnersAssumption DEF Worker, Cleaner, Timer, Io, OwnerOf

LEMMA ExclusionFrame ==
  LockExclusion /\ UNCHANGED <<que, wpc, cpc, cuid, lock>> => LockExclusion'
BY DEF LockExclusion, InDeal, InLogin, Luid, Cur

\* Every step keeps the critical sections exclusive.
LEMMA NextExclusion ==
  ASSUME LockReliable, TypeOK, LockExclusion, [Next]_vars
  PROVE  LockExclusion'
<1> USE Threads, ThreadNames DEF LockReliable
<1> DEFINE Deals  == \A p \in Cleaner : InDeal(p) => lock[cuid[p]] = p
           Logins == \A s \in Server : InLogin(s) => lock[Luid(s)] = Worker(s)
<1> SUFFICES Deals' /\ Logins'
  BY DEF LockExclusion
<1> Deals /\ Logins
  BY DEF LockExclusion
<1> cpc \in [Cleaner -> CleanerPc] /\ cuid \in [Cleaner -> Uid]
  BY DEF TypeOK, DealTypeOK
<1> lock \in [Uid -> Thread \cup {Free, Orphan}]
  BY DEF TypeOK, RedisTypeOK
<1> wpc \in [Server -> WorkerPc] /\ que \in [Server -> Seq(Session)]
  BY DEF TypeOK, WorkTypeOK
<1>1. ASSUME NEW c \in Session, Accept(c)
     PROVE  Deals' /\ Logins'
  BY <1>1, ExclusionFrame DEF Accept, LockExclusion, workVars, cleanVars, redisVars
<1>2. ASSUME NEW c \in Session, Receive(c)
     PROVE  Deals' /\ Logins'
  BY <1>2, ExclusionFrame DEF Receive, LockExclusion, workVars, cleanVars, redisVars
<1>3. ASSUME NEW c \in Session, Post(c)
     PROVE  Deals' /\ Logins'
  <2>1. Deals'
    BY <1>3 DEF Post, cleanVars, redisVars, InDeal
  <2>2. Logins'
    BY <1>3 DEF Post, redisVars, InLogin, Luid, Cur
  <2> QED
    BY <2>1, <2>2
<1>4. ASSUME NEW c \in Session, ReceiveInvalid(c)
     PROVE  Deals' /\ Logins'
  BY <1>4, ExclusionFrame DEF ReceiveInvalid, LockExclusion, workVars, cleanVars, redisVars
<1>5. ASSUME NEW c \in Session, BadHeader(c)
     PROVE  Deals' /\ Logins'
  BY <1>5, ExclusionFrame DEF BadHeader, LockExclusion, workVars, cleanVars, redisVars
<1>6. ASSUME NEW c \in Session, ReadError(c)
     PROVE  Deals' /\ Logins'
  <2>1. Deals'
    BY <1>6 DEF ReadError, CloseAndDeal, redisVars, InDeal
  <2>2. Logins'
    BY <1>6 DEF ReadError, redisVars, workVars, InLogin, Luid, Cur
  <2> QED
    BY <2>1, <2>2
<1>7. ASSUME NEW c \in Session, WriteError(c)
     PROVE  Deals' /\ Logins'
  <2>1. Deals'
    BY <1>7 DEF WriteError, CloseAndDeal, redisVars, InDeal
  <2>2. Logins'
    BY <1>7 DEF WriteError, redisVars, workVars, InLogin, Luid, Cur
  <2> QED
    BY <2>1, <2>2
<1>8. ASSUME NEW s \in Server, Insert(s)
     PROVE  Deals' /\ Logins'
  BY <1>8, ExclusionFrame DEF Insert, LockExclusion, workVars, cleanVars, redisVars
<1>9. ASSUME NEW s \in Server, NEW expired \in SUBSET SessionsOf(s), Tick(s, expired)
     PROVE  Deals' /\ Logins'
  BY <1>9, ExclusionFrame DEF Tick, LockExclusion, workVars, cleanVars, redisVars
<1>10. ASSUME NEW s \in Server,
              NEW c \in Session, TimerDeal(s, c)
     PROVE  Deals' /\ Logins'
  <2>1. Deals'
    BY <1>10 DEF TimerDeal, CloseAndDeal, redisVars, InDeal
  <2>2. Logins'
    BY <1>10 DEF TimerDeal, redisVars, workVars, InLogin, Luid, Cur
  <2> QED
    BY <2>1, <2>2
<1>11. ASSUME NEW p \in Cleaner, DealLock(p)
     PROVE  Deals' /\ Logins'
  <2>1. Deals'
    BY <1>11 DEF DealLock, Goto, redisVars, InDeal
  <2>2. Logins'
    <3> UNCHANGED <<que, wpc>>
      BY <1>11 DEF DealLock, workVars
    <3> SUFFICES ASSUME NEW s \in Server, InLogin(s)
                 PROVE  lock'[Luid(s)] = lock[Luid(s)]
      BY DEF InLogin, Luid, Cur
    <3> Luid(s) \in Uid
      BY CurrentLogin DEF InLogin, Uid
    <3> QED
      BY <1>11 DEF DealLock, Goto, redisVars, InDeal
  <2> QED
    BY <2>1, <2>2
<1>12. ASSUME NEW p \in Cleaner, DealGet(p)
     PROVE  Deals' /\ Logins'
  <2>1. Deals'
    BY <1>12 DEF DealGet, Goto, redisVars, InDeal
  <2>2. Logins'
    <3> UNCHANGED <<que, wpc>>
      BY <1>12 DEF DealGet, workVars
    <3> SUFFICES ASSUME NEW s \in Server, InLogin(s)
                 PROVE  lock'[Luid(s)] = lock[Luid(s)]
      BY DEF InLogin, Luid, Cur
    <3> Luid(s) \in Uid
      BY CurrentLogin DEF InLogin, Uid
    <3> QED
      BY <1>12 DEF DealGet, Goto, redisVars, InDeal
  <2> QED
    BY <2>1, <2>2
<1>13. ASSUME NEW p \in Cleaner, DealDelSession(p)
     PROVE  Deals' /\ Logins'
  <2>1. Deals'
    BY <1>13 DEF DealDelSession, Goto, redisVars, InDeal
  <2>2. Logins'
    <3> UNCHANGED <<que, wpc>>
      BY <1>13 DEF DealDelSession, workVars
    <3> SUFFICES ASSUME NEW s \in Server, InLogin(s)
                 PROVE  lock'[Luid(s)] = lock[Luid(s)]
      BY DEF InLogin, Luid, Cur
    <3> Luid(s) \in Uid
      BY CurrentLogin DEF InLogin, Uid
    <3> QED
      BY <1>13 DEF DealDelSession, Goto, redisVars, InDeal
  <2> QED
    BY <2>1, <2>2
<1>14. ASSUME NEW p \in Cleaner, DealDelIp(p)
     PROVE  Deals' /\ Logins'
  <2>1. Deals'
    BY <1>14 DEF DealDelIp, Goto, redisVars, InDeal
  <2>2. Logins'
    <3> UNCHANGED <<que, wpc>>
      BY <1>14 DEF DealDelIp, workVars
    <3> SUFFICES ASSUME NEW s \in Server, InLogin(s)
                 PROVE  lock'[Luid(s)] = lock[Luid(s)]
      BY DEF InLogin, Luid, Cur
    <3> Luid(s) \in Uid
      BY CurrentLogin DEF InLogin, Uid
    <3> QED
      BY <1>14 DEF DealDelIp, Goto, redisVars, InDeal
  <2> QED
    BY <2>1, <2>2
<1>15. ASSUME NEW p \in Cleaner, DealClear(p)
     PROVE  Deals' /\ Logins'
  <2>1. Deals'
    BY <1>15 DEF DealClear, Goto, redisVars, InDeal
  <2>2. Logins'
    <3> UNCHANGED <<que, wpc>>
      BY <1>15 DEF DealClear, workVars
    <3> SUFFICES ASSUME NEW s \in Server, InLogin(s)
                 PROVE  lock'[Luid(s)] = lock[Luid(s)]
      BY DEF InLogin, Luid, Cur
    <3> Luid(s) \in Uid
      BY CurrentLogin DEF InLogin, Uid
    <3> QED
      BY <1>15 DEF DealClear, Goto, redisVars, InDeal
  <2> QED
    BY <2>1, <2>2
<1>16. ASSUME NEW p \in Cleaner, DealRelease(p)
     PROVE  Deals' /\ Logins'
  <2>1. Deals'
    BY <1>16 DEF DealRelease, Goto, redisVars, InDeal, ReleaseLock
  <2>2. Logins'
    <3> UNCHANGED <<que, wpc>>
      BY <1>16 DEF DealRelease, workVars
    <3> SUFFICES ASSUME NEW s \in Server, InLogin(s)
                 PROVE  lock'[Luid(s)] = lock[Luid(s)]
      BY DEF InLogin, Luid, Cur
    <3> Luid(s) \in Uid
      BY CurrentLogin DEF InLogin, Uid
    <3> QED
      BY <1>16 DEF DealRelease, Goto, redisVars, InDeal, ReleaseLock
  <2> QED
    BY <2>1, <2>2
<1>17. ASSUME NEW s \in Server, LoginBegin(s)
     PROVE  Deals' /\ Logins'
  <2> UNCHANGED que
    BY <1>17 DEF LoginBegin
  <2> wpc[s] # "idle" => Luid(s) \in Uid
    BY CurrentLogin DEF Uid
  <2>1. Deals'
    BY <1>17 DEF LoginBegin, Step, cleanVars, redisVars, InDeal, InLogin
  <2>2. Logins'
    <3> SUFFICES ASSUME NEW t \in Server, InLogin(t)'
                 PROVE  lock'[Luid(t)] = Worker(t)
      BY DEF Luid, Cur
    <3> wpc[t] # "idle" => Luid(t) \in Uid
      BY CurrentLogin DEF Uid
    <3> QED
      BY <1>17 DEF LoginBegin, Step, redisVars, InLogin
  <2> QED
    BY <2>1, <2>2
<1>18. ASSUME NEW s \in Server, LoginLock(s)
     PROVE  Deals' /\ Logins'
  <2> UNCHANGED que
    BY <1>18 DEF LoginLock
  <2> wpc[s] # "idle" => Luid(s) \in Uid
    BY CurrentLogin DEF Uid
  <2>1. Deals'
    BY <1>18 DEF LoginLock, Step, cleanVars, redisVars, InDeal, InLogin
  <2>2. Logins'
    <3> SUFFICES ASSUME NEW t \in Server, InLogin(t)'
                 PROVE  lock'[Luid(t)] = Worker(t)
      BY DEF Luid, Cur
    <3> wpc[t] # "idle" => Luid(t) \in Uid
      BY CurrentLogin DEF Uid
    <3> QED
      BY <1>18 DEF LoginLock, Step, redisVars, InLogin
  <2> QED
    BY <2>1, <2>2
<1>19. ASSUME NEW s \in Server, LoginGetIp(s)
     PROVE  Deals' /\ Logins'
  <2> UNCHANGED que
    BY <1>19 DEF LoginGetIp
  <2> wpc[s] # "idle" => Luid(s) \in Uid
    BY CurrentLogin DEF Uid
  <2>1. Deals'
    BY <1>19 DEF LoginGetIp, Step, cleanVars, redisVars, InDeal, InLogin
  <2>2. Logins'
    <3> SUFFICES ASSUME NEW t \in Server, InLogin(t)'
                 PROVE  lock'[Luid(t)] = Worker(t)
      BY DEF Luid, Cur
    <3> wpc[t] # "idle" => Luid(t) \in Uid
      BY CurrentLogin DEF Uid
    <3> QED
      BY <1>19 DEF LoginGetIp, Step, redisVars, InLogin
  <2> QED
    BY <2>1, <2>2
<1>20. ASSUME NEW s \in Server, LoginEvict(s)
     PROVE  Deals' /\ Logins'
  <2> UNCHANGED que
    BY <1>20 DEF LoginEvict
  <2> wpc[s] # "idle" => Luid(s) \in Uid
    BY CurrentLogin DEF Uid
  <2>1. Deals'
    BY <1>20 DEF LoginEvict, Step, cleanVars, redisVars, InDeal, InLogin
  <2>2. Logins'
    <3> SUFFICES ASSUME NEW t \in Server, InLogin(t)'
                 PROVE  lock'[Luid(t)] = Worker(t)
      BY DEF Luid, Cur
    <3> wpc[t] # "idle" => Luid(t) \in Uid
      BY CurrentLogin DEF Uid
    <3> QED
      BY <1>20 DEF LoginEvict, Step, redisVars, InLogin
  <2> QED
    BY <2>1, <2>2
<1>21. ASSUME NEW s \in Server, LoginKicked(s)
     PROVE  Deals' /\ Logins'
  <2> UNCHANGED que
    BY <1>21 DEF LoginKicked
  <2> wpc[s] # "idle" => Luid(s) \in Uid
    BY CurrentLogin DEF Uid
  <2>1. Deals'
    BY <1>21 DEF LoginKicked, Step, cleanVars, redisVars, InDeal, InLogin
  <2>2. Logins'
    <3> SUFFICES ASSUME NEW t \in Server, InLogin(t)'
                 PROVE  lock'[Luid(t)] = Worker(t)
      BY DEF Luid, Cur
    <3> wpc[t] # "idle" => Luid(t) \in Uid
      BY CurrentLogin DEF Uid
    <3> QED
      BY <1>21 DEF LoginKicked, Step, redisVars, InLogin
  <2> QED
    BY <2>1, <2>2
<1>22. ASSUME NEW s \in Server, LoginSetUid(s)
     PROVE  Deals' /\ Logins'
  <2> UNCHANGED que
    BY <1>22 DEF LoginSetUid
  <2> wpc[s] # "idle" => Luid(s) \in Uid
    BY CurrentLogin DEF Uid
  <2>1. Deals'
    BY <1>22 DEF LoginSetUid, Step, cleanVars, redisVars, InDeal, InLogin
  <2>2. Logins'
    <3> SUFFICES ASSUME NEW t \in Server, InLogin(t)'
                 PROVE  lock'[Luid(t)] = Worker(t)
      BY DEF Luid, Cur
    <3> wpc[t] # "idle" => Luid(t) \in Uid
      BY CurrentLogin DEF Uid
    <3> QED
      BY <1>22 DEF LoginSetUid, Step, redisVars, InLogin
  <2> QED
    BY <2>1, <2>2
<1>23. ASSUME NEW s \in Server, LoginSetIp(s)
     PROVE  Deals' /\ Logins'
  <2> UNCHANGED que
    BY <1>23 DEF LoginSetIp
  <2> wpc[s] # "idle" => Luid(s) \in Uid
    BY CurrentLogin DEF Uid
  <2>1. Deals'
    BY <1>23 DEF LoginSetIp, Step, cleanVars, redisVars, InDeal, InLogin
  <2>2. Logins'
    <3> SUFFICES ASSUME NEW t \in Server, InLogin(t)'
                 PROVE  lock'[Luid(t)] = Worker(t)
      BY DEF Luid, Cur
    <3> wpc[t] # "idle" => Luid(t) \in Uid
      BY CurrentLogin DEF Uid
    <3> QED
      BY <1>23 DEF LoginSetIp, Step, redisVars, InLogin
  <2> QED
    BY <2>1, <2>2
<1>24. ASSUME NEW s \in Server, LoginSetLocal(s)
     PROVE  Deals' /\ Logins'
  <2> UNCHANGED que
    BY <1>24 DEF LoginSetLocal
  <2> wpc[s] # "idle" => Luid(s) \in Uid
    BY CurrentLogin DEF Uid
  <2>1. Deals'
    BY <1>24 DEF LoginSetLocal, Step, cleanVars, redisVars, InDeal, InLogin
  <2>2. Logins'
    <3> SUFFICES ASSUME NEW t \in Server, InLogin(t)'
                 PROVE  lock'[Luid(t)] = Worker(t)
      BY DEF Luid, Cur
    <3> wpc[t] # "idle" => Luid(t) \in Uid
      BY CurrentLogin DEF Uid
    <3> QED
      BY <1>24 DEF LoginSetLocal, Step, redisVars, InLogin
  <2> QED
    BY <2>1, <2>2
<1>25. ASSUME NEW s \in Server, LoginSetSession(s)
     PROVE  Deals' /\ Logins'
  <2> UNCHANGED que
    BY <1>25 DEF LoginSetSession
  <2> wpc[s] # "idle" => Luid(s) \in Uid
    BY CurrentLogin DEF Uid
  <2>1. Deals'
    BY <1>25 DEF LoginSetSession, Step, cleanVars, redisVars, InDeal, InLogin
  <2>2. Logins'
    <3> SUFFICES ASSUME NEW t \in Server, InLogin(t)'
                 PROVE  lock'[Luid(t)] = Worker(t)
      BY DEF Luid, Cur
    <3> wpc[t] # "idle" => Luid(t) \in Uid
      BY CurrentLogin DEF Uid
    <3> QED
      BY <1>25 DEF LoginSetSession, Step, redisVars, InLogin
  <2> QED
    BY <2>1, <2>2
<1>26. ASSUME NEW s \in Server, LoginRelease(s)
     PROVE  Deals' /\ Logins'
  <2> UNCHANGED que
    BY <1>26 DEF LoginRelease
  <2> wpc[s] # "idle" => Luid(s) \in Uid
    BY CurrentLogin DEF Uid
  <2>1. Deals'
    BY <1>26 DEF LoginRelease, Step, cleanVars, redisVars, InDeal, InLogin, ReleaseLock
  <2>2. Logins'
    <3> SUFFICES ASSUME NEW t \in Server, InLogin(t)'
                 PROVE  lock'[Luid(t)] = Worker(t)
      BY DEF Luid, Cur
    <3> wpc[t] # "idle" => Luid(t) \in Uid
      BY CurrentLogin DEF Uid
    <3> QED
      BY <1>26 DEF LoginRelease, Step, redisVars, InLogin, ReleaseLock
  <2> QED
    BY <2>1, <2>2
<1>27. ASSUME NEW s \in Server, LoginReply(s)
     PROVE  Deals' /\ Logins'
  <2>1. Deals'
    BY <1>27 DEF LoginReply, cleanVars, redisVars, InDeal
  <2>2. Logins'
    BY <1>27 DEF LoginReply, Step, redisVars, InLogin, Luid, Cur
  <2> QED
    BY <2>1, <2>2
<1>28. ASSUME NEW k \in kicks, KickLookup(k)
     PROVE  Deals' /\ Logins'
  BY <1>28, ExclusionFrame DEF KickLookup, LockExclusion, workVars, cleanVars, redisVars
<1>29. ASSUME NEW k \in kicks, KickClear(k)
     PROVE  Deals' /\ Logins'
  BY <1>29, ExclusionFrame DEF KickClear, LockExclusion, workVars, cleanVars, redisVars
<1>30. ASSUME NEW k \in kicks, KickLost(k)
     PROVE  Deals' /\ Logins'
  BY <1>30, ExclusionFrame DEF KickLost, LockExclusion, workVars, cleanVars, redisVars
<1>31. ASSUME NEW u \in Uid, Expire(u)
     PROVE  Deals' /\ Logins'
  <2>1. Deals'
    BY <1>31 DEF Expire, cleanVars, InDeal
  <2>2. Logins'
    <3> UNCHANGED <<que, wpc>>
      BY <1>31 DEF Expire, workVars
    <3> SUFFICES ASSUME NEW s \in Server, InLogin(s)
                 PROVE  lock'[Luid(s)] = lock[Luid(s)]
      BY DEF InLogin, Luid, Cur
    <3> QED
      BY <1>31 DEF Expire
  <2> QED
    BY <2>1, <2>2
<1>32. ASSUME NEW s \in Server, Crash(s)
     PROVE  Deals' /\ Logins'
  <2>1. Deals'
    <3> SUFFICES ASSUME NEW p \in Cleaner, InDeal(p)'
                 PROVE  lock'[cuid'[p]] = p
      OBVIOUS
    <3>1. OwnerOf(p) # s /\ cpc'[p] = cpc[p] /\ cuid'[p] = cuid[p]
      BY <1>32 DEF Crash, InDeal
    <3>2. lock[cuid[p]] = p
      BY <3>1 DEF InDeal
    <3> QED
      BY <1>32, <3>1, <3>2 DEF Crash
  <2>2. Logins'
    <3> SUFFICES ASSUME NEW t \in Server, InLogin(t)'
                 PROVE  lock'[Luid(t)'] = Worker(t)
      OBVIOUS
    <3>1. t # s /\ wpc'[t] = wpc[t] /\ que'[t] = que[t]
      BY <1>32 DEF Crash, InLogin
    <3>2. lock[Luid(t)] = Worker(t) /\ Luid(t)' = Luid(t)
      BY <3>1 DEF InLogin, Luid, Cur
    <3>3. Luid(t) \in Uid
      BY <3>1, CurrentLogin DEF InLogin, Uid
    <3> QED
      BY <1>32, <3>1, <3>2, <3>3 DEF Crash
  <2> QED
    BY <2>1, <2>2
<1>33. CASE UNCHANGED vars
  BY <1>33, ExclusionFrame DEF LockExclusion, vars, workVars, cleanVars, redisVars
<1> QED
  BY <1>1, <1>2, <1>3, <1>4, <1>5, <1>6, <1>7, <1>8, <1>9, <1>10, <1>11,
    <1>12, <1>13, <1>14, <1>15, <1>16, <1>17, <1>18, <1>19, <1>20, <1>21,
    <1>22, <1>23, <1>24, <1>25, <1>26, <1>27, <1>28, <1>29, <1>30, <1>31,
    <1>32, <1>33 DEF Next, IoStep, LoginStep, DealStep

\* While Redis keeps the lock of every live holder and waiters wait, two threads
\* are never inside a critical section for the same user, on whatever servers
\* they run and whichever servers crash.
THEOREM Exclusion ==
  ASSUME LockReliable
  PROVE  Spec => []LockExclusion
<1>1. Init => LockExclusion
  BY DEF Init, LockExclusion, InDeal, InLogin
<1>2. TypeOK /\ LockExclusion /\ [Next]_vars => LockExclusion'
  BY NextExclusion
<1> QED
  BY <1>1, <1>2, TypeCorrect, PTL DEF Spec

-----------------------------------------------------------------------------
(* Who may free a lock.                                                    *)

\* A step that leaves the locks alone, or the places of all threads, frees no
\* lock on behalf of the wrong thread.
OwnedRelease(u) ==
  lock[u] \in Thread /\ lock'[u] = Free =>
    \A p \in Thread \ {lock[u]} :
      IF p \in Cleaner THEN cpc'[p] = cpc[p] ELSE wpc'[p[2]] = wpc[p[2]]

\* Only the holder, or Redis, frees a lock: in every step, for every setting of
\* the constants.
LEMMA StepOwnedRelease ==
  ASSUME TypeOK, [Next]_vars, NEW u \in Uid
  PROVE  OwnedRelease(u)
<1> USE Threads, ThreadNames
<1> SUFFICES ASSUME lock[u] \in Thread, lock'[u] = Free,
                    NEW p \in Thread \ {lock[u]}
             PROVE  IF p \in Cleaner THEN cpc'[p] = cpc[p]
                                     ELSE wpc'[p[2]] = wpc[p[2]]
  BY DEF OwnedRelease
<1> lock[u] # Free
  OBVIOUS
<1> /\ cpc \in [Cleaner -> CleanerPc] /\ cuid \in [Cleaner -> Uid]
    /\ lock \in [Uid -> Thread \cup {Free, Orphan}]
    /\ wpc \in [Server -> WorkerPc]
  BY DEF TypeOK, DealTypeOK, RedisTypeOK, WorkTypeOK
<1>1. ASSUME NEW q \in Cleaner, DealRelease(q)
      PROVE  cpc'[p] = cpc[p] /\ wpc' = wpc
  <2>1. lock[u] = q
    BY <1>1 DEF DealRelease, ReleaseLock
  <2> QED
    BY <1>1, <2>1 DEF DealRelease, Goto, workVars
<1>2. ASSUME NEW q \in Cleaner, DealLock(q)
      PROVE  FALSE
  BY <1>2 DEF DealLock
<1>3. ASSUME NEW s \in Server, LoginRelease(s)
      PROVE  IF p \in Cleaner THEN cpc'[p] = cpc[p] ELSE wpc'[p[2]] = wpc[p[2]]
  <2>1. Luid(s) \in Uid
    BY <1>3, CurrentLogin DEF LoginRelease, Step, Uid
  <2>2. lock[u] = Worker(s)
    BY <1>3, <2>1 DEF LoginRelease, ReleaseLock
  <2>3. p \in Cleaner \/ \E t \in Server : p = Worker(t)
    BY DEF Thread
  <2>4. ASSUME NEW t \in Server, p = Worker(t)
        PROVE  p[2] = t /\ t # s
    BY <2>2, <2>4 DEF Worker
  <2> QED
    BY <1>3, <2>3, <2>4 DEF LoginRelease, Step, cleanVars
<1>4. ASSUME NEW s \in Server, LoginLock(s)
      PROVE  FALSE
  <2>1. Luid(s) \in Uid
    BY <1>4, CurrentLogin DEF LoginLock, Step, Uid
  <2> QED
    BY <1>4, <2>1 DEF LoginLock
<1>5. ASSUME NEW v \in Uid, Expire(v)
      PROVE  cpc' = cpc /\ wpc' = wpc
  BY <1>5 DEF Expire, workVars, cleanVars
<1>6. ASSUME NEW s \in Server, Crash(s)
      PROVE  FALSE
  BY <1>6, LockOwnersAssumption DEF Crash
<1>7. ASSUME NEW c \in Session, Accept(c) \/ IoStep(c)
      PROVE  FALSE
  BY <1>7 DEF Accept, IoStep, Receive, Post, ReceiveInvalid, BadHeader,
    ReadError, WriteError, redisVars
<1>8. ASSUME NEW s \in Server,
             \/ Insert(s) \/ LoginBegin(s) \/ LoginGetIp(s) \/ LoginEvict(s)
             \/ LoginKicked(s) \/ LoginSetUid(s) \/ LoginSetIp(s)
             \/ LoginSetLocal(s) \/ LoginSetSession(s) \/ LoginReply(s)
      PROVE  FALSE
  BY <1>8 DEF Insert, LoginBegin, LoginGetIp, LoginEvict, LoginKicked,
    LoginSetUid, LoginSetIp, LoginSetLocal, LoginSetSession, LoginReply, redisVars
<1>9. ASSUME NEW s \in Server, NEW expired \in SUBSET SessionsOf(s), Tick(s, expired)
      PROVE  FALSE
  BY <1>9 DEF Tick, redisVars
<1>10. ASSUME NEW s \in Server, NEW c \in Session, TimerDeal(s, c)
      PROVE  FALSE
  BY <1>10 DEF TimerDeal, redisVars
<1>11. ASSUME NEW q \in Cleaner,
              DealGet(q) \/ DealDelSession(q) \/ DealDelIp(q) \/ DealClear(q)
      PROVE  FALSE
  BY <1>11 DEF DealGet, DealDelSession, DealDelIp, DealClear, redisVars
<1>12. ASSUME NEW k \in kicks, KickLookup(k) \/ KickClear(k) \/ KickLost(k)
      PROVE  FALSE
  BY <1>12 DEF KickLookup, KickClear, KickLost, redisVars
<1>13. CASE UNCHANGED vars
  BY <1>13 DEF vars, redisVars
<1> QED
  BY <1>1, <1>2, <1>3, <1>4, <1>5, <1>6, <1>7, <1>8, <1>9, <1>10, <1>11, <1>12,
    <1>13 DEF Next, LoginStep, DealStep

\* However late a release comes, it frees no lock that has passed to somebody
\* else, whatever the lock's time-outs and whichever servers crash.
THEOREM OwnershipKept == Spec => LockOwnership
<1>1. TypeOK /\ [Next]_vars =>
        [\A u \in Uid : OwnedRelease(u)]_vars
  BY StepOwnedRelease
<1> QED
  BY <1>1, TypeCorrect, PTL DEF Spec, LockOwnership, OwnedRelease

-----------------------------------------------------------------------------
(* The bindings of UserMgr.                                                *)

\* LocalBinding needs to know that the connection a login is about to bind has
\* been marked with its user already.
MarkedFirst ==
  \A s \in Server : wpc[s] \in {"setIp", "setLocal"} => userUid[Cur(s)] = Luid(s)
Binding == LocalBinding /\ MarkedFirst

\* A step that only removes bindings, marks connections with their own users,
\* and brings no worker to the point of binding keeps the bindings local.
LEMMA BindingStep ==
  ASSUME TypeOK, Binding,
         \A s \in Server, u \in Uid :
           userSession'[s][u] \in {NoSession, userSession[s][u]},
         \A c \in Session : userUid'[c] \in {userUid[c], Of[c]},
         \A s \in Server :
           wpc'[s] \in {"setIp", "setLocal"} =>
             wpc[s] \in {"setIp", "setLocal"} /\ Cur(s)' = Cur(s)
  PROVE  Binding'
<1>1. LocalBinding'
  <2> SUFFICES ASSUME NEW s \in Server, NEW u \in User,
                      userSession'[s][u] # NoSession
               PROVE  /\ At[userSession'[s][u]] = s
                      /\ userUid'[userSession'[s][u]] = u
    BY DEF LocalBinding
  <2>1. u \in Uid /\ userSession'[s][u] = userSession[s][u]
    BY DEF Uid
  <2>2. userSession[s][u] \in Session /\ Of[userSession[s][u]] = u
    BY <2>1 DEF TypeOK, BindTypeOK
  <2> QED
    BY <2>1, <2>2 DEF Binding, LocalBinding
<1>2. MarkedFirst'
  <2> SUFFICES ASSUME NEW s \in Server, wpc'[s] \in {"setIp", "setLocal"}
               PROVE  userUid'[Cur(s)'] = Of[Cur(s)']
    BY DEF MarkedFirst, Luid
  <2>1. Cur(s)' = Cur(s) /\ Cur(s) \in Session
    BY CurrentLogin
  <2> QED
    BY <2>1 DEF Binding, MarkedFirst, Luid
<1> QED
  BY <1>1, <1>2 DEF Binding

\* ClearSession only removes bindings.
LEMMA ClearSessionShrinks ==
  ASSUME TypeOK, NEW c \in Session, ClearSession(c), NEW s \in Server, NEW u \in Uid
  PROVE  userSession'[s][u] \in {NoSession, userSession[s][u]}
<1>1. userUid[c] \in Uid /\ At[c] \in Server
  BY ConstantsAssumption DEF TypeOK, ConnTypeOK
<1>2. userSession \in [Server -> [Uid -> Session \cup {NoSession}]]
  BY DEF TypeOK, BindTypeOK
<1> QED
  BY <1>1, <1>2 DEF ClearSession, RmvUserSession

\* Every step keeps the bindings local.
LEMMA NextBinding ==
  ASSUME TypeOK, Binding, [Next]_vars
  PROVE  Binding'
<1> USE Threads, ConstantsAssumption
<1> /\ userSession \in [Server -> [Uid -> Session \cup {NoSession}]]
    /\ wpc \in [Server -> WorkerPc] /\ que \in [Server -> Seq(Session)]
    /\ userUid \in [Session -> Uid]
  BY DEF TypeOK, BindTypeOK, WorkTypeOK, ConnTypeOK
<1> DEFINE Shrinks == \A s \in Server, u \in Uid :
                        userSession'[s][u] \in {NoSession, userSession[s][u]}
           Marks == \A c \in Session : userUid'[c] \in {userUid[c], Of[c]}
           Comes == \A s \in Server :
                      wpc'[s] \in {"setIp", "setLocal"} =>
                        wpc[s] \in {"setIp", "setLocal"} /\ Cur(s)' = Cur(s)
<1>a. Shrinks /\ Marks /\ Comes => Binding'
  BY BindingStep
<1>b. UNCHANGED <<que, wpc>> => Comes
  BY DEF Cur
<1>1. ASSUME NEW c \in Session,
             Accept(c) \/ Receive(c) \/ ReceiveInvalid(c) \/ ReadError(c) \/ WriteError(c)
      PROVE  Binding'
  <2>1. UNCHANGED <<userSession, userUid, que, wpc>>
    BY <1>1 DEF Accept, Receive, ReceiveInvalid, ReadError, WriteError, workVars
  <2> QED
    BY <2>1, <1>a, <1>b
<1>2. ASSUME NEW c \in Session, Post(c)
      PROVE  Binding'
  <2>1. Comes
    BY <1>2 DEF Post, Cur
  <2>2. UNCHANGED <<userSession, userUid>>
    BY <1>2 DEF Post
  <2> QED
    BY <2>1, <2>2, <1>a
<1>3. ASSUME NEW c \in Session, BadHeader(c)
      PROVE  Binding'
  <2>1. UNCHANGED <<userUid, que, wpc>> /\ ClearSession(c)
    BY <1>3 DEF BadHeader, workVars
  <2>2. Shrinks
    BY <2>1, ClearSessionShrinks
  <2> QED
    BY <2>1, <2>2, <1>a, <1>b
<1>4. ASSUME NEW s \in Server, Insert(s) \/ LoginSetSession(s) \/ LoginRelease(s)
                                \/ LoginGetIp(s) \/ LoginKicked(s) \/ LoginBegin(s)
                                \/ LoginLock(s)
      PROVE  Binding'
  <2>1. UNCHANGED <<userSession, userUid, que>>
    BY <1>4 DEF Insert, LoginSetSession, LoginRelease, LoginGetIp, LoginKicked,
      LoginBegin, LoginLock, connVars, workVars
  <2>2. \A t \in Server : wpc'[t] \in {"setIp", "setLocal"} => wpc'[t] = wpc[t]
    BY <1>4 DEF Insert, LoginSetSession, LoginRelease, LoginGetIp, LoginKicked,
      LoginBegin, LoginLock, Step, workVars
  <2> QED
    BY <2>1, <2>2, <1>a DEF Cur
<1>5. ASSUME NEW s \in Server, LoginEvict(s)
      PROVE  Binding'
  <2>1. UNCHANGED <<userUid, que>>
    BY <1>5 DEF LoginEvict
  <2>2. Comes
    BY <1>5, <2>1 DEF LoginEvict, Step, Cur
  <2>3. Luid(s) \in Uid
    BY <1>5, CurrentLogin DEF LoginEvict, Step, Uid
  <2>4. CASE userSession[s][Luid(s)] = NoSession
    BY <1>5, <2>1, <2>2, <2>4, <1>a DEF LoginEvict
  <2>5. CASE userSession[s][Luid(s)] # NoSession
    <3>1. Shrinks
      BY <1>5, <2>3, <2>5, ClearSessionShrinks DEF LoginEvict
    <3> QED
      BY <2>1, <2>2, <3>1, <1>a
  <2> QED
    BY <2>4, <2>5
<1>6. ASSUME NEW s \in Server, LoginSetUid(s)
      PROVE  Binding'
  <2>1. Cur(s) \in Session /\ Luid(s) = Of[Cur(s)] /\ UNCHANGED <<que, userSession>>
    BY <1>6, CurrentLogin DEF LoginSetUid, Step, Luid
  <2>2. userUid' = [userUid EXCEPT ![Cur(s)] = Of[Cur(s)]]
    BY <1>6, <2>1 DEF LoginSetUid
  <2>3. LocalBinding'
    <3> SUFFICES ASSUME NEW t \in Server, NEW u \in User, userSession[t][u] # NoSession
                 PROVE  /\ At[userSession[t][u]] = t
                        /\ userUid'[userSession[t][u]] = u
      BY <2>1 DEF LocalBinding
    <3>1. userSession[t][u] \in Session /\ Of[userSession[t][u]] = u
      BY DEF TypeOK, BindTypeOK, Uid
    <3> QED
      BY <2>2, <3>1 DEF Binding, LocalBinding
  <2>4. MarkedFirst'
    <3> SUFFICES ASSUME NEW t \in Server, wpc'[t] \in {"setIp", "setLocal"}
                 PROVE  userUid'[Cur(t)] = Of[Cur(t)]
      BY <2>1 DEF MarkedFirst, Cur, Luid
    <3>1. wpc[t] # "idle" /\ (t = s \/ wpc'[t] = wpc[t])
      BY <1>6 DEF LoginSetUid, Step
    <3>2. Cur(t) \in Session
      BY <3>1, CurrentLogin
    <3> QED
      BY <2>2, <3>1, <3>2 DEF Binding, MarkedFirst, Luid
  <2> QED
    BY <2>3, <2>4 DEF Binding
<1>7. ASSUME NEW s \in Server, LoginSetIp(s)
      PROVE  Binding'
  <2>1. UNCHANGED <<userSession, userUid, que>>
    BY <1>7 DEF LoginSetIp, connVars
  <2>2. Comes
    BY <1>7, <2>1 DEF LoginSetIp, Step, Cur
  <2> QED
    BY <2>1, <2>2, <1>a
<1>8. ASSUME NEW s \in Server, LoginSetLocal(s)
      PROVE  Binding'
  <2>1. Cur(s) \in Session /\ At[Cur(s)] = s /\ Luid(s) \in Uid
    BY <1>8, CurrentLogin DEF LoginSetLocal, Step, Uid
  <2>2. userUid[Cur(s)] = Luid(s)
    BY <1>8 DEF LoginSetLocal, Step, Binding, MarkedFirst
  <2>3. UNCHANGED <<userUid, que>>
    BY <1>8 DEF LoginSetLocal, connVars
  <2>4. userSession' = [userSession EXCEPT ![s][Luid(s)] = Cur(s)]
    BY <1>8 DEF LoginSetLocal
  <2>5. ASSUME NEW t \in Server, NEW u \in User
        PROVE  userSession'[t][u] = IF t = s /\ u = Luid(s) THEN Cur(s)
                                    ELSE userSession[t][u]
    BY <2>1, <2>4 DEF Uid
  <2>6. LocalBinding'
    <3> SUFFICES ASSUME NEW t \in Server, NEW u \in User, userSession'[t][u] # NoSession
                 PROVE  /\ At[userSession'[t][u]] = t
                        /\ userUid[userSession'[t][u]] = u
      BY <2>3 DEF LocalBinding
    <3>1. CASE t = s /\ u = Luid(s)
      BY <2>1, <2>2, <2>5, <3>1
    <3>2. CASE ~(t = s /\ u = Luid(s))
      BY <2>5, <3>2 DEF LocalBinding, Binding
    <3> QED
      BY <3>1, <3>2
  <2>7. MarkedFirst'
    BY <1>8, <2>3 DEF LoginSetLocal, Step, Binding, MarkedFirst, Cur, Luid
  <2> QED
    BY <2>6, <2>7 DEF Binding
<1>9. ASSUME NEW s \in Server, LoginReply(s)
      PROVE  Binding'
  <2>1. UNCHANGED <<userSession, userUid>>
    BY <1>9 DEF LoginReply
  <2>2. Comes
    BY <1>9 DEF LoginReply, Step, Cur
  <2> QED
    BY <2>1, <2>2, <1>a
<1>10. ASSUME NEW s \in Server, NEW expired \in SUBSET SessionsOf(s), Tick(s, expired)
      PROVE  Binding'
  <2>1. UNCHANGED <<userSession, userUid, que, wpc>>
    BY <1>10 DEF Tick, workVars
  <2> QED
    BY <2>1, <1>a, <1>b
<1>11. ASSUME NEW s \in Server, NEW c \in Session, TimerDeal(s, c)
      PROVE  Binding'
  <2>1. UNCHANGED <<userSession, userUid, que, wpc>>
    BY <1>11 DEF TimerDeal, workVars
  <2> QED
    BY <2>1, <1>a, <1>b
<1>12. ASSUME NEW p \in Cleaner, DealLock(p) \/ DealGet(p) \/ DealDelSession(p)
                                 \/ DealDelIp(p) \/ DealRelease(p)
      PROVE  Binding'
  <2>1. UNCHANGED <<userSession, userUid, que, wpc>>
    BY <1>12 DEF DealLock, DealGet, DealDelSession, DealDelIp, DealRelease,
      workVars, connVars
  <2> QED
    BY <2>1, <1>a, <1>b
<1>13. ASSUME NEW p \in Cleaner, DealClear(p)
      PROVE  Binding'
  <2>1. UNCHANGED <<userUid, que, wpc>> /\ ClearSession(csess[p])
    BY <1>13 DEF DealClear, workVars
  <2>2. csess[p] \in Session
    BY <1>13 DEF DealClear, Goto, TypeOK, DealTypeOK
  <2>3. Shrinks
    BY <2>1, <2>2, ClearSessionShrinks
  <2> QED
    BY <2>1, <2>3, <1>a, <1>b
<1>14. ASSUME NEW k \in kicks, KickLookup(k) \/ KickLost(k)
      PROVE  Binding'
  <2>1. UNCHANGED <<userSession, userUid, que, wpc>>
    BY <1>14 DEF KickLookup, KickLost, connVars
  <2> QED
    BY <2>1, <1>a, <1>b
<1>15. ASSUME NEW k \in kicks, KickClear(k)
      PROVE  Binding'
  <2>1. UNCHANGED <<userUid, que, wpc>> /\ ClearSession(k.victim)
    BY <1>15 DEF KickClear
  <2>2. k.victim \in Session
    BY <1>15 DEF KickClear, TypeOK, WorkTypeOK, Kick
  <2>3. Shrinks
    BY <2>1, <2>2, ClearSessionShrinks
  <2> QED
    BY <2>1, <2>3, <1>a, <1>b
<1>16. ASSUME NEW u \in Uid, Expire(u)
      PROVE  Binding'
  <2>1. UNCHANGED <<userSession, userUid, que, wpc>>
    BY <1>16 DEF Expire, workVars, connVars
  <2> QED
    BY <2>1, <1>a, <1>b
<1>17. ASSUME NEW s \in Server, Crash(s)
      PROVE  Binding'
  <2>1. ASSUME NEW t \in Server, NEW u \in Uid
        PROVE  userSession'[t][u] = IF t = s THEN NoSession ELSE userSession[t][u]
    BY <1>17 DEF Crash
  <2>2. ASSUME NEW c \in Session, At[c] # s
        PROVE  userUid'[c] = userUid[c]
    BY <1>17, <2>2 DEF Crash
  <2>3. LocalBinding'
    <3> SUFFICES ASSUME NEW t \in Server, NEW u \in User, userSession'[t][u] # NoSession
                 PROVE  /\ At[userSession'[t][u]] = t
                        /\ userUid'[userSession'[t][u]] = u
      BY DEF LocalBinding
    <3>1. t # s /\ userSession'[t][u] = userSession[t][u]
      BY <2>1 DEF Uid
    <3>2. userSession[t][u] \in Session /\ At[userSession[t][u]] = t
      BY <3>1 DEF TypeOK, BindTypeOK, Uid
    <3> QED
      BY <2>2, <3>1, <3>2 DEF Binding, LocalBinding
  <2>4. MarkedFirst'
    <3> SUFFICES ASSUME NEW t \in Server, wpc'[t] \in {"setIp", "setLocal"}
                 PROVE  userUid'[Cur(t)'] = Of[Cur(t)']
      BY DEF MarkedFirst, Luid
    <3>1. t # s /\ wpc'[t] = wpc[t] /\ Cur(t)' = Cur(t)
      BY <1>17 DEF Crash, Cur
    <3>2. Cur(t) \in Session /\ At[Cur(t)] = t
      BY <3>1, CurrentLogin
    <3> QED
      BY <2>2, <3>1, <3>2 DEF Binding, MarkedFirst, Luid
  <2> QED
    BY <2>3, <2>4 DEF Binding
<1>18. CASE UNCHANGED vars
  BY <1>18, <1>a, <1>b DEF vars, connVars, workVars
<1> QED
  BY <1>1, <1>2, <1>3, <1>4, <1>5, <1>6, <1>7, <1>8, <1>9, <1>10, <1>11, <1>12,
    <1>13, <1>14, <1>15, <1>16, <1>17, <1>18 DEF Next, IoStep, LoginStep, DealStep

\* A server delivers a user's messages only over a connection it accepted itself
\* and marked as that user's, whatever expires, times out or crashes.
THEOREM BindingLocal == Spec => []LocalBinding
<1>1. Init => Binding
  BY DEF Init, Binding, LocalBinding, MarkedFirst, Uid
<1>2. TypeOK /\ Binding /\ [Next]_vars => Binding'
  BY NextBinding
<1>3. Binding => LocalBinding
  BY DEF Binding
<1> QED
  BY <1>1, <1>2, <1>3, TypeCorrect, PTL DEF Spec
=============================================================================
