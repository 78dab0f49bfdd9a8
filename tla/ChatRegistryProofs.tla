-------------------------- MODULE ChatRegistryProofs --------------------------
(***************************************************************************)
(* Proofs about the registry in Redis: while the lock is reliable and no   *)
(* server dies, uip_ and usession_ agree (RegistryConsistent); while the   *)
(* lock is reliable, crashes or not, the registry keeps the promise of     *)
(* module Presence (RegistryImplemented).  The argument uses that the lock *)
(* excludes (ChatLoginProofs) to show that between the two commands of an  *)
(* update nobody else touches the keys.  And what a registration is worth: *)
(* when no server dies, calls are waited for and clients log in once, a    *)
(* registered session is delivered to (RegisteredDelivered); when calls    *)
(* are waited for and peers know each other by name, it is its user's only *)
(* one, however often servers die and clients log in (OnlySession).        *)
(***************************************************************************)
EXTENDS ChatLoginProofs

(* The two keys of a user.                                                 *)

\* RegistryAgrees says nothing of a user whose lock is held.  The inductive form
\* says which states a critical section may leave the keys in before it ends:
\* usession_ deleted and uip_ not yet, or uip_ written and usession_ not yet.
Deleting(u) == \E p \in Cleaner : cpc[p] = "delIp" /\ cuid[p] = u
InWrite(s)  == wpc[s] \in {"setLocal", "setSession"}
Writing(u)  == \E s \in Server : InWrite(s) /\ Luid(s) = u
RegistryInv ==
  /\ \A p \in Cleaner : cpc[p] = "delIp" => usession[cuid[p]] = NoSession
  /\ \A s \in Server : InWrite(s) => uip[Luid(s)] = s
  /\ \A u \in Uid : Agree(u) \/ Deleting(u) \/ Writing(u)

\* What a step that touches neither key must leave alone.
KeepsDeleting ==
  \A p \in Cleaner : /\ cpc'[p] = "delIp" <=> cpc[p] = "delIp"
                     /\ cpc[p] = "delIp" => cuid'[p] = cuid[p]
KeepsWriting ==
  \A s \in Server : /\ InWrite(s)' <=> InWrite(s)
                    /\ InWrite(s) => Luid(s)' = Luid(s)

LEMMA RegistryKept ==
  ASSUME RegistryInv, UNCHANGED <<uip, usession>>, KeepsDeleting, KeepsWriting
  PROVE  RegistryInv'
<1>1. \A p \in Cleaner : cpc'[p] = "delIp" => usession'[cuid'[p]] = NoSession
  BY DEF RegistryInv, KeepsDeleting
<1>2. \A s \in Server : InWrite(s)' => uip'[Luid(s)'] = s
  BY DEF RegistryInv, KeepsWriting
<1>3. ASSUME NEW u \in Uid
      PROVE  (Agree(u) \/ Deleting(u) \/ Writing(u))'
  <2>1. Agree(u) => Agree(u)'
    BY DEF Agree
  <2>2. Deleting(u) => Deleting(u)'
    BY DEF Deleting, KeepsDeleting
  <2>3. Writing(u) => Writing(u)'
    BY DEF Writing, KeepsWriting
  <2> QED
    BY <2>1, <2>2, <2>3 DEF RegistryInv
<1> QED
  BY <1>1, <1>2, <1>3 DEF RegistryInv

LEMMA RegistryFrame ==
  ASSUME RegistryInv, UNCHANGED <<que, wpc, cpc, cuid, uip, usession>>
  PROVE  RegistryInv'
<1>1. KeepsDeleting
  BY DEF KeepsDeleting
<1>2. KeepsWriting
  BY DEF KeepsWriting, InWrite, Luid, Cur
<1> QED
  BY <1>1, <1>2, RegistryKept

\* Every step other than a crash keeps the inductive form.
LEMMA NextRegistry ==
  ASSUME LockReliable, ~MayCrash, TypeOK, LockExclusion, RegistryInv, [Next]_vars
  PROVE  RegistryInv'
<1> USE Threads, ThreadNames DEF LockReliable
<1> cpc \in [Cleaner -> CleanerPc] /\ cuid \in [Cleaner -> Uid]
  BY DEF TypeOK, DealTypeOK
<1> /\ uip \in [Uid -> Server \cup {NoServer}]
    /\ usession \in [Uid -> Session \cup {NoSession}]
  BY DEF TypeOK, RedisTypeOK
<1> wpc \in [Server -> WorkerPc] /\ que \in [Server -> Seq(Session)]
  BY DEF TypeOK, WorkTypeOK
<1>a. ASSUME NEW p \in Cleaner, NEW q \in Cleaner,
             InDeal(p), InDeal(q), cuid[p] = cuid[q]
      PROVE  p = q
  BY <1>a DEF LockExclusion
<1>b. ASSUME NEW p \in Cleaner, NEW s \in Server, InDeal(p), InLogin(s)
      PROVE  cuid[p] # Luid(s)
  BY <1>b DEF LockExclusion
<1>c. ASSUME NEW s \in Server, NEW t \in Server,
             InLogin(s), InLogin(t), Luid(s) = Luid(t)
      PROVE  s = t
  BY <1>c DEF LockExclusion
<1>1. ASSUME NEW c \in Session, Accept(c)
     PROVE  RegistryInv'
  BY <1>1, RegistryFrame DEF Accept, workVars, cleanVars, redisVars
<1>2. ASSUME NEW c \in Session, Receive(c)
     PROVE  RegistryInv'
  BY <1>2, RegistryFrame DEF Receive, workVars, cleanVars, redisVars
<1>3. ASSUME NEW c \in Session, Post(c)
     PROVE  RegistryInv'
  <2>1. UNCHANGED <<uip, usession, cpc, cuid>>
    BY <1>3 DEF Post, cleanVars, redisVars
  <2>2. KeepsDeleting
    BY <2>1 DEF KeepsDeleting
  <2>3. KeepsWriting
    BY <1>3 DEF Post, KeepsWriting, InWrite, Luid, Cur
  <2> QED
    BY <2>1, <2>2, <2>3, RegistryKept
<1>4. ASSUME NEW c \in Session, ReceiveInvalid(c)
     PROVE  RegistryInv'
  BY <1>4, RegistryFrame DEF ReceiveInvalid, workVars, cleanVars, redisVars
<1>5. ASSUME NEW c \in Session, BadHeader(c)
     PROVE  RegistryInv'
  BY <1>5, RegistryFrame DEF BadHeader, workVars, cleanVars, redisVars
<1>6. ASSUME NEW c \in Session, ReadError(c)
     PROVE  RegistryInv'
  <2>1. UNCHANGED <<uip, usession, que, wpc>>
    BY <1>6 DEF ReadError, workVars, redisVars
  <2>2. KeepsDeleting
    BY <1>6 DEF ReadError, KeepsDeleting, IoFree, CloseAndDeal
  <2>3. KeepsWriting
    BY <2>1 DEF KeepsWriting, InWrite, Luid, Cur
  <2> QED
    BY <2>1, <2>2, <2>3, RegistryKept
<1>7. ASSUME NEW c \in Session, WriteError(c)
     PROVE  RegistryInv'
  <2>1. UNCHANGED <<uip, usession, que, wpc>>
    BY <1>7 DEF WriteError, workVars, redisVars
  <2>2. KeepsDeleting
    BY <1>7 DEF WriteError, KeepsDeleting, IoFree, CloseAndDeal
  <2>3. KeepsWriting
    BY <2>1 DEF KeepsWriting, InWrite, Luid, Cur
  <2> QED
    BY <2>1, <2>2, <2>3, RegistryKept
<1>8. ASSUME NEW s \in Server, Insert(s)
     PROVE  RegistryInv'
  BY <1>8, RegistryFrame DEF Insert, workVars, cleanVars, redisVars
<1>9. ASSUME NEW s \in Server, NEW expired \in SUBSET SessionsOf(s), Tick(s, expired)
     PROVE  RegistryInv'
  BY <1>9, RegistryFrame DEF Tick, workVars, cleanVars, redisVars
<1>10. ASSUME NEW s \in Server,
              NEW c \in Session, TimerDeal(s, c)
     PROVE  RegistryInv'
  <2>1. UNCHANGED <<uip, usession, que, wpc>>
    BY <1>10 DEF TimerDeal, workVars, redisVars
  <2>2. KeepsDeleting
    BY <1>10 DEF TimerDeal, KeepsDeleting, CloseAndDeal
  <2>3. KeepsWriting
    BY <2>1 DEF KeepsWriting, InWrite, Luid, Cur
  <2> QED
    BY <2>1, <2>2, <2>3, RegistryKept
<1>11. ASSUME NEW p \in Cleaner, DealLock(p)
     PROVE  RegistryInv'
  <2>1. UNCHANGED <<uip, usession, que, wpc>>
    BY <1>11 DEF DealLock, workVars, redisVars
  <2>2. KeepsDeleting
    BY <1>11 DEF DealLock, KeepsDeleting, Goto
  <2>3. KeepsWriting
    BY <2>1 DEF KeepsWriting, InWrite, Luid, Cur
  <2> QED
    BY <2>1, <2>2, <2>3, RegistryKept
<1>12. ASSUME NEW p \in Cleaner, DealGet(p)
     PROVE  RegistryInv'
  <2>1. UNCHANGED <<uip, usession, que, wpc>>
    BY <1>12 DEF DealGet, workVars, redisVars
  <2>2. KeepsDeleting
    BY <1>12 DEF DealGet, KeepsDeleting, Goto
  <2>3. KeepsWriting
    BY <2>1 DEF KeepsWriting, InWrite, Luid, Cur
  <2> QED
    BY <2>1, <2>2, <2>3, RegistryKept
<1>13. ASSUME NEW p \in Cleaner, DealDelSession(p)
     PROVE  RegistryInv'
  <2> UNCHANGED <<uip, que, wpc, cuid>>
    BY <1>13 DEF DealDelSession, workVars
  <2>1. cpc' = [cpc EXCEPT ![p] = "delIp"] /\ cpc[p] = "delSession"
    BY <1>13 DEF DealDelSession, Goto
  <2>2. usession' = [usession EXCEPT ![cuid[p]] = NoSession]
    BY <1>13 DEF DealDelSession
  <2>3. \A q \in Cleaner : cpc'[q] = "delIp" => usession'[cuid'[q]] = NoSession
    BY <2>1, <2>2 DEF RegistryInv
  <2>4. \A s \in Server : InWrite(s)' => uip'[Luid(s)'] = s
    BY DEF RegistryInv, InWrite, Luid, Cur
  <2>5. ASSUME NEW u \in Uid
        PROVE  (Agree(u) \/ Deleting(u) \/ Writing(u))'
    <3>1. CASE u = cuid[p]
      BY <2>1, <3>1 DEF Deleting
    <3>2. CASE u # cuid[p]
      <4>1. usession'[u] = usession[u]
        BY <2>2, <3>2
      <4>2. Deleting(u) => Deleting(u)'
        BY <2>1 DEF Deleting
      <4>3. Writing(u) => Writing(u)'
        BY DEF Writing, InWrite, Luid, Cur
      <4> QED
        BY <4>1, <4>2, <4>3 DEF Agree, RegistryInv
    <3> QED
      BY <3>1, <3>2
  <2> QED
    BY <2>3, <2>4, <2>5 DEF RegistryInv
<1>14. ASSUME NEW p \in Cleaner, DealDelIp(p)
     PROVE  RegistryInv'
  <2> UNCHANGED <<usession, que, wpc, cuid>>
    BY <1>14 DEF DealDelIp, workVars
  <2>1. cpc' = [cpc EXCEPT ![p] = "clear"] /\ cpc[p] = "delIp"
    BY <1>14 DEF DealDelIp, Goto
  <2>2. uip' = [uip EXCEPT ![cuid[p]] = NoServer]
    BY <1>14 DEF DealDelIp
  <2>3. \A q \in Cleaner : cpc'[q] = "delIp" => usession'[cuid'[q]] = NoSession
    BY <2>1 DEF RegistryInv
  <2>4. ASSUME NEW s \in Server, InWrite(s)'
        PROVE  uip'[Luid(s)'] = s
    <3>0. InWrite(s) /\ Luid(s)' = Luid(s)
      BY <2>4 DEF InWrite, Luid, Cur
    <3>1. cuid[p] # Luid(s)
      BY <2>1, <3>0, <1>b DEF InDeal, InLogin, InWrite
    <3>2. Luid(s) \in Uid
      BY <3>0, CurrentLogin DEF Uid, InWrite
    <3> QED
      BY <2>2, <3>0, <3>1, <3>2 DEF RegistryInv
  <2>5. ASSUME NEW u \in Uid
        PROVE  (Agree(u) \/ Deleting(u) \/ Writing(u))'
    <3>1. CASE u = cuid[p]
      BY <2>1, <2>2, <3>1 DEF Agree, RegistryInv
    <3>2. CASE u # cuid[p]
      <4>1. uip'[u] = uip[u]
        BY <2>2, <3>2
      <4>2. Deleting(u) => Deleting(u)'
        BY <2>1, <3>2 DEF Deleting
      <4>3. Writing(u) => Writing(u)'
        BY DEF Writing, InWrite, Luid, Cur
      <4> QED
        BY <4>1, <4>2, <4>3 DEF Agree, RegistryInv
    <3> QED
      BY <3>1, <3>2
  <2> QED
    BY <2>3, <2>4, <2>5 DEF RegistryInv
<1>15. ASSUME NEW p \in Cleaner, DealClear(p)
     PROVE  RegistryInv'
  <2>1. UNCHANGED <<uip, usession, que, wpc>>
    BY <1>15 DEF DealClear, workVars, redisVars
  <2>2. KeepsDeleting
    BY <1>15 DEF DealClear, KeepsDeleting, Goto
  <2>3. KeepsWriting
    BY <2>1 DEF KeepsWriting, InWrite, Luid, Cur
  <2> QED
    BY <2>1, <2>2, <2>3, RegistryKept
<1>16. ASSUME NEW p \in Cleaner, DealRelease(p)
     PROVE  RegistryInv'
  <2>1. UNCHANGED <<uip, usession, que, wpc>>
    BY <1>16 DEF DealRelease, workVars, redisVars
  <2>2. KeepsDeleting
    BY <1>16 DEF DealRelease, KeepsDeleting, Goto
  <2>3. KeepsWriting
    BY <2>1 DEF KeepsWriting, InWrite, Luid, Cur
  <2> QED
    BY <2>1, <2>2, <2>3, RegistryKept
<1>17. ASSUME NEW s \in Server, LoginBegin(s)
     PROVE  RegistryInv'
  <2>1. UNCHANGED <<uip, usession, cpc, cuid>>
    BY <1>17 DEF LoginBegin, cleanVars, redisVars
  <2>2. KeepsDeleting
    BY <2>1 DEF KeepsDeleting
  <2>3. KeepsWriting
    BY <1>17 DEF LoginBegin, KeepsWriting, InWrite, Step, Luid, Cur
  <2> QED
    BY <2>1, <2>2, <2>3, RegistryKept
<1>18. ASSUME NEW s \in Server, LoginLock(s)
     PROVE  RegistryInv'
  <2>1. UNCHANGED <<uip, usession, cpc, cuid>>
    BY <1>18 DEF LoginLock, cleanVars, redisVars
  <2>2. KeepsDeleting
    BY <2>1 DEF KeepsDeleting
  <2>3. KeepsWriting
    BY <1>18 DEF LoginLock, KeepsWriting, InWrite, Step, Luid, Cur
  <2> QED
    BY <2>1, <2>2, <2>3, RegistryKept
<1>19. ASSUME NEW s \in Server, LoginGetIp(s)
     PROVE  RegistryInv'
  <2>1. UNCHANGED <<uip, usession, cpc, cuid>>
    BY <1>19 DEF LoginGetIp, cleanVars, redisVars
  <2>2. KeepsDeleting
    BY <2>1 DEF KeepsDeleting
  <2>3. KeepsWriting
    BY <1>19 DEF LoginGetIp, KeepsWriting, InWrite, Step, Luid, Cur
  <2> QED
    BY <2>1, <2>2, <2>3, RegistryKept
<1>20. ASSUME NEW s \in Server, LoginEvict(s)
     PROVE  RegistryInv'
  <2>1. UNCHANGED <<uip, usession, cpc, cuid>>
    BY <1>20 DEF LoginEvict, cleanVars, redisVars
  <2>2. KeepsDeleting
    BY <2>1 DEF KeepsDeleting
  <2>3. KeepsWriting
    BY <1>20 DEF LoginEvict, KeepsWriting, InWrite, Step, Luid, Cur
  <2> QED
    BY <2>1, <2>2, <2>3, RegistryKept
<1>21. ASSUME NEW s \in Server, LoginKicked(s)
     PROVE  RegistryInv'
  <2>1. UNCHANGED <<uip, usession, cpc, cuid>>
    BY <1>21 DEF LoginKicked, cleanVars, redisVars
  <2>2. KeepsDeleting
    BY <2>1 DEF KeepsDeleting
  <2>3. KeepsWriting
    BY <1>21 DEF LoginKicked, KeepsWriting, InWrite, Step, Luid, Cur
  <2> QED
    BY <2>1, <2>2, <2>3, RegistryKept
<1>22. ASSUME NEW s \in Server, LoginSetUid(s)
     PROVE  RegistryInv'
  <2>1. UNCHANGED <<uip, usession, cpc, cuid>>
    BY <1>22 DEF LoginSetUid, cleanVars, redisVars
  <2>2. KeepsDeleting
    BY <2>1 DEF KeepsDeleting
  <2>3. KeepsWriting
    BY <1>22 DEF LoginSetUid, KeepsWriting, InWrite, Step, Luid, Cur
  <2> QED
    BY <2>1, <2>2, <2>3, RegistryKept
<1>23. ASSUME NEW s \in Server, LoginSetIp(s)
     PROVE  RegistryInv'
  <2> UNCHANGED <<usession, que, cpc, cuid>>
    BY <1>23 DEF LoginSetIp, cleanVars
  <2>1. wpc' = [wpc EXCEPT ![s] = "setLocal"] /\ wpc[s] = "setIp"
    BY <1>23 DEF LoginSetIp, Step
  <2>2. uip' = [uip EXCEPT ![Luid(s)] = s]
    BY <1>23 DEF LoginSetIp
  <2>3. Luid(s) \in Uid
    BY <2>1, CurrentLogin DEF Uid
  <2>4. \A q \in Cleaner : cpc'[q] = "delIp" => usession'[cuid'[q]] = NoSession
    BY DEF RegistryInv
  <2>5. \A t \in Server : Luid(t)' = Luid(t) /\ (t # s => InWrite(t)' = InWrite(t))
    BY <2>1 DEF InWrite, Luid, Cur
  <2>6. ASSUME NEW t \in Server, InWrite(t)'
        PROVE  uip'[Luid(t)'] = t
    <3>1. CASE t = s
      BY <2>2, <2>3, <2>5, <3>1
    <3>2. CASE t # s
      <4>1. InWrite(t)
        BY <2>5, <2>6, <3>2
      <4>2. Luid(t) # Luid(s)
        BY <2>1, <3>2, <4>1, <1>c DEF InLogin, InWrite
      <4>3. Luid(t) \in Uid
        BY <4>1, CurrentLogin DEF Uid, InWrite
      <4> QED
        BY <2>2, <2>5, <4>1, <4>2, <4>3 DEF RegistryInv
    <3> QED
      BY <3>1, <3>2
  <2>7. ASSUME NEW u \in Uid
        PROVE  (Agree(u) \/ Deleting(u) \/ Writing(u))'
    <3>1. CASE u = Luid(s)
      <4>1. InWrite(s)'
        BY <2>1 DEF InWrite
      <4> QED
        BY <2>5, <3>1, <4>1 DEF Writing
    <3>2. CASE u # Luid(s)
      <4>1. uip'[u] = uip[u]
        BY <2>2, <3>2
      <4>2. Writing(u) => Writing(u)'
        BY <2>5, <3>2 DEF Writing
      <4>3. Deleting(u) => Deleting(u)'
        BY DEF Deleting
      <4> QED
        BY <4>1, <4>2, <4>3 DEF Agree, RegistryInv
    <3> QED
      BY <3>1, <3>2
  <2> QED
    BY <2>4, <2>6, <2>7 DEF RegistryInv
<1>24. ASSUME NEW s \in Server, LoginSetLocal(s)
     PROVE  RegistryInv'
  <2>1. UNCHANGED <<uip, usession, cpc, cuid>>
    BY <1>24 DEF LoginSetLocal, cleanVars, redisVars
  <2>2. KeepsDeleting
    BY <2>1 DEF KeepsDeleting
  <2>3. KeepsWriting
    BY <1>24 DEF LoginSetLocal, KeepsWriting, InWrite, Step, Luid, Cur
  <2> QED
    BY <2>1, <2>2, <2>3, RegistryKept
<1>25. ASSUME NEW s \in Server, LoginSetSession(s)
     PROVE  RegistryInv'
  <2> UNCHANGED <<uip, que, cpc, cuid>>
    BY <1>25 DEF LoginSetSession, cleanVars
  <2>1. wpc' = [wpc EXCEPT ![s] = "release"] /\ wpc[s] = "setSession"
    BY <1>25 DEF LoginSetSession, Step
  <2>2. usession' = [usession EXCEPT ![Luid(s)] = Cur(s)]
    BY <1>25 DEF LoginSetSession
  <2>3. /\ Luid(s) \in Uid /\ Cur(s) \in Session
        /\ At[Cur(s)] = s /\ Of[Cur(s)] = Luid(s)
    BY <2>1, CurrentLogin DEF Uid, Luid
  <2>4. ASSUME NEW q \in Cleaner, cpc'[q] = "delIp"
        PROVE  usession'[cuid'[q]] = NoSession
    <3>1. cuid[q] # Luid(s)
      BY <2>1, <2>4, <1>b DEF InDeal, InLogin
    <3> QED
      BY <2>2, <2>4, <3>1 DEF RegistryInv
  <2>5. \A t \in Server : Luid(t)' = Luid(t) /\ (t # s => InWrite(t)' = InWrite(t))
    BY <2>1 DEF InWrite, Luid, Cur
  <2>6. ASSUME NEW t \in Server, InWrite(t)'
        PROVE  uip'[Luid(t)'] = t
    <3>1. t # s
      BY <2>1, <2>6 DEF InWrite
    <3> QED
      BY <2>5, <2>6, <3>1 DEF RegistryInv
  <2>7. ASSUME NEW u \in Uid
        PROVE  (Agree(u) \/ Deleting(u) \/ Writing(u))'
    <3>1. CASE u = Luid(s)
      <4>1. uip[u] = s
        BY <2>1, <3>1 DEF RegistryInv, InWrite
      <4>2. usession'[u] = Cur(s) /\ Cur(s) # NoSession
        BY <2>2, <2>3, <3>1, ConstantsAssumption
      <4> QED
        BY <2>3, <3>1, <4>1, <4>2 DEF Agree
    <3>2. CASE u # Luid(s)
      <4>1. usession'[u] = usession[u]
        BY <2>2, <3>2
      <4>2. Writing(u) => Writing(u)'
        BY <2>5, <3>2 DEF Writing
      <4>3. Deleting(u) => Deleting(u)'
        BY DEF Deleting
      <4> QED
        BY <4>1, <4>2, <4>3 DEF Agree, RegistryInv
    <3> QED
      BY <3>1, <3>2
  <2> QED
    BY <2>4, <2>6, <2>7 DEF RegistryInv
<1>26. ASSUME NEW s \in Server, LoginRelease(s)
     PROVE  RegistryInv'
  <2>1. UNCHANGED <<uip, usession, cpc, cuid>>
    BY <1>26 DEF LoginRelease, cleanVars, redisVars
  <2>2. KeepsDeleting
    BY <2>1 DEF KeepsDeleting
  <2>3. KeepsWriting
    BY <1>26 DEF LoginRelease, KeepsWriting, InWrite, Step, Luid, Cur
  <2> QED
    BY <2>1, <2>2, <2>3, RegistryKept
<1>27. ASSUME NEW s \in Server, LoginReply(s)
     PROVE  RegistryInv'
  <2>1. UNCHANGED <<uip, usession, cpc, cuid>>
    BY <1>27 DEF LoginReply, cleanVars, redisVars
  <2>2. KeepsDeleting
    BY <2>1 DEF KeepsDeleting
  <2>3. KeepsWriting
    BY <1>27 DEF LoginReply, KeepsWriting, InWrite, Step, Luid, Cur
  <2> QED
    BY <2>1, <2>2, <2>3, RegistryKept
<1>28. ASSUME NEW k \in kicks, KickLookup(k)
     PROVE  RegistryInv'
  BY <1>28, RegistryFrame DEF KickLookup, workVars, cleanVars, redisVars
<1>29. ASSUME NEW k \in kicks, KickClear(k)
     PROVE  RegistryInv'
  BY <1>29, RegistryFrame DEF KickClear, workVars, cleanVars, redisVars
<1>30. ASSUME NEW k \in kicks, KickLost(k)
     PROVE  RegistryInv'
  BY <1>30, RegistryFrame DEF KickLost, workVars, cleanVars, redisVars
<1>31. ASSUME NEW u \in Uid, Expire(u)
     PROVE  RegistryInv'
  BY <1>31, RegistryFrame DEF Expire, workVars, cleanVars, redisVars
<1>32. ASSUME NEW s \in Server, Crash(s)
     PROVE  RegistryInv'
  BY <1>32 DEF Crash
<1>33. CASE UNCHANGED vars
  BY <1>33, RegistryFrame DEF vars, workVars, cleanVars, redisVars
<1> QED
  BY <1>1, <1>2, <1>3, <1>4, <1>5, <1>6, <1>7, <1>8, <1>9, <1>10, <1>11,
    <1>12, <1>13, <1>14, <1>15, <1>16, <1>17, <1>18, <1>19, <1>20, <1>21,
    <1>22, <1>23, <1>24, <1>25, <1>26, <1>27, <1>28, <1>29, <1>30, <1>31,
    <1>32, <1>33 DEF Next, IoStep, LoginStep, DealStep

\* A half-done update is always covered by the lock.
LEMMA RegistryInvSuffices ==
  ASSUME TypeOK, LockExclusion, RegistryInv
  PROVE  RegistryAgrees
<1> USE Threads, ThreadNames
<1> SUFFICES ASSUME NEW u \in Uid, lock[u] = Free
             PROVE  Agree(u)
  BY DEF RegistryAgrees
<1>1. ~Deleting(u)
  BY DEF Deleting, LockExclusion, InDeal
<1>2. ~Writing(u)
  BY DEF Writing, InWrite, LockExclusion, InLogin
<1> QED
  BY <1>1, <1>2 DEF RegistryInv

\* With a reliable lock and no crash in the middle of an update, uip_ and
\* usession_ agree about every user whose lock is free.
THEOREM RegistryConsistent ==
  ASSUME LockReliable, ~MayCrash
  PROVE  Spec => []RegistryAgrees
<1>1. Init => RegistryInv
  BY DEF Init, RegistryInv, InWrite, Agree
<1>2. TypeOK /\ LockExclusion /\ RegistryInv /\ [Next]_vars => RegistryInv'
  BY NextRegistry
<1>3. TypeOK /\ LockExclusion /\ RegistryInv => RegistryAgrees
  BY RegistryInvSuffices
<1> QED
  BY <1>1, <1>2, <1>3, TypeCorrect, Exclusion, PTL DEF Spec

-----------------------------------------------------------------------------
(* The registry implements Presence, whichever servers crash.              *)

\* What a clean-up knows: its session's socket is closed for good, and once it
\* has compared, the session it is about to remove is still the registered one.
CleansClosed == \A p \in Cleaner : cpc[p] # "none" => sock[csess[p]] = "closed"
StillThere   == \A p \in Cleaner : cpc[p] = "delSession" => usession[cuid[p]] = csess[p]
WithdrawInv  == usession[NoUser] = NoSession /\ CleansClosed /\ StillThere

\* A closed connection is not opened again.
LEMMA ClosedStays ==
  ASSUME TypeOK, [Next]_vars, NEW d \in Session, sock[d] = "closed"
  PROVE  sock'[d] = "closed"
<1> sock \in [Session -> {"idle", "open", "closed"}]
  BY DEF TypeOK, ConnTypeOK
<1>1. ASSUME NEW c \in Session, Accept(c)
     PROVE  sock'[d] = "closed"
  BY <1>1 DEF Accept
<1>2. ASSUME NEW c \in Session, ReceiveInvalid(c)
     PROVE  sock'[d] = "closed"
  BY <1>2 DEF ReceiveInvalid
<1>3. ASSUME NEW c \in Session, ReadError(c)
     PROVE  sock'[d] = "closed"
  BY <1>3 DEF ReadError, CloseAndDeal
<1>4. ASSUME NEW c \in Session, WriteError(c)
     PROVE  sock'[d] = "closed"
  BY <1>4 DEF WriteError, CloseAndDeal
<1>5. ASSUME NEW s \in Server, NEW expired \in SUBSET SessionsOf(s), Tick(s, expired)
     PROVE  sock'[d] = "closed"
  BY <1>5 DEF Tick
<1>6. ASSUME NEW s \in Server,
              NEW c \in Session, TimerDeal(s, c)
     PROVE  sock'[d] = "closed"
  BY <1>6 DEF TimerDeal, CloseAndDeal
<1>7. ASSUME NEW s \in Server, Crash(s)
     PROVE  sock'[d] = "closed"
  BY <1>7 DEF Crash
<1>8. UNCHANGED sock => sock'[d] = "closed"
  OBVIOUS
<1> QED
  BY <1>1, <1>2, <1>3, <1>4, <1>5, <1>6, <1>7, <1>8 DEF Next, IoStep,
    LoginStep, DealStep, vars, connVars, Receive, Post, BadHeader, Insert,
    DealLock, DealGet, DealDelSession, DealDelIp, DealClear, DealRelease,
    LoginBegin, LoginLock, LoginGetIp, LoginEvict, LoginKicked, LoginSetUid,
    LoginSetIp, LoginSetLocal, LoginSetSession, LoginRelease, LoginReply,
    KickLookup, KickClear, KickLost, Expire

\* The inductive step.  A step that writes usession_ works under the lock of its
\* user, so it is not the user of a clean-up that has compared already.
LEMMA NextWithdraw ==
  ASSUME LockReliable, TypeOK, LockExclusion, WithdrawInv, [Next]_vars
  PROVE  WithdrawInv'
<1> USE Threads, ThreadNames DEF LockReliable
<1> cpc \in [Cleaner -> CleanerPc] /\ cuid \in [Cleaner -> Uid]
  BY DEF TypeOK, DealTypeOK
<1> csess \in [Cleaner -> Session \cup {NoSession}]
  BY DEF TypeOK, DealTypeOK
<1> \A p \in Cleaner : cpc[p] # "none" => csess[p] \in Session
  BY DEF TypeOK, DealTypeOK
<1> usession \in [Uid -> Session \cup {NoSession}]
  BY DEF TypeOK, RedisTypeOK
<1> sock \in [Session -> {"idle", "open", "closed"}]
  BY DEF TypeOK, ConnTypeOK
<1> \A d \in Session : sock[d] = "closed" => sock'[d] = "closed"
  BY ClosedStays
<1>a. ASSUME NEW p \in Cleaner, NEW q \in Cleaner,
             InDeal(p), InDeal(q), cuid[p] = cuid[q]
      PROVE  p = q
  BY <1>a DEF LockExclusion
<1>b. ASSUME NEW p \in Cleaner, NEW s \in Server, InDeal(p), InLogin(s)
      PROVE  cuid[p] # Luid(s)
  BY <1>b DEF LockExclusion
<1>0. ASSUME UNCHANGED <<usession, cpc, csess, cuid>>
      PROVE  WithdrawInv'
  BY <1>0 DEF WithdrawInv, CleansClosed, StillThere
<1>1. ASSUME NEW c \in Session, ReadError(c)
     PROVE  WithdrawInv'
  <2>1. CleansClosed'
    BY <1>1 DEF ReadError, CloseAndDeal, IoFree, WithdrawInv, CleansClosed
  <2>2. StillThere'
    BY <1>1 DEF ReadError, CloseAndDeal, IoFree, WithdrawInv, StillThere, redisVars
  <2> QED
    BY <1>1, <2>1, <2>2 DEF ReadError, WithdrawInv, redisVars
<1>2. ASSUME NEW c \in Session, WriteError(c)
     PROVE  WithdrawInv'
  <2>1. CleansClosed'
    BY <1>2 DEF WriteError, CloseAndDeal, IoFree, WithdrawInv, CleansClosed
  <2>2. StillThere'
    BY <1>2 DEF WriteError, CloseAndDeal, IoFree, WithdrawInv, StillThere, redisVars
  <2> QED
    BY <1>2, <2>1, <2>2 DEF WriteError, WithdrawInv, redisVars
<1>3. ASSUME NEW s \in Server,
              NEW c \in Session, TimerDeal(s, c)
     PROVE  WithdrawInv'
  <2>1. CleansClosed'
    BY <1>3 DEF TimerDeal, CloseAndDeal, IoFree, WithdrawInv, CleansClosed
  <2>2. StillThere'
    BY <1>3 DEF TimerDeal, CloseAndDeal, IoFree, WithdrawInv, StillThere, redisVars
  <2> QED
    BY <1>3, <2>1, <2>2 DEF TimerDeal, WithdrawInv, redisVars
<1>4. ASSUME NEW p \in Cleaner, DealLock(p)
     PROVE  WithdrawInv'
  <2>1. CleansClosed'
    BY <1>4 DEF DealLock, Goto, WithdrawInv, CleansClosed, connVars
  <2>2. StillThere'
    BY <1>4 DEF DealLock, Goto, WithdrawInv, StillThere, redisVars
  <2> QED
    BY <1>4, <2>1, <2>2 DEF DealLock, WithdrawInv, redisVars
<1>5. ASSUME NEW p \in Cleaner, DealGet(p)
     PROVE  WithdrawInv'
  <2>1. CleansClosed'
    BY <1>5 DEF DealGet, Goto, WithdrawInv, CleansClosed, connVars
  <2>2. StillThere'
    BY <1>5 DEF DealGet, Goto, WithdrawInv, StillThere, redisVars
  <2> QED
    BY <1>5, <2>1, <2>2 DEF DealGet, WithdrawInv, redisVars
<1>6. ASSUME NEW p \in Cleaner, DealDelSession(p)
     PROVE  WithdrawInv'
  <2>1. /\ UNCHANGED <<csess, cuid, sock>>
        /\ cpc[p] = "delSession" /\ cpc' = [cpc EXCEPT ![p] = "delIp"]
        /\ usession' = [usession EXCEPT ![cuid[p]] = NoSession]
    BY <1>6 DEF DealDelSession, Goto, connVars
  <2>2. usession'[NoUser] = NoSession
    BY <2>1 DEF WithdrawInv
  <2>3. CleansClosed'
    BY <2>1 DEF WithdrawInv, CleansClosed
  <2>4. ASSUME NEW q \in Cleaner, cpc'[q] = "delSession"
        PROVE  usession'[cuid'[q]] = csess'[q]
    <3>1. q # p /\ cpc[q] = "delSession"
      BY <2>1, <2>4
    <3>2. cuid[q] # cuid[p]
      BY <2>1, <3>1, <1>a DEF InDeal
    <3> QED
      BY <2>1, <3>1, <3>2 DEF WithdrawInv, StillThere
  <2> QED
    BY <2>2, <2>3, <2>4 DEF WithdrawInv, StillThere
<1>7. ASSUME NEW p \in Cleaner, DealDelIp(p)
     PROVE  WithdrawInv'
  <2>1. CleansClosed'
    BY <1>7 DEF DealDelIp, Goto, WithdrawInv, CleansClosed, connVars
  <2>2. StillThere'
    BY <1>7 DEF DealDelIp, Goto, WithdrawInv, StillThere, redisVars
  <2> QED
    BY <1>7, <2>1, <2>2 DEF DealDelIp, WithdrawInv, redisVars
<1>8. ASSUME NEW p \in Cleaner, DealClear(p)
     PROVE  WithdrawInv'
  <2>1. CleansClosed'
    BY <1>8 DEF DealClear, Goto, WithdrawInv, CleansClosed, connVars
  <2>2. StillThere'
    BY <1>8 DEF DealClear, Goto, WithdrawInv, StillThere, redisVars
  <2> QED
    BY <1>8, <2>1, <2>2 DEF DealClear, WithdrawInv, redisVars
<1>9. ASSUME NEW p \in Cleaner, DealRelease(p)
     PROVE  WithdrawInv'
  <2>1. CleansClosed'
    BY <1>9 DEF DealRelease, Goto, WithdrawInv, CleansClosed, connVars
  <2>2. StillThere'
    BY <1>9 DEF DealRelease, Goto, WithdrawInv, StillThere, redisVars
  <2> QED
    BY <1>9, <2>1, <2>2 DEF DealRelease, WithdrawInv, redisVars
<1>10. ASSUME NEW s \in Server, LoginSetSession(s)
     PROVE  WithdrawInv'
  <2>1. /\ UNCHANGED <<cpc, csess, cuid, sock>>
        /\ wpc[s] = "setSession"
        /\ usession' = [usession EXCEPT ![Luid(s)] = Cur(s)]
    BY <1>10 DEF LoginSetSession, Step, connVars, cleanVars
  <2>2. usession'[NoUser] = NoSession
    <3>1. Luid(s) # NoUser
      BY <2>1, CurrentLogin, ConstantsAssumption
    <3> QED
      BY <2>1, <3>1 DEF WithdrawInv, Uid
  <2>3. CleansClosed'
    BY <2>1 DEF WithdrawInv, CleansClosed
  <2>4. ASSUME NEW q \in Cleaner, cpc'[q] = "delSession"
        PROVE  usession'[cuid'[q]] = csess'[q]
    <3>1. cuid[q] # Luid(s)
      BY <2>1, <2>4, <1>b DEF InDeal, InLogin
    <3> QED
      BY <2>1, <2>4, <3>1 DEF WithdrawInv, StillThere
  <2> QED
    BY <2>2, <2>3, <2>4 DEF WithdrawInv, StillThere
<1>11. ASSUME NEW s \in Server, Crash(s)
     PROVE  WithdrawInv'
  <2>1. CleansClosed'
    BY <1>11 DEF Crash, WithdrawInv, CleansClosed
  <2>2. StillThere'
    BY <1>11 DEF Crash, WithdrawInv, StillThere
  <2> QED
    BY <1>11, <2>1, <2>2 DEF Crash, WithdrawInv
<1> QED
  BY <1>0, <1>1, <1>2, <1>3, <1>4, <1>5, <1>6, <1>7, <1>8, <1>9, <1>10, <1>11
    DEF Next, IoStep, LoginStep, DealStep, vars, cleanVars, redisVars,
    Accept, Receive, Post, ReceiveInvalid, BadHeader, Insert, Tick,
    LoginBegin, LoginLock, LoginGetIp, LoginEvict, LoginKicked, LoginSetUid,
    LoginSetIp, LoginSetLocal, LoginRelease, LoginReply, KickLookup,
    KickClear, KickLost, Expire

\* Every step of the servers is a registration, a withdrawal, a closing of
\* connections, or invisible in the registry.
LEMMA StepRefines ==
  ASSUME LockReliable, TypeOK, WithdrawInv, [Next]_vars
  PROVE  [Registry!Next]_<<usession, {c \in Session : sock[c] = "closed"}>>
<1> DEFINE Down == {c \in Session : sock[c] = "closed"}
<1>1. ASSUME NEW p \in Cleaner, DealDelSession(p)
      PROVE  Registry!Withdraw(cuid[p]) /\ cuid[p] \in User
  <2>1. /\ UNCHANGED sock /\ cpc[p] = "delSession"
        /\ usession' = [usession EXCEPT ![cuid[p]] = NoSession]
    BY <1>1 DEF DealDelSession, Goto, connVars
  <2>2. /\ usession[cuid[p]] = csess[p] /\ csess[p] \in Session \ {NoSession}
        /\ cuid[p] \in Uid
    BY <2>1 DEF WithdrawInv, StillThere, TypeOK, DealTypeOK
  <2>3. usession[cuid[p]] \in Down
    BY <2>1, <2>2 DEF WithdrawInv, CleansClosed
  <2>4. cuid[p] # NoUser
    BY <2>2 DEF WithdrawInv
  <2> QED
    BY <2>1, <2>2, <2>3, <2>4 DEF Registry!Withdraw, Uid
<1>2. ASSUME NEW s \in Server, LoginSetSession(s)
      PROVE  Registry!Register(Cur(s)) /\ Cur(s) \in Session
  <2>1. /\ UNCHANGED sock /\ wpc[s] = "setSession"
        /\ usession' = [usession EXCEPT ![Luid(s)] = Cur(s)]
    BY <1>2 DEF LoginSetSession, Step, connVars
  <2> QED
    BY <2>1, CurrentLogin DEF Registry!Register, Luid
<1>3. ASSUME UNCHANGED usession
      PROVE  Registry!Close
  <2>1. Down' \in SUBSET Session /\ Down' = Down \cup Down'
    BY ClosedStays
  <2> QED
    BY <1>3, <2>1 DEF Registry!Close
<1>4. \/ \E p \in Cleaner : DealDelSession(p)
      \/ \E s \in Server : LoginSetSession(s)
      \/ UNCHANGED usession
  BY DEF Next, IoStep, LoginStep, DealStep, vars, redisVars, Accept, Receive,
    Post, ReceiveInvalid, BadHeader, ReadError, WriteError, Insert, Tick,
    TimerDeal, DealLock, DealGet, DealDelIp, DealClear, DealRelease,
    LoginBegin, LoginLock, LoginGetIp, LoginEvict, LoginKicked, LoginSetUid,
    LoginSetIp, LoginSetLocal, LoginRelease, LoginReply, KickLookup,
    KickClear, KickLost, Expire, Crash
<1> QED
  BY <1>1, <1>2, <1>3, <1>4 DEF Registry!Next

\* While the lock is reliable, the registry keeps the promise of Presence: a
\* registration is withdrawn only for a closed session that is still the
\* registered one, whatever the order of logins, clean-ups and crashes.
THEOREM RegistryImplemented ==
  ASSUME LockReliable
  PROVE  Spec => RegistryRefined
<1>1. Init => WithdrawInv
  BY DEF Init, WithdrawInv, CleansClosed, StillThere, Uid
<1>2. TypeOK /\ LockExclusion /\ WithdrawInv /\ [Next]_vars => WithdrawInv'
  BY NextWithdraw
<1>3. Init => Registry!Init
  BY DEF Init, Registry!Init, Uid
<1>4. TypeOK /\ WithdrawInv /\ [Next]_vars
        => [Registry!Next]_<<usession, {c \in Session : sock[c] = "closed"}>>
  BY StepRefines
<1> QED
  BY <1>1, <1>2, <1>3, <1>4, TypeCorrect, Exclusion, PTL
    DEF Spec, RegistryRefined, Registry!Spec

-----------------------------------------------------------------------------
(* Where a registered session is delivered to, and that there is one.      *)

\* No server dies, calls of peers are waited for, and a client sends one login
\* per connection.
Orderly == LockReliable /\ ~MayCrash /\ ~KickMayTimeOut /\ MaxLogins <= 1

\* A step in which no server dies.
Calm == \A s \in Server : ~Crash(s)

InQue(c) == \E i \in DOMAIN que[At[c]] : que[At[c]][i] = c

\* The login of c has come as far as the places P of LoginHandler, or is over.
Reached(c, P) ==
  /\ logins[c] = 1 /\ rd[c] # "post"
  /\ InQue(c) => Cur(At[c]) = c /\ wpc[At[c]] \in P

Bound      == {"setSession", "release", "reply"}
Registered == {"release", "reply"}
Marked     == {"setIp", "setLocal"} \cup Bound

\* A connection's login is posted once, and never while it is being inserted.
Queued ==
  /\ \A s \in Server : \A i, j \in DOMAIN que[s] : que[s][i] = que[s][j] => i = j
  /\ \A c \in Session : rd[c] = "post" \/ InQue(c) => logins[c] = 1
  /\ \A c \in Session : rd[c] = "post" => ~InQue(c)

Fresh ==
  /\ \A c \in Session : sock[c] = "idle" => logins[c] = 0 /\ c \notin sessions
  /\ \A s \in Server : pend[s] # NoSession =>
       /\ At[pend[s]] = s /\ sock[pend[s]] # "idle"
       /\ logins[pend[s]] = 0 /\ pend[s] \notin sessions

\* The places a worker goes through.
Moves ==
  {<<"idle", "lock">>, <<"idle", "reply">>, <<"lock", "getIp">>,
   <<"getIp", "evict">>, <<"getIp", "setUid">>, <<"getIp", "kick">>,
   <<"evict", "setUid">>, <<"kick", "setUid">>, <<"setUid", "setIp">>,
   <<"setIp", "setLocal">>, <<"setLocal", "setSession">>,
   <<"setSession", "release">>, <<"release", "reply">>}

LEMMA WorkerMoves ==
  ASSUME TypeOK, NEW s \in Server, LoginStep(s)
  PROVE  /\ UNCHANGED <<sock, rd, logins, pend, due, cpc, csess, cuid, faults>>
         /\ \A t \in Server : t # s => wpc'[t] = wpc[t] /\ que'[t] = que[t]
         /\ que[s] # <<>>
         /\ \/ que' = que /\ <<wpc[s], wpc'[s]>> \in Moves
            \/ wpc[s] = "reply" /\ wpc'[s] = "idle" /\ que'[s] = Tail(que[s])
<1> USE DEF TypeOK, WorkTypeOK, Step, connVars, cleanVars
<1>1. CASE LoginBegin(s)
  BY <1>1 DEF LoginBegin, Moves
<1>2. CASE LoginLock(s)
  BY <1>2 DEF LoginLock, Moves
<1>3. CASE LoginGetIp(s)
  BY <1>3 DEF LoginGetIp, Moves
<1>4. CASE LoginEvict(s)
  BY <1>4 DEF LoginEvict, Moves
<1>5. CASE LoginKicked(s)
  BY <1>5 DEF LoginKicked, Moves
<1>6. CASE LoginSetUid(s)
  BY <1>6 DEF LoginSetUid, Moves
<1>7. CASE LoginSetIp(s)
  BY <1>7 DEF LoginSetIp, Moves
<1>8. CASE LoginSetLocal(s)
  BY <1>8 DEF LoginSetLocal, Moves
<1>9. CASE LoginSetSession(s)
  BY <1>9 DEF LoginSetSession, Moves
<1>10. CASE LoginRelease(s)
  BY <1>10 DEF LoginRelease, Moves
<1>11. CASE LoginReply(s)
  BY <1>11 DEF LoginReply, Moves
<1> QED
  BY <1>1, <1>2, <1>3, <1>4, <1>5, <1>6, <1>7, <1>8, <1>9, <1>10, <1>11 DEF LoginStep

\* All other steps leave the queues and workers alone; only Receive sends a
\* reader to post, and only Post brings it back.
Quiet ==
  /\ UNCHANGED <<logins, que, wpc>>
  /\ \A c \in Session : rd'[c] = "post" => rd[c] = "post"

LEMMA StepKinds ==
  ASSUME TypeOK, Calm, [Next]_vars
  PROVE  \/ \E c \in Session : Receive(c) \/ Post(c)
         \/ \E s \in Server : LoginStep(s)
         \/ Quiet
<1> rd \in [Session -> {"off", "read", "post"}]
  BY DEF TypeOK, ConnTypeOK
<1> USE DEF Quiet, connVars, workVars
<1>1. ASSUME NEW c \in Session,
             Accept(c) \/ ReceiveInvalid(c) \/ BadHeader(c) \/ ReadError(c) \/ WriteError(c)
      PROVE  Quiet
  BY <1>1 DEF Accept, ReceiveInvalid, BadHeader, ReadError, WriteError
<1>2. ASSUME NEW s \in Server,
             \/ Insert(s) \/ (\E expired \in SUBSET SessionsOf(s) : Tick(s, expired))
             \/ (\E c \in Session : TimerDeal(s, c))
      PROVE  Quiet
  BY <1>2 DEF Insert, Tick, TimerDeal
<1>3. ASSUME NEW p \in Cleaner, DealStep(p) PROVE Quiet
  BY <1>3 DEF DealStep, DealLock, DealGet, DealDelSession, DealDelIp, DealClear,
    DealRelease
<1>4. ASSUME NEW k \in kicks, KickLookup(k) \/ KickClear(k) \/ KickLost(k) PROVE Quiet
  BY <1>4 DEF KickLookup, KickClear, KickLost
<1>5. ASSUME NEW u \in Uid, Expire(u) PROVE Quiet
  BY <1>5 DEF Expire
<1>6. UNCHANGED vars => Quiet
  BY DEF vars
<1> QED
  BY <1>1, <1>2, <1>3, <1>4, <1>5, <1>6 DEF Next, IoStep, Calm

\* The messages that wait, and the one a worker is at.
LEMMA Queues ==
  ASSUME TypeOK
  PROVE  /\ \A s \in Server : que[s] \in Seq(Session)
         /\ \A s \in Server : \A i \in DOMAIN que[s] : At[que[s][i]] = s
         /\ \A s \in Server : wpc[s] # "idle" =>
              /\ que[s] # <<>> /\ Cur(s) = que[s][1] /\ 1 \in DOMAIN que[s]
              /\ Cur(s) \in Session /\ At[Cur(s)] = s /\ InQue(Cur(s))
<1>1. \A s \in Server : que[s] \in Seq(Session)
  BY DEF TypeOK, WorkTypeOK
<1>2. \A s \in Server : \A i \in DOMAIN que[s] : At[que[s][i]] = s
  BY <1>1 DEF TypeOK, WorkTypeOK
<1>3. ASSUME NEW s \in Server, wpc[s] # "idle"
      PROVE  que[s] # <<>> /\ Cur(s) = que[s][1] /\ 1 \in DOMAIN que[s]
  <2>1. que[s] # <<>>
    BY <1>3 DEF TypeOK, WorkTypeOK
  <2> QED
    BY <2>1, <1>1 DEF Cur
<1>4. ASSUME NEW s \in Server, wpc[s] # "idle"
      PROVE  Cur(s) \in Session /\ At[Cur(s)] = s /\ InQue(Cur(s))
  <2>1. Cur(s) \in Session /\ At[Cur(s)] = s
    BY <1>1, <1>2, <1>3, <1>4
  <2> QED
    BY <1>3, <1>4, <2>1 DEF InQue
<1> QED
  BY <1>1, <1>2, <1>3, <1>4

\* What the steps do to the queues: one message is appended while the worker is
\* idle, or the first one is dropped when its handler is over.
LEMMA Popped ==
  ASSUME TypeOK, Queued, NEW s \in Server, LoginStep(s), que' # que,
         NEW c \in Session, InQue(c)'
  PROVE  InQue(c) /\ (At[c] = s => c # Cur(s))
<1> At[c] \in Server
  BY ConstantsAssumption
<1>1. /\ \A t \in Server : t # s => que'[t] = que[t]
      /\ wpc[s] = "reply" /\ que'[s] = Tail(que[s]) /\ que[s] # <<>>
  BY WorkerMoves
<1>2. CASE At[c] # s
  BY <1>1, <1>2 DEF InQue
<1>3. CASE At[c] = s
  <2>1. que[s] \in Seq(Session) /\ Cur(s) = que[s][1]
    BY Queues, <1>1
  <2>2. PICK i \in DOMAIN Tail(que[s]) : Tail(que[s])[i] = c
    BY <1>1, <1>3 DEF InQue
  <2>3. i + 1 \in DOMAIN que[s] /\ que[s][i + 1] = c /\ i + 1 # 1 /\ 1 \in DOMAIN que[s]
    BY <2>1, <2>2, <1>1
  <2> QED
    BY <1>3, <2>1, <2>3 DEF InQue, Queued
<1> QED
  BY <1>2, <1>3

LEMMA Posted ==
  ASSUME TypeOK, NEW c \in Session, Post(c)
  PROVE  /\ rd[c] = "post" /\ rd' = [rd EXCEPT ![c] = "read"] /\ wpc[At[c]] = "idle"
         /\ UNCHANGED <<logins, wpc>>
         /\ que'[At[c]] = Append(que[At[c]], c)
         /\ \A t \in Server : t # At[c] => que'[t] = que[t]
         /\ \A d \in Session : InQue(d)' <=> InQue(d) \/ d = c
<1> At \in [Session -> Server] /\ que \in [Server -> Seq(Session)]
  BY ConstantsAssumption DEF TypeOK, WorkTypeOK
<1>1. /\ rd[c] = "post" /\ rd' = [rd EXCEPT ![c] = "read"] /\ wpc[At[c]] = "idle"
      /\ UNCHANGED <<logins, wpc>>
      /\ que'[At[c]] = Append(que[At[c]], c)
      /\ \A t \in Server : t # At[c] => que'[t] = que[t]
  BY DEF Post
<1>2. ASSUME NEW d \in Session PROVE InQue(d)' <=> InQue(d) \/ d = c
  <2>1. CASE At[d] # At[c]
    BY <1>1, <2>1 DEF InQue
  <2>2. CASE At[d] = At[c]
    <3> DEFINE q == que[At[c]]
    <3>1. /\ DOMAIN Append(q, c) = DOMAIN q \cup {Len(q) + 1}
          /\ \A i \in DOMAIN q : Append(q, c)[i] = q[i]
          /\ Append(q, c)[Len(q) + 1] = c /\ Len(q) + 1 \notin DOMAIN q
      OBVIOUS
    <3> HIDE DEF q
    <3>2. InQue(d) <=> \E i \in DOMAIN q : q[i] = d
      BY <2>2 DEF InQue, q
    <3>3. InQue(d)' <=> \E i \in DOMAIN Append(q, c) : Append(q, c)[i] = d
      BY <1>1, <2>2 DEF InQue, q
    <3> QED
      BY <3>1, <3>2, <3>3
  <2> QED
    BY <2>1, <2>2
<1> QED
  BY <1>1, <1>2

\* A login comes no second time.
LEMMA NextQueued ==
  ASSUME Orderly, TypeOK, Queued, [Next]_vars
  PROVE  Queued'
<1> Calm
  BY DEF Orderly, Calm, Crash
<1> USE DEF Queued
<1>m. MaxLogins \in Nat /\ MaxLogins <= 1 /\ logins \in [Session -> 0 .. MaxLogins]
  BY ConstantsAssumption DEF Orderly, TypeOK, ConnTypeOK
<1>r. rd \in [Session -> {"off", "read", "post"}] /\ At \in [Session -> Server]
  BY ConstantsAssumption DEF TypeOK, ConnTypeOK
<1>1. ASSUME NEW c \in Session, Receive(c) PROVE Queued'
  <2>1. /\ rd[c] = "read" /\ logins[c] < MaxLogins /\ UNCHANGED <<que, wpc>>
        /\ logins' = [logins EXCEPT ![c] = @ + 1] /\ rd' = [rd EXCEPT ![c] = "post"]
    BY <1>1 DEF Receive, workVars
  <2>2. logins[c] = 0 /\ logins'[c] = 1 /\ ~InQue(c)
    BY <2>1, <1>m
  <2>3. \A d \in Session : InQue(d)' <=> InQue(d)
    BY <2>1 DEF InQue
  <2> QED
    BY <1>r, <2>1, <2>2, <2>3
<1>2. ASSUME NEW c \in Session, Post(c) PROVE Queued'
  <2>1. ASSUME NEW s \in Server, NEW i \in DOMAIN que'[s], NEW j \in DOMAIN que'[s],
               que'[s][i] = que'[s][j]
        PROVE  i = j
    <3>1. CASE s # At[c]
      BY <1>2, <2>1, <3>1, Posted
    <3>2. CASE s = At[c]
      <4> DEFINE q == que[s]
      <4>1. q \in Seq(Session) /\ que'[s] = Append(q, c)
        BY <1>2, <3>2, Posted, Queues
      <4>2. \A k \in DOMAIN q : q[k] # c
        BY <1>2, <3>2, Posted DEF InQue
      <4>3. \A k, l \in DOMAIN q : q[k] = q[l] => k = l
        OBVIOUS
      <4> HIDE DEF q
      <4> QED
        BY <4>1, <4>2, <4>3, <2>1
    <3> QED
      BY <3>1, <3>2
  <2>2. \A d \in Session : rd'[d] = "post" \/ InQue(d)' => logins'[d] = 1
    BY <1>2, <1>r, Posted
  <2>3. \A d \in Session : rd'[d] = "post" => ~InQue(d)'
    BY <1>2, <1>r, Posted
  <2> QED
    BY <2>1, <2>2, <2>3
<1>3. ASSUME NEW s \in Server, LoginStep(s) PROVE Queued'
  <2>1. UNCHANGED <<rd, logins>>
    BY <1>3, WorkerMoves
  <2>2. \A d \in Session : InQue(d)' => InQue(d)
    BY <1>3, Popped DEF InQue
  <2>3. ASSUME NEW t \in Server, NEW i \in DOMAIN que'[t], NEW j \in DOMAIN que'[t],
               que'[t][i] = que'[t][j]
        PROVE  i = j
    <3>1. CASE que'[t] = que[t]
      BY <2>3, <3>1
    <3>2. CASE que'[t] # que[t]
      <4>1. t = s /\ que'[t] = Tail(que[t]) /\ que[t] \in Seq(Session) /\ que[t] # <<>>
        BY <1>3, <3>2, WorkerMoves, Queues
      <4>2. /\ i + 1 \in DOMAIN que[t] /\ j + 1 \in DOMAIN que[t]
            /\ que[t][i + 1] = que[t][j + 1] /\ i \in Nat /\ j \in Nat
        BY <2>3, <4>1
      <4>3. i + 1 = j + 1
        BY <4>2
      <4> QED
        BY <4>2, <4>3
    <3> QED
      BY <3>1, <3>2
  <2> QED
    BY <2>1, <2>2, <2>3
<1>4. CASE Quiet
  BY <1>4 DEF Quiet, InQue
<1> QED
  BY <1>1, <1>2, <1>3, <1>4, StepKinds DEF Orderly

\* A login does not go back.
LEMMA ReachedStays ==
  ASSUME Orderly, TypeOK, Queued, [Next]_vars, NEW c \in Session,
         NEW P, P \in {Bound, Registered, Marked}, Reached(c, P)
  PROVE  Reached(c, P)'
<1> Calm
  BY DEF Orderly, Calm, Crash
<1>m. MaxLogins \in Nat /\ MaxLogins <= 1
  BY ConstantsAssumption DEF Orderly
<1>r. rd \in [Session -> {"off", "read", "post"}] /\ At[c] \in Server
  BY ConstantsAssumption DEF TypeOK, ConnTypeOK
<1>p. P \subseteq Marked /\ "idle" \notin P
  BY DEF Bound, Registered, Marked
<1>1. ASSUME NEW d \in Session, Receive(d) PROVE Reached(c, P)'
  <2>1. /\ logins[d] < MaxLogins /\ UNCHANGED <<que, wpc>>
        /\ logins' = [logins EXCEPT ![d] = @ + 1] /\ rd' = [rd EXCEPT ![d] = "post"]
    BY <1>1 DEF Receive, workVars
  <2>2. d # c
    BY <2>1, <1>m DEF Reached
  <2>3. logins'[c] = logins[c] /\ rd'[c] = rd[c]
    BY <1>r, <2>1, <2>2 DEF TypeOK, ConnTypeOK
  <2> QED
    BY <2>1, <2>3 DEF Reached, InQue, Cur
<1>2. ASSUME NEW d \in Session, Post(d) PROVE Reached(c, P)'
  <2>1. d # c
    BY <1>2, Posted DEF Reached
  <2>2. rd'[c] = rd[c] /\ logins'[c] = logins[c] /\ wpc' = wpc /\ (InQue(c)' <=> InQue(c))
    BY <1>2, <1>r, <2>1, Posted
  <2>3. CASE At[c] = At[d]
    <3>1. ~InQue(c)
      BY <1>2, <1>p, <2>3, Posted DEF Reached
    <3> QED
      BY <2>2, <3>1 DEF Reached
  <2>4. CASE At[c] # At[d]
    <3>1. que'[At[c]] = que[At[c]]
      BY <1>2, <1>r, <2>4, Posted
    <3> QED
      BY <2>2, <3>1 DEF Reached, Cur
  <2> QED
    BY <2>3, <2>4
<1>3. ASSUME NEW s \in Server, LoginStep(s) PROVE Reached(c, P)'
  <2>1. UNCHANGED <<rd, logins>>
    BY <1>3, WorkerMoves
  <2>2. InQue(c)' => InQue(c) /\ (que' # que /\ At[c] = s => c # Cur(s))
    BY <1>3, Popped DEF InQue
  <2> SUFFICES ASSUME InQue(c)' PROVE (Cur(At[c]) = c)' /\ wpc'[At[c]] \in P
    BY <2>1 DEF Reached
  <2>3. InQue(c) /\ Cur(At[c]) = c /\ wpc[At[c]] \in P
    BY <2>2 DEF Reached
  <2>4. CASE At[c] # s
    BY <1>3, <1>r, <2>3, <2>4, WorkerMoves DEF Cur
  <2>5. CASE At[c] = s
    <3>0. que' = que
      BY <2>2, <2>3, <2>5
    <3>1. <<wpc[s], wpc'[s]>> \in Moves
      <4>1. Tail(que[s]) # que[s]
        <5>1. que[s] \in Seq(Session) /\ que[s] # <<>>
          BY <1>3, Queues, WorkerMoves
        <5>2. Len(Tail(que[s])) = Len(que[s]) - 1 /\ Len(que[s]) \in Nat
          BY <5>1
        <5> DEFINE t == Tail(que[s])
        <5>3. Len(t) # Len(que[s])
          BY <5>2
        <5> HIDE DEF t
        <5>4. t # que[s]
          BY <5>3
        <5> QED
          BY <5>4 DEF t
      <4> QED
        BY <1>3, <3>0, <4>1, WorkerMoves
    <3>2. wpc'[s] \in P
      BY <2>3, <2>5, <3>1 DEF Moves, Bound, Registered, Marked
    <3> QED
      BY <2>3, <2>5, <3>0, <3>2 DEF Cur
  <2> QED
    BY <2>4, <2>5
<1>4. CASE Quiet
  BY <1>4 DEF Quiet, Reached, InQue, Cur
<1> QED
  BY <1>1, <1>2, <1>3, <1>4, StepKinds DEF Orderly

\* Sessions are not inserted twice: who has logged in has been inserted, and
\* ClearSession only takes out.
LEMMA ClearSessionErases ==
  ASSUME NEW c, ClearSession(c)
  PROVE  sessions' = sessions \ {c}
BY DEF ClearSession

LEMMA NextFresh ==
  ASSUME TypeOK, Fresh, [Next]_vars
  PROVE  Fresh'
<1> USE DEF Fresh
<1>t. /\ sock \in [Session -> {"idle", "open", "closed"}] /\ At \in [Session -> Server]
      /\ pend \in [Server -> Session \cup {NoSession}] /\ NoSession \notin Session
      /\ logins \in [Session -> 0 .. MaxLogins] /\ MaxLogins \in Nat
  BY ConstantsAssumption DEF TypeOK, ConnTypeOK
<1>0. ASSUME UNCHANGED <<logins, pend>>, sessions' \subseteq sessions,
             \A c \in Session : sock[c] = "idle" <=> sock'[c] = "idle"
      PROVE  Fresh'
  <2>1. \A s \in Server : pend[s] # NoSession => pend[s] \in Session
    BY <1>t
  <2> QED
    BY <1>0, <2>1
<1>1. ASSUME NEW c \in Session, Accept(c) PROVE Fresh'
  <2>1. /\ sock[c] = "idle" /\ sock' = [sock EXCEPT ![c] = "open"]
        /\ pend' = [pend EXCEPT ![At[c]] = c] /\ UNCHANGED <<logins, sessions>>
    BY <1>1 DEF Accept
  <2> QED
    BY <1>t, <2>1
<1>2. ASSUME NEW s \in Server, Insert(s) PROVE Fresh'
  <2>1. /\ pend[s] # NoSession /\ sessions' = sessions \cup {pend[s]}
        /\ pend' = [pend EXCEPT ![s] = NoSession] /\ UNCHANGED <<logins, sock>>
    BY <1>2 DEF Insert
  <2>2. \A t \in Server : t # s /\ pend[t] # NoSession => pend[t] # pend[s]
    BY <2>1
  <2> QED
    BY <1>t, <2>1, <2>2
<1>3. ASSUME NEW c \in Session, Receive(c) PROVE Fresh'
  <2>1. /\ c \in sessions /\ logins' = [logins EXCEPT ![c] = @ + 1]
        /\ UNCHANGED <<sock, pend, sessions>>
    BY <1>3 DEF Receive
  <2> QED
    BY <1>t, <2>1
<1>4. ASSUME NEW c \in Session, Post(c) PROVE Fresh'
  BY <1>0, <1>4 DEF Post
<1>5. ASSUME NEW c \in Session, ReceiveInvalid(c) PROVE Fresh'
  <2>1. rd[c] = "read" /\ sock' = [sock EXCEPT ![c] = "closed"] /\ UNCHANGED <<logins, pend, sessions>>
    BY <1>5 DEF ReceiveInvalid
  <2> QED
    BY <1>t, <2>1
<1>6. ASSUME NEW c \in Session, BadHeader(c) PROVE Fresh'
  BY <1>0, <1>6, ClearSessionErases DEF BadHeader
<1>7. ASSUME NEW c \in Session, ReadError(c) \/ WriteError(c) PROVE Fresh'
  <2>1. sock' = [sock EXCEPT ![c] = "closed"] /\ UNCHANGED <<logins, pend, sessions>>
    BY <1>7 DEF ReadError, WriteError, CloseAndDeal
  <2> QED
    BY <1>t, <2>1
<1>8. ASSUME NEW s \in Server, NEW expired \in SUBSET SessionsOf(s), Tick(s, expired)
      PROVE  Fresh'
  <2>1. /\ sock' = [c \in Session |-> IF c \in expired THEN "closed" ELSE sock[c]]
        /\ UNCHANGED <<logins, pend, sessions>>
    BY <1>8 DEF Tick
  <2> QED
    BY <1>t, <2>1
<1>9. ASSUME NEW s \in Server, NEW c \in Session, TimerDeal(s, c) PROVE Fresh'
  <2>1. sock' = [sock EXCEPT ![c] = "closed"] /\ UNCHANGED <<logins, pend, sessions>>
    BY <1>9 DEF TimerDeal, CloseAndDeal
  <2> QED
    BY <1>t, <2>1
<1>10. ASSUME NEW p \in Cleaner, DealStep(p) PROVE Fresh'
  <2>1. UNCHANGED <<logins, pend, sock>> /\ sessions' \subseteq sessions
    BY <1>10, ClearSessionErases DEF DealStep, DealLock, DealGet, DealDelSession,
      DealDelIp, DealClear, DealRelease, connVars
  <2> QED
    BY <1>0, <2>1
<1>11. ASSUME NEW s \in Server, LoginStep(s) PROVE Fresh'
  <2>1. UNCHANGED <<logins, pend, sock>>
    BY <1>11, WorkerMoves
  <2>2. sessions' \subseteq sessions
    BY <1>11, ClearSessionErases DEF LoginStep, LoginBegin, LoginLock, LoginGetIp,
      LoginEvict, LoginKicked, LoginSetUid, LoginSetIp, LoginSetLocal,
      LoginSetSession, LoginRelease, LoginReply, connVars
  <2> QED
    BY <1>0, <2>1, <2>2
<1>12. ASSUME NEW k \in kicks, KickLookup(k) \/ KickClear(k) \/ KickLost(k) PROVE Fresh'
  <2>1. UNCHANGED <<logins, pend, sock>> /\ sessions' \subseteq sessions
    BY <1>12, ClearSessionErases DEF KickLookup, KickClear, KickLost, connVars
  <2> QED
    BY <1>0, <2>1
<1>13. ASSUME NEW u \in Uid, Expire(u) PROVE Fresh'
  BY <1>0, <1>13 DEF Expire, connVars
<1>14. ASSUME NEW s \in Server, Crash(s) PROVE Fresh'
  <2>1. /\ UNCHANGED logins /\ sessions' \subseteq sessions
        /\ pend' = [pend EXCEPT ![s] = NoSession]
        /\ \A c \in Session : sock[c] = "idle" <=> sock'[c] = "idle"
    BY <1>14, <1>t DEF Crash
  <2>2. \A u \in Server : pend'[u] # NoSession => pend'[u] = pend[u] /\ pend[u] \in Session
    BY <1>t, <2>1
  <2> QED
    BY <2>1, <2>2
<1>15. UNCHANGED vars => Fresh'
  BY <1>0 DEF vars, connVars
<1> QED
  BY <1>1, <1>2, <1>3, <1>4, <1>5, <1>6, <1>7, <1>8, <1>9, <1>10, <1>11, <1>12,
    <1>13, <1>14, <1>15 DEF Next, IoStep

-----------------------------------------------------------------------------
(* Which steps give something away: all others only take away.             *)
Alive(c) == c \in sessions \/ (sock[c] = "open" /\ rd[c] # "off")

LEMMA Effects ==
  ASSUME TypeOK, Calm, [Next]_vars
  PROVE  /\ \/ \E s \in Server : LoginSetLocal(s)
            \/ \A s \in Server, u \in Uid :
                 userSession'[s][u] \in {NoSession, userSession[s][u]}
         /\ \/ \E s \in Server : LoginSetSession(s)
            \/ \A u \in Uid : usession'[u] \in {NoSession, usession[u]}
         /\ (\E s \in Server : LoginSetUid(s)) \/ userUid' = userUid
         /\ \/ \E s \in Server : LoginGetIp(s)
            \/ \E k \in kicks : KickLookup(k)
            \/ kicks' \subseteq kicks
         /\ \A c \in Session : Alive(c)' =>
              \/ Alive(c) \/ sock[c] = "idle"
              \/ \E s \in Server : pend[s] # NoSession /\ c = pend[s]
<1> DEFINE Unbinds == \A s \in Server, u \in Uid :
                        userSession'[s][u] \in {NoSession, userSession[s][u]}
           Forgets == \A u \in Uid : usession'[u] \in {NoSession, usession[u]}
           Ends    == \A c \in Session : Alive(c)' => Alive(c)
<1>t. /\ sock \in [Session -> {"idle", "open", "closed"}]
      /\ rd \in [Session -> {"off", "read", "post"}]
      /\ usession \in [Uid -> Session \cup {NoSession}]
      /\ At \in [Session -> Server]
  BY ConstantsAssumption DEF TypeOK, ConnTypeOK, RedisTypeOK
<1>0. /\ UNCHANGED userSession => Unbinds
      /\ UNCHANGED usession => Forgets
      /\ UNCHANGED <<sock, rd, sessions>> => Ends
  BY DEF Alive
<1>c. ASSUME NEW c \in Session, ClearSession(c)
      PROVE  Unbinds /\ sessions' \subseteq sessions
  BY <1>c, ClearSessionShrinks, ClearSessionErases
<1>1. ASSUME NEW c \in Session, Accept(c)
      PROVE  /\ Unbinds /\ Forgets /\ userUid' = userUid /\ kicks' = kicks
             /\ \A d \in Session : Alive(d)' => Alive(d) \/ sock[d] = "idle"
  <2>1. /\ sock[c] = "idle" /\ sock' = [sock EXCEPT ![c] = "open"]
        /\ rd' = [rd EXCEPT ![c] = "read"]
        /\ UNCHANGED <<userUid, sessions, userSession, kicks, usession>>
    BY <1>1 DEF Accept, workVars, redisVars
  <2> QED
    BY <1>0, <1>t, <2>1 DEF Alive
<1>2. ASSUME NEW s \in Server, Insert(s)
      PROVE  /\ Unbinds /\ Forgets /\ userUid' = userUid /\ kicks' = kicks
             /\ \A d \in Session : Alive(d)' =>
                  Alive(d) \/ (pend[s] # NoSession /\ d = pend[s])
  BY <1>0, <1>2 DEF Insert, Alive, workVars, redisVars
<1>3. ASSUME NEW c \in Session,
             Receive(c) \/ Post(c) \/ ReceiveInvalid(c) \/ ReadError(c) \/ WriteError(c)
      PROVE  Unbinds /\ Forgets /\ userUid' = userUid /\ kicks' = kicks /\ Ends
  <2>1. UNCHANGED <<userUid, sessions, userSession, kicks, usession>>
    BY <1>3 DEF Receive, Post, ReceiveInvalid, ReadError, WriteError, workVars,
      redisVars
  <2>2. \A d \in Session : /\ sock'[d] = "open" => sock[d] = "open"
                           /\ rd'[d] # "off" => rd[d] # "off"
    BY <1>3, <1>t DEF Receive, Post, ReceiveInvalid, ReadError, WriteError,
      CloseAndDeal
  <2> QED
    BY <1>0, <2>1, <2>2 DEF Alive
<1>4. ASSUME NEW c \in Session, BadHeader(c)
      PROVE  Unbinds /\ Forgets /\ userUid' = userUid /\ kicks' = kicks /\ Ends
  <2>1. /\ ClearSession(c) /\ rd' = [rd EXCEPT ![c] = "off"]
        /\ UNCHANGED <<sock, userUid, kicks, usession>>
    BY <1>4 DEF BadHeader, workVars, redisVars
  <2> QED
    BY <1>0, <1>c, <1>t, <2>1 DEF Alive
<1>5. ASSUME NEW s \in Server,
             \/ \E expired \in SUBSET SessionsOf(s) : Tick(s, expired)
             \/ \E c \in Session : TimerDeal(s, c)
      PROVE  Unbinds /\ Forgets /\ userUid' = userUid /\ kicks' = kicks /\ Ends
  <2>1. UNCHANGED <<rd, userUid, sessions, userSession, kicks, usession>>
    BY <1>5 DEF Tick, TimerDeal, workVars, redisVars
  <2>2. \A d \in Session : sock'[d] = "open" => sock[d] = "open"
    BY <1>5, <1>t DEF Tick, TimerDeal, CloseAndDeal
  <2> QED
    BY <1>0, <2>1, <2>2 DEF Alive
<1>6. ASSUME NEW p \in Cleaner, DealStep(p)
      PROVE  Unbinds /\ Forgets /\ userUid' = userUid /\ kicks' = kicks /\ Ends
  <2>1. CASE DealClear(p)
    <3>1. /\ ClearSession(csess[p]) /\ csess[p] \in Session
          /\ UNCHANGED <<sock, rd, userUid, kicks, usession>>
      BY <2>1 DEF DealClear, Goto, TypeOK, DealTypeOK, workVars, redisVars
    <3> QED
      BY <1>0, <1>c, <3>1 DEF Alive
  <2>2. CASE DealLock(p) \/ DealGet(p) \/ DealDelSession(p) \/ DealDelIp(p) \/ DealRelease(p)
    <3>1. UNCHANGED <<sock, rd, userUid, sessions, userSession, kicks>>
      BY <2>2 DEF DealLock, DealGet, DealDelSession, DealDelIp, DealRelease, connVars,
        workVars
    <3>2. Forgets
      BY <1>t, <2>2 DEF DealLock, DealGet, DealDelSession, DealDelIp, DealRelease,
        redisVars
    <3> QED
      BY <1>0, <3>1, <3>2
  <2> QED
    BY <1>6, <2>1, <2>2 DEF DealStep
<1>7. ASSUME NEW s \in Server, LoginStep(s)
      PROVE  /\ LoginSetLocal(s) \/ Unbinds
             /\ LoginSetSession(s) \/ Forgets
             /\ LoginSetUid(s) \/ userUid' = userUid
             /\ LoginGetIp(s) \/ kicks' = kicks
             /\ Ends
  <2>1. CASE LoginEvict(s)
    <3>1. UNCHANGED <<sock, rd, userUid, kicks, usession>>
      BY <2>1 DEF LoginEvict, redisVars
    <3>2. Unbinds /\ sessions' \subseteq sessions
      <4> DEFINE old == userSession[s][Luid(s)]
      <4>1. Luid(s) \in Uid
        BY <2>1, CurrentLogin DEF LoginEvict, Step, Uid
      <4>2. old \in Session \cup {NoSession}
        BY <4>1 DEF TypeOK, BindTypeOK
      <4>3. CASE old = NoSession
        BY <2>1, <4>3 DEF LoginEvict
      <4>4. CASE old # NoSession
        BY <1>c, <2>1, <4>2, <4>4 DEF LoginEvict
      <4> QED
        BY <4>3, <4>4
    <3> QED
      BY <1>0, <3>1, <3>2 DEF Alive
  <2>2. CASE \/ LoginBegin(s) \/ LoginLock(s) \/ LoginGetIp(s) \/ LoginKicked(s)
             \/ LoginSetUid(s) \/ LoginSetIp(s) \/ LoginSetLocal(s)
             \/ LoginSetSession(s) \/ LoginRelease(s) \/ LoginReply(s)
    <3>1. /\ UNCHANGED <<sock, rd, sessions>>
          /\ LoginSetLocal(s) \/ UNCHANGED userSession
          /\ LoginSetSession(s) \/ UNCHANGED usession
          /\ LoginSetUid(s) \/ UNCHANGED userUid
          /\ LoginGetIp(s) \/ UNCHANGED kicks
      BY <2>2 DEF LoginBegin, LoginLock, LoginGetIp, LoginKicked, LoginSetUid,
        LoginSetIp, LoginSetLocal, LoginSetSession, LoginRelease, LoginReply,
        connVars, redisVars
    <3> QED
      BY <1>0, <3>1
  <2> QED
    BY <1>7, <2>1, <2>2 DEF LoginStep
<1>8. ASSUME NEW k \in kicks, KickLookup(k) \/ KickClear(k) \/ KickLost(k)
      PROVE  /\ Unbinds /\ Forgets /\ userUid' = userUid /\ Ends
             /\ KickLookup(k) \/ kicks' \subseteq kicks
  <2>1. CASE KickLookup(k) \/ KickLost(k)
    BY <1>0, <2>1 DEF KickLookup, KickLost, connVars, redisVars
  <2>2. CASE KickClear(k)
    <3>1. /\ ClearSession(k.victim) /\ k.victim \in Session /\ kicks' \subseteq kicks
          /\ UNCHANGED <<sock, rd, userUid, usession>>
      BY <2>2 DEF KickClear, TypeOK, WorkTypeOK, Kick, redisVars
    <3> QED
      BY <1>0, <1>c, <3>1 DEF Alive
  <2> QED
    BY <1>8, <2>1, <2>2
<1>9. ASSUME NEW u \in Uid, Expire(u)
      PROVE  Unbinds /\ Forgets /\ userUid' = userUid /\ kicks' = kicks /\ Ends
  BY <1>0, <1>9 DEF Expire, connVars, workVars
<1>10. UNCHANGED vars => Unbinds /\ Forgets /\ userUid' = userUid /\ kicks' = kicks /\ Ends
  BY <1>0 DEF vars, connVars, workVars, redisVars
<1> HIDE DEF Unbinds, Forgets, Ends
<1>11. \/ \E c \in Session : \/ Accept(c) \/ Receive(c) \/ Post(c) \/ ReceiveInvalid(c)
                             \/ BadHeader(c) \/ ReadError(c) \/ WriteError(c)
       \/ \E s \in Server : \/ Insert(s) \/ LoginStep(s)
                            \/ \E expired \in SUBSET SessionsOf(s) : Tick(s, expired)
                            \/ \E c \in Session : TimerDeal(s, c)
       \/ \E p \in Cleaner : DealStep(p)
       \/ \E k \in kicks : KickLookup(k) \/ KickClear(k) \/ KickLost(k)
       \/ \E u \in Uid : Expire(u)
       \/ UNCHANGED vars
  BY DEF Next, IoStep, Calm
<1>12. /\ (\E s \in Server : LoginSetLocal(s)) \/ Unbinds
       /\ (\E s \in Server : LoginSetSession(s)) \/ Forgets
       /\ (\E s \in Server : LoginSetUid(s)) \/ userUid' = userUid
       /\ (\E s \in Server : LoginGetIp(s)) \/ (\E k \in kicks : KickLookup(k))
          \/ kicks' \subseteq kicks
  BY <1>1, <1>2, <1>3, <1>4, <1>5, <1>6, <1>7, <1>8, <1>9, <1>10, <1>11
<1>13. ASSUME NEW c \in Session, Alive(c)'
       PROVE  \/ Alive(c) \/ sock[c] = "idle"
              \/ \E s \in Server : pend[s] # NoSession /\ c = pend[s]
  BY <1>1, <1>2, <1>3, <1>4, <1>5, <1>6, <1>7, <1>8, <1>9, <1>10, <1>11, <1>13 DEF Ends
<1> QED
  BY <1>12, <1>13 DEF Unbinds, Forgets

-----------------------------------------------------------------------------
(* Who is bound, registered, marked or about to be cleared has logged in.   *)
Marks ==
  /\ \A s \in Server, u \in Uid :
       userSession[s][u] # NoSession => Reached(userSession[s][u], Bound)
  /\ \A u \in Uid : usession[u] # NoSession =>
       Of[usession[u]] = u /\ Reached(usession[u], Registered)
  /\ \A c \in Session : userUid[c] # NoUser => Reached(c, Marked)

\* A call is waited for by the worker that made it, and it is the worker's only
\* one; its victim is a connection of the called server and of the same user.
Calls ==
  /\ \A k \in kicks :
       /\ wpc[At[k.by]] = "kick" /\ Cur(At[k.by]) = k.by
       /\ k.victim # NoSession =>
            At[k.victim] = k.to /\ Of[k.victim] = Of[k.by] /\ Reached(k.victim, Bound)
  /\ \A k, l \in kicks : k.by = l.by => k = l

LEMMA CurrentReached ==
  ASSUME TypeOK, Queued, NEW s \in Server, LoginStep(s), que' = que,
         wpc[s] # "idle", NEW P, wpc'[s] \in P, NEW c, c = Cur(s)
  PROVE  Reached(c, P)'
<1>1. c \in Session /\ At[c] = s /\ InQue(c) /\ Cur(s)' = c
  BY Queues DEF Cur
<1>2. logins[c] = 1 /\ rd[c] # "post"
  BY <1>1 DEF Queued
<1>3. UNCHANGED <<logins, rd>>
  BY WorkerMoves
<1> QED
  BY <1>1, <1>2, <1>3 DEF Reached

LEMMA NextMarks ==
  ASSUME Orderly, TypeOK, Queued, Marks, [Next]_vars
  PROVE  Marks'
<1> Calm
  BY DEF Orderly, Calm, Crash
<1> USE DEF Marks
<1>t. /\ userSession \in [Server -> [Uid -> Session \cup {NoSession}]]
      /\ usession \in [Uid -> Session \cup {NoSession}]
      /\ userUid \in [Session -> Uid] /\ NoSession \notin Session
      /\ wpc \in [Server -> WorkerPc]
  BY ConstantsAssumption DEF TypeOK, BindTypeOK, RedisTypeOK, ConnTypeOK, WorkTypeOK
<1>k. \A c \in Session, P \in {Bound, Registered, Marked} : Reached(c, P) => Reached(c, P)'
  BY ReachedStays
<1>s. \A s \in Server : wpc[s] # "idle" =>
        Cur(s) \in Session /\ Luid(s) \in User /\ Luid(s) \in Uid /\ Luid(s) = Of[Cur(s)]
  BY CurrentLogin DEF Uid, Luid
<1>1. ASSUME NEW s \in Server, NEW u \in Uid, NEW c \in Session, userSession'[s][u] = c
      PROVE  Reached(c, Bound)'
  <2>1. CASE userSession[s][u] = c
    BY <1>k, <1>t, <2>1
  <2>2. CASE userSession[s][u] # c
    <3>1. PICK t \in Server : LoginSetLocal(t)
      BY <1>1, <1>t, <2>2, Effects DEF Orderly
    <3>2. /\ wpc[t] = "setLocal" /\ wpc'[t] = "setSession" /\ que' = que
          /\ userSession' = [userSession EXCEPT ![t][Luid(t)] = Cur(t)]
      BY <3>1, <1>t DEF LoginSetLocal, Step
    <3>3. c = Cur(t)
      BY <1>1, <1>s, <1>t, <2>2, <3>2
    <3> QED
      BY <3>1, <3>2, <3>3, CurrentReached DEF LoginStep, Bound
  <2> QED
    BY <2>1, <2>2
<1>2. ASSUME NEW u \in Uid, NEW c \in Session, usession'[u] = c
      PROVE  Of[c] = u /\ Reached(c, Registered)'
  <2>1. CASE usession[u] = c
    BY <1>k, <1>t, <2>1
  <2>2. CASE usession[u] # c
    <3>1. PICK t \in Server : LoginSetSession(t)
      BY <1>2, <1>t, <2>2, Effects DEF Orderly
    <3>2. /\ wpc[t] = "setSession" /\ wpc'[t] = "release" /\ que' = que
          /\ usession' = [usession EXCEPT ![Luid(t)] = Cur(t)]
      BY <3>1, <1>t DEF LoginSetSession, Step
    <3>3. c = Cur(t) /\ Of[c] = u
      BY <1>2, <1>s, <1>t, <2>2, <3>2
    <3> QED
      BY <3>1, <3>2, <3>3, CurrentReached DEF LoginStep, Registered
  <2> QED
    BY <2>1, <2>2
<1>3. ASSUME NEW c \in Session, userUid'[c] # NoUser
      PROVE  Reached(c, Marked)'
  <2>1. CASE userUid'[c] = userUid[c]
    BY <1>k, <1>3, <2>1
  <2>2. CASE userUid'[c] # userUid[c]
    <3>1. PICK t \in Server : LoginSetUid(t)
      BY <2>2, Effects DEF Orderly
    <3>2. /\ wpc[t] = "setUid" /\ wpc'[t] = "setIp" /\ que' = que
          /\ userUid' = [userUid EXCEPT ![Cur(t)] = Luid(t)]
      BY <3>1, <1>t DEF LoginSetUid, Step
    <3>3. c = Cur(t)
      BY <1>t, <2>2, <3>2
    <3> QED
      BY <3>1, <3>2, <3>3, CurrentReached DEF LoginStep, Marked
  <2> QED
    BY <2>1, <2>2
<1>4. /\ \A s \in Server, u \in Uid : userSession'[s][u] \in Session \cup {NoSession}
      /\ \A u \in Uid : usession'[u] \in Session \cup {NoSession}
  <2>1. TypeOK'
    BY NextTypeOK
  <2> QED
    BY <2>1 DEF TypeOK, BindTypeOK, RedisTypeOK
<1>5. \A s \in Server, u \in Uid :
        userSession'[s][u] # NoSession => Reached(userSession[s][u], Bound)'
  BY <1>1, <1>4 DEF Reached, InQue
<1>6. \A u \in Uid : usession'[u] # NoSession =>
        Of[usession'[u]] = u /\ Reached(usession[u], Registered)'
  BY <1>2, <1>4 DEF Reached, InQue
<1> QED
  BY <1>3, <1>5, <1>6

\* A worker in a handler keeps its place and its message unless it moves itself.
LEMMA WorkersStay ==
  ASSUME TypeOK, Calm, [Next]_vars, NEW s \in Server, wpc[s] # "idle", ~LoginStep(s)
  PROVE  wpc'[s] = wpc[s] /\ que'[s] = que[s] /\ Cur(s)' = Cur(s) /\ Luid(s)' = Luid(s)
<1> At \in [Session -> Server]
  BY ConstantsAssumption
<1>1. ASSUME NEW c \in Session, Receive(c) PROVE wpc'[s] = wpc[s] /\ que'[s] = que[s]
  BY <1>1 DEF Receive, workVars
<1>2. ASSUME NEW c \in Session, Post(c) PROVE wpc'[s] = wpc[s] /\ que'[s] = que[s]
  BY <1>2, Posted
<1>3. ASSUME NEW t \in Server, LoginStep(t) PROVE wpc'[s] = wpc[s] /\ que'[s] = que[s]
  BY <1>3, WorkerMoves
<1>4. wpc'[s] = wpc[s] /\ que'[s] = que[s]
  BY <1>1, <1>2, <1>3, StepKinds DEF Quiet
<1> QED
  BY <1>4 DEF Cur, Luid

LEMMA NextCalls ==
  ASSUME Orderly, TypeOK, Queued, Marks, Calls, [Next]_vars
  PROVE  Calls'
<1> Calm
  BY DEF Orderly, Calm, Crash
<1>t. /\ kicks \subseteq Kick /\ At \in [Session -> Server] /\ Of \in [Session -> User]
      /\ userSession \in [Server -> [Uid -> Session \cup {NoSession}]]
      /\ wpc \in [Server -> WorkerPc] /\ NoSession \notin Session
  BY ConstantsAssumption DEF TypeOK, BindTypeOK, WorkTypeOK
<1>k. \A c \in Session : Reached(c, Bound) => Reached(c, Bound)'
  BY ReachedStays
<1> DEFINE Call(k) ==
      /\ wpc[At[k.by]] = "kick" /\ Cur(At[k.by]) = k.by
      /\ k.victim # NoSession =>
           At[k.victim] = k.to /\ Of[k.victim] = Of[k.by] /\ Reached(k.victim, Bound)
<1>1. ASSUME NEW k \in kicks PROVE ~LoginStep(At[k.by]) \/ k \notin kicks'
  <2> DEFINE s == At[k.by]
  <2>1. k.by \in Session /\ s \in Server /\ wpc[s] = "kick" /\ Cur(s) = k.by
    BY <1>t DEF Calls, Kick
  <2> SUFFICES ASSUME LoginStep(s) PROVE FALSE
    OBVIOUS
  <2> HIDE DEF s
  <2>2. LoginKicked(s)
    BY <2>1 DEF LoginStep, LoginBegin, LoginLock, LoginGetIp, LoginEvict, LoginSetUid,
      LoginSetIp, LoginSetLocal, LoginSetSession, LoginRelease, LoginReply, Step
  <2> QED
    BY <2>1, <2>2 DEF LoginKicked, Orderly
<1>2. ASSUME NEW k \in kicks, k \in kicks'
      PROVE  Call(k)'
  <2>1. k.by \in Session /\ At[k.by] \in Server /\ k.victim \in Session \cup {NoSession}
    BY <1>t DEF Kick
  <2>2. wpc[At[k.by]] = "kick" /\ Cur(At[k.by]) = k.by
    BY DEF Calls
  <2>3. wpc'[At[k.by]] = "kick" /\ (Cur(At[k.by]) = k.by)'
    BY <1>1, <1>2, <2>1, <2>2, WorkersStay DEF Orderly
  <2>4. k.victim # NoSession =>
          At[k.victim] = k.to /\ Of[k.victim] = Of[k.by] /\ Reached(k.victim, Bound)'
    BY <1>k, <2>1 DEF Calls
  <2> QED
    BY <2>3, <2>4
<1>3. ASSUME NEW s \in Server, LoginGetIp(s) PROVE Calls'
  <2>1. /\ wpc[s] = "getIp" /\ que' = que
        /\ \/ kicks' = kicks
           \/ /\ wpc'[s] = "kick"
              /\ \E t \in PeerPools(s, uip[Luid(s)]) :
                   kicks' = kicks \cup {[by |-> Cur(s), to |-> t, victim |-> NoSession]}
    BY <1>3, <1>t DEF LoginGetIp, Step
  <2>2. Cur(s) \in Session /\ At[Cur(s)] = s /\ Cur(s)' = Cur(s)
    BY <2>1, Queues DEF Cur
  <2>3. \A k \in kicks : k.by # Cur(s)
    BY <2>1, <2>2 DEF Calls
  <2>4. CASE kicks' = kicks
    BY <1>2, <2>4 DEF Calls
  <2>5. CASE kicks' # kicks
    <3>1. PICK t \in PeerPools(s, uip[Luid(s)]) :
            kicks' = kicks \cup {[by |-> Cur(s), to |-> t, victim |-> NoSession]}
      BY <2>1, <2>5
    <3>2. PICK n : n = [by |-> Cur(s), to |-> t, victim |-> NoSession]
      OBVIOUS
    <3>3. n.by = Cur(s) /\ n.victim = NoSession /\ kicks' = kicks \cup {n}
      BY <3>1, <3>2
    <3>4. Call(n)'
      BY <2>1, <2>2, <2>5, <3>3
    <3>5. \A k, l \in kicks : k.by = l.by => k = l
      BY DEF Calls
    <3>6. \A k, l \in kicks' : k.by = l.by => k = l
      BY <2>3, <3>3, <3>5
    <3>7. \A k \in kicks' : Call(k)'
      BY <1>2, <3>3, <3>4
    <3> QED
      BY <3>6, <3>7 DEF Calls
  <2> QED
    BY <2>4, <2>5
<1>4. ASSUME NEW k \in kicks, KickLookup(k) PROVE Calls'
  <2>1. /\ k \in Kick /\ k.by \in Session /\ k.to \in Server /\ Of[k.by] \in Uid
        /\ userSession[k.to][Of[k.by]] \in Session \cup {NoSession}
    BY <1>t DEF Kick, Uid
  <2>2. UNCHANGED <<wpc, que>> /\ wpc[At[k.by]] = "kick" /\ Cur(At[k.by]) = k.by
    BY <1>4 DEF KickLookup, Calls
  <2>3. CASE kicks' = kicks \ {k}
    BY <1>2, <2>3 DEF Calls
  <2>4. ASSUME NEW v \in Session, v = userSession[k.to][Of[k.by]],
               kicks' = (kicks \ {k}) \cup {[k EXCEPT !.victim = v]}
        PROVE  Calls'
    <3>1. At[v] = k.to /\ Of[v] = Of[k.by] /\ Reached(v, Bound)
      BY <1>t, <2>1, <2>4 DEF TypeOK, BindTypeOK, Marks
    <3>2. Reached(v, Bound)'
      BY <1>k, <3>1
    <3>3. PICK n : n = [k EXCEPT !.victim = v]
      OBVIOUS
    <3>4. n.by = k.by /\ n.to = k.to /\ n.victim = v /\ kicks' = (kicks \ {k}) \cup {n}
      BY <2>1, <2>4, <3>3 DEF Kick
    <3>5. Call(n)'
      BY <2>2, <3>1, <3>2, <3>4 DEF Cur
    <3>6. \A l \in kicks' : Call(l)'
      BY <1>2, <3>4, <3>5
    <3>7. \A l, m \in kicks : l.by = m.by => l = m
      BY DEF Calls
    <3>8. \A l, m \in kicks' : l.by = m.by => l = m
      BY <3>4, <3>7
    <3> QED
      BY <3>6, <3>8 DEF Calls
  <2> QED
    BY <1>4, <2>1, <2>3, <2>4 DEF KickLookup
<1>5. CASE kicks' \subseteq kicks
  <2>1. \A l \in kicks' : Call(l)'
    BY <1>2, <1>5
  <2> QED
    BY <1>5, <2>1 DEF Calls
<1> QED
  BY <1>3, <1>4, <1>5, Effects DEF Orderly

-----------------------------------------------------------------------------
(* A registered session is delivered to.                                   *)

\* A worker is about to register another session of u, and the older one may
\* have been cleared: it has been evicted, or a call has seen to it.
Replacing(u) ==
  \E s \in Server :
    /\ wpc[s] \in {"kick", "setUid", "setIp", "setLocal", "setSession"} /\ Luid(s) = u
    /\ wpc[s] = "kick" => ~ \E k \in kicks : k.by = Cur(s) /\ k.victim = NoSession

\* Nobody takes away a session that has just logged in, before it is bound, while
\* it waits to be registered, or as long as it is the registered one.
Delivered ==
  /\ \A c \in Session : logins[c] = 1 /\ Alive(c) /\ ~Reached(c, Bound) => c \in sessions
  /\ \A s \in Server : wpc[s] = "setSession" /\ Alive(Cur(s)) =>
       Cur(s) \in sessions /\ userSession[s][Luid(s)] = Cur(s)
  /\ \A u \in User, c \in Session : usession[u] = c /\ Alive(c) /\ ~Replacing(u) =>
       c \in sessions /\ userSession[At[c]][u] = c

LEMMA ReplacingStays ==
  ASSUME Orderly, TypeOK, [Next]_vars, NEW u, Replacing(u)
  PROVE  Replacing(u)' \/ \E s \in Server : LoginSetSession(s) /\ Luid(s) = u
<1> Calm
  BY DEF Orderly, Calm, Crash
<1> DEFINE Busy == {"kick", "setUid", "setIp", "setLocal", "setSession"}
<1>1. PICK s \in Server :
        /\ wpc[s] \in Busy /\ Luid(s) = u
        /\ wpc[s] = "kick" => ~ \E k \in kicks : k.by = Cur(s) /\ k.victim = NoSession
  BY DEF Replacing
<1>2. wpc[s] # "idle" /\ que[s] # <<>> /\ Cur(s) \in Session /\ At[Cur(s)] = s
  BY <1>1, Queues
<1>3. CASE ~LoginStep(s)
  <2>1. wpc'[s] = wpc[s] /\ Cur(s)' = Cur(s) /\ Luid(s)' = Luid(s)
    BY <1>2, <1>3, WorkersStay DEF Orderly
  <2>2. ASSUME wpc[s] = "kick", NEW k \in kicks', k.by = Cur(s), k.victim = NoSession
        PROVE  FALSE
    <3>1. CASE kicks' \subseteq kicks
      BY <1>1, <2>2, <3>1
    <3>2. ASSUME NEW t \in Server, LoginGetIp(t) PROVE FALSE
      <4>1. t # s /\ wpc[t] # "idle"
        BY <1>3, <3>2 DEF LoginStep, LoginGetIp
      <4>2. At[Cur(t)] = t
        BY <4>1, Queues
      <4>3. k \in kicks \/ k.by = Cur(t)
        BY <3>2 DEF LoginGetIp
      <4> QED
        BY <1>1, <1>2, <2>2, <4>1, <4>2, <4>3
    <3>3. ASSUME NEW l \in kicks, KickLookup(l) PROVE FALSE
      <4>1. l \in Kick
        BY DEF TypeOK, WorkTypeOK
      <4>2. k \in kicks \/ k = [l EXCEPT !.victim = userSession[l.to][Of[l.by]]]
        BY <3>3 DEF KickLookup
      <4>3. k \in kicks
        BY <2>2, <3>3, <4>1, <4>2 DEF KickLookup, Kick
      <4> QED
        BY <1>1, <2>2, <4>3
    <3> QED
      BY <3>1, <3>2, <3>3, Effects DEF Orderly
  <2> QED
    BY <1>1, <2>1, <2>2 DEF Replacing
<1>4. CASE LoginStep(s)
  <2>1. /\ que' = que /\ wpc'[s] \in Busy /\ wpc'[s] # "kick"
        \/ wpc[s] = "setSession"
    BY <1>1, <1>4, WorkerMoves DEF Moves
  <2>2. CASE wpc[s] = "setSession"
    BY <1>1, <1>4, <2>2 DEF LoginStep, LoginBegin, LoginLock, LoginGetIp, LoginEvict,
      LoginKicked, LoginSetUid, LoginSetIp, LoginSetLocal, LoginRelease, LoginReply, Step
  <2>3. CASE que' = que /\ wpc'[s] \in Busy /\ wpc'[s] # "kick"
    <3>1. Luid(s)' = u
      BY <1>1, <2>3 DEF Luid, Cur
    <3> QED
      BY <2>3, <3>1 DEF Replacing
  <2> QED
    BY <2>1, <2>2, <2>3
<1> QED
  BY <1>3, <1>4

\* How a session can lose its place in _sessions or its binding: it is over, or it
\* is evicted or kicked, or a login of the same user at its server takes the
\* binding.
Evicted(c) ==
  \/ \E s \in Server : LoginEvict(s) /\ c = userSession[s][Luid(s)]
  \/ \E k \in kicks : KickClear(k) /\ c = k.victim

LEMMA Losses ==
  ASSUME TypeOK, Calm, CleansClosed, [Next]_vars, NEW c \in Session, NEW u \in Uid
  PROVE  /\ c \in sessions => c \in sessions' \/ ~Alive(c)' \/ Evicted(c)
         /\ userSession[At[c]][u] = c =>
              \/ userSession'[At[c]][u] = c \/ ~Alive(c)' \/ Evicted(c)
              \/ LoginSetLocal(At[c]) /\ Luid(At[c]) = u
<1> DEFINE Keeps == /\ c \in sessions => c \in sessions'
                    /\ userSession[At[c]][u] = c => userSession'[At[c]][u] = c
<1>t. /\ userSession \in [Server -> [Uid -> Session \cup {NoSession}]]
      /\ userUid \in [Session -> Uid] /\ At \in [Session -> Server]
      /\ rd \in [Session -> {"off", "read", "post"}]
      /\ sock \in [Session -> {"idle", "open", "closed"}]
  BY ConstantsAssumption DEF TypeOK, BindTypeOK, ConnTypeOK
<1>0. UNCHANGED <<sessions, userSession>> => Keeps
  OBVIOUS
<1>c. ASSUME NEW d \in Session, ClearSession(d), c # d PROVE Keeps
  BY <1>t, <1>c DEF ClearSession, RmvUserSession
<1>1. ASSUME NEW d \in Session,
             \/ Accept(d) \/ Receive(d) \/ Post(d) \/ ReceiveInvalid(d)
             \/ ReadError(d) \/ WriteError(d)
      PROVE  Keeps
  BY <1>0, <1>1 DEF Accept, Receive, Post, ReceiveInvalid, ReadError, WriteError
<1>2. ASSUME NEW d \in Session, BadHeader(d) PROVE Keeps \/ ~Alive(c)'
  <2>1. ClearSession(d) /\ rd' = [rd EXCEPT ![d] = "off"]
    BY <1>2 DEF BadHeader
  <2> QED
    BY <1>c, <1>t, <2>1, ClearSessionErases DEF Alive
<1>3. ASSUME NEW s \in Server,
             \/ Insert(s) \/ (\E expired \in SUBSET SessionsOf(s) : Tick(s, expired))
             \/ (\E d \in Session : TimerDeal(s, d))
      PROVE  Keeps
  BY <1>3 DEF Insert, Tick, TimerDeal
<1>4. ASSUME NEW p \in Cleaner, DealStep(p) PROVE Keeps \/ ~Alive(c)'
  <2>1. CASE DealClear(p)
    <3>1. /\ ClearSession(csess[p]) /\ csess[p] \in Session /\ sock' = sock
          /\ sock[csess[p]] = "closed"
      BY <2>1 DEF DealClear, Goto, TypeOK, DealTypeOK, CleansClosed
    <3> QED
      BY <1>c, <3>1, ClearSessionErases DEF Alive
  <2>2. CASE DealLock(p) \/ DealGet(p) \/ DealDelSession(p) \/ DealDelIp(p) \/ DealRelease(p)
    BY <1>0, <2>2 DEF DealLock, DealGet, DealDelSession, DealDelIp, DealRelease, connVars
  <2> QED
    BY <1>4, <2>1, <2>2 DEF DealStep
<1>5. ASSUME NEW s \in Server, LoginEvict(s) PROVE Keeps \/ Evicted(c)
  <2> DEFINE old == userSession[s][Luid(s)]
  <2>1. Luid(s) \in Uid
    BY <1>5, CurrentLogin DEF LoginEvict, Step, Uid
  <2>2. old \in Session \cup {NoSession}
    BY <1>t, <2>1
  <2>3. old = NoSession => Keeps
    BY <1>5 DEF LoginEvict
  <2>4. old \in Session => Keeps \/ c = old
    BY <1>5, <1>c, ConstantsAssumption DEF LoginEvict
  <2> QED
    BY <1>5, <2>2, <2>3, <2>4 DEF Evicted
<1>6. ASSUME NEW s \in Server, LoginSetLocal(s)
      PROVE  \/ Keeps
             \/ s = At[c] /\ Luid(s) = u /\ (c \in sessions => c \in sessions')
  <2>1. /\ userSession' = [userSession EXCEPT ![s][Luid(s)] = Cur(s)]
        /\ sessions' = sessions
    BY <1>6 DEF LoginSetLocal, connVars
  <2> QED
    BY <1>t, <2>1
<1>7. ASSUME NEW s \in Server,
             \/ LoginBegin(s) \/ LoginLock(s) \/ LoginGetIp(s) \/ LoginKicked(s)
             \/ LoginSetUid(s) \/ LoginSetIp(s) \/ LoginSetSession(s)
             \/ LoginRelease(s) \/ LoginReply(s)
      PROVE  Keeps
  BY <1>0, <1>7 DEF LoginBegin, LoginLock, LoginGetIp, LoginKicked, LoginSetUid,
    LoginSetIp, LoginSetSession, LoginRelease, LoginReply, connVars
<1>8. ASSUME NEW k \in kicks, KickLookup(k) \/ KickClear(k) \/ KickLost(k)
      PROVE  Keeps \/ Evicted(c)
  <2>1. CASE KickLookup(k) \/ KickLost(k)
    BY <1>0, <2>1 DEF KickLookup, KickLost, connVars
  <2>2. CASE KickClear(k)
    BY <1>c, <2>2 DEF KickClear, Evicted, TypeOK, WorkTypeOK, Kick
  <2> QED
    BY <1>8, <2>1, <2>2
<1>9. ASSUME NEW v \in Uid, Expire(v) PROVE Keeps
  BY <1>0, <1>9 DEF Expire, connVars
<1>10. UNCHANGED vars => Keeps
  BY <1>0 DEF vars, connVars
<1>11. \/ Keeps \/ ~Alive(c)' \/ Evicted(c)
       \/ /\ LoginSetLocal(At[c]) /\ Luid(At[c]) = u
          /\ c \in sessions => c \in sessions'
  <2> HIDE DEF Keeps
  <2> QED
    BY <1>1, <1>2, <1>3, <1>4, <1>5, <1>6, <1>7, <1>8, <1>9, <1>10
      DEF Next, IoStep, LoginStep, Calm
<1> QED
  BY <1>11

\* With the lock held by one worker, and its calls waited for, nobody evicts or
\* kicks a session whose user's lock another worker holds.
LEMMA EvictedBy ==
  ASSUME Orderly, TypeOK, LockExclusion, Marks, Calls, NEW c \in Session, Evicted(c)
  PROVE  /\ Reached(c, Bound)
         /\ \E s \in Server :
              /\ wpc[s] \in {"evict", "kick"} /\ Luid(s) = Of[c]
              /\ \/ LoginEvict(s) /\ wpc[s] = "evict"
                 \/ wpc[s] = "kick" /\ \E k \in kicks :
                      KickClear(k) /\ k.by = Cur(s) /\ k.victim = c
<1> USE DEF Marks, Calls
<1>1. ASSUME NEW s \in Server, LoginEvict(s), c = userSession[s][Luid(s)]
      PROVE  Reached(c, Bound) /\ wpc[s] = "evict" /\ Luid(s) = Of[c]
  <2>1. wpc[s] = "evict"
    BY <1>1 DEF LoginEvict, Step
  <2>2. Luid(s) \in Uid
    BY <2>1, CurrentLogin DEF Uid
  <2> QED
    BY <1>1, <2>1, <2>2, ConstantsAssumption DEF TypeOK, BindTypeOK
<1>2. ASSUME NEW k \in kicks, KickClear(k), c = k.victim
      PROVE  \E s \in Server :
               /\ wpc[s] = "kick" /\ Luid(s) = Of[c] /\ Reached(c, Bound)
               /\ k.by = Cur(s)
  <2>1. k.by \in Session /\ At[k.by] \in Server
    BY ConstantsAssumption DEF TypeOK, WorkTypeOK, Kick
  <2> QED
    BY <1>2, <2>1, ConstantsAssumption DEF Luid
<1> QED
  BY <1>1, <1>2 DEF Evicted

\* Two workers inside their critical sections work for different users.
LEMMA OneLogin ==
  ASSUME LockExclusion, NEW s \in Server, NEW t \in Server, InLogin(s), InLogin(t),
         Luid(s) = Luid(t)
  PROVE  s = t
BY ThreadNames DEF LockExclusion

LEMMA NextDelivered ==
  ASSUME Orderly, TypeOK, LockExclusion, CleansClosed, Queued, Fresh, Marks, Calls,
         Delivered, [Next]_vars
  PROVE  Delivered'
<1> Calm
  BY DEF Orderly, Calm, Crash
<1>t. /\ logins \in [Session -> 0 .. MaxLogins] /\ MaxLogins \in Nat /\ MaxLogins <= 1
      /\ At \in [Session -> Server] /\ Of \in [Session -> User] /\ User \subseteq Uid
      /\ NoSession \notin Session
  BY ConstantsAssumption DEF TypeOK, ConnTypeOK, Orderly, Uid
<1>a. ASSUME NEW c \in Session, logins[c] = 1, Alive(c)' PROVE Alive(c)
  BY <1>a, Effects DEF Fresh, Orderly
<1>k. \A c \in Session : Reached(c, Bound) => Reached(c, Bound)'
  BY ReachedStays
<1>1. ASSUME NEW c \in Session, logins'[c] = 1, Alive(c)', ~Reached(c, Bound)'
      PROVE  c \in sessions'
  <2>1. ASSUME NEW d \in Session, Receive(d) PROVE c \in sessions'
    <3>1. d \in sessions /\ sessions' = sessions /\ logins' = [logins EXCEPT ![d] = @ + 1]
      BY <2>1 DEF Receive
    <3>2. CASE c = d
      BY <3>1, <3>2
    <3>3. CASE c # d
      BY <1>1, <1>a, <1>k, <1>t, <3>1, <3>3 DEF Delivered
    <3> QED
      BY <3>2, <3>3
  <2>2. CASE logins' = logins
    <3>1. Alive(c) /\ ~Reached(c, Bound)
      BY <1>1, <1>a, <1>k, <2>2
    <3>2. c \in sessions
      BY <1>1, <2>2, <3>1 DEF Delivered
    <3>3. ~Evicted(c)
      BY <3>1, EvictedBy
    <3>4. Of[c] \in Uid
      BY <1>t
    <3> QED
      BY <1>1, <3>2, <3>3, <3>4, Losses DEF Orderly
  <2>3. (\E d \in Session : Receive(d)) \/ logins' = logins
    BY StepKinds, WorkerMoves DEF Post, Quiet, Orderly
  <2> QED
    BY <2>1, <2>2, <2>3
<1>2. ASSUME NEW s \in Server, NEW c \in Session, wpc'[s] = "setSession", Cur(s)' = c,
             Alive(c)'
      PROVE  c \in sessions' /\ userSession'[s][Of[c]] = c
  <2>1. CASE LoginSetLocal(s)
    <3>1. /\ wpc[s] = "setLocal" /\ que' = que /\ sessions' = sessions
          /\ userSession' = [userSession EXCEPT ![s][Luid(s)] = Cur(s)]
          /\ UNCHANGED <<sock, rd, logins>>
      BY <2>1 DEF LoginSetLocal, Step, connVars
    <3>2. Cur(s) = c /\ InQue(c) /\ At[c] = s /\ Luid(s) = Of[c] /\ Of[c] \in Uid
      BY <1>2, <1>t, <3>1, Queues DEF Cur, Luid
    <3>3. logins[c] = 1 /\ ~Reached(c, Bound)
      BY <3>1, <3>2 DEF Queued, Reached, Bound
    <3>4. c \in sessions
      BY <1>2, <1>a, <3>3 DEF Delivered
    <3> QED
      BY <3>1, <3>2, <3>4 DEF TypeOK, BindTypeOK
  <2>2. CASE ~LoginStep(s)
    <3>1. wpc[s] = "setSession"
      <4>1. wpc[s] # "idle"
        BY <1>2, <2>2, StepKinds, Posted, WorkerMoves DEF Quiet, Receive, workVars, Orderly
      <4> QED
        BY <1>2, <2>2, <4>1, WorkersStay DEF Orderly
    <3>2. Cur(s) = c /\ InQue(c) /\ At[c] = s /\ Luid(s) = Of[c] /\ Of[c] \in Uid
      BY <1>2, <1>t, <2>2, <3>1, Queues, WorkersStay DEF Luid, Orderly
    <3>3. logins[c] = 1
      BY <3>2 DEF Queued
    <3>4. c \in sessions /\ userSession[s][Of[c]] = c
      BY <1>2, <1>a, <3>1, <3>2, <3>3 DEF Delivered
    <3>5. ~Evicted(c)
      <4> SUFFICES ASSUME NEW t \in Server, wpc[t] \in {"evict", "kick"}, Luid(t) = Of[c]
                   PROVE  FALSE
        BY EvictedBy
      <4> QED
        BY <3>1, <3>2, OneLogin DEF InLogin
    <3>6. ~LoginSetLocal(At[c])
      BY <2>2, <3>2 DEF LoginStep
    <3> QED
      BY <1>2, <3>2, <3>4, <3>5, <3>6, Losses DEF Orderly
  <2>3. LoginStep(s) => LoginSetLocal(s)
    BY <1>2, ConstantsAssumption DEF LoginStep, LoginBegin, LoginLock, LoginGetIp,
      LoginEvict, LoginKicked, LoginSetUid, LoginSetIp, LoginSetSession, LoginRelease,
      LoginReply, Step, TypeOK, WorkTypeOK
  <2> QED
    BY <2>1, <2>2, <2>3
<1>3. ASSUME NEW u \in User, NEW c \in Session, usession'[u] = c, Alive(c)', ~Replacing(u)'
      PROVE  c \in sessions' /\ userSession'[At[c]][u] = c
  <2>1. ASSUME NEW s \in Server, LoginSetSession(s), Luid(s) = u
        PROVE  c \in sessions' /\ userSession'[At[c]][u] = c
    <3>1. /\ wpc[s] = "setSession" /\ usession' = [usession EXCEPT ![Luid(s)] = Cur(s)]
          /\ UNCHANGED <<sock, rd, sessions, userSession>>
      BY <2>1 DEF LoginSetSession, Step, connVars
    <3>2. c = Cur(s) /\ At[c] = s
      BY <1>3, <1>t, <2>1, <3>1, Queues DEF TypeOK, RedisTypeOK
    <3>3. Alive(Cur(s))
      BY <1>3, <3>1, <3>2 DEF Alive
    <3> QED
      BY <2>1, <3>1, <3>2, <3>3 DEF Delivered
  <2>2. CASE ~ \E s \in Server : LoginSetSession(s) /\ Luid(s) = u
    <3>1. ~Replacing(u)
      BY <1>3, <2>2, ReplacingStays
    <3>2. usession[u] = c
      <4>1. ASSUME NEW s \in Server, LoginSetSession(s) PROVE usession'[u] = usession[u]
        BY <1>t, <2>2, <4>1 DEF LoginSetSession, TypeOK, RedisTypeOK
      <4> QED
        BY <1>3, <1>t, <4>1, Effects DEF Orderly
    <3>3. Of[c] = u /\ logins[c] = 1
      BY <1>t, <3>2 DEF Marks, Reached
    <3>4. Alive(c)
      BY <1>3, <1>a, <3>3
    <3>5. c \in sessions /\ userSession[At[c]][u] = c
      BY <3>1, <3>2, <3>4 DEF Delivered
    <3>6. ~Evicted(c)
      <4> SUFFICES ASSUME NEW s \in Server, Luid(s) = u, wpc[s] \in {"evict", "kick"},
                          \/ LoginEvict(s) /\ wpc[s] = "evict"
                          \/ wpc[s] = "kick" /\ \E k \in kicks :
                               KickClear(k) /\ k.by = Cur(s) /\ k.victim = c
                   PROVE  FALSE
        BY <3>3, EvictedBy
      <4>1. CASE LoginEvict(s)
        <5>1. wpc'[s] = "setUid" /\ que' = que
          BY <4>1 DEF LoginEvict, Step, TypeOK, WorkTypeOK
        <5>2. Luid(s)' = u
          BY <5>1 DEF Luid, Cur
        <5> QED
          BY <1>3, <5>1, <5>2 DEF Replacing
      <4>2. ASSUME wpc[s] = "kick", NEW k \in kicks, k.by = Cur(s), k.victim = c
            PROVE  FALSE
        BY <1>t, <3>1, <4>2 DEF Replacing, Calls
      <4> QED
        BY <4>1, <4>2
    <3>7. ~(LoginSetLocal(At[c]) /\ Luid(At[c]) = u)
      BY <1>t, <3>1 DEF Replacing, LoginSetLocal, Step
    <3> QED
      BY <1>3, <1>t, <3>5, <3>6, <3>7, Losses DEF Orderly
  <2> QED
    BY <2>1, <2>2
<1>4. ASSUME NEW s \in Server, wpc'[s] = "setSession", Alive(Cur(s))'
      PROVE  (Cur(s) \in sessions /\ userSession[s][Luid(s)] = Cur(s))'
  <2>1. TypeOK'
    BY NextTypeOK
  <2>2. (Cur(s) \in Session)'
    BY <1>4, <2>1 DEF TypeOK, WorkTypeOK, Cur
  <2> QED
    BY <1>2, <1>4, <2>2 DEF Luid, Alive
<1> QED
  BY <1>1, <1>3, <1>4 DEF Delivered

\* The whole of it.
OrderlyInv == Queued /\ Fresh /\ Marks /\ Calls /\ Delivered

LEMMA OrderlyHolds ==
  ASSUME Orderly
  PROVE  Spec => [](WithdrawInv /\ OrderlyInv)
<1>1. Init => OrderlyInv
  <2> SUFFICES ASSUME Init PROVE OrderlyInv
    OBVIOUS
  <2>1. \A s \in Server : que[s] = <<>> /\ wpc[s] = "idle" /\ pend[s] = NoSession
    BY DEF Init
  <2>2. \A c \in Session : /\ At[c] \in Server /\ ~InQue(c) /\ rd[c] = "off"
                           /\ sock[c] = "idle" /\ userUid[c] = NoUser /\ logins[c] = 0
    BY <2>1, ConstantsAssumption DEF Init, InQue
  <2>3. Queued /\ Fresh
    BY <2>1, <2>2 DEF Queued, Fresh, Init
  <2>4. Marks /\ Calls
    BY <2>1, <2>2 DEF Marks, Calls, Init
  <2>5. Delivered
    BY <2>1, <2>2, ConstantsAssumption DEF Delivered, Init, Uid
  <2> QED
    BY <2>3, <2>4, <2>5 DEF OrderlyInv
<1>2. TypeOK /\ LockExclusion /\ WithdrawInv /\ OrderlyInv /\ [Next]_vars => OrderlyInv'
  BY NextQueued, NextFresh, NextMarks, NextCalls, NextDelivered DEF WithdrawInv, OrderlyInv
<1>3. Init => WithdrawInv
  BY DEF Init, WithdrawInv, CleansClosed, StillThere, Uid
<1>4. TypeOK /\ LockExclusion /\ WithdrawInv /\ [Next]_vars => WithdrawInv'
  BY NextWithdraw DEF Orderly
<1>5. Spec => []LockExclusion
  BY Exclusion DEF Orderly
<1> QED
  BY <1>1, <1>2, <1>3, <1>4, <1>5, TypeCorrect, PTL DEF Spec

\* With a lock that holds, servers that do not die, calls that are waited for and
\* clients that log in once, a registered session that is alive is kept, marked
\* with its user, and the one its server delivers to: no clean-up, eviction or
\* kick meant for an older session takes away a newer one.
THEOREM RegisteredDelivered ==
  ASSUME Orderly
  PROVE  Spec => []Delivery
<1>1. TypeOK /\ LockExclusion /\ LocalBinding /\ OrderlyInv => Delivery
  <2> SUFFICES ASSUME TypeOK, LockExclusion, LocalBinding, Delivered,
                      NEW u \in User, NEW c \in Session, usession[u] = c, lock[u] = Free,
                      Alive(c)
               PROVE  c \in sessions /\ userUid[c] = u /\ userSession[At[c]][u] = c
    BY DEF Delivery, Alive, OrderlyInv
  <2>1. ~Replacing(u)
    BY Threads, ThreadNames DEF LockExclusion, Replacing, InLogin
  <2>2. c \in sessions /\ userSession[At[c]][u] = c
    BY <2>1 DEF Delivered
  <2> QED
    BY <2>2, ConstantsAssumption DEF LocalBinding
<1>2. Spec => []LockExclusion
  BY Exclusion DEF Orderly
<1> QED
  BY <1>1, <1>2, OrderlyHolds, TypeCorrect, BindingLocal, PTL

-----------------------------------------------------------------------------
(* One session per user.                                                   *)

\* The peers of a server know it by its name (NamedByAddr of MCChatLogin; the
\* config.ini as shipped does not do so).
Named == \A s \in Server : RpcAddr[s] = s

\* Whose connections the threads of a server work on: its own.
Homed ==
  /\ \A s \in Server : \A c \in due[s] : At[c] = s
  /\ \A p \in Cleaner : cpc[p] # "none" => At[csess[p]] = OwnerOf(p)
  /\ \A k \in kicks : k.victim # NoSession => At[k.victim] = k.to

\* Who waits for a handler, is marked or is registered has sent a login.
Known ==
  /\ \A c \in Session : rd[c] = "post" \/ InQue(c) \/ userUid[c] # NoUser => logins[c] # 0
  /\ \A u \in Uid : usession[u] # NoSession => logins[usession[u]] # 0 /\ Of[usession[u]] = u

\* A clean-up that goes on to delete uip_ has deleted usession_.
Forgotten == \A p \in Cleaner : cpc[p] = "delIp" => usession[cuid[p]] = NoSession

\* The worker of c's server is about to register c; a clean-up has withdrawn c and
\* is about to clear it.
Entry       == {"setIp", "setLocal", "setSession"}
Entering(c) == wpc[At[c]] \in Entry /\ Cur(At[c]) = c
Leaving(c)  == \E p \in Cleaner : /\ cpc[p] \in {"delIp", "clear"}
                                  /\ cuid[p] = Of[c] /\ csess[p] = c

\* A registered session is found by the next login of its user: through uip_, and
\* in the bindings of the server it names.
Found(c) == userUid[c] = Of[c] /\ uip[Of[c]] = At[c] /\ userSession[At[c]][Of[c]] = c
Located ==
  /\ \A c \in sessions : usession[Of[c]] = c => Found(c)
  /\ \A s \in Server :
       /\ wpc[s] = "evict" => uip[Luid(s)] = s
       /\ wpc[s] \in Entry => userUid[Cur(s)] = Luid(s)
       /\ wpc[s] \in {"setLocal", "setSession"} => uip[Luid(s)] = s
       /\ wpc[s] = "setSession" /\ Cur(s) \in sessions =>
            userSession[s][Luid(s)] = Cur(s)

\* A session that is logged in is registered, unless it is on its way in or out; and
\* a worker that is to register another one has seen to it before.
Sole ==
  /\ \A c \in sessions : userUid[c] # NoUser =>
       Entering(c) \/ usession[Of[c]] = c \/ Leaving(c)
  /\ \A s \in Server, c \in sessions : wpc[s] # "idle" /\ userUid[c] = Luid(s) =>
       /\ wpc[s] = "kick" => \E k \in kicks : /\ k.by = Cur(s)
                                              /\ \/ k.victim = c
                                                 \/ k.victim = NoSession /\ k.to = At[c]
       /\ wpc[s] # "setUid"
       /\ wpc[s] \in Entry => c = Cur(s)

\* Which step brings a session in, changes a key, takes a clean-up further, or
\* ends a call.
LEMMA Causes ==
  ASSUME TypeOK, Calm, [Next]_vars
  PROVE  /\ (\E s \in Server : Insert(s)) \/ sessions' \subseteq sessions
         /\ \/ \E s \in Server : LoginSetSession(s)
            \/ \E p \in Cleaner : DealDelSession(p)
            \/ usession' = usession
         /\ \/ \E s \in Server : LoginSetIp(s)
            \/ \E p \in Cleaner : DealDelIp(p)
            \/ uip' = uip
         /\ \A p \in Cleaner :
              \/ DealStep(p)
              \/ cpc[p] = "none" /\ cpc'[p] = "lock"
              \/ cpc'[p] = cpc[p] /\ csess'[p] = csess[p] /\ cuid'[p] = cuid[p]
         /\ \A k \in kicks \ kicks' : KickLookup(k) \/ KickClear(k) \/ KickLost(k)
<1> DEFINE Cleans == \A p \in Cleaner :
                       \/ DealStep(p)
                       \/ cpc[p] = "none" /\ cpc'[p] = "lock"
                       \/ cpc'[p] = cpc[p] /\ csess'[p] = csess[p] /\ cuid'[p] = cuid[p]
           Shrinks == sessions' \subseteq sessions
<1>t. /\ cpc \in [Cleaner -> CleanerPc] /\ cuid \in [Cleaner -> Uid]
      /\ csess \in [Cleaner -> Session \cup {NoSession}]
  BY DEF TypeOK, DealTypeOK
<1>0. UNCHANGED <<cpc, csess, cuid>> => Cleans
  OBVIOUS
<1>d. ASSUME NEW q \in Cleaner, NEW c, CloseAndDeal(q, c), cpc[q] = "none" PROVE Cleans
  BY <1>t, <1>d DEF CloseAndDeal
<1>1. ASSUME NEW c \in Session,
             \/ Accept(c) \/ Receive(c) \/ Post(c) \/ ReceiveInvalid(c) \/ BadHeader(c)
      PROVE  Shrinks /\ usession' = usession /\ uip' = uip /\ Cleans /\ kicks' = kicks
  BY <1>0, <1>1, ClearSessionErases DEF Accept, Receive, Post, ReceiveInvalid, BadHeader,
    workVars, cleanVars, redisVars
<1>2. ASSUME NEW c \in Session, ReadError(c) \/ WriteError(c)
      PROVE  Shrinks /\ usession' = usession /\ uip' = uip /\ Cleans /\ kicks' = kicks
  BY <1>d, <1>2, Threads DEF ReadError, WriteError, IoFree, workVars, redisVars
<1>3. ASSUME NEW s \in Server, Insert(s)
      PROVE  usession' = usession /\ uip' = uip /\ Cleans /\ kicks' = kicks
  BY <1>0, <1>3 DEF Insert, workVars, cleanVars, redisVars
<1>4. ASSUME NEW s \in Server, NEW expired \in SUBSET SessionsOf(s), Tick(s, expired)
      PROVE  Shrinks /\ usession' = usession /\ uip' = uip /\ Cleans /\ kicks' = kicks
  BY <1>0, <1>4 DEF Tick, workVars, redisVars
<1>5. ASSUME NEW s \in Server, NEW c \in Session, TimerDeal(s, c)
      PROVE  Shrinks /\ usession' = usession /\ uip' = uip /\ Cleans /\ kicks' = kicks
  BY <1>d, <1>5, Threads DEF TimerDeal, workVars, redisVars
<1>6. ASSUME NEW p \in Cleaner, DealStep(p)
      PROVE  /\ Shrinks /\ Cleans /\ kicks' = kicks
             /\ DealDelSession(p) \/ usession' = usession
             /\ DealDelIp(p) \/ uip' = uip
  <2>1. /\ kicks' = kicks
        /\ DealDelSession(p) \/ usession' = usession
        /\ DealDelIp(p) \/ uip' = uip
    BY <1>6 DEF DealStep, DealLock, DealGet, DealDelSession, DealDelIp, DealClear,
      DealRelease, workVars, redisVars
  <2>2. Shrinks
    BY <1>6, ClearSessionErases DEF DealStep, DealLock, DealGet, DealDelSession,
      DealDelIp, DealClear, DealRelease, connVars
  <2>3. \A q \in Cleaner : q # p =>
          cpc'[q] = cpc[q] /\ csess'[q] = csess[q] /\ cuid'[q] = cuid[q]
    BY <1>6, <1>t DEF DealStep, DealLock, DealGet, DealDelSession, DealDelIp,
      DealClear, DealRelease, Goto
  <2> QED
    BY <1>6, <2>1, <2>2, <2>3
<1>7. ASSUME NEW s \in Server, LoginStep(s)
      PROVE  /\ Shrinks /\ Cleans /\ kicks \subseteq kicks'
             /\ LoginSetSession(s) \/ usession' = usession
             /\ LoginSetIp(s) \/ uip' = uip
  <2>1. Shrinks
    BY <1>7, ClearSessionErases DEF LoginStep, LoginBegin, LoginLock, LoginGetIp,
      LoginEvict, LoginKicked, LoginSetUid, LoginSetIp, LoginSetLocal,
      LoginSetSession, LoginRelease, LoginReply, connVars
  <2>2. UNCHANGED <<cpc, csess, cuid>>
    BY <1>7, WorkerMoves
  <2>3. /\ kicks \subseteq kicks'
        /\ LoginSetSession(s) \/ usession' = usession
        /\ LoginSetIp(s) \/ uip' = uip
    BY <1>7 DEF LoginStep, LoginBegin, LoginLock, LoginGetIp, LoginEvict, LoginKicked,
      LoginSetUid, LoginSetIp, LoginSetLocal, LoginSetSession, LoginRelease,
      LoginReply, redisVars
  <2> QED
    BY <1>0, <2>1, <2>2, <2>3
<1>8. ASSUME NEW k \in kicks, KickLookup(k) \/ KickClear(k) \/ KickLost(k)
      PROVE  /\ Shrinks /\ usession' = usession /\ uip' = uip /\ Cleans
             /\ kicks \ kicks' \subseteq {k}
  BY <1>0, <1>8, ClearSessionErases DEF KickLookup, KickClear, KickLost, connVars,
    cleanVars, redisVars
<1>9. ASSUME NEW u \in Uid, Expire(u)
      PROVE  Shrinks /\ usession' = usession /\ uip' = uip /\ Cleans /\ kicks' = kicks
  BY <1>0, <1>9 DEF Expire, connVars, workVars, cleanVars
<1>10. UNCHANGED vars =>
         Shrinks /\ usession' = usession /\ uip' = uip /\ Cleans /\ kicks' = kicks
  BY <1>0 DEF vars, connVars, workVars, cleanVars, redisVars
<1> HIDE DEF Cleans, Shrinks
<1>11. /\ (\E s \in Server : Insert(s)) \/ Shrinks
       /\ \/ \E s \in Server : LoginSetSession(s)
          \/ \E p \in Cleaner : DealDelSession(p)
          \/ usession' = usession
       /\ \/ \E s \in Server : LoginSetIp(s)
          \/ \E p \in Cleaner : DealDelIp(p)
          \/ uip' = uip
       /\ Cleans
       /\ \A k \in kicks \ kicks' : KickLookup(k) \/ KickClear(k) \/ KickLost(k)
  BY <1>1, <1>2, <1>3, <1>4, <1>5, <1>6, <1>7, <1>8, <1>9, <1>10 DEF Next, IoStep, Calm
<1> QED
  BY <1>11 DEF Cleans, Shrinks

LEMMA NextHomed ==
  ASSUME TypeOK, Homed, [Next]_vars
  PROVE  Homed'
<1> USE DEF Homed
<1>t. /\ At \in [Session -> Server] /\ NoSession \notin Session
      /\ due \in [Server -> SUBSET Session] /\ cpc \in [Cleaner -> CleanerPc]
      /\ csess \in [Cleaner -> Session \cup {NoSession}]
      /\ userSession \in [Server -> [Uid -> Session \cup {NoSession}]]
      /\ kicks \subseteq Kick
  BY ConstantsAssumption DEF TypeOK, BindTypeOK, WorkTypeOK, DealTypeOK
<1>o. /\ \A c \in Session : Io(c) \in Cleaner /\ OwnerOf(Io(c)) = At[c]
      /\ \A s \in Server : Timer(s) \in Cleaner /\ OwnerOf(Timer(s)) = s
  BY Threads DEF OwnerOf, Io, Timer
<1>0. UNCHANGED <<due, cpc, csess, kicks>> => Homed'
  OBVIOUS
<1>1. ASSUME NEW c \in Session, ReadError(c) \/ WriteError(c) PROVE Homed'
  <2>1. CloseAndDeal(Io(c), c) /\ UNCHANGED <<due, kicks>>
    BY <1>1 DEF ReadError, WriteError, workVars
  <2> QED
    BY <1>o, <1>t, <2>1 DEF CloseAndDeal
<1>2. ASSUME NEW s \in Server, NEW expired \in SUBSET SessionsOf(s), Tick(s, expired)
      PROVE  Homed'
  <2>1. due' = [due EXCEPT ![s] = expired] /\ UNCHANGED <<cpc, csess, kicks>>
    BY <1>2 DEF Tick, workVars
  <2> QED
    BY <1>t, <2>1 DEF SessionsOf
<1>3. ASSUME NEW s \in Server, NEW c \in Session, TimerDeal(s, c) PROVE Homed'
  <2>1. /\ CloseAndDeal(Timer(s), c) /\ UNCHANGED kicks
        /\ c \in due[s] /\ due' = [due EXCEPT ![s] = @ \ {c}]
    BY <1>3 DEF TimerDeal, workVars
  <2>2. \A u \in Server : due'[u] \subseteq due[u]
    BY <1>t, <2>1
  <2>3. \A p \in Cleaner : cpc'[p] # "none" => At[csess'[p]] = OwnerOf(p)
    BY <1>o, <1>t, <2>1 DEF CloseAndDeal
  <2> QED
    BY <2>1, <2>2, <2>3
<1>4. ASSUME NEW p \in Cleaner, DealStep(p) PROVE Homed'
  <2>1. /\ UNCHANGED <<due, kicks>>
        /\ \A q \in Cleaner : cpc'[q] # "none" => cpc[q] # "none" /\ csess'[q] = csess[q]
    BY <1>4, <1>t DEF DealStep, DealLock, DealGet, DealDelSession, DealDelIp, DealClear,
      DealRelease, Goto, workVars
  <2> QED
    BY <2>1
<1>5. ASSUME NEW s \in Server, LoginStep(s) PROVE Homed'
  <2>1. UNCHANGED <<due, cpc, csess>>
    BY <1>5, WorkerMoves
  <2>2. \A k \in kicks' : k \in kicks \/ k.victim = NoSession
    BY <1>5 DEF LoginStep, LoginBegin, LoginLock, LoginGetIp, LoginEvict, LoginKicked,
      LoginSetUid, LoginSetIp, LoginSetLocal, LoginSetSession, LoginRelease, LoginReply
  <2> QED
    BY <2>1, <2>2
<1>6. ASSUME NEW k \in kicks, KickLookup(k) PROVE Homed'
  <2>1. UNCHANGED <<due, cpc, csess>>
    BY <1>6 DEF KickLookup, cleanVars
  <2>2. /\ k \in Kick /\ k.to \in Server /\ Of[k.by] \in Uid
    BY <1>t, ConstantsAssumption DEF Kick, Uid
  <2>3. PICK v : v = userSession[k.to][Of[k.by]]
    OBVIOUS
  <2>4. v # NoSession => At[v] = k.to
    BY <2>2, <2>3 DEF TypeOK, BindTypeOK
  <2>5. PICK n : n = [k EXCEPT !.victim = v]
    OBVIOUS
  <2>6. n.to = k.to /\ n.victim = v
    BY <2>2, <2>5 DEF Kick
  <2>7. \A l \in kicks' : l \in kicks \/ l = n
    BY <1>6, <2>3, <2>5 DEF KickLookup
  <2> QED
    BY <2>1, <2>4, <2>6, <2>7
<1>7. ASSUME NEW k \in kicks, KickClear(k) \/ KickLost(k) PROVE Homed'
  <2>1. UNCHANGED <<due, cpc, csess>> /\ kicks' \subseteq kicks
    BY <1>7 DEF KickClear, KickLost, cleanVars
  <2> QED
    BY <2>1
<1>8. ASSUME NEW s \in Server, Crash(s) PROVE Homed'
  <2>1. /\ due' = [due EXCEPT ![s] = {}] /\ kicks' \subseteq kicks
        /\ \A p \in Cleaner : cpc'[p] # "none" => cpc[p] # "none" /\ csess'[p] = csess[p]
    BY <1>8 DEF Crash
  <2> QED
    BY <1>t, <2>1
<1> QED
  BY <1>0, <1>1, <1>2, <1>3, <1>4, <1>5, <1>6, <1>7, <1>8 DEF Next, IoStep, vars,
    workVars, cleanVars, Accept, Receive, Post, ReceiveInvalid, BadHeader, Insert, Expire

\* A message leaves the queue in the order it came, and none comes but by Post.
LEMMA WaitsStill ==
  ASSUME TypeOK, NEW s \in Server, LoginStep(s), NEW c \in Session, InQue(c)'
  PROVE  InQue(c)
<1>1. /\ \A t \in Server : t # s => que'[t] = que[t]
      /\ que'[s] = que[s] \/ (que'[s] = Tail(que[s]) /\ que[s] # <<>>)
  BY WorkerMoves
<1>2. At[c] \in Server
  BY ConstantsAssumption
<1>3. CASE que'[At[c]] = que[At[c]]
  BY <1>3 DEF InQue
<1>4. CASE At[c] = s /\ que'[s] = Tail(que[s]) /\ que[s] # <<>>
  <2>1. que[s] \in Seq(Session)
    BY Queues
  <2>2. PICK i \in DOMAIN Tail(que[s]) : Tail(que[s])[i] = c
    BY <1>4 DEF InQue
  <2>3. i + 1 \in DOMAIN que[s] /\ que[s][i + 1] = c
    BY <1>4, <2>1, <2>2
  <2> QED
    BY <1>4, <2>3 DEF InQue
<1> QED
  BY <1>1, <1>2, <1>3, <1>4

LEMMA NextKnown ==
  ASSUME TypeOK, Known, [Next]_vars
  PROVE  Known'
<1> USE DEF Known
<1>t. /\ logins \in [Session -> 0 .. MaxLogins] /\ MaxLogins \in Nat
      /\ rd \in [Session -> {"off", "read", "post"}]
      /\ userUid \in [Session -> Uid] /\ NoSession \notin Session
      /\ usession \in [Uid -> Session \cup {NoSession}]
      /\ At \in [Session -> Server]
  BY ConstantsAssumption DEF TypeOK, ConnTypeOK, RedisTypeOK
<1>s. \A s \in Server : wpc[s] # "idle" =>
        /\ Cur(s) \in Session /\ InQue(Cur(s))
        /\ Luid(s) = Of[Cur(s)] /\ Luid(s) \in Uid
  BY Queues, CurrentLogin DEF Uid, Luid
<1>1. ASSUME NEW s \in Server, Crash(s) PROVE Known'
  <2>1. /\ UNCHANGED <<logins, usession>>
        /\ \A c \in Session : rd'[c] = "post" => rd[c] = "post"
        /\ \A c \in Session : userUid'[c] # NoUser => userUid[c] # NoUser
        /\ que' = [que EXCEPT ![s] = <<>>]
    BY <1>1 DEF Crash
  <2>2. ASSUME NEW c \in Session, InQue(c)' PROVE InQue(c)
    <3>1. que \in [Server -> Seq(Session)]
      BY DEF TypeOK, WorkTypeOK
    <3>2. At[c] # s
      BY <1>t, <2>1, <2>2, <3>1 DEF InQue
    <3>3. que'[At[c]] = que[At[c]]
      BY <1>t, <2>1, <3>1, <3>2
    <3> QED
      BY <2>2, <3>3 DEF InQue
  <2> QED
    BY <2>1, <2>2
<1>2. CASE Calm
  <2> DEFINE Sends(c) == /\ logins[c] # 0 => logins'[c] # 0
                         /\ rd'[c] = "post" \/ InQue(c)' => logins'[c] # 0
  <2>1. ASSUME NEW c \in Session PROVE Sends(c)
    <3>1. ASSUME NEW d \in Session, Receive(d) PROVE Sends(c)
      <4>1. /\ logins' = [logins EXCEPT ![d] = @ + 1] /\ UNCHANGED que
            /\ rd' = [rd EXCEPT ![d] = "post"]
        BY <3>1 DEF Receive, workVars
      <4>2. logins'[d] # 0 /\ (c # d => logins'[c] = logins[c] /\ rd'[c] = rd[c])
        BY <1>t, <4>1
      <4> QED
        BY <4>1, <4>2 DEF InQue
    <3>2. ASSUME NEW d \in Session, Post(d) PROVE Sends(c)
      BY <1>t, <3>2, Posted
    <3>3. ASSUME NEW s \in Server, LoginStep(s) PROVE Sends(c)
      BY <3>3, WorkerMoves, WaitsStill
    <3>4. CASE Quiet
      BY <3>4 DEF Quiet, InQue
    <3> QED
      BY <1>2, <3>1, <3>2, <3>3, <3>4, StepKinds
  <2>2. ASSUME NEW c \in Session, userUid'[c] # NoUser PROVE logins'[c] # 0
    <3>1. CASE userUid'[c] = userUid[c]
      BY <2>1, <2>2, <3>1
    <3>2. CASE userUid'[c] # userUid[c]
      <4>1. PICK s \in Server : LoginSetUid(s)
        BY <1>2, <3>2, Effects
      <4>2. wpc[s] = "setUid" /\ userUid' = [userUid EXCEPT ![Cur(s)] = Luid(s)]
        BY <4>1 DEF LoginSetUid, Step
      <4>3. c = Cur(s) /\ InQue(c)
        BY <1>s, <1>t, <3>2, <4>2
      <4> QED
        BY <2>1, <4>3
    <3> QED
      BY <3>1, <3>2
  <2>3. ASSUME NEW u \in Uid, usession'[u] # NoSession
        PROVE  logins'[usession'[u]] # 0 /\ Of[usession'[u]] = u
    <3>1. CASE usession'[u] = usession[u]
      BY <1>t, <2>1, <2>3, <3>1
    <3>2. CASE usession'[u] # usession[u]
      <4>1. PICK s \in Server : LoginSetSession(s)
        BY <1>2, <2>3, <3>2, Effects
      <4>2. wpc[s] = "setSession" /\ usession' = [usession EXCEPT ![Luid(s)] = Cur(s)]
        BY <4>1 DEF LoginSetSession, Step
      <4>3. u = Luid(s) /\ usession'[u] = Cur(s)
        BY <1>s, <1>t, <3>2, <4>2
      <4> QED
        BY <1>s, <2>1, <4>2, <4>3
    <3> QED
      BY <3>1, <3>2
  <2> QED
    BY <2>1, <2>2, <2>3
<1> QED
  BY <1>1, <1>2 DEF Calm

\* Nobody registers a session of the user whose clean-up is under way.
LEMMA NextForgotten ==
  ASSUME LockReliable, TypeOK, LockExclusion, Forgotten, [Next]_vars
  PROVE  Forgotten'
<1>t. /\ cpc \in [Cleaner -> CleanerPc] /\ cuid \in [Cleaner -> Uid]
      /\ usession \in [Uid -> Session \cup {NoSession}]
  BY DEF TypeOK, DealTypeOK, RedisTypeOK
<1>1. ASSUME NEW s \in Server, Crash(s) PROVE Forgotten'
  BY <1>1 DEF Crash, Forgotten
<1>2. ASSUME Calm, NEW p \in Cleaner, cpc'[p] = "delIp"
      PROVE  usession'[cuid'[p]] = NoSession
  <2>1. CASE DealDelSession(p)
    BY <1>t, <2>1 DEF DealDelSession
  <2>2. CASE ~DealDelSession(p)
    <3>1. cpc[p] = "delIp" /\ cuid'[p] = cuid[p]
      <4>1. ~DealStep(p)
        BY <1>t, <1>2, <2>2 DEF DealStep, DealLock, DealGet, DealDelIp, DealClear,
          DealRelease, Goto
      <4> QED
        BY <1>2, <4>1, Causes
    <3>2. usession[cuid[p]] = NoSession
      BY <3>1 DEF Forgotten
    <3>3. ASSUME NEW s \in Server, LoginSetSession(s) PROVE usession'[cuid[p]] = NoSession
      <4>1. wpc[s] = "setSession" /\ usession' = [usession EXCEPT ![Luid(s)] = Cur(s)]
        BY <3>3 DEF LoginSetSession, Step
      <4>2. Luid(s) # cuid[p]
        BY <3>1, <4>1, ThreadNames DEF LockExclusion, InDeal, InLogin
      <4> QED
        BY <1>t, <3>2, <4>1, <4>2
    <3>4. ASSUME NEW q \in Cleaner, DealDelSession(q) PROVE usession'[cuid[p]] = NoSession
      BY <1>t, <3>2, <3>4 DEF DealDelSession
    <3> QED
      BY <1>2, <3>1, <3>2, <3>3, <3>4, Causes
  <2> QED
    BY <2>1, <2>2
<1> QED
  BY <1>1, <1>2 DEF Calm, Forgotten

\* A crash takes away what its server keeps, and only that.
LEMMA CrashLeaves ==
  ASSUME TypeOK, Fresh, Homed, NEW s \in Server, Crash(s)
  PROVE  /\ UNCHANGED <<uip, usession>>
         /\ \A c \in sessions' : c \in sessions /\ c \in Session /\ At[c] # s
         /\ \A c \in Session : At[c] # s => userUid'[c] = userUid[c]
         /\ wpc'[s] = "idle"
         /\ \A t \in Server : t # s =>
              /\ wpc'[t] = wpc[t] /\ userSession'[t] = userSession[t]
              /\ Cur(t)' = Cur(t) /\ Luid(t)' = Luid(t)
         /\ \A k \in kicks : k.to # s => k \in kicks'
         /\ \A p \in Cleaner : cpc[p] # "none" /\ At[csess[p]] # s =>
              cpc'[p] = cpc[p] /\ csess'[p] = csess[p] /\ cuid'[p] = cuid[p]
<1>t. /\ sessions \subseteq Session /\ wpc \in [Server -> WorkerPc]
      /\ que \in [Server -> Seq(Session)] /\ kicks \subseteq Kick
      /\ userSession \in [Server -> [Uid -> Session \cup {NoSession}]]
  BY DEF TypeOK, ConnTypeOK, WorkTypeOK, BindTypeOK
<1> DEFINE gone == {c \in Session : At[c] = s /\ sock[c] # "idle"}
<1>1. /\ UNCHANGED <<uip, usession>> /\ sessions' = sessions \ gone
      /\ userUid' = [c \in Session |-> IF c \in gone THEN NoUser ELSE userUid[c]]
      /\ wpc' = [wpc EXCEPT ![s] = "idle"] /\ que' = [que EXCEPT ![s] = <<>>]
      /\ userSession' = [userSession EXCEPT ![s] = [u \in Uid |-> NoSession]]
      /\ kicks' = {k \in kicks : k.to # s}
  BY <1>t DEF Crash
<1>2. \A c \in sessions' : c \in sessions /\ c \in Session /\ At[c] # s
  BY <1>1, <1>t DEF Fresh
<1>3. ASSUME NEW p \in Cleaner, cpc[p] # "none", At[csess[p]] # s
      PROVE  cpc'[p] = cpc[p] /\ csess'[p] = csess[p] /\ cuid'[p] = cuid[p]
  <2>1. OwnerOf(p) # s
    BY <1>3 DEF Homed
  <2> QED
    BY <2>1 DEF Crash
<1>4. \A t \in Server : t # s =>
        /\ wpc'[t] = wpc[t] /\ userSession'[t] = userSession[t] /\ que'[t] = que[t]
  BY <1>1, <1>t
<1> HIDE DEF gone
<1>5. \A c \in Session : At[c] # s => userUid'[c] = userUid[c]
  BY <1>1 DEF gone
<1> QED
  BY <1>1, <1>2, <1>3, <1>4, <1>5, <1>t DEF Cur, Luid

\* Inside a critical section, and before the worker starts to register its own, a
\* session logged in as the same user is the registered one.
LEMMA AloneRegistered ==
  ASSUME TypeOK, LockExclusion, Sole,
         NEW s \in Server, InLogin(s), wpc[s] \notin Entry,
         NEW c \in sessions, userUid[c] = Luid(s)
  PROVE  c \in Session /\ Of[c] = Luid(s) /\ usession[Luid(s)] = c
<1>1. wpc[s] # "idle"
  BY DEF InLogin
<1>2. c \in Session /\ Luid(s) # NoUser /\ Of[c] = Luid(s) /\ At[c] \in Server
  BY <1>1, ConstantsAssumption, CurrentLogin DEF TypeOK, ConnTypeOK
<1>3. ~Entering(c)
  <2> SUFFICES ASSUME Entering(c) PROVE FALSE
    OBVIOUS
  <2>1. InLogin(At[c]) /\ Luid(At[c]) = Luid(s)
    BY <1>2 DEF Entering, Entry, InLogin, Luid
  <2>2. At[c] = s
    BY <1>2, <2>1, OneLogin
  <2> QED
    BY <2>2 DEF Entering
<1>4. ~Leaving(c)
  BY <1>2, ThreadNames DEF Leaving, LockExclusion, InDeal
<1> QED
  BY <1>2, <1>3, <1>4 DEF Sole

\* A logged in session that is kept was kept already, and marked.
LEMMA StayedIn ==
  ASSUME TypeOK, Calm, Fresh, Known, [Next]_vars, NEW c \in sessions',
         userUid[c] # NoUser \/ (\E u \in Uid : usession[u] = c) \/ InQue(c)
  PROVE  c \in sessions /\ c \in Session
<1>t. sessions \subseteq Session /\ pend \in [Server -> Session \cup {NoSession}]
  BY DEF TypeOK, ConnTypeOK
<1>1. ASSUME NEW s \in Server, Insert(s) PROVE c \in sessions
  <2>1. pend[s] # NoSession /\ sessions' = sessions \cup {pend[s]}
    BY <1>1 DEF Insert
  <2>2. pend[s] \in Session /\ logins[pend[s]] = 0
    BY <1>t, <2>1 DEF Fresh
  <2>3. c # pend[s]
    <3>1. ASSUME c = pend[s] PROVE FALSE
      <4>1. c \in Session /\ logins[c] = 0
        BY <2>2, <3>1
      <4>2. ~(\E u \in Uid : usession[u] = c)
        BY <4>1, ConstantsAssumption DEF Known
      <4> QED
        BY <4>1, <4>2 DEF Known
    <3> QED
      BY <3>1
  <2> QED
    BY <2>1, <2>3
<1> QED
  BY <1>1, <1>t, Causes

\* What an eviction or a kick takes is no longer kept.
LEMMA EvictedGone ==
  ASSUME TypeOK, NEW c \in Session, Evicted(c)
  PROVE  c \notin sessions'
<1>1. ASSUME NEW s \in Server, LoginEvict(s), c = userSession[s][Luid(s)]
      PROVE  c \notin sessions'
  <2>1. c # NoSession
    BY ConstantsAssumption
  <2> QED
    BY <1>1, <2>1, ClearSessionErases DEF LoginEvict
<1>2. ASSUME NEW k \in kicks, KickClear(k), c = k.victim
      PROVE  c \notin sessions'
  BY <1>2, ClearSessionErases DEF KickClear
<1> QED
  BY <1>1, <1>2 DEF Evicted

LEMMA CrashLocated ==
  ASSUME TypeOK, Fresh, Homed, Located, NEW s \in Server, Crash(s)
  PROVE  Located'
<1> USE DEF Located, Found
<1>t. At \in [Session -> Server]
  BY ConstantsAssumption
<1>1. ASSUME NEW c \in sessions', usession'[Of[c]] = c PROVE Found(c)'
  BY <1>1, <1>t, CrashLeaves
<1>2. ASSUME NEW t \in Server, wpc'[t] # "idle"
      PROVE  /\ t # s /\ wpc'[t] = wpc[t] /\ Cur(t)' = Cur(t) /\ Luid(t)' = Luid(t)
             /\ userUid'[Cur(t)] = userUid[Cur(t)]
             /\ uip' = uip /\ userSession'[t] = userSession[t]
             /\ Cur(t) \in sessions' => Cur(t) \in sessions
  <2>1. t # s /\ wpc'[t] = wpc[t] /\ Cur(t)' = Cur(t) /\ Luid(t)' = Luid(t)
    BY <1>2, CrashLeaves
  <2>2. Cur(t) \in Session /\ At[Cur(t)] = t
    BY <1>2, <2>1, CurrentLogin
  <2> QED
    BY <2>1, <2>2, CrashLeaves
<1>3. ASSUME NEW t \in Server
      PROVE  /\ wpc'[t] = "evict" => uip'[Luid(t)'] = t
             /\ wpc'[t] \in Entry => userUid'[Cur(t)'] = Luid(t)'
             /\ wpc'[t] \in {"setLocal", "setSession"} => uip'[Luid(t)'] = t
             /\ wpc'[t] = "setSession" /\ Cur(t)' \in sessions' =>
                  userSession'[t][Luid(t)'] = Cur(t)'
  <2>1. CASE wpc'[t] = "idle"
    BY <2>1 DEF Entry
  <2>2. CASE wpc'[t] # "idle"
    BY <1>2, <2>2
  <2> QED
    BY <2>1, <2>2
<1> QED
  BY <1>1, <1>3

LEMMA NextLocated ==
  ASSUME LockReliable, TypeOK, LockExclusion, CleansClosed, Forgotten, Fresh, Homed,
         Known, Located, Sole, [Next]_vars
  PROVE  Located'
<1>t. /\ At \in [Session -> Server] /\ Of \in [Session -> User] /\ User \subseteq Uid
      /\ NoSession \notin Session /\ NoUser \notin User
      /\ sessions \subseteq Session /\ userUid \in [Session -> Uid]
      /\ userSession \in [Server -> [Uid -> Session \cup {NoSession}]]
      /\ usession \in [Uid -> Session \cup {NoSession}]
      /\ uip \in [Uid -> Server \cup {NoServer}] /\ wpc \in [Server -> WorkerPc]
      /\ cpc \in [Cleaner -> CleanerPc] /\ cuid \in [Cleaner -> Uid]
  BY ConstantsAssumption DEF TypeOK, ConnTypeOK, BindTypeOK, RedisTypeOK, WorkTypeOK,
    DealTypeOK, Uid
<1>s. \A s \in Server : wpc[s] # "idle" =>
        /\ Cur(s) \in Session /\ Luid(s) \in User /\ Luid(s) \in Uid /\ At[Cur(s)] = s
        /\ Luid(s) = Of[Cur(s)] /\ Luid(s) # NoUser /\ InQue(Cur(s))
  BY <1>t, CurrentLogin, Queues DEF Luid
<1>1. ASSUME NEW s \in Server, Crash(s) PROVE Located'
  BY <1>1, CrashLocated
<1>2. CASE Calm
  <2>u. ASSUME NEW c \in Session, userUid[c] = Of[c] PROVE userUid'[c] = Of[c]
    <3>1. ASSUME NEW s \in Server, LoginSetUid(s) PROVE userUid'[c] = Of[c]
      <4>1. wpc[s] = "setUid" /\ userUid' = [userUid EXCEPT ![Cur(s)] = Luid(s)]
        BY <3>1 DEF LoginSetUid, Step
      <4> QED
        BY <1>s, <1>t, <2>u, <4>1
    <3> QED
      BY <1>2, <2>u, <3>1, Effects
  \* uip_ is written under the lock of its user only.
  <2>i. ASSUME NEW s \in Server, InLogin(s), uip[Luid(s)] = s PROVE uip'[Luid(s)] = s
    <3>0. Luid(s) \in Uid
      BY <1>s, <2>i DEF InLogin
    <3>1. ASSUME NEW t \in Server, LoginSetIp(t) PROVE uip'[Luid(s)] = s
      <4>1. wpc[t] = "setIp" /\ uip' = [uip EXCEPT ![Luid(t)] = t]
        BY <3>1 DEF LoginSetIp, Step
      <4>2. Luid(t) = Luid(s) => t = s
        BY <2>i, <4>1, OneLogin DEF InLogin
      <4> QED
        BY <1>t, <2>i, <3>0, <4>1, <4>2
    <3>2. ASSUME NEW p \in Cleaner, DealDelIp(p) PROVE uip'[Luid(s)] = s
      <4>1. cpc[p] = "delIp" /\ uip' = [uip EXCEPT ![cuid[p]] = NoServer]
        BY <3>2 DEF DealDelIp, Goto
      <4>2. cuid[p] # Luid(s)
        BY <2>i, <4>1, ThreadNames DEF LockExclusion, InDeal
      <4> QED
        BY <1>t, <2>i, <3>0, <4>1, <4>2
    <3> QED
      BY <1>2, <2>i, <3>1, <3>2, Causes
  \* A kept session loses its binding to nobody but a login of its own user.
  <2>b. ASSUME NEW c \in sessions, c \in sessions', NEW u \in Uid,
               userSession[At[c]][u] = c,
               LoginSetLocal(At[c]) /\ Luid(At[c]) = u => Cur(At[c]) = c
        PROVE  userSession'[At[c]][u] = c
    <3>1. c \in Session /\ Alive(c)' /\ ~Evicted(c)
      BY <1>t, <2>b, EvictedGone DEF Alive
    <3>2. CASE LoginSetLocal(At[c]) /\ Luid(At[c]) = u
      BY <1>t, <2>b, <3>1, <3>2 DEF LoginSetLocal
    <3> QED
      BY <1>2, <2>b, <3>1, <3>2, Losses
  <2>1. ASSUME NEW c \in sessions', usession'[Of[c]] = c PROVE Found(c)'
    <3>0. c \in Session /\ Of[c] \in Uid /\ At[c] \in Server
      <4>1. TypeOK'
        BY NextTypeOK
      <4> QED
        BY <1>t, <4>1 DEF TypeOK, ConnTypeOK
    <3>1. CASE usession[Of[c]] = c
      <4>0. c \in sessions
        BY <1>2, <3>0, <3>1, StayedIn
      <4>1. Found(c)
        BY <3>1, <4>0 DEF Located
      <4>2. userUid'[c] = Of[c]
        BY <2>u, <3>0, <4>1 DEF Found
      <4>3. uip'[Of[c]] = At[c]
        <5>1. ASSUME NEW s \in Server, LoginSetIp(s) PROVE uip'[Of[c]] = At[c]
          <6>1. wpc[s] = "setIp" /\ uip' = [uip EXCEPT ![Luid(s)] = s]
            BY <5>1 DEF LoginSetIp, Step
          <6>2. Luid(s) = Of[c] => c = Cur(s)
            BY <4>0, <4>1, <6>1 DEF Sole, Found, Entry
          <6> QED
            BY <1>s, <1>t, <3>0, <4>1, <6>1, <6>2 DEF Found
        <5>2. ASSUME NEW p \in Cleaner, DealDelIp(p) PROVE uip'[Of[c]] = At[c]
          <6>1. cpc[p] = "delIp" /\ uip' = [uip EXCEPT ![cuid[p]] = NoServer]
            BY <5>2 DEF DealDelIp, Goto
          <6>2. cuid[p] # Of[c]
            BY <1>t, <3>0, <3>1, <6>1 DEF Forgotten
          <6> QED
            BY <1>t, <3>0, <4>1, <6>1, <6>2 DEF Found
        <5> QED
          BY <1>2, <4>1, <5>1, <5>2, Causes DEF Found
      <4>4. userSession'[At[c]][Of[c]] = c
        <5>1. LoginSetLocal(At[c]) /\ Luid(At[c]) = Of[c] => Cur(At[c]) = c
          BY <3>0, <4>0, <4>1 DEF LoginSetLocal, Step, Sole, Found, Entry
        <5> QED
          BY <2>1, <2>b, <3>0, <4>0, <4>1, <5>1 DEF Found
      <4> QED
        BY <4>2, <4>3, <4>4 DEF Found
    <3>2. CASE usession[Of[c]] # c
      <4>1. PICK s \in Server : LoginSetSession(s)
        BY <1>2, <1>t, <2>1, <3>0, <3>2, Effects
      <4>2. /\ wpc[s] = "setSession" /\ usession' = [usession EXCEPT ![Luid(s)] = Cur(s)]
            /\ UNCHANGED <<userUid, sessions, userSession, uip>>
        BY <4>1 DEF LoginSetSession, Step, connVars
      <4>3. c = Cur(s) /\ Of[c] = Luid(s) /\ At[c] = s
        BY <1>s, <1>t, <2>1, <3>0, <3>2, <4>2
      <4> QED
        BY <2>1, <4>2, <4>3 DEF Located, Found, Entry
    <3> QED
      BY <3>1, <3>2
  <2>2. ASSUME NEW s \in Server, wpc'[s] # "idle"
        PROVE  /\ wpc'[s] = "evict" => uip'[Luid(s)'] = s
               /\ wpc'[s] \in Entry => userUid'[Cur(s)'] = Luid(s)'
               /\ wpc'[s] \in {"setLocal", "setSession"} => uip'[Luid(s)'] = s
               /\ wpc'[s] = "setSession" /\ Cur(s)' \in sessions' =>
                    userSession'[s][Luid(s)'] = Cur(s)'
    <3>1. CASE ~LoginStep(s)
      <4>1. wpc[s] # "idle"
        BY <1>2, <2>2, <3>1, StepKinds, Posted, WorkerMoves DEF Quiet, Receive, workVars
      <4>2. wpc'[s] = wpc[s] /\ Cur(s)' = Cur(s) /\ Luid(s)' = Luid(s)
        BY <1>2, <3>1, <4>1, WorkersStay
      <4>3. wpc[s] = "evict" => uip'[Luid(s)] = s
        BY <2>i DEF Located, InLogin
      <4>4. wpc[s] \in Entry => userUid'[Cur(s)] = Luid(s)
        BY <1>s, <2>u, <4>1 DEF Located
      <4>5. wpc[s] \in {"setLocal", "setSession"} => uip'[Luid(s)] = s
        BY <2>i DEF Located, InLogin
      <4>6. ASSUME wpc[s] = "setSession", Cur(s) \in sessions'
            PROVE  userSession'[s][Luid(s)] = Cur(s)
        <5>1. Cur(s) \in sessions /\ At[Cur(s)] = s
          BY <1>2, <1>s, <4>1, <4>6, StayedIn
        <5>2. userSession[s][Luid(s)] = Cur(s)
          BY <4>6, <5>1 DEF Located
        <5>3. ~LoginSetLocal(s)
          BY <3>1 DEF LoginStep
        <5> QED
          BY <1>s, <2>b, <4>1, <4>6, <5>1, <5>2, <5>3
      <4> QED
        BY <4>2, <4>3, <4>4, <4>5, <4>6
    <3>2. CASE LoginGetIp(s)
      <4>1. /\ wpc'[s] \in {"evict", "setUid", "kick"} /\ UNCHANGED <<uip, que>>
            /\ wpc'[s] = "evict" => uip[Luid(s)] = s
        BY <1>t, <3>2 DEF LoginGetIp, Step, redisVars
      <4> QED
        BY <4>1 DEF Entry, Luid, Cur
    <3>3. CASE LoginSetUid(s)
      <4>1. /\ wpc[s] = "setUid" /\ wpc'[s] = "setIp" /\ UNCHANGED que
            /\ userUid' = [userUid EXCEPT ![Cur(s)] = Luid(s)]
        BY <1>t, <3>3 DEF LoginSetUid, Step
      <4>2. Cur(s)' = Cur(s) /\ Luid(s)' = Luid(s)
        BY <4>1 DEF Cur, Luid
      <4> QED
        BY <1>s, <1>t, <4>1, <4>2
    <3>4. CASE LoginSetIp(s)
      <4>1. /\ wpc[s] = "setIp" /\ wpc'[s] = "setLocal" /\ UNCHANGED <<que, userUid>>
            /\ uip' = [uip EXCEPT ![Luid(s)] = s]
        BY <1>t, <3>4 DEF LoginSetIp, Step, connVars
      <4>2. Cur(s)' = Cur(s) /\ Luid(s)' = Luid(s)
        BY <4>1 DEF Cur, Luid
      <4> QED
        BY <1>s, <1>t, <4>1, <4>2 DEF Located, Entry
    <3>5. CASE LoginSetLocal(s)
      <4>1. /\ wpc[s] = "setLocal" /\ wpc'[s] = "setSession"
            /\ UNCHANGED <<que, userUid, uip>>
            /\ userSession' = [userSession EXCEPT ![s][Luid(s)] = Cur(s)]
        BY <1>t, <3>5 DEF LoginSetLocal, Step, connVars, redisVars
      <4>2. Cur(s)' = Cur(s) /\ Luid(s)' = Luid(s)
        BY <4>1 DEF Cur, Luid
      <4> QED
        BY <1>s, <1>t, <4>1, <4>2 DEF Located, Entry
    <3>6. CASE \/ LoginBegin(s) \/ LoginLock(s) \/ LoginEvict(s) \/ LoginKicked(s)
               \/ LoginSetSession(s) \/ LoginRelease(s) \/ LoginReply(s)
      <4>1. wpc'[s] \notin Entry /\ wpc'[s] # "evict"
        BY <1>t, <3>6 DEF LoginBegin, LoginLock, LoginEvict, LoginKicked,
          LoginSetSession, LoginRelease, LoginReply, Step, Entry
      <4> QED
        BY <4>1 DEF Entry
    <3> QED
      BY <3>1, <3>2, <3>3, <3>4, <3>5, <3>6 DEF LoginStep
  <2>3. ASSUME NEW s \in Server
        PROVE  /\ wpc'[s] = "evict" => uip'[Luid(s)'] = s
               /\ wpc'[s] \in Entry => userUid'[Cur(s)'] = Luid(s)'
               /\ wpc'[s] \in {"setLocal", "setSession"} => uip'[Luid(s)'] = s
               /\ wpc'[s] = "setSession" /\ Cur(s)' \in sessions' =>
                    userSession'[s][Luid(s)'] = Cur(s)'
    <3>1. CASE wpc'[s] = "idle"
      BY <3>1 DEF Entry
    <3> QED
      BY <2>2, <3>1
  <2> QED
    BY <2>1, <2>3 DEF Located, Found
<1> QED
  BY <1>1, <1>2 DEF Calm

LEMMA CrashSole ==
  ASSUME TypeOK, Fresh, Homed, Sole, NEW s \in Server, Crash(s)
  PROVE  Sole'
<1>t. At \in [Session -> Server] /\ kicks \subseteq Kick
  BY ConstantsAssumption DEF TypeOK, WorkTypeOK
<1>1. ASSUME NEW c \in sessions', userUid'[c] # NoUser
      PROVE  Entering(c)' \/ usession'[Of[c]] = c \/ Leaving(c)'
  <2>1. c \in sessions /\ c \in Session /\ At[c] \in Server /\ At[c] # s
    BY <1>t, CrashLeaves
  <2>2. usession' = usession /\ userUid'[c] = userUid[c]
    BY <2>1, CrashLeaves
  <2>3. Entering(c) => Entering(c)'
    BY <2>1, CrashLeaves DEF Entering
  <2>4. ASSUME Leaving(c) PROVE Leaving(c)'
    <3>1. PICK p \in Cleaner : cpc[p] \in {"delIp", "clear"} /\ cuid[p] = Of[c] /\ csess[p] = c
      BY <2>4 DEF Leaving
    <3>2. cpc'[p] = cpc[p] /\ csess'[p] = csess[p] /\ cuid'[p] = cuid[p]
      BY <2>1, <3>1, CrashLeaves
    <3> QED
      BY <3>1, <3>2 DEF Leaving
  <2> QED
    BY <1>1, <2>1, <2>2, <2>3, <2>4 DEF Sole
<1>2. ASSUME NEW t \in Server, NEW c \in sessions', wpc'[t] # "idle", userUid'[c] = Luid(t)'
      PROVE  /\ wpc'[t] = "kick" => \E k \in kicks' :
                  /\ k.by = Cur(t)'
                  /\ k.victim = c \/ (k.victim = NoSession /\ k.to = At[c])
             /\ wpc'[t] # "setUid"
             /\ wpc'[t] \in Entry => c = Cur(t)'
  <2>1. c \in sessions /\ c \in Session /\ At[c] # s
    BY CrashLeaves
  <2>2. t # s /\ wpc'[t] = wpc[t] /\ Cur(t)' = Cur(t) /\ Luid(t)' = Luid(t)
    BY <1>2, CrashLeaves
  <2>3. userUid[c] = Luid(t)
    BY <1>2, <2>1, <2>2, CrashLeaves
  <2>4. ASSUME wpc[t] = "kick"
        PROVE  \E k \in kicks' : /\ k.by = Cur(t)
                                 /\ k.victim = c \/ (k.victim = NoSession /\ k.to = At[c])
    <3>1. PICK k \in kicks : /\ k.by = Cur(t)
                             /\ k.victim = c \/ (k.victim = NoSession /\ k.to = At[c])
      BY <2>1, <2>3, <2>4 DEF Sole
    <3>2. k.to = At[c]
      BY <2>1, <3>1, ConstantsAssumption DEF Homed
    <3>3. k \in kicks'
      BY <2>1, <3>2, CrashLeaves
    <3> QED
      BY <3>1, <3>3
  <2> QED
    BY <1>2, <2>1, <2>2, <2>3, <2>4 DEF Sole
<1> QED
  BY <1>1, <1>2 DEF Sole

LEMMA NextSole ==
  ASSUME LockReliable, ~KickMayTimeOut, Named, TypeOK, LockExclusion, StillThere,
         Fresh, Homed, Known, Located, Sole, [Next]_vars
  PROVE  Sole'
<1>t. /\ At \in [Session -> Server] /\ Of \in [Session -> User] /\ User \subseteq Uid
      /\ NoSession \notin Session /\ NoUser \notin User
      /\ sessions \subseteq Session /\ userUid \in [Session -> Uid]
      /\ \A c \in Session : userUid[c] \in {NoUser, Of[c]}
      /\ usession \in [Uid -> Session \cup {NoSession}]
      /\ uip \in [Uid -> Server \cup {NoServer}] /\ kicks \subseteq Kick
      /\ cpc \in [Cleaner -> CleanerPc] /\ cuid \in [Cleaner -> Uid]
      /\ wpc \in [Server -> WorkerPc]
  BY ConstantsAssumption DEF TypeOK, ConnTypeOK, RedisTypeOK, WorkTypeOK, DealTypeOK, Uid
<1>s. \A s \in Server : wpc[s] # "idle" =>
        /\ Cur(s) \in Session /\ Luid(s) \in User /\ At[Cur(s)] = s
        /\ Luid(s) = Of[Cur(s)] /\ InQue(Cur(s))
  BY CurrentLogin, Queues DEF Luid
<1>0. ASSUME NEW s \in Server, Crash(s) PROVE Sole'
  BY <1>0, CrashSole
<1> SUFFICES ASSUME Calm PROVE Sole'
  BY <1>0 DEF Calm
<1>n. TypeOK'
  BY NextTypeOK
<1>1. ASSUME NEW c \in sessions', userUid'[c] # NoUser
      PROVE  Entering(c)' \/ usession'[Of[c]] = c \/ Leaving(c)'
  <2>0. c \in Session /\ Of[c] \in Uid /\ At[c] \in Server
    BY <1>n, <1>t DEF TypeOK, ConnTypeOK
  <2>1. CASE userUid'[c] # userUid[c]
    <3>1. PICK s \in Server : LoginSetUid(s)
      BY <2>1, Effects
    <3>2. /\ wpc[s] = "setUid" /\ wpc'[s] = "setIp" /\ UNCHANGED que
          /\ userUid' = [userUid EXCEPT ![Cur(s)] = Luid(s)]
      BY <1>t, <3>1 DEF LoginSetUid, Step
    <3>3. c = Cur(s) /\ At[c] = s
      BY <1>s, <1>t, <2>0, <2>1, <3>2
    <3>4. Cur(s)' = c
      BY <3>2, <3>3 DEF Cur
    <3> QED
      BY <3>2, <3>3, <3>4 DEF Entering, Entry
  <2>2. CASE userUid'[c] = userUid[c]
    <3>u. userUid[c] = Of[c] /\ userUid[c] # NoUser
      BY <1>1, <1>t, <2>0, <2>2
    <3>i. c \in sessions
      BY <3>u, StayedIn
    <3>1. ASSUME NEW s \in Server, LoginSetSession(s), Luid(s) = Of[c]
          PROVE  usession'[Of[c]] = c
      <4>1. wpc[s] = "setSession" /\ usession' = [usession EXCEPT ![Luid(s)] = Cur(s)]
        BY <3>1 DEF LoginSetSession, Step
      <4>2. c = Cur(s)
        BY <3>1, <3>i, <3>u, <4>1 DEF Sole, Entry
      <4> QED
        BY <1>t, <2>0, <3>1, <4>1, <4>2
    <3>2. CASE Entering(c)
      <4>1. wpc[At[c]] \in Entry /\ Cur(At[c]) = c /\ Luid(At[c]) = Of[c]
        BY <3>2 DEF Entering, Luid
      <4>2. CASE ~LoginStep(At[c])
        BY <2>0, <4>1, <4>2, WorkersStay DEF Entering, Entry
      <4>3. CASE LoginSetIp(At[c]) \/ LoginSetLocal(At[c])
        <5>1. wpc'[At[c]] \in Entry /\ que' = que
          BY <1>t, <2>0, <4>3 DEF LoginSetIp, LoginSetLocal, Step, Entry
        <5> QED
          BY <4>1, <5>1 DEF Entering, Cur
      <4>4. CASE LoginSetSession(At[c])
        BY <2>0, <3>1, <4>1, <4>4
      <4> QED
        BY <4>1, <4>2, <4>3, <4>4 DEF LoginStep, LoginBegin, LoginLock, LoginGetIp,
          LoginEvict, LoginKicked, LoginSetUid, LoginRelease, LoginReply, Step, Entry
    <3>3. CASE usession[Of[c]] = c
      <4>1. ASSUME NEW p \in Cleaner, DealDelSession(p), usession'[Of[c]] # c
            PROVE  Leaving(c)'
        <5>1. /\ cpc[p] = "delSession" /\ cpc' = [cpc EXCEPT ![p] = "delIp"]
              /\ usession' = [usession EXCEPT ![cuid[p]] = NoSession]
              /\ UNCHANGED <<csess, cuid>>
          BY <4>1 DEF DealDelSession, Goto
        <5>2. cuid[p] = Of[c]
          BY <1>t, <2>0, <3>3, <4>1, <5>1
        <5>3. csess[p] = c
          BY <3>3, <5>1, <5>2 DEF StillThere
        <5> QED
          BY <1>t, <5>1, <5>2, <5>3 DEF Leaving
      <4>2. ASSUME NEW s \in Server, LoginSetSession(s), usession'[Of[c]] # c
            PROVE  FALSE
        <5>1. usession' = [usession EXCEPT ![Luid(s)] = Cur(s)]
          BY <4>2 DEF LoginSetSession
        <5>2. Luid(s) = Of[c]
          BY <1>t, <2>0, <3>3, <4>2, <5>1
        <5> QED
          BY <3>1, <4>2, <5>2
      <4> QED
        BY <3>3, <4>1, <4>2, Causes
    <3>4. CASE Leaving(c)
      <4>1. PICK p \in Cleaner :
              cpc[p] \in {"delIp", "clear"} /\ cuid[p] = Of[c] /\ csess[p] = c
        BY <3>4 DEF Leaving
      <4>2. CASE DealDelIp(p)
        <5>1. cpc' = [cpc EXCEPT ![p] = "clear"] /\ UNCHANGED <<csess, cuid>>
          BY <4>2 DEF DealDelIp, Goto
        <5> QED
          BY <1>t, <4>1, <5>1 DEF Leaving
      <4>3. CASE DealClear(p)
        <5>1. sessions' = sessions \ {c}
          BY <4>1, <4>3, ClearSessionErases DEF DealClear
        <5> QED
          BY <1>1, <5>1
      <4>4. CASE cpc'[p] = cpc[p] /\ csess'[p] = csess[p] /\ cuid'[p] = cuid[p]
        BY <4>1, <4>4 DEF Leaving
      <4> QED
        BY <4>1, <4>2, <4>3, <4>4, Causes DEF DealStep, DealLock, DealGet, DealDelSession,
          DealRelease, Goto
    <3> QED
      BY <3>2, <3>3, <3>4, <3>i, <3>u DEF Sole
  <2> QED
    BY <2>1, <2>2
<1>2. ASSUME NEW s \in Server, NEW c \in sessions', wpc'[s] # "idle",
             userUid'[c] = Luid(s)'
      PROVE  /\ wpc'[s] = "kick" => \E k \in kicks' :
                  (k.by = Cur(s) /\ (k.victim = c \/ (k.victim = NoSession /\ k.to = At[c])))'
             /\ wpc'[s] # "setUid"
             /\ wpc'[s] \in Entry => c = Cur(s)'
  <2> DEFINE u == Luid(s)
             Met(k) == /\ k.by = Cur(s)
                       /\ k.victim = c \/ (k.victim = NoSession /\ k.to = At[c])
  <2>0. c \in Session /\ Luid(s)' \in User
    BY <1>2, <1>n, <1>t DEF TypeOK, ConnTypeOK, WorkTypeOK, Cur, Luid
  <2>i. userUid[c] # NoUser => c \in sessions
    BY StayedIn
  <2>1. CASE ~LoginStep(s)
    <3>1. wpc[s] # "idle"
      BY <1>2, <2>1, StepKinds, Posted, WorkerMoves DEF Quiet, Receive, workVars
    <3>2. wpc'[s] = wpc[s] /\ Cur(s)' = Cur(s) /\ Luid(s)' = u
      BY <2>1, <3>1, WorkersStay
    <3>3. CASE userUid'[c] # userUid[c]
      <4>1. PICK t \in Server : LoginSetUid(t)
        BY <3>3, Effects
      <4>2. wpc[t] = "setUid" /\ userUid' = [userUid EXCEPT ![Cur(t)] = Luid(t)] /\ t # s
        BY <2>1, <4>1 DEF LoginSetUid, LoginStep, Step
      <4>3. Luid(t) = u
        BY <1>2, <1>t, <2>0, <3>2, <3>3, <4>2
      <4>4. ~InLogin(s)
        BY <4>2, <4>3, OneLogin DEF InLogin
      <4> QED
        BY <3>2, <4>4 DEF InLogin, Entry
    <3>4. CASE userUid'[c] = userUid[c]
      <4>1. userUid[c] = u /\ c \in sessions
        BY <1>2, <1>t, <2>0, <2>i, <3>2, <3>4
      <4>2. /\ wpc[s] = "kick" => \E k \in kicks : Met(k)
            /\ wpc[s] # "setUid"
            /\ wpc[s] \in Entry => c = Cur(s)
        BY <3>1, <4>1 DEF Sole
      <4>3. ASSUME wpc[s] = "kick" PROVE \E k \in kicks' : Met(k)
        <5>1. PICK k \in kicks : Met(k)
          BY <4>2, <4>3
        <5>2. CASE KickClear(k)
          <6>1. k.victim = c /\ sessions' = sessions \ {k.victim}
            BY <5>1, <5>2, ClearSessionErases DEF KickClear
          <6> QED
            BY <1>2, <6>1
        <5>3. CASE KickLookup(k)
          <6>1. k.victim = NoSession /\ k.to = At[c] /\ k.by = Cur(s)
            BY <1>t, <2>0, <5>1, <5>3 DEF KickLookup
          <6>2. usession[Of[c]] = c /\ Of[c] = u
            BY <4>1, <4>3, AloneRegistered DEF InLogin, Entry
          <6>3. userSession[k.to][Of[k.by]] = c
            BY <4>1, <6>1, <6>2 DEF Located, Found, Luid
          <6>4. PICK n : n = [k EXCEPT !.victim = c]
            OBVIOUS
          <6>5. n \in kicks'
            BY <1>t, <2>0, <5>3, <6>3, <6>4 DEF KickLookup
          <6>6. n.by = k.by /\ n.victim = c
            BY <1>t, <6>4 DEF Kick
          <6> QED
            BY <6>1, <6>5, <6>6
        <5>4. CASE k \in kicks'
          BY <5>1, <5>4
        <5> QED
          BY <5>2, <5>3, <5>4, Causes DEF KickLost
      <4> QED
        BY <3>2, <4>2, <4>3
    <3> QED
      BY <3>3, <3>4
  <2>2. CASE LoginBegin(s) \/ LoginLock(s) \/ LoginRelease(s) \/ LoginSetSession(s)
    <3>1. wpc'[s] \in {"lock", "reply", "getIp", "release"}
      BY <1>t, <2>2 DEF LoginBegin, LoginLock, LoginRelease, LoginSetSession, Step
    <3> QED
      BY <3>1 DEF Entry
  <2>3. CASE LoginGetIp(s)
    <3>1. /\ wpc[s] = "getIp" /\ UNCHANGED <<que, userUid>>
          /\ \/ wpc'[s] = "evict"
             \/ /\ wpc'[s] = "setUid" /\ uip[u] # s /\ PeerPools(s, uip[u]) = {}
             \/ /\ wpc'[s] = "kick"
                /\ \E t \in PeerPools(s, uip[u]) :
                     kicks' = kicks \cup {[by |-> Cur(s), to |-> t, victim |-> NoSession]}
      BY <1>t, <2>3 DEF LoginGetIp, Step, connVars
    <3>2. userUid[c] = u /\ Cur(s)' = Cur(s) /\ c \in sessions
      BY <1>2, <1>t, <2>0, <2>i, <3>1 DEF Luid, Cur
    <3>3. uip[u] = At[c]
      BY <3>1, <3>2, AloneRegistered DEF InLogin, Entry, Located, Found
    <3>4. PeerPools(s, uip[u]) = {t \in Server \ {s} : t = At[c]}
      BY <3>3 DEF PeerPools, Named
    <3>5. wpc'[s] # "setUid"
      BY <1>t, <2>0, <3>1, <3>3, <3>4
    <3>6. ASSUME wpc'[s] = "kick" PROVE \E k \in kicks' : Met(k)
      <4>1. PICK n : /\ n = [by |-> Cur(s), to |-> At[c], victim |-> NoSession]
                     /\ n \in kicks'
        BY <3>1, <3>4, <3>6
      <4> QED
        BY <4>1
    <3> QED
      BY <3>1, <3>2, <3>5, <3>6 DEF Entry
  <2>4. CASE LoginEvict(s)
    <3>1. wpc[s] = "evict" /\ UNCHANGED <<que, userUid>>
      BY <2>4 DEF LoginEvict, Step
    <3>2. userUid[c] = u /\ c \in sessions
      BY <1>2, <1>t, <2>0, <2>i, <3>1 DEF Luid, Cur
    <3>3. usession[u] = c /\ Of[c] = u
      BY <3>1, <3>2, AloneRegistered DEF InLogin, Entry
    <3>4. At[c] = s /\ userSession[s][u] = c
      BY <3>1, <3>2, <3>3 DEF Located, Found
    <3>5. sessions' = sessions \ {c}
      BY <1>t, <2>0, <2>4, <3>4, ClearSessionErases DEF LoginEvict
    <3> QED
      BY <1>2, <3>5
  <2>5. CASE LoginKicked(s)
    <3>1. wpc[s] = "kick" /\ UNCHANGED <<que, userUid>>
      BY <2>5 DEF LoginKicked, Step, connVars
    <3>2. userUid[c] = u /\ c \in sessions
      BY <1>2, <1>t, <2>0, <2>i, <3>1 DEF Luid, Cur
    <3>3. \E k \in kicks : k.by = Cur(s)
      BY <3>1, <3>2 DEF Sole
    <3> QED
      BY <2>5, <3>3 DEF LoginKicked
  <2>6. CASE LoginSetUid(s)
    <3>1. /\ wpc[s] = "setUid" /\ wpc'[s] = "setIp" /\ que' = que
          /\ userUid' = [userUid EXCEPT ![Cur(s)] = Luid(s)]
      BY <1>t, <2>6 DEF LoginSetUid, Step
    <3>2. userUid'[c] = u /\ Cur(s)' = Cur(s)
      BY <1>2, <3>1 DEF Luid, Cur
    <3>3. c = Cur(s)
      <4>1. ASSUME c # Cur(s) PROVE FALSE
        <5>1. userUid[c] = u /\ u # NoUser
          BY <1>s, <1>t, <2>0, <3>1, <3>2, <4>1
        <5> QED
          BY <2>i, <3>1, <5>1 DEF Sole
      <4> QED
        BY <4>1
    <3> QED
      BY <3>1, <3>2, <3>3
  <2>7. CASE LoginSetIp(s) \/ LoginSetLocal(s)
    <3>1. /\ wpc[s] \in {"setIp", "setLocal"} /\ wpc'[s] \in {"setLocal", "setSession"}
          /\ UNCHANGED <<que, userUid>>
      BY <1>t, <2>7 DEF LoginSetIp, LoginSetLocal, Step, connVars
    <3>2. userUid[c] = u /\ Cur(s)' = Cur(s) /\ c \in sessions
      BY <1>2, <1>t, <2>0, <2>i, <3>1 DEF Luid, Cur
    <3> QED
      BY <3>1, <3>2 DEF Sole, Entry
  <2>8. CASE LoginReply(s)
    BY <1>2, <1>t, <2>8 DEF LoginReply, Step
  <2> QED
    BY <2>1, <2>2, <2>3, <2>4, <2>5, <2>6, <2>7, <2>8 DEF LoginStep
<1> QED
  BY <1>1, <1>2 DEF Sole

\* With a lock that holds, calls that are waited for, and peers that know each other
\* by name, no two sessions are logged in as one user between logins: whichever
\* server the older one is on, it has been evicted or kicked before the newer one is
\* registered.  Servers may die at any point and be started again, a client may send
\* any number of logins.
THEOREM OnlySession ==
  ASSUME LockReliable, ~KickMayTimeOut, Named
  PROVE  Spec => []SingleSession
<1> DEFINE Inv == /\ WithdrawInv /\ Forgotten /\ Fresh /\ Homed /\ Known
                  /\ Located /\ Sole
<1>1. Init => Inv
  <2> SUFFICES ASSUME Init PROVE Inv
    OBVIOUS
  <2>1. \A s \in Server : que[s] = <<>> /\ wpc[s] = "idle" /\ pend[s] = NoSession
    BY DEF Init
  <2>2. \A c \in Session : /\ At[c] \in Server /\ ~InQue(c) /\ rd[c] = "off"
                           /\ sock[c] = "idle" /\ userUid[c] = NoUser /\ logins[c] = 0
    BY <2>1, ConstantsAssumption DEF Init, InQue
  <2>3. WithdrawInv /\ Forgotten
    BY DEF Init, WithdrawInv, CleansClosed, StillThere, Forgotten, Uid
  <2>4. Fresh /\ Homed /\ Known
    BY <2>1, <2>2 DEF Fresh, Homed, Known, Init
  <2>5. Located /\ Sole
    BY <2>1 DEF Located, Sole, Init, Entry
  <2> QED
    BY <2>3, <2>4, <2>5
<1>2. TypeOK /\ LockExclusion /\ Inv /\ [Next]_vars => Inv'
  BY NextWithdraw, NextForgotten, NextFresh, NextHomed, NextKnown, NextLocated, NextSole
    DEF WithdrawInv
<1>3. TypeOK /\ LockExclusion /\ Inv => SingleSession
  <2> SUFFICES ASSUME TypeOK, LockExclusion, Sole,
                      NEW c \in sessions, userUid[c] # NoUser, lock[userUid[c]] = Free
               PROVE  usession[userUid[c]] = c
    BY DEF SingleSession
  <2>1. userUid[c] = Of[c] /\ At[c] \in Server /\ Of[c] \in User
    BY ConstantsAssumption DEF TypeOK, ConnTypeOK
  <2>2. ~Entering(c)
    <3>1. Entering(c) => InLogin(At[c]) /\ Luid(At[c]) = Of[c]
      BY DEF Entering, Entry, InLogin, Luid
    <3> QED
      BY <2>1, <3>1, Threads, ThreadNames DEF LockExclusion
  <2>3. ~Leaving(c)
    BY <2>1, Threads, ThreadNames DEF LockExclusion, Leaving, InDeal
  <2> QED
    BY <2>1, <2>2, <2>3 DEF Sole
<1>4. Spec => []LockExclusion
  BY Exclusion
<1> QED
  BY <1>1, <1>2, <1>3, <1>4, TypeCorrect, PTL DEF Spec
=============================================================================
