------------------------- MODULE StatusServerProofs -------------------------
(***************************************************************************)
(* Machine-checked proofs about StatusServer, for any threads, servers,    *)
(* loads and bounds.                                                       *)
(***************************************************************************)
EXTENDS StatusServer, TLAPS

\* config.ini names at least one chat server, and a count that cannot be read
\* stands for one that no count exceeds.
Configured ==
  /\ servers \in Seq(STRING) /\ servers # <<>>
  /\ Loads \subseteq Nat /\ Full \in Nat /\ \A n \in Loads : n <= Full
  /\ NoThread \notin Thread /\ MaxCalls \in Nat /\ MaxFaults \in Nat

Counts == Loads \cup {Full}

LEMMA Places ==
  ASSUME Configured
  PROVE  /\ Place = 1 .. Len(servers) /\ Len(servers) \in Nat /\ Len(servers) >= 1
         /\ Counts \subseteq Nat /\ Full \in Counts
BY DEF Configured, Place, Counts

\* What the threads do to the counts, the lock, and each other: nothing.
Others(t) ==
  \A u \in Thread \ {t} :
    /\ pc'[u] = pc[u] /\ at'[u] = at[u] /\ best'[u] = best[u]
    /\ bestCount'[u] = bestCount[u] /\ steady'[u] = steady[u]

LEMMA ThreadMoves ==
  ASSUME Configured, TypeOK, NEW t \in Thread, Call(t) \/ ThreadStep(t)
  PROVE  Others(t) /\ count' = count
BY DEF TypeOK, Call, ThreadStep, Lock, ReadFirst, ReadNext, Unlock, Answer, Go, HGet, Others

-----------------------------------------------------------------------------
(* Type correctness.                                                       *)

LEMMA HGetTyped ==
  ASSUME Configured, TypeOK, NEW t \in Thread, NEW n, HGet(t, n)
  PROVE  faults' \in 0 .. MaxFaults /\ steady' \in [Thread -> BOOLEAN]
<1>1. faults' \in 0 .. MaxFaults
  BY DEF Configured, TypeOK, HGet
<1>2. steady' \in [Thread -> BOOLEAN]
  BY DEF TypeOK, HGet
<1> QED
  BY <1>1, <1>2

LEMMA NextTypeOK ==
  ASSUME Configured, TypeOK, [Next]_vars
  PROVE  TypeOK'
<1> USE DEF TypeOK
<1>p. /\ Place = 1 .. Len(servers) /\ Len(servers) \in Nat /\ Len(servers) >= 1
      /\ MaxCalls \in Nat /\ MaxFaults \in Nat
  BY Places DEF Configured
<1>1. ASSUME NEW t \in Thread, Call(t) PROVE TypeOK'
  BY <1>1, <1>p DEF Call, Go
<1>2. ASSUME NEW t \in Thread, Lock(t) PROVE TypeOK'
  BY <1>2, <1>p DEF Lock, Go
<1>3. ASSUME NEW t \in Thread, ReadFirst(t) PROVE TypeOK'
  <2>1. PICK n \in Loads \cup {Full} :
          HGet(t, n) /\ bestCount' = [bestCount EXCEPT ![t] = n]
    BY <1>3 DEF ReadFirst
  <2>2. faults' \in 0 .. MaxFaults /\ steady' \in [Thread -> BOOLEAN]
    BY <2>1, HGetTyped
  <2>3. 2 \in 1 .. Len(servers) + 1
    BY <1>p
  <2>4. /\ pc' = [pc EXCEPT ![t] = "next"] /\ at' = [at EXCEPT ![t] = 2]
        /\ UNCHANGED <<count, mtx, best, calls>>
    BY <1>3 DEF ReadFirst, Go
  <2> QED
    BY <2>1, <2>2, <2>3, <2>4
<1>4. ASSUME NEW t \in Thread, ReadNext(t) PROVE TypeOK'
  <2>1. at' \in [Thread -> 1 .. Len(servers) + 1]
    BY <1>4, <1>p DEF ReadNext
  <2>2. best' \in [Thread -> Place] /\ bestCount' \in [Thread -> Loads \cup {Full}]
    BY <1>4 DEF ReadNext
  <2>3. faults' \in 0 .. MaxFaults /\ steady' \in [Thread -> BOOLEAN]
    <3>1. PICK n \in Loads \cup {Full} : HGet(t, n)
      BY <1>4 DEF ReadNext
    <3> QED
      BY <3>1, HGetTyped
  <2> QED
    BY <1>4, <2>1, <2>2, <2>3 DEF ReadNext
<1>5. ASSUME NEW t \in Thread, Unlock(t) \/ Answer(t) PROVE TypeOK'
  BY <1>5 DEF Unlock, Answer, Go
<1>6. ASSUME NEW i \in Place, NEW n \in Loads \cup {Full}, Report(i, n) PROVE TypeOK'
  BY <1>6 DEF Report
<1>7. UNCHANGED vars => TypeOK'
  BY DEF vars
<1> QED
  BY <1>1, <1>2, <1>3, <1>4, <1>5, <1>6, <1>7 DEF Next, ThreadStep

\* Places, counts and bounds keep their ranges: no thread reads beyond _servers.
THEOREM TypeCorrect ==
  ASSUME Configured
  PROVE  Spec => []TypeOK
<1>1. Init => TypeOK
  BY Places DEF Init, TypeOK, Configured
<1>2. TypeOK /\ [Next]_vars => TypeOK'
  BY NextTypeOK
<1> QED
  BY <1>1, <1>2, PTL DEF Spec

-----------------------------------------------------------------------------
(* The choice.                                                             *)

\* i is the place LeastLoaded means, of those before n.
IsLeast(i, n) ==
  /\ i \in 1 .. n - 1
  /\ \A j \in 1 .. n - 1 : /\ count[i] <= count[j]
                           /\ count[j] = count[i] => i <= j

\* The holder of _server_mtx is picking and nobody else is; it has begun with the
\* first place, and while the counts stand still it knows the least so far and its
\* count.
Picking(t) == pc[t] \in {"first", "next"}
PickInv ==
  /\ mtx # NoThread => Picking(mtx)
  /\ \A t \in Thread :
       /\ Picking(t) => mtx = t
       /\ pc[t] = "first" => at[t] = 1 /\ best[t] = 1
       /\ pc[t] = "next" => at[t] > 1
       /\ pc[t] = "next" /\ steady[t] =>
            IsLeast(best[t], at[t]) /\ bestCount[t] = count[best[t]]

LEMMA LeastFound ==
  ASSUME Configured, TypeOK, NEW n \in 1 .. Len(servers) + 1, NEW i, IsLeast(i, n)
  PROVE  i = LeastLoaded([j \in 1 .. n - 1 |-> count[j]])
<1>1. Place = 1 .. Len(servers) /\ \A j \in Place : count[j] \in Nat
  BY Places DEF TypeOK, Counts
<1> DEFINE f == [j \in 1 .. n - 1 |-> count[j]]
           Least(k) == /\ \A j \in DOMAIN f : f[k] <= f[j]
                       /\ \A j \in DOMAIN f : f[j] = f[k] => k <= j
<1>2. DOMAIN f = 1 .. n - 1 /\ \A j \in 1 .. n - 1 : f[j] = count[j] /\ f[j] \in Nat
  BY <1>1
<1> HIDE DEF f
<1>3. i \in DOMAIN f /\ Least(i)
  BY <1>2 DEF IsLeast
<1>4. ASSUME NEW k \in DOMAIN f, Least(k) PROVE k = i
  BY <1>2, <1>3, <1>4
<1>5. LeastLoaded(f) = i
  BY <1>3, <1>4 DEF LeastLoaded
<1> QED
  BY <1>5 DEF f

LEMMA NextPick ==
  ASSUME Configured, TypeOK, PickInv, [Next]_vars
  PROVE  PickInv'
<1> USE DEF PickInv, Picking
<1>p. /\ Place = 1 .. Len(servers) /\ Len(servers) \in Nat /\ Len(servers) >= 1
      /\ NoThread \notin Thread /\ Loads \cup {Full} \subseteq Nat
  BY Places DEF Configured, Counts
<1>t. /\ mtx \in Thread \cup {NoThread}
      /\ pc \in [Thread -> {"idle", "lock", "first", "next", "answer"}]
      /\ at \in [Thread -> 1 .. Len(servers) + 1]
      /\ best \in [Thread -> Place] /\ bestCount \in [Thread -> Loads \cup {Full}]
      /\ steady \in [Thread -> BOOLEAN] /\ count \in [Place -> Loads \cup {Full}]
  BY DEF TypeOK
<1>1. ASSUME NEW t \in Thread, Call(t) \/ Answer(t) PROVE PickInv'
  <2>1. /\ UNCHANGED <<count, mtx, at, best, bestCount, steady>>
        /\ pc[t] \in {"idle", "answer"} /\ pc'[t] \in {"lock", "idle"}
        /\ \A u \in Thread \ {t} : pc'[u] = pc[u]
    BY <1>1, <1>t DEF Call, Answer, Go
  <2> QED
    BY <1>t, <2>1 DEF IsLeast
<1>2. ASSUME NEW t \in Thread, Lock(t) PROVE PickInv'
  <2>1. /\ mtx = NoThread /\ mtx' = t /\ pc'[t] = "first" /\ at'[t] = 1 /\ best'[t] = 1
        /\ Others(t)
    BY <1>2, <1>t, ThreadMoves DEF Lock, Go, ThreadStep
  <2>2. \A u \in Thread : ~Picking(u)
    BY <1>p, <2>1
  <2> QED
    BY <2>1, <2>2 DEF Others
<1>3. ASSUME NEW t \in Thread, ReadFirst(t) PROVE PickInv'
  <2>1. /\ pc[t] = "first" /\ pc'[t] = "next" /\ at'[t] = 2 /\ best' = best
        /\ mtx' = mtx /\ count' = count
        /\ steady'[t] => bestCount'[t] = count[at[t]]
        /\ Others(t)
    <3>1. Others(t) /\ count' = count
      BY <1>3, ThreadMoves DEF ThreadStep
    <3> QED
      BY <1>3, <1>t, <3>1 DEF ReadFirst, Go, HGet
  <2>2. steady'[t] => IsLeast(1, 2)' /\ bestCount'[t] = count'[best'[t]]
    <3>1. 1 \in Place /\ count[1] \in Nat
      BY <1>p, <1>t
    <3>2. \A j \in 1 .. 2 - 1 : j = 1
      OBVIOUS
    <3>3. IsLeast(1, 2)'
      BY <2>1, <3>1, <3>2 DEF IsLeast
    <3>4. at[t] = 1 /\ best[t] = 1
      BY <2>1
    <3> QED
      BY <2>1, <3>3, <3>4
  <2>3. mtx = t /\ best'[t] = 1
    BY <2>1
  <2>4. \A u \in Thread \ {t} : ~Picking(u)
    BY <2>3
  <2> QED
    BY <2>1, <2>2, <2>3, <2>4 DEF Others, IsLeast
<1>4. ASSUME NEW t \in Thread, ReadNext(t) PROVE PickInv'
  <2>1. /\ pc' = pc /\ pc[t] = "next" /\ at'[t] = at[t] + 1 /\ at[t] \in Place
        /\ mtx' = mtx /\ mtx = t /\ count' = count /\ Others(t)
    BY <1>4, <1>t, ThreadMoves DEF ReadNext, ThreadStep
  <2>2. ASSUME steady'[t]
        PROVE  /\ steady[t]
               /\ IF count[at[t]] < bestCount[t]
                  THEN best'[t] = at[t] /\ bestCount'[t] = count[at[t]]
                  ELSE best'[t] = best[t] /\ bestCount'[t] = bestCount[t]
    BY <1>4, <1>t, <2>2 DEF ReadNext, HGet
  <2>3. ASSUME steady'[t]
        PROVE  IsLeast(best'[t], at'[t]) /\ bestCount'[t] = count[best'[t]]
    <3>1. IsLeast(best[t], at[t]) /\ bestCount[t] = count[best[t]]
      BY <2>1, <2>2, <2>3
    <3>2. \A j \in 1 .. at'[t] - 1 : j \in 1 .. at[t] - 1 \/ j = at[t]
      BY <1>p, <2>1
    <3>3. \A j \in Place : count[j] \in Nat
      BY <1>p, <1>t
    <3>4. \A j \in 1 .. at[t] : j \in Place
      BY <1>p, <2>1
    <3>5. CASE count[at[t]] < bestCount[t]
      <4>1. best'[t] = at[t] /\ bestCount'[t] = count[at[t]]
        BY <2>2, <2>3, <3>5
      <4>2. \A j \in 1 .. at[t] - 1 : count[at[t]] < count[j]
        <5> SUFFICES ASSUME NEW j \in 1 .. at[t] - 1 PROVE count[at[t]] < count[j]
          OBVIOUS
        <5>1. count[best[t]] <= count[j] /\ best[t] \in 1 .. at[t] - 1
          BY <3>1 DEF IsLeast
        <5>2. best[t] \in Place /\ j \in Place /\ at[t] \in Place
          BY <1>p, <2>1, <5>1
        <5>3. count[best[t]] \in Nat /\ count[j] \in Nat /\ count[at[t]] \in Nat
          BY <3>3, <5>2
        <5>4. count[at[t]] < count[best[t]]
          BY <3>1, <3>5
        <5> QED
          BY <5>1, <5>3, <5>4
      <4> QED
        BY <1>p, <2>1, <3>2, <3>3, <3>4, <4>1, <4>2 DEF IsLeast
    <3>6. CASE ~(count[at[t]] < bestCount[t])
      <4>1. best'[t] = best[t] /\ bestCount'[t] = bestCount[t]
        BY <2>2, <2>3, <3>6
      <4>2. count[best[t]] <= count[at[t]] /\ best[t] <= at[t]
        BY <1>p, <2>1, <3>1, <3>3, <3>4, <3>6 DEF IsLeast
      <4> QED
        BY <1>p, <2>1, <3>1, <3>2, <4>1, <4>2 DEF IsLeast
    <3> QED
      BY <3>5, <3>6
  <2>4. \A u \in Thread \ {t} : ~Picking(u)
    BY <2>1
  <2>5. at'[t] > 1
    BY <1>p, <2>1
  <2> QED
    BY <2>1, <2>3, <2>4, <2>5 DEF Others, IsLeast
<1>5. ASSUME NEW t \in Thread, Unlock(t) PROVE PickInv'
  <2>1. pc[t] = "next" /\ pc'[t] = "answer" /\ mtx' = NoThread /\ Others(t)
    BY <1>5, <1>t, ThreadMoves DEF Unlock, Go, ThreadStep
  <2>2. \A u \in Thread \ {t} : ~Picking(u)
    BY <2>1
  <2> QED
    BY <2>1, <2>2 DEF Others
<1>6. ASSUME NEW i \in Place, NEW n \in Loads \cup {Full}, Report(i, n) PROVE PickInv'
  <2>1. /\ UNCHANGED <<mtx, pc, at, best>>
        /\ \A t \in Thread : pc[t] = "next" => ~steady'[t]
    BY <1>6 DEF Report
  <2> QED
    BY <2>1
<1>7. UNCHANGED vars => PickInv'
  BY DEF vars, IsLeast
<1> QED
  BY <1>1, <1>2, <1>3, <1>4, <1>5, <1>6, <1>7 DEF Next, ThreadStep

\* However many threads ask and counts change or cannot be read, getChatServer is
\* inside its critical section alone, and finds the least loaded server, the first
\* of equals, as long as the counts stand still.
THEOREM PicksLeast ==
  ASSUME Configured
  PROVE  Spec => []PickedLeast
<1>1. Init => PickInv
  BY DEF Init, PickInv, Picking
<1>2. TypeOK /\ PickInv /\ [Next]_vars => PickInv'
  BY NextPick
<1>3. TypeOK /\ PickInv => PickedLeast
  <2> SUFFICES ASSUME TypeOK, PickInv, NEW t \in Thread, pc[t] = "next", steady[t]
               PROVE  best[t] = LeastLoaded([j \in 1 .. at[t] - 1 |-> count[j]])
    BY DEF PickedLeast, PickInv, Picking
  <2> QED
    BY LeastFound DEF TypeOK, PickInv
<1> QED
  BY <1>1, <1>2, <1>3, TypeCorrect, PTL DEF Spec
=============================================================================
