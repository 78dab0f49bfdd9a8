---------------------------- MODULE StatusServer ----------------------------
(***************************************************************************)
(* StatusServer's choice of a chat server.  gRPC threads run GetChatServer,*)
(* which under _server_mtx reads the login counts from Redis, one server   *)
(* after the other, while the chat servers' timers write them (CServer::   *)
(* on_timer) and their shutdown deletes them.  The token that goes with    *)
(* the answer is Accounts' InsertToken.                                    *)
(***************************************************************************)
EXTENDS Naturals, Sequences

CONSTANTS
  Thread,    \* gRPC threads of StatusServer
  servers,   \* _servers in the order of the map
  Full,      \* INT_MAX: what an unreadable count stands for
  NoThread,
  Loads,     \* bound: the counts servers report
  MaxCalls,  \* bound: calls in all
  MaxFaults  \* bound: HGets that fail

Place == DOMAIN servers

VARIABLES
  count,     \* the hash LOGIN_COUNT by place in servers; Full if absent
  mtx,       \* who holds _server_mtx
  pc,        \* each thread: idle, lock, first, next, answer
  at,        \* the place it reads next
  best,      \* minServer, as a place, ...
  bestCount, \* ... and its con_count
  calls, faults,
  steady     \* history: no count has changed or been unreadable since the lock was taken

vars == <<count, mtx, pc, at, best, bestCount, calls, faults, steady>>

Init ==
  /\ count = [i \in Place |-> Full]
  /\ mtx = NoThread
  /\ pc = [t \in Thread |-> "idle"]
  /\ at = [t \in Thread |-> 1]
  /\ best = [t \in Thread |-> 1]
  /\ bestCount = [t \in Thread |-> Full]
  /\ calls = 0 /\ faults = 0
  /\ steady = [t \in Thread |-> FALSE]

Go(t, from, to) == pc[t] = from /\ pc' = [pc EXCEPT ![t] = to]
-----------------------------------------------------------------------------
Call(t) ==
  /\ calls < MaxCalls /\ calls' = calls + 1
  /\ Go(t, "idle", "lock")
  /\ UNCHANGED <<count, mtx, at, best, bestCount, faults, steady>>

\* getChatServer: minServer is a copy of the first server.
Lock(t) ==
  /\ Go(t, "lock", "first")
  /\ mtx = NoThread /\ mtx' = t
  /\ at' = [at EXCEPT ![t] = 1]
  /\ best' = [best EXCEPT ![t] = 1]
  /\ steady' = [steady EXCEPT ![t] = TRUE]
  /\ UNCHANGED <<count, bestCount, calls, faults>>

\* HGet: an absent count and an error both give the empty string.
HGet(t, n) ==
  \/ /\ n = count[at[t]]
     /\ UNCHANGED <<faults, steady>>
  \/ /\ n = Full
     /\ faults < MaxFaults /\ faults' = faults + 1
     /\ steady' = [steady EXCEPT ![t] = FALSE]

\* Mutant: the first server's count stays the 0 of its constructor.
ReadFirstNot(t) ==
  /\ Go(t, "first", "next")
  /\ bestCount' = [bestCount EXCEPT ![t] = 0]
  /\ at' = [at EXCEPT ![t] = 2]
  /\ UNCHANGED <<count, mtx, best, calls, faults, steady>>

ReadFirst(t) ==
  /\ Go(t, "first", "next")
  /\ \E n \in Loads \cup {Full} :
       HGet(t, n) /\ bestCount' = [bestCount EXCEPT ![t] = n]
  /\ at' = [at EXCEPT ![t] = 2]
  /\ UNCHANGED <<count, mtx, best, calls>>

\* A server with a smaller count replaces minServer.
ReadNext(t) ==
  /\ pc[t] = "next" /\ at[t] \in Place
  /\ \E n \in Loads \cup {Full} :
       /\ HGet(t, n)
       /\ IF n < bestCount[t]
          THEN /\ best' = [best EXCEPT ![t] = at[t]]
               /\ bestCount' = [bestCount EXCEPT ![t] = n]
          ELSE UNCHANGED <<best, bestCount>>
  /\ at' = [at EXCEPT ![t] = @ + 1]
  /\ UNCHANGED <<count, mtx, pc, calls>>

\* getChatServer returns and unlocks; GetChatServer answers.
Unlock(t) ==
  /\ at[t] \notin Place /\ Go(t, "next", "answer")
  /\ mtx' = NoThread
  /\ UNCHANGED <<count, at, best, bestCount, calls, faults, steady>>

Answer(t) ==
  /\ Go(t, "answer", "idle")
  /\ UNCHANGED <<count, mtx, at, best, bestCount, calls, faults, steady>>

\* on_timer of a chat server writes its count, or its shutdown deletes it.  A crash
\* leaves it as it is.
Report(i, n) ==
  /\ count[i] # n
  /\ count' = [count EXCEPT ![i] = n]
  /\ steady' = [t \in Thread |-> steady[t] /\ pc[t] \notin {"first", "next"}]
  /\ UNCHANGED <<mtx, pc, at, best, bestCount, calls, faults>>

ThreadStep(t) == Lock(t) \/ ReadFirst(t) \/ ReadNext(t) \/ Unlock(t) \/ Answer(t)

Next ==
  \/ \E t \in Thread : Call(t) \/ ThreadStep(t)
  \/ \E i \in Place, n \in Loads \cup {Full} : Report(i, n)

Spec == Init /\ [][Next]_vars
-----------------------------------------------------------------------------
TypeOK ==
  /\ count \in [Place -> Loads \cup {Full}]
  /\ mtx \in Thread \cup {NoThread}
  /\ pc \in [Thread -> {"idle", "lock", "first", "next", "answer"}]
  /\ at \in [Thread -> 1 .. Len(servers) + 1]
  /\ best \in [Thread -> Place] /\ bestCount \in [Thread -> Loads \cup {Full}]
  /\ calls \in 0 .. MaxCalls /\ faults \in 0 .. MaxFaults
  /\ steady \in [Thread -> BOOLEAN]

\* The place getChatServer should find: the least loaded, the first of equals.
LeastLoaded(f) ==
  CHOOSE i \in DOMAIN f :
    /\ \A j \in DOMAIN f : f[i] <= f[j]
    /\ \A j \in DOMAIN f : f[j] = f[i] => i <= j

\* Who holds _server_mtx is picking, so the others get it in time; and what it has
\* found so far is the least loaded of the servers it has read, if the counts have
\* stood still since it began.
PickedLeast ==
  /\ mtx # NoThread => pc[mtx] \in {"first", "next"}
  /\ \A t \in Thread :
       pc[t] = "next" =>
         /\ mtx = t
         /\ steady[t] => best[t] = LeastLoaded([i \in 1 .. at[t] - 1 |-> count[i]])
=============================================================================
