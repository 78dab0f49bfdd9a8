---------------------------- MODULE ThreadPaging ----------------------------
(* A client pages through the chat threads of its user (LogicSystem::        *)
(* GetUserThreadsHandler, MysqlDao::GetUserThreads) while chats are being    *)
(* opened by the transactions of Friends.                                    *)
(* Ids come from AUTO_INCREMENT when a row is inserted, and the row is seen  *)
(* when its transaction commits: the two orders may differ.                  *)
(* No code of the repository fills group_chat_member, so the union is over   *)
(* private chats alone.                                                      *)
EXTENDS Friends

CONSTANTS
  Reader,   \* the user who pages
  PageSize  \* page_size of the handler

ASSUME PagingAssumption == Reader \in User /\ PageSize \in Nat \ {0}

VARIABLES
  cursor,  \* the client's last id: next_last_id of the last page
  seen,    \* the ids of the threads it has been given
  more,    \* load_more of the last page
  late     \* history: ids that a page went past before they were committed

pageVars == <<cursor, seen, more, late>>

Ids == {c.id : c \in {d \in chats : Reader \in d.pair}}

Uncommitted == {thread[s] : s \in {t \in Server :
                  (pc[t] = "open" \/ wchat[t] # {}) /\ Reader \in Pair(t)}}

(* WHERE thread_id > ? ORDER BY thread_id LIMIT pageSize + 1.                *)
Fetched(from) ==
  LET ids == {i \in Ids : i > from}
  IN  {i \in ids : Cardinality({j \in ids : j <= i}) <= PageSize + 1}

Last(ids) == CHOOSE i \in ids : \A j \in ids : j <= i

(* A look-ahead row says there is another page and is dropped.               *)
LoadMore(rows) == Cardinality(rows) > PageSize
PageOf(rows)   == IF LoadMore(rows) THEN rows \ {Last(rows)} ELSE rows

(* Mutant: the cursor is taken from the look-ahead row.                      *)
NextLastIdLookAhead(rows, from) == IF rows = {} THEN from ELSE Last(rows)

NextLastId(rows, from) == IF PageOf(rows) = {} THEN from ELSE Last(PageOf(rows))

(* A worker serves the next page: one consistent SELECT.                     *)
GetUserThreads(s) ==
  /\ pc[s] = "idle"
  /\ LET rows == Fetched(cursor) IN
       /\ cursor' = NextLastId(rows, cursor)
       /\ seen' = seen \cup PageOf(rows)
       /\ more' = LoadMore(rows)
  /\ late' = late \cup {i \in Uncommitted : i <= cursor'}
  /\ UNCHANGED vars

PagingInit == Init /\ cursor = 0 /\ seen = {} /\ more = FALSE /\ late = {}

PagingNext ==
  \/ \E s \in Server : GetUserThreads(s)
  \/ Next /\ UNCHANGED pageVars

PagingSpec == PagingInit /\ [][PagingNext]_<<vars, pageVars>>

-----------------------------------------------------------------------------
(* The cursor never passes a thread the client was not given, unless that    *)
(* thread was committed after a page with a larger id had been served.       *)
NothingSkipped == \A i \in Ids : i <= cursor => i \in seen \cup late
=============================================================================
