------------------------------ MODULE Accounts ------------------------------
(***************************************************************************)
(* Accounts, mailed codes and login tokens: what the handlers of the HTTP  *)
(* gate (WeChatServer), VarifyServer, StatusServer and the first half of   *)
(* ChatServer's LoginHandler do to Redis and MySQL for a user.             *)
(*                                                                         *)
(* The gate handles requests on several io threads and VarifyServer's      *)
(* handler is suspended at every await, so requests interleave between any *)
(* two commands.  A request that fails without an effect (a parse error, a *)
(* password that is not confirmed, a service that does not answer) is      *)
(* GiveUp, wherever it stands.  A uid is identified with its name.         *)
(***************************************************************************)
EXTENDS Naturals, FiniteSets

CONSTANTS
  Client,       \* programs that send requests, one at a time each
  Name, Addr, Pwd,
  Reads,        \* Reads[c]: the addresses whose mail c's user reads
  NoName, NoAddr, NoPwd,
  MaxRequests,  \* bound: requests in all
  MaxFaults     \* bound: expiries, failing commands, texts routed

ASSUME AccountsAssumption ==
  /\ NoName \notin Name /\ NoAddr \notin Addr /\ NoPwd \notin Pwd
  /\ Reads \in [Client -> SUBSET Addr]
  /\ MaxRequests \in Nat /\ MaxFaults \in Nat

\* Codes and tokens are numbered as they are generated; 0 is none.
NoCode == 0
NoToken == 0

VARIABLES
  pc,        \* where each client's request stands
  form,      \* what the request says, and what its handler has found out
  code, ttl, \* code_<address> in Redis, and whether it will expire
  codes,     \* codes generated
  mailed,    \* the codes mailed to each address
  last,      \* the newest of them
  mail,      \* MySQL: the address of each user, NoAddr if there is no such user
  pwd,       \* MySQL: its password
  token,     \* utoken_<uid> in Redis
  tokens,    \* tokens generated
  cache,     \* the password in ubaseinfo_<uid> in Redis, NoPwd if absent
  ticket,    \* <<name, token>>: what each client has been given to log in with
  requests, faults,
  clear,     \* history: the request asks for a code undisturbed
  good,      \* history: nothing has happened to the address since its last mail
  eternal,   \* history: addresses for which EXPIRE has failed
  overtaken, \* history: clients whose ticket has been replaced or not stored
  outdated   \* history: users with a password newer than a read of the profile

codeVars == <<code, ttl, codes, mailed, last, clear, good, eternal>>
userVars == <<mail, pwd, outdated>>
loginVars == <<token, tokens, ticket, overtaken>>
vars == <<pc, form, codeVars, userVars, loginVars, cache, requests, faults>>

NoForm == [name |-> NoName, addr |-> NoAddr, pwd |-> NoPwd, code |-> NoCode]
NoTicket == <<NoName, NoToken>>

Init ==
  /\ pc = [c \in Client |-> "idle"] /\ form = [c \in Client |-> NoForm]
  /\ code = [e \in Addr |-> NoCode] /\ ttl = [e \in Addr |-> FALSE] /\ codes = 0
  /\ mailed = [e \in Addr |-> {}] /\ last = [e \in Addr |-> NoCode]
  /\ mail = [n \in Name |-> NoAddr] /\ pwd = [n \in Name |-> NoPwd]
  /\ token = [n \in Name |-> NoToken] /\ tokens = 0
  /\ cache = [n \in Name |-> NoPwd]
  /\ ticket = [c \in Client |-> NoTicket]
  /\ requests = 0 /\ faults = 0
  /\ clear = [c \in Client |-> FALSE] /\ good = [e \in Addr |-> FALSE]
  /\ eternal = {} /\ overtaken = {} /\ outdated = {}
-----------------------------------------------------------------------------
Go(c, from, to) == pc[c] = from /\ pc' = [pc EXCEPT ![c] = to]
Step(c, from, to) == Go(c, from, to) /\ UNCHANGED <<form, requests>>
Done(c, from) ==
  Go(c, from, "idle") /\ form' = [form EXCEPT ![c] = NoForm] /\ UNCHANGED requests

Request(c, to, f) ==
  /\ requests < MaxRequests
  /\ requests' = requests + 1
  /\ Go(c, "idle", to)
  /\ form' = [form EXCEPT ![c] = f]
  /\ UNCHANGED faults

Fault == faults < MaxFaults /\ faults' = faults + 1

\* A request that ends with an error answer and no effect.
GiveUp(c) ==
  /\ \E from \in {"codeGet", "codeSet", "codeMail", "registerCode", "regUser",
                  "resetCode", "checkEmail", "updatePwd", "checkPwd", "getServer",
                  "token", "profile", "cacheSet"} : Done(c, from)
  /\ Fault
  /\ UNCHANGED <<codeVars, userVars, loginVars, cache>>
-----------------------------------------------------------------------------
(* get_varifycode: VarifyServer's GetVarifyCode, an await between any two  *)
(* of its steps.                                                           *)

\* The requests for a code for e that are under way, at one of these places.
Asking(e, places) == {c \in Client : pc[c] \in places /\ form[c].addr = e}
InCode == {"codeGet", "codeSet", "codeExpire", "codeMail"}
Disturbed(C) == [c \in Client |-> clear[c] /\ c \notin C]

get_varifycode(c, e) ==
  /\ Request(c, "codeGet", [NoForm EXCEPT !.addr = e])
  /\ clear' = [Disturbed(Asking(e, InCode)) EXCEPT ![c] = Asking(e, InCode) = {}]
  /\ UNCHANGED <<code, ttl, codes, mailed, last, good, eternal, userVars, loginVars, cache>>

\* GetRedis: a stored code is mailed again, as it is.
CodeFound(c) ==
  /\ Go(c, "codeGet", "codeMail")
  /\ code[form[c].addr] # NoCode
  /\ form' = [form EXCEPT ![c].code = code[form[c].addr]]
  /\ UNCHANGED <<codeVars, userVars, loginVars, cache, requests, faults>>

\* None is stored, or GetRedis answers null because of an error: a new one.
NewCode(c) ==
  /\ Go(c, "codeGet", "codeSet")
  /\ codes' = codes + 1
  /\ form' = [form EXCEPT ![c].code = codes + 1]
  /\ UNCHANGED <<code, ttl, mailed, last, good, eternal, userVars, loginVars, cache, requests>>

CodeMissing(c) ==
  /\ NewCode(c)
  /\ code[form[c].addr] = NoCode
  /\ UNCHANGED <<clear, faults>>

CodeUnread(c) ==
  /\ NewCode(c) /\ Fault
  /\ good' = [good EXCEPT ![form[c].addr] = FALSE]
  /\ UNCHANGED clear

\* Mutant: a failing SET does not end the request.
CodeSetIgnored(c) ==
  /\ Step(c, "codeSet", "codeMail")
  /\ Fault
  /\ UNCHANGED <<codeVars, userVars, loginVars, cache>>

\* Mutant: the time to live is set first, and lost with the SET.
CodeSetLast(c) ==
  /\ Step(c, "codeSet", "codeMail")
  /\ code' = [code EXCEPT ![form[c].addr] = form[c].code]
  /\ ttl' = [ttl EXCEPT ![form[c].addr] = FALSE]
  /\ UNCHANGED <<codes, mailed, last, clear, good, eternal, userVars, loginVars, cache, faults>>

\* SetRedisExpire: SET, which takes the time to live away, ...
CodeSet(c) ==
  /\ Step(c, "codeSet", "codeExpire")
  /\ code' = [code EXCEPT ![form[c].addr] = form[c].code]
  /\ ttl' = [ttl EXCEPT ![form[c].addr] = FALSE]
  /\ UNCHANGED <<codes, mailed, last, clear, good, eternal, userVars, loginVars, cache, faults>>

\* ... and EXPIRE, of whatever is stored by now.
CodeExpire(c) ==
  /\ Step(c, "codeExpire", "codeMail")
  /\ ttl' = [ttl EXCEPT ![form[c].addr] = code[form[c].addr] # NoCode]
  /\ UNCHANGED <<code, codes, mailed, last, clear, good, eternal, userVars, loginVars, cache, faults>>

\* EXPIRE fails: the request is answered with RedisErr, the code stays.
CodeKept(c) ==
  /\ Done(c, "codeExpire") /\ Fault
  /\ eternal' = eternal \cup {form[c].addr}
  /\ UNCHANGED <<code, ttl, codes, mailed, last, clear, good, userVars, loginVars, cache>>

\* SendMail: the mail arrives and the request is answered.
SendMail(c) ==
  LET e == form[c].addr IN
  /\ Done(c, "codeMail")
  /\ mailed' = [mailed EXCEPT ![e] = @ \cup {form[c].code}]
  /\ last' = [last EXCEPT ![e] = form[c].code]
  /\ good' = [good EXCEPT ![e] = clear[c]]
  /\ UNCHANGED <<code, ttl, codes, clear, eternal, userVars, loginVars, cache, faults>>

\* The code's 600 seconds are over.
Expire(e) ==
  /\ code[e] # NoCode /\ ttl[e]
  /\ Fault
  /\ code' = [code EXCEPT ![e] = NoCode]
  /\ ttl' = [ttl EXCEPT ![e] = FALSE]
  /\ good' = [good EXCEPT ![e] = FALSE]
  /\ clear' = Disturbed(Asking(e, InCode \ {"codeGet"}))
  /\ UNCHANGED <<pc, form, codes, mailed, last, eternal, userVars, loginVars, cache, requests>>
-----------------------------------------------------------------------------
(* user_register and reset_pwd.                                            *)

Known(c) == UNION {mailed[e] : e \in Reads[c]}

\* A client fills in a form with a code its user has read in some mail.
FillIn(c, to) ==
  \E n \in Name, e \in Addr, p \in Pwd, k \in Known(c) :
    Request(c, to, [name |-> n, addr |-> e, pwd |-> p, code |-> k])

user_register(c) ==
  /\ FillIn(c, "registerCode")
  /\ UNCHANGED <<codeVars, userVars, loginVars, cache>>

reset_pwd(c) ==
  /\ FillIn(c, "resetCode")
  /\ UNCHANGED <<codeVars, userVars, loginVars, cache>>

\* The code stored for the address of the form is the one in the form.
CodeAccepted(c) == code[form[c].addr] # NoCode /\ code[form[c].addr] = form[c].code

CheckCode(c, from, to) ==
  /\ pc[c] = from
  /\ IF CodeAccepted(c) THEN Step(c, from, to) ELSE Done(c, from)
  /\ UNCHANGED <<codeVars, userVars, loginVars, cache, faults>>

\* The stored procedure reg_user, as its results are used: a name or an address
\* that is taken is refused.
RegUser(c) ==
  LET f == form[c] IN
  /\ Done(c, "regUser")
  /\ IF mail[f.name] # NoAddr \/ f.addr \in {mail[n] : n \in Name}
     THEN UNCHANGED <<mail, pwd>>
     ELSE /\ mail' = [mail EXCEPT ![f.name] = f.addr]
          /\ pwd' = [pwd EXCEPT ![f.name] = f.pwd]
  /\ UNCHANGED <<codeVars, outdated, loginVars, cache, faults>>

\* Mutant: the user must exist, with any address.
CheckEmailExists(c) ==
  /\ pc[c] = "checkEmail"
  /\ IF mail[form[c].name] # NoAddr
     THEN Step(c, "checkEmail", "updatePwd")
     ELSE Done(c, "checkEmail")
  /\ UNCHANGED <<codeVars, userVars, loginVars, cache, faults>>

CheckEmail(c) ==
  /\ pc[c] = "checkEmail"
  /\ IF mail[form[c].name] = form[c].addr
     THEN Step(c, "checkEmail", "updatePwd")
     ELSE Done(c, "checkEmail")
  /\ UNCHANGED <<codeVars, userVars, loginVars, cache, faults>>

\* Mutant: the cached profile is deleted, and that is thought to be enough.
UpdatePwdDropsCache(c) ==
  LET f == form[c] IN
  /\ Done(c, "updatePwd")
  /\ pwd' = [pwd EXCEPT ![f.name] = f.pwd]
  /\ cache' = [cache EXCEPT ![f.name] = NoPwd]
  /\ UNCHANGED <<codeVars, mail, outdated, loginVars, faults>>

\* UpdatePwd.  Nothing else follows: tokens and the cached profile stay.
UpdatePwd(c) ==
  LET f == form[c] IN
  /\ Done(c, "updatePwd")
  /\ pwd' = [pwd EXCEPT ![f.name] = f.pwd]
  /\ outdated' = IF cache[f.name] # NoPwd \/ \E d \in Client : pc[d] = "cacheSet" /\ form[d].name = f.name
                 THEN outdated \cup {f.name} ELSE outdated
  /\ UNCHANGED <<codeVars, mail, loginVars, cache, faults>>
-----------------------------------------------------------------------------
(* user_login and LoginHandler.                                            *)

user_login(c) ==
  /\ \E n \in Name, p \in Pwd :
       Request(c, "checkPwd", [NoForm EXCEPT !.name = n, !.pwd = p])
  /\ UNCHANGED <<codeVars, userVars, loginVars, cache>>

\* StatusServer's insertToken, for a login or for a chat server: a new token
\* replaces the user's, whoever was given that one.
InsertToken(n) ==
  /\ tokens' = tokens + 1
  /\ token' = [token EXCEPT ![n] = tokens + 1]

Holders(n) == {c \in Client : ticket[c][1] = n}

\* Mutant: StatusServer is asked before the password is compared.
CheckPwdLate(c) ==
  /\ pc[c] = "checkPwd" /\ mail[form[c].name] # NoAddr
  /\ IF pwd[form[c].name] = form[c].pwd
     THEN Step(c, "checkPwd", "getServer") /\ UNCHANGED <<token, tokens>>
     ELSE Done(c, "checkPwd") /\ InsertToken(form[c].name)
  /\ UNCHANGED <<codeVars, userVars, ticket, overtaken, cache, faults>>

CheckPwd(c) ==
  /\ pc[c] = "checkPwd"
  /\ IF mail[form[c].name] # NoAddr /\ pwd[form[c].name] = form[c].pwd
     THEN Step(c, "checkPwd", "getServer")
     ELSE Done(c, "checkPwd")
  /\ UNCHANGED <<codeVars, userVars, loginVars, cache, faults>>

\* GetChatServer: the client is given the token, and where to go.
GetChatServer(c) ==
  LET n == form[c].name IN
  /\ Done(c, "getServer")
  /\ InsertToken(n)
  /\ ticket' = [ticket EXCEPT ![c] = <<n, tokens + 1>>]
  /\ overtaken' = (overtaken \cup Holders(n)) \ {c}
  /\ UNCHANGED <<codeVars, userVars, cache, faults>>

\* insertToken ignores that SET failed: a token that is not stored is given out.
GetChatServerUnstored(c) ==
  /\ Done(c, "getServer") /\ Fault
  /\ tokens' = tokens + 1
  /\ ticket' = [ticket EXCEPT ![c] = <<form[c].name, tokens + 1>>]
  /\ overtaken' = overtaken \cup {c}
  /\ UNCHANGED <<codeVars, userVars, token, cache>>

\* The answer of StatusServer does not reach the gate: the token is stored.
GetChatServerLost(c) ==
  /\ Done(c, "getServer") /\ Fault
  /\ InsertToken(form[c].name)
  /\ overtaken' = overtaken \cup Holders(form[c].name)
  /\ UNCHANGED <<codeVars, userVars, ticket, cache>>

\* A chat server routes a text to a user it has no session of: it asks
\* StatusServer with that user's uid, and discards the token.
Route(n) ==
  /\ mail[n] # NoAddr
  /\ Fault
  /\ InsertToken(n)
  /\ overtaken' = overtaken \cup Holders(n)
  /\ UNCHANGED <<pc, form, codeVars, userVars, ticket, cache, requests>>

\* The client connects to the chat server and logs in with its ticket.
ChatLogin(c) ==
  /\ ticket[c] # NoTicket
  /\ Request(c, "token", [NoForm EXCEPT !.name = ticket[c][1]])
  /\ UNCHANGED <<codeVars, userVars, loginVars, cache>>

\* LoginHandler: the token is compared, ...
TokenAccepted(c) ==
  /\ Step(c, "token", "profile")
  /\ token[form[c].name] = ticket[c][2]
  /\ UNCHANGED <<codeVars, userVars, loginVars, cache, faults>>

TokenInvalid(c) ==
  /\ Done(c, "token")
  /\ token[form[c].name] # ticket[c][2]
  /\ UNCHANGED <<codeVars, userVars, loginVars, cache, faults>>

\* ... and the profile answered from the cache, ...
ProfileCached(c) ==
  /\ Done(c, "profile")
  /\ cache[form[c].name] # NoPwd
  /\ UNCHANGED <<codeVars, userVars, loginVars, cache, faults>>

\* ... or, when that has none or cannot be read, from MySQL, ...
ProfileRead(c) ==
  /\ Go(c, "profile", "cacheSet")
  /\ form' = [form EXCEPT ![c].pwd = pwd[form[c].name]]
  /\ \/ cache[form[c].name] = NoPwd /\ UNCHANGED faults
     \/ Fault
  /\ UNCHANGED <<codeVars, userVars, loginVars, cache, requests>>

\* ... which is then put into the cache; nothing ever takes it out.
ProfileSet(c) ==
  /\ Done(c, "cacheSet")
  /\ cache' = [cache EXCEPT ![form[c].name] = form[c].pwd]
  /\ UNCHANGED <<codeVars, userVars, loginVars, faults>>

\* A client sends a request, or its handler goes on.
CodeStep(c) ==
  \/ \E e \in Addr : get_varifycode(c, e)
  \/ CodeFound(c) \/ CodeMissing(c) \/ CodeUnread(c) \/ CodeSet(c)
  \/ CodeExpire(c) \/ CodeKept(c) \/ SendMail(c)

UserStep(c) ==
  \/ user_register(c) \/ CheckCode(c, "registerCode", "regUser") \/ RegUser(c)
  \/ reset_pwd(c) \/ CheckCode(c, "resetCode", "checkEmail")
  \/ CheckEmail(c) \/ UpdatePwd(c)

LoginStep(c) ==
  \/ user_login(c) \/ CheckPwd(c)
  \/ GetChatServer(c) \/ GetChatServerUnstored(c) \/ GetChatServerLost(c)
  \/ ChatLogin(c) \/ TokenAccepted(c) \/ TokenInvalid(c)
  \/ ProfileCached(c) \/ ProfileRead(c) \/ ProfileSet(c)

ClientStep(c) == CodeStep(c) \/ UserStep(c) \/ LoginStep(c) \/ GiveUp(c)

Next ==
  \/ \E c \in Client : ClientStep(c)
  \/ \E e \in Addr : Expire(e)
  \/ \E n \in Name : Route(n)

Spec == Init /\ [][Next]_vars
-----------------------------------------------------------------------------
Places == InCode \cup
  {"idle", "registerCode", "regUser", "resetCode", "checkEmail", "updatePwd",
   "checkPwd", "getServer", "token", "profile", "cacheSet"}
Form == [name : Name \cup {NoName}, addr : Addr \cup {NoAddr}, pwd : Pwd \cup {NoPwd}, code : Nat]

\* Where the parts of a form are filled in.
WithAddr == InCode \cup {"registerCode", "regUser", "resetCode", "checkEmail", "updatePwd"}
WithPwd  == {"registerCode", "regUser", "resetCode", "checkEmail", "updatePwd", "checkPwd", "cacheSet"}
WithName == WithPwd \cup {"getServer", "token", "profile"}
WithUser == {"updatePwd", "getServer", "token", "profile", "cacheSet"}  \* in MySQL

FormsTypeOK ==
  /\ pc \in [Client -> Places] /\ form \in [Client -> Form]
  /\ \A c \in Client :
       /\ pc[c] \in WithAddr => form[c].addr \in Addr
       /\ pc[c] \in WithName => form[c].name \in Name
       /\ pc[c] \in WithPwd => form[c].pwd \in Pwd

CodesTypeOK ==
  /\ code \in [Addr -> Nat] /\ ttl \in [Addr -> BOOLEAN] /\ codes \in Nat
  /\ mailed \in [Addr -> SUBSET Nat] /\ last \in [Addr -> Nat]
  /\ clear \in [Client -> BOOLEAN] /\ good \in [Addr -> BOOLEAN]
  /\ eternal \in SUBSET Addr

UsersTypeOK ==
  /\ mail \in [Name -> Addr \cup {NoAddr}] /\ pwd \in [Name -> Pwd \cup {NoPwd}]
  /\ cache \in [Name -> Pwd \cup {NoPwd}] /\ outdated \in SUBSET Name
  /\ token \in [Name -> Nat] /\ tokens \in Nat
  /\ ticket \in [Client -> (Name \X Nat) \cup {NoTicket}] /\ overtaken \in SUBSET Client

\* Only users in MySQL have a password, a cached profile, a ticket or a login under
\* way.
UsersKnown ==
  /\ \A n \in Name : mail[n] = NoAddr <=> pwd[n] = NoPwd
  /\ \A n \in Name : cache[n] # NoPwd => mail[n] # NoAddr
  /\ \A c \in Client : ticket[c] # NoTicket => mail[ticket[c][1]] # NoAddr
  /\ \A c \in Client : pc[c] \in WithUser => mail[form[c].name] # NoAddr
  /\ \A c \in Client : pc[c] = "updatePwd" => mail[form[c].name] = form[c].addr

\* Every variable keeps its shape, a request has been given what its place needs,
\* and nothing is known of a user whom MySQL does not have.
TypeOK == FormsTypeOK /\ CodesTypeOK /\ UsersTypeOK /\ UsersKnown

\* The newest code mailed to an address is the one the gate accepts, as long as
\* the code has not expired or been unreadable for a moment and the request that
\* mailed it was the only one for the address while it ran.  (Two requests at
\* once may store one code and mail the other last.)
LastMailWorks == \A e \in Addr : good[e] => code[e] = last[e]

\* Every stored code will expire, or is about to be given its time to live, or its
\* EXPIRE failed: then it is accepted, and mailed again and again, for ever.
CodesExpire ==
  \A e \in Addr :
    code[e] # NoCode /\ ~ttl[e] =>
      e \in eternal \/ Asking(e, {"codeExpire"}) # {}

\* A user's password is set only by a request of somebody who reads the mail of
\* the address the user is registered with, by registering or by resetting.
SetByOwner ==
  [][\A n \in Name, c \in Client :
       pwd'[n] # pwd[n] /\ pc'[c] # pc[c] => mail'[n] \in Reads[c]]_vars

\* The ticket of a client is what the chat server will accept, unless another
\* login of the user or a text routed to the user has had a new token made since,
\* or Redis did not take it.
TicketHonoured ==
  \A c \in Client :
    ticket[c] # NoTicket /\ c \notin overtaken => token[ticket[c][1]] = ticket[c][2]

\* The profile a chat server answers from the cache has the user's password,
\* unless a reset came after MySQL was read for it.
ProfileFresh ==
  \A n \in Name : cache[n] # NoPwd /\ n \notin outdated => cache[n] = pwd[n]
=============================================================================
