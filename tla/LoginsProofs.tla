---------------------------- MODULE LoginsProofs ----------------------------
(***************************************************************************)
(* Machine-checked proofs about MCLogins: the codes, accounts and tokens of *)
(* Accounts, for any numbers of clients, users, addresses, passwords,       *)
(* requests and faults; the choice of the chat server; and the one session  *)
(* of a user at chat servers that die and start again.                      *)
(***************************************************************************)
EXTENDS MCLogins, TLAPS

-----------------------------------------------------------------------------
(* The requests.                                                              *)

LEMMA Forms ==
  /\ NoForm \in Form
  /\ \A e \in Addr : [NoForm EXCEPT !.addr = e] \in Form /\ [NoForm EXCEPT !.addr = e].addr = e
  /\ \A n \in Name : [NoForm EXCEPT !.name = n] \in Form /\ [NoForm EXCEPT !.name = n].name = n
  /\ \A n \in Name, p \in Pwd :
       /\ [NoForm EXCEPT !.name = n, !.pwd = p] \in Form
       /\ [NoForm EXCEPT !.name = n, !.pwd = p].name = n
       /\ [NoForm EXCEPT !.name = n, !.pwd = p].pwd = p
  /\ \A f \in Form, k \in Nat : [f EXCEPT !.code = k] \in Form
  /\ \A f \in Form, p \in Pwd : [f EXCEPT !.pwd = p] \in Form
BY DEF NoForm, Form, NoCode

LEMMA InitTypeOK == Init => TypeOK
<1> SUFFICES ASSUME Init PROVE TypeOK
  OBVIOUS
<1>1. FormsTypeOK
  BY Forms DEF Init, FormsTypeOK, Places, WithAddr, WithPwd, WithName, InCode
<1>2. CodesTypeOK
  BY DEF Init, CodesTypeOK, NoCode
<1>3. UsersTypeOK
  BY DEF Init, UsersTypeOK, NoToken
<1>4. UsersKnown
  BY DEF Init, UsersKnown, WithUser
<1> QED
  BY <1>1, <1>2, <1>3, <1>4 DEF TypeOK

(* A step of one client leaves the others' requests alone.                    *)
LEMMA OneForm ==
  ASSUME FormsTypeOK, NEW c \in Client, NEW to \in Places, NEW f \in Form,
         pc' = [pc EXCEPT ![c] = to],
         form' = [form EXCEPT ![c] = f],
         to \in WithAddr => f.addr \in Addr,
         to \in WithName => f.name \in Name,
         to \in WithPwd => f.pwd \in Pwd
  PROVE  FormsTypeOK'
BY DEF FormsTypeOK

LEMMA SameForm ==
  ASSUME FormsTypeOK, NEW c \in Client, NEW from, NEW to \in Places,
         Step(c, from, to),
         to \in WithAddr => from \in WithAddr,
         to \in WithName => from \in WithName,
         to \in WithPwd => from \in WithPwd
  PROVE  FormsTypeOK'
BY DEF FormsTypeOK, Step, Go

LEMMA NoMoreForm ==
  ASSUME FormsTypeOK, NEW c \in Client, NEW from, Done(c, from)
  PROVE  FormsTypeOK'
BY Forms DEF FormsTypeOK, Done, Go, Places, WithAddr, WithPwd, WithName, InCode

LEMMA NewForm ==
  ASSUME FormsTypeOK, NEW c \in Client, NEW to \in Places, NEW f \in Form, Request(c, to, f),
         to \in WithAddr => f.addr \in Addr,
         to \in WithName => f.name \in Name,
         to \in WithPwd => f.pwd \in Pwd
  PROVE  FormsTypeOK'
BY DEF FormsTypeOK, Request, Go
LEMMA CodeNoted ==
  ASSUME FormsTypeOK, NEW c \in Client, NEW to \in Places, NEW k \in Nat,
         pc' = [pc EXCEPT ![c] = to],
         form' = [form EXCEPT ![c].code = k],
         pc[c] \in WithAddr, to \notin WithName
  PROVE  FormsTypeOK'
<1>1. WithPwd \subseteq WithName
  BY DEF WithName
<1>2. form[c] \in Form /\ form[c].addr \in Addr
  BY DEF FormsTypeOK
<1>3. form'[c] \in Form /\ form'[c].addr = form[c].addr
  BY <1>2 DEF FormsTypeOK, Form
<1>4. \A d \in Client \ {c} : form'[d] = form[d] /\ pc'[d] = pc[d]
  BY DEF FormsTypeOK
<1>5. pc' \in [Client -> Places] /\ form' \in [Client -> Form]
  BY <1>3, <1>4 DEF FormsTypeOK
<1> QED
  BY <1>1, <1>2, <1>3, <1>4, <1>5 DEF FormsTypeOK

LEMMA PwdNoted ==
  ASSUME FormsTypeOK, NEW c \in Client, NEW to \in Places, NEW p \in Pwd,
         pc' = [pc EXCEPT ![c] = to],
         form' = [form EXCEPT ![c].pwd = p],
         pc[c] \in WithName, to \notin WithAddr
  PROVE  FormsTypeOK'
<1>1. form[c] \in Form /\ form[c].name \in Name
  BY DEF FormsTypeOK
<1>2. form'[c] \in Form /\ form'[c].name = form[c].name /\ form'[c].pwd = p
  BY <1>1 DEF FormsTypeOK, Form
<1>3. \A d \in Client \ {c} : form'[d] = form[d] /\ pc'[d] = pc[d]
  BY DEF FormsTypeOK
<1>4. pc' \in [Client -> Places] /\ form' \in [Client -> Form]
  BY <1>2, <1>3 DEF FormsTypeOK
<1> QED
  BY <1>1, <1>2, <1>3, <1>4 DEF FormsTypeOK

(* What a client fills in is in its reach.                                    *)
LEMMA FilledIn ==
  ASSUME FormsTypeOK, CodesTypeOK, NEW c \in Client, NEW to \in Places, FillIn(c, to)
  PROVE  /\ FormsTypeOK'
         /\ pc' = [pc EXCEPT ![c] = to]
         /\ form'[c].code \in Known(c)
         /\ \A d \in Client \ {c} : form'[d] = form[d]
<1>1. PICK n \in Name, e \in Addr, p \in Pwd, k \in Known(c) :
        Request(c, to, [name |-> n, addr |-> e, pwd |-> p, code |-> k])
  BY DEF FillIn
<1>2. k \in Nat
  BY AccountsAssumption DEF Known, CodesTypeOK
<1>3. [name |-> n, addr |-> e, pwd |-> p, code |-> k] \in Form
  BY <1>2 DEF Form
<1>4. FormsTypeOK'
  BY <1>1, <1>3, NewForm
<1> QED
  BY <1>1, <1>4 DEF Request, Go, FormsTypeOK

LEMMA NextTypeOK == TypeOK /\ [Next]_vars => TypeOK'
<1> SUFFICES ASSUME TypeOK, [Next]_vars PROVE TypeOK'
  OBVIOUS
<1> USE DEF TypeOK
<1>1. ASSUME NEW c \in Client, NEW e \in Addr, get_varifycode(c, e) PROVE TypeOK'
  <2>1. FormsTypeOK'
    BY <1>1, NewForm, Forms, AccountsAssumption DEF get_varifycode, Places, InCode,
      WithAddr, WithName, WithPwd, NoForm, UsersTypeOK
  <2>2. CodesTypeOK'
    BY <1>1 DEF get_varifycode, Request, Go, codeVars, CodesTypeOK, FormsTypeOK, WithAddr,
      InCode, Disturbed, Asking
  <2>3. UsersTypeOK'
    BY <1>1 DEF get_varifycode, Request, Go, userVars, loginVars, InsertToken, Holders,
      UsersTypeOK, FormsTypeOK, WithAddr, WithName, WithPwd
  <2>4. UsersKnown'
    BY <1>1 DEF get_varifycode, Request, Go, userVars, loginVars, InsertToken, UsersKnown,
      UsersTypeOK, FormsTypeOK, WithAddr, WithName, WithPwd, WithUser, NoTicket
  <2> QED
    BY <2>1, <2>2, <2>3, <2>4
<1>2. ASSUME NEW c \in Client, CodeFound(c) PROVE TypeOK'
  <2>1. FormsTypeOK'
    BY <1>2, CodeNoted DEF CodeFound, NewCode, Go, FormsTypeOK, CodesTypeOK, UsersTypeOK,
      UsersKnown, WithUser, Places, InCode, WithAddr, WithName, WithPwd
  <2>2. CodesTypeOK'
    BY <1>2 DEF CodeFound, NewCode, Go, codeVars, CodesTypeOK, FormsTypeOK, WithAddr,
      InCode, Disturbed, Asking
  <2>3. UsersTypeOK'
    BY <1>2 DEF CodeFound, NewCode, Go, userVars, loginVars, InsertToken, Holders,
      UsersTypeOK, FormsTypeOK, WithAddr, WithName, WithPwd
  <2>4. UsersKnown'
    BY <1>2 DEF CodeFound, NewCode, Go, userVars, loginVars, InsertToken, UsersKnown,
      UsersTypeOK, FormsTypeOK, WithAddr, WithName, WithPwd, WithUser, NoTicket
  <2> QED
    BY <2>1, <2>2, <2>3, <2>4
<1>3. ASSUME NEW c \in Client, CodeMissing(c) PROVE TypeOK'
  <2>1. FormsTypeOK'
    <3>1. /\ pc[c] = "codeGet" /\ pc' = [pc EXCEPT ![c] = "codeSet"]
          /\ form' = [form EXCEPT ![c].code = codes + 1] /\ codes + 1 \in Nat
      BY <1>3 DEF CodeMissing, NewCode, Go, CodesTypeOK
    <3>2. "codeGet" \in WithAddr /\ "codeSet" \in Places \ WithName
      BY DEF Places, InCode, WithAddr, WithName, WithPwd
    <3> QED
      BY <3>1, <3>2, CodeNoted
  <2>2. CodesTypeOK'
    BY <1>3 DEF CodeMissing, NewCode, Go, codeVars, CodesTypeOK, FormsTypeOK, WithAddr,
      InCode, Disturbed, Asking
  <2>3. UsersTypeOK'
    BY <1>3 DEF CodeMissing, NewCode, Go, userVars, loginVars, InsertToken, Holders,
      UsersTypeOK, FormsTypeOK, WithAddr, WithName, WithPwd
  <2>4. UsersKnown'
    BY <1>3 DEF CodeMissing, NewCode, Go, userVars, loginVars, InsertToken, UsersKnown,
      UsersTypeOK, FormsTypeOK, WithAddr, WithName, WithPwd, WithUser, NoTicket
  <2> QED
    BY <2>1, <2>2, <2>3, <2>4
<1>4. ASSUME NEW c \in Client, CodeUnread(c) PROVE TypeOK'
  <2>1. FormsTypeOK'
    <3>1. /\ pc[c] = "codeGet" /\ pc' = [pc EXCEPT ![c] = "codeSet"]
          /\ form' = [form EXCEPT ![c].code = codes + 1] /\ codes + 1 \in Nat
      BY <1>4 DEF CodeUnread, NewCode, Go, CodesTypeOK
    <3>2. "codeGet" \in WithAddr /\ "codeSet" \in Places \ WithName
      BY DEF Places, InCode, WithAddr, WithName, WithPwd
    <3> QED
      BY <3>1, <3>2, CodeNoted
  <2>2. CodesTypeOK'
    BY <1>4 DEF CodeUnread, NewCode, Go, codeVars, CodesTypeOK, FormsTypeOK, WithAddr,
      InCode, Disturbed, Asking
  <2>3. UsersTypeOK'
    BY <1>4 DEF CodeUnread, NewCode, Go, userVars, loginVars, InsertToken, Holders,
      UsersTypeOK, FormsTypeOK, WithAddr, WithName, WithPwd
  <2>4. UsersKnown'
    BY <1>4 DEF CodeUnread, NewCode, Go, userVars, loginVars, InsertToken, UsersKnown,
      UsersTypeOK, FormsTypeOK, WithAddr, WithName, WithPwd, WithUser, NoTicket
  <2> QED
    BY <2>1, <2>2, <2>3, <2>4
<1>5. ASSUME NEW c \in Client, CodeSet(c) PROVE TypeOK'
  <2>1. FormsTypeOK'
    BY <1>5, SameForm DEF CodeSet, Places, InCode, WithAddr, WithName, WithPwd
  <2>2. CodesTypeOK'
    <3>1. form[c].code \in Nat /\ form[c].addr \in Addr
      BY <1>5 DEF CodeSet, Step, Go, FormsTypeOK, Form, WithAddr, InCode
    <3> QED
      BY <1>5, <3>1 DEF CodeSet, CodesTypeOK
  <2>3. UsersTypeOK'
    BY <1>5 DEF CodeSet, Step, Go, userVars, loginVars, InsertToken, Holders, UsersTypeOK,
      FormsTypeOK, WithAddr, WithName, WithPwd
  <2>4. UsersKnown'
    BY <1>5 DEF CodeSet, Step, Go, userVars, loginVars, InsertToken, UsersKnown,
      UsersTypeOK, FormsTypeOK, WithAddr, WithName, WithPwd, WithUser, NoTicket
  <2> QED
    BY <2>1, <2>2, <2>3, <2>4
<1>6. ASSUME NEW c \in Client, CodeExpire(c) PROVE TypeOK'
  <2>1. FormsTypeOK'
    BY <1>6, SameForm DEF CodeExpire, Places, InCode, WithAddr, WithName, WithPwd
  <2>2. CodesTypeOK'
    BY <1>6 DEF CodeExpire, Step, Go, codeVars, CodesTypeOK, FormsTypeOK, WithAddr, InCode,
      Disturbed, Asking
  <2>3. UsersTypeOK'
    BY <1>6 DEF CodeExpire, Step, Go, userVars, loginVars, InsertToken, Holders,
      UsersTypeOK, FormsTypeOK, WithAddr, WithName, WithPwd
  <2>4. UsersKnown'
    BY <1>6 DEF CodeExpire, Step, Go, userVars, loginVars, InsertToken, UsersKnown,
      UsersTypeOK, FormsTypeOK, WithAddr, WithName, WithPwd, WithUser, NoTicket
  <2> QED
    BY <2>1, <2>2, <2>3, <2>4
<1>7. ASSUME NEW c \in Client, CodeKept(c) PROVE TypeOK'
  <2>1. FormsTypeOK'
    BY <1>7, NoMoreForm DEF CodeKept
  <2>2. CodesTypeOK'
    BY <1>7 DEF CodeKept, Done, Go, codeVars, CodesTypeOK, FormsTypeOK, WithAddr, InCode,
      Disturbed, Asking
  <2>3. UsersTypeOK'
    BY <1>7 DEF CodeKept, Done, Go, userVars, loginVars, InsertToken, Holders, UsersTypeOK,
      FormsTypeOK, WithAddr, WithName, WithPwd
  <2>4. UsersKnown'
    BY <1>7 DEF CodeKept, Done, Go, userVars, loginVars, InsertToken, UsersKnown,
      UsersTypeOK, FormsTypeOK, WithAddr, WithName, WithPwd, WithUser, NoTicket
  <2> QED
    BY <2>1, <2>2, <2>3, <2>4
<1>8. ASSUME NEW c \in Client, SendMail(c) PROVE TypeOK'
  <2>1. FormsTypeOK'
    BY <1>8, NoMoreForm DEF SendMail
  <2>2. CodesTypeOK'
    <3>1. form[c].code \in Nat /\ form[c].addr \in Addr
      BY <1>8 DEF SendMail, Done, Go, FormsTypeOK, Form, WithAddr, InCode
    <3>2. mailed' \in [Addr -> SUBSET Nat]
      BY <1>8, <3>1 DEF SendMail, CodesTypeOK
    <3> QED
      BY <1>8, <3>1, <3>2 DEF SendMail, CodesTypeOK
  <2>3. UsersTypeOK'
    BY <1>8 DEF SendMail, Done, Go, userVars, loginVars, InsertToken, Holders, UsersTypeOK,
      FormsTypeOK, WithAddr, WithName, WithPwd
  <2>4. UsersKnown'
    BY <1>8 DEF SendMail, Done, Go, userVars, loginVars, InsertToken, UsersKnown,
      UsersTypeOK, FormsTypeOK, WithAddr, WithName, WithPwd, WithUser, NoTicket
  <2> QED
    BY <2>1, <2>2, <2>3, <2>4
<1>9. ASSUME NEW c \in Client, user_register(c) PROVE TypeOK'
  <2>1. FormsTypeOK'
    BY <1>9, FilledIn DEF user_register, Places, InCode, WithAddr, WithName, WithPwd
  <2>2. CodesTypeOK'
    BY <1>9 DEF user_register, FillIn, Request, Go, codeVars, CodesTypeOK, FormsTypeOK,
      WithAddr, InCode, Disturbed, Asking
  <2>3. UsersTypeOK'
    BY <1>9 DEF user_register, FillIn, Request, Go, userVars, loginVars, InsertToken,
      Holders, UsersTypeOK, FormsTypeOK, WithAddr, WithName, WithPwd
  <2>4. UsersKnown'
    BY <1>9 DEF user_register, FillIn, Request, Go, userVars, loginVars, InsertToken,
      UsersKnown, UsersTypeOK, FormsTypeOK, WithAddr, WithName, WithPwd, WithUser, NoTicket
  <2> QED
    BY <2>1, <2>2, <2>3, <2>4
<1>10. ASSUME NEW c \in Client, CheckCode(c, "registerCode", "regUser") PROVE TypeOK'
  <2>1. FormsTypeOK'
    BY <1>10, SameForm, NoMoreForm DEF CheckCode, Places, InCode, WithAddr, WithName,
      WithPwd
  <2>2. CodesTypeOK'
    BY <1>10 DEF CheckCode, Step, Done, Go, codeVars, CodesTypeOK, FormsTypeOK, WithAddr,
      InCode, Disturbed, Asking
  <2>3. UsersTypeOK'
    BY <1>10 DEF CheckCode, Step, Done, Go, userVars, loginVars, InsertToken, Holders,
      UsersTypeOK, FormsTypeOK, WithAddr, WithName, WithPwd
  <2>4. UsersKnown'
    BY <1>10 DEF CheckCode, Step, Done, Go, userVars, loginVars, InsertToken, UsersKnown,
      UsersTypeOK, FormsTypeOK, WithAddr, WithName, WithPwd, WithUser, NoTicket
  <2> QED
    BY <2>1, <2>2, <2>3, <2>4
<1>11. ASSUME NEW c \in Client, RegUser(c) PROVE TypeOK'
  <2>1. FormsTypeOK'
    BY <1>11, NoMoreForm DEF RegUser
  <2>2. CodesTypeOK'
    BY <1>11 DEF RegUser, Done, Go, codeVars, CodesTypeOK, FormsTypeOK, WithAddr, InCode,
      Disturbed, Asking
  <2>3. UsersTypeOK'
    BY <1>11 DEF RegUser, Done, Go, userVars, loginVars, InsertToken, Holders, UsersTypeOK,
      FormsTypeOK, WithAddr, WithName, WithPwd
  <2>4. UsersKnown'
    <3>1. /\ form[c].name \in Name /\ form[c].addr \in Addr /\ form[c].pwd \in Pwd
          /\ \A d \in Client : pc'[d] \in WithUser => d # c
          /\ \A d \in Client \ {c} : pc'[d] = pc[d] /\ form'[d] = form[d]
      BY <1>11 DEF RegUser, Done, Go, FormsTypeOK, WithAddr, WithName, WithPwd, WithUser
    <3>2. CASE UNCHANGED <<mail, pwd>>
      BY <1>11, <3>1, <3>2 DEF RegUser, loginVars, UsersKnown, UsersTypeOK, WithUser
    <3>3. CASE /\ mail[form[c].name] = NoAddr
               /\ mail' = [mail EXCEPT ![form[c].name] = form[c].addr]
               /\ pwd' = [pwd EXCEPT ![form[c].name] = form[c].pwd]
      <4>1. \A n \in Name : mail'[n] = NoAddr <=> pwd'[n] = NoPwd
        BY <3>1, <3>3, AccountsAssumption DEF UsersKnown, UsersTypeOK
      <4>2. \A n \in Name : mail[n] # NoAddr => mail'[n] = mail[n]
        BY <3>1, <3>3 DEF UsersTypeOK
      <4>3. \A d \in Client : ticket[d] # NoTicket => ticket[d][1] \in Name
        BY DEF UsersTypeOK
      <4>4. \A d \in Client : pc'[d] \in WithUser => form[d].name \in Name /\ d # c
        BY <3>1 DEF FormsTypeOK, WithUser, WithName, WithPwd
      <4>5. "updatePwd" \in WithUser
        BY DEF WithUser
      <4> QED
        BY <1>11, <3>1, <4>1, <4>2, <4>3, <4>4, <4>5 DEF RegUser, loginVars, UsersKnown
    <3> QED
      BY <1>11, <3>2, <3>3 DEF RegUser
  <2> QED
    BY <2>1, <2>2, <2>3, <2>4
<1>12. ASSUME NEW c \in Client, reset_pwd(c) PROVE TypeOK'
  <2>1. FormsTypeOK'
    BY <1>12, FilledIn DEF reset_pwd, Places, InCode, WithAddr, WithName, WithPwd
  <2>2. CodesTypeOK'
    BY <1>12 DEF reset_pwd, FillIn, Request, Go, codeVars, CodesTypeOK, FormsTypeOK,
      WithAddr, InCode, Disturbed, Asking
  <2>3. UsersTypeOK'
    BY <1>12 DEF reset_pwd, FillIn, Request, Go, userVars, loginVars, InsertToken, Holders,
      UsersTypeOK, FormsTypeOK, WithAddr, WithName, WithPwd
  <2>4. UsersKnown'
    BY <1>12 DEF reset_pwd, FillIn, Request, Go, userVars, loginVars, InsertToken,
      UsersKnown, UsersTypeOK, FormsTypeOK, WithAddr, WithName, WithPwd, WithUser, NoTicket
  <2> QED
    BY <2>1, <2>2, <2>3, <2>4
<1>13. ASSUME NEW c \in Client, CheckCode(c, "resetCode", "checkEmail") PROVE TypeOK'
  <2>1. FormsTypeOK'
    BY <1>13, SameForm, NoMoreForm DEF CheckCode, Places, InCode, WithAddr, WithName,
      WithPwd
  <2>2. CodesTypeOK'
    BY <1>13 DEF CheckCode, Step, Done, Go, codeVars, CodesTypeOK, FormsTypeOK, WithAddr,
      InCode, Disturbed, Asking
  <2>3. UsersTypeOK'
    BY <1>13 DEF CheckCode, Step, Done, Go, userVars, loginVars, InsertToken, Holders,
      UsersTypeOK, FormsTypeOK, WithAddr, WithName, WithPwd
  <2>4. UsersKnown'
    BY <1>13 DEF CheckCode, Step, Done, Go, userVars, loginVars, InsertToken, UsersKnown,
      UsersTypeOK, FormsTypeOK, WithAddr, WithName, WithPwd, WithUser, NoTicket
  <2> QED
    BY <2>1, <2>2, <2>3, <2>4
<1>14. ASSUME NEW c \in Client, CheckEmail(c) PROVE TypeOK'
  <2>1. FormsTypeOK'
    BY <1>14, SameForm, NoMoreForm DEF CheckEmail, Places, InCode, WithAddr, WithName,
      WithPwd
  <2>2. CodesTypeOK'
    BY <1>14 DEF CheckEmail, Step, Done, Go, codeVars, CodesTypeOK, FormsTypeOK, WithAddr,
      InCode, Disturbed, Asking
  <2>3. UsersTypeOK'
    BY <1>14 DEF CheckEmail, Step, Done, Go, userVars, loginVars, InsertToken, Holders,
      UsersTypeOK, FormsTypeOK, WithAddr, WithName, WithPwd
  <2>4. UsersKnown'
    <3>1. CASE mail[form[c].name] = form[c].addr /\ Step(c, "checkEmail", "updatePwd")
      <4>1. mail[form[c].name] # NoAddr
        BY <1>14, <3>1, AccountsAssumption DEF CheckEmail, FormsTypeOK, WithAddr
      <4> QED
        BY <1>14, <3>1, <4>1 DEF CheckEmail, Step, Go, userVars, loginVars, UsersKnown, FormsTypeOK
    <3>2. CASE Done(c, "checkEmail")
      BY <1>14, <3>2 DEF CheckEmail, Done, Go, userVars, loginVars, UsersKnown, FormsTypeOK, WithUser
    <3> QED
      BY <1>14, <3>1, <3>2 DEF CheckEmail
  <2> QED
    BY <2>1, <2>2, <2>3, <2>4
<1>15. ASSUME NEW c \in Client, UpdatePwd(c) PROVE TypeOK'
  <2>1. FormsTypeOK'
    BY <1>15, NoMoreForm DEF UpdatePwd
  <2>2. CodesTypeOK'
    BY <1>15 DEF UpdatePwd, Done, Go, codeVars, CodesTypeOK, FormsTypeOK, WithAddr, InCode,
      Disturbed, Asking
  <2>3. UsersTypeOK'
    BY <1>15 DEF UpdatePwd, Done, Go, userVars, loginVars, InsertToken, Holders,
      UsersTypeOK, FormsTypeOK, WithAddr, WithName, WithPwd
  <2>4. UsersKnown'
    <3>1. /\ form[c].name \in Name /\ form[c].pwd \in Pwd
          /\ mail[form[c].name] # NoAddr
          /\ \A d \in Client : pc'[d] \in WithUser => d # c
          /\ \A d \in Client \ {c} : pc'[d] = pc[d] /\ form'[d] = form[d]
      BY <1>15 DEF UpdatePwd, Done, Go, FormsTypeOK, UsersKnown, WithName, WithPwd, WithUser
    <3>2. \A n \in Name : mail'[n] = NoAddr <=> pwd'[n] = NoPwd
      BY <1>15, <3>1, AccountsAssumption DEF UpdatePwd, UsersKnown, UsersTypeOK
    <3> QED
      BY <1>15, <3>1, <3>2 DEF UpdatePwd, loginVars, UsersKnown, WithUser
  <2> QED
    BY <2>1, <2>2, <2>3, <2>4
<1>16. ASSUME NEW c \in Client, user_login(c) PROVE TypeOK'
  <2>1. FormsTypeOK'
    BY <1>16, NewForm, Forms, AccountsAssumption DEF user_login, Places, InCode, WithAddr,
      WithName, WithPwd, NoForm, UsersTypeOK
  <2>2. CodesTypeOK'
    BY <1>16 DEF user_login, Request, Go, codeVars, CodesTypeOK, FormsTypeOK, WithAddr,
      InCode, Disturbed, Asking
  <2>3. UsersTypeOK'
    BY <1>16 DEF user_login, Request, Go, userVars, loginVars, InsertToken, Holders,
      UsersTypeOK, FormsTypeOK, WithAddr, WithName, WithPwd
  <2>4. UsersKnown'
    BY <1>16 DEF user_login, Request, Go, userVars, loginVars, InsertToken, UsersKnown,
      UsersTypeOK, FormsTypeOK, WithAddr, WithName, WithPwd, WithUser, NoTicket
  <2> QED
    BY <2>1, <2>2, <2>3, <2>4
<1>17. ASSUME NEW c \in Client, CheckPwd(c) PROVE TypeOK'
  <2>1. FormsTypeOK'
    BY <1>17, SameForm, NoMoreForm DEF CheckPwd, Places, InCode, WithAddr, WithName, WithPwd
  <2>2. CodesTypeOK'
    BY <1>17 DEF CheckPwd, Step, Done, Go, codeVars, CodesTypeOK, FormsTypeOK, WithAddr,
      InCode, Disturbed, Asking
  <2>3. UsersTypeOK'
    BY <1>17 DEF CheckPwd, Step, Done, Go, userVars, loginVars, InsertToken, Holders,
      UsersTypeOK, FormsTypeOK, WithAddr, WithName, WithPwd
  <2>4. UsersKnown'
    BY <1>17 DEF CheckPwd, Step, Done, Go, userVars, loginVars, InsertToken, UsersKnown,
      UsersTypeOK, FormsTypeOK, WithAddr, WithName, WithPwd, WithUser, NoTicket
  <2> QED
    BY <2>1, <2>2, <2>3, <2>4
<1>18. ASSUME NEW c \in Client, GetChatServer(c) PROVE TypeOK'
  <2>1. FormsTypeOK'
    BY <1>18, NoMoreForm DEF GetChatServer
  <2>2. CodesTypeOK'
    BY <1>18 DEF GetChatServer, Done, Go, codeVars, CodesTypeOK, FormsTypeOK, WithAddr,
      InCode, Disturbed, Asking
  <2>3. UsersTypeOK'
    BY <1>18 DEF GetChatServer, Done, Go, userVars, loginVars, InsertToken, Holders,
      UsersTypeOK, FormsTypeOK, WithAddr, WithName, WithPwd
  <2>4. UsersKnown'
    BY <1>18 DEF GetChatServer, Done, Go, userVars, loginVars, InsertToken, UsersKnown,
      UsersTypeOK, FormsTypeOK, WithAddr, WithName, WithPwd, WithUser, NoTicket
  <2> QED
    BY <2>1, <2>2, <2>3, <2>4
<1>19. ASSUME NEW c \in Client, GetChatServerUnstored(c) PROVE TypeOK'
  <2>1. FormsTypeOK'
    BY <1>19, NoMoreForm DEF GetChatServerUnstored
  <2>2. CodesTypeOK'
    BY <1>19 DEF GetChatServerUnstored, Done, Go, codeVars, CodesTypeOK, FormsTypeOK,
      WithAddr, InCode, Disturbed, Asking
  <2>3. UsersTypeOK'
    BY <1>19 DEF GetChatServerUnstored, Done, Go, userVars, loginVars, InsertToken, Holders,
      UsersTypeOK, FormsTypeOK, WithAddr, WithName, WithPwd
  <2>4. UsersKnown'
    BY <1>19 DEF GetChatServerUnstored, Done, Go, userVars, loginVars, InsertToken,
      UsersKnown, UsersTypeOK, FormsTypeOK, WithAddr, WithName, WithPwd, WithUser, NoTicket
  <2> QED
    BY <2>1, <2>2, <2>3, <2>4
<1>20. ASSUME NEW c \in Client, GetChatServerLost(c) PROVE TypeOK'
  <2>1. FormsTypeOK'
    BY <1>20, NoMoreForm DEF GetChatServerLost
  <2>2. CodesTypeOK'
    BY <1>20 DEF GetChatServerLost, Done, Go, codeVars, CodesTypeOK, FormsTypeOK, WithAddr,
      InCode, Disturbed, Asking
  <2>3. UsersTypeOK'
    BY <1>20 DEF GetChatServerLost, Done, Go, userVars, loginVars, InsertToken, Holders,
      UsersTypeOK, FormsTypeOK, WithAddr, WithName, WithPwd
  <2>4. UsersKnown'
    BY <1>20 DEF GetChatServerLost, Done, Go, userVars, loginVars, InsertToken, UsersKnown,
      UsersTypeOK, FormsTypeOK, WithAddr, WithName, WithPwd, WithUser, NoTicket
  <2> QED
    BY <2>1, <2>2, <2>3, <2>4
<1>21. ASSUME NEW c \in Client, ChatLogin(c) PROVE TypeOK'
  <2>1. FormsTypeOK'
    BY <1>21, NewForm, Forms, AccountsAssumption DEF ChatLogin, Places, InCode, WithAddr,
      WithName, WithPwd, NoForm, UsersTypeOK
  <2>2. CodesTypeOK'
    BY <1>21 DEF ChatLogin, Request, Go, codeVars, CodesTypeOK, FormsTypeOK, WithAddr,
      InCode, Disturbed, Asking
  <2>3. UsersTypeOK'
    BY <1>21 DEF ChatLogin, Request, Go, userVars, loginVars, InsertToken, Holders,
      UsersTypeOK, FormsTypeOK, WithAddr, WithName, WithPwd
  <2>4. UsersKnown'
    BY <1>21 DEF ChatLogin, Request, Go, userVars, loginVars, InsertToken, UsersKnown,
      UsersTypeOK, FormsTypeOK, WithAddr, WithName, WithPwd, WithUser, NoTicket
  <2> QED
    BY <2>1, <2>2, <2>3, <2>4
<1>22. ASSUME NEW c \in Client, TokenAccepted(c) PROVE TypeOK'
  <2>1. FormsTypeOK'
    BY <1>22, SameForm DEF TokenAccepted, Places, InCode, WithAddr, WithName, WithPwd
  <2>2. CodesTypeOK'
    BY <1>22 DEF TokenAccepted, Step, Go, codeVars, CodesTypeOK, FormsTypeOK, WithAddr,
      InCode, Disturbed, Asking
  <2>3. UsersTypeOK'
    BY <1>22 DEF TokenAccepted, Step, Go, userVars, loginVars, InsertToken, Holders,
      UsersTypeOK, FormsTypeOK, WithAddr, WithName, WithPwd
  <2>4. UsersKnown'
    BY <1>22 DEF TokenAccepted, Step, Go, userVars, loginVars, InsertToken, UsersKnown,
      UsersTypeOK, FormsTypeOK, WithAddr, WithName, WithPwd, WithUser, NoTicket
  <2> QED
    BY <2>1, <2>2, <2>3, <2>4
<1>23. ASSUME NEW c \in Client, TokenInvalid(c) PROVE TypeOK'
  <2>1. FormsTypeOK'
    BY <1>23, NoMoreForm DEF TokenInvalid
  <2>2. CodesTypeOK'
    BY <1>23 DEF TokenInvalid, Done, Go, codeVars, CodesTypeOK, FormsTypeOK, WithAddr,
      InCode, Disturbed, Asking
  <2>3. UsersTypeOK'
    BY <1>23 DEF TokenInvalid, Done, Go, userVars, loginVars, InsertToken, Holders,
      UsersTypeOK, FormsTypeOK, WithAddr, WithName, WithPwd
  <2>4. UsersKnown'
    BY <1>23 DEF TokenInvalid, Done, Go, userVars, loginVars, InsertToken, UsersKnown,
      UsersTypeOK, FormsTypeOK, WithAddr, WithName, WithPwd, WithUser, NoTicket
  <2> QED
    BY <2>1, <2>2, <2>3, <2>4
<1>24. ASSUME NEW c \in Client, ProfileCached(c) PROVE TypeOK'
  <2>1. FormsTypeOK'
    BY <1>24, NoMoreForm DEF ProfileCached
  <2>2. CodesTypeOK'
    BY <1>24 DEF ProfileCached, Done, Go, codeVars, CodesTypeOK, FormsTypeOK, WithAddr,
      InCode, Disturbed, Asking
  <2>3. UsersTypeOK'
    BY <1>24 DEF ProfileCached, Done, Go, userVars, loginVars, InsertToken, Holders,
      UsersTypeOK, FormsTypeOK, WithAddr, WithName, WithPwd
  <2>4. UsersKnown'
    BY <1>24 DEF ProfileCached, Done, Go, userVars, loginVars, InsertToken, UsersKnown,
      UsersTypeOK, FormsTypeOK, WithAddr, WithName, WithPwd, WithUser, NoTicket
  <2> QED
    BY <2>1, <2>2, <2>3, <2>4
<1>25. ASSUME NEW c \in Client, ProfileRead(c) PROVE TypeOK'
  <2>1. FormsTypeOK'
    <3>1. /\ pc[c] = "profile" /\ pc' = [pc EXCEPT ![c] = "cacheSet"]
          /\ form' = [form EXCEPT ![c].pwd = pwd[form[c].name]]
      BY <1>25 DEF ProfileRead, Go
    <3>2. "profile" \in WithName /\ "profile" \in WithUser /\ "cacheSet" \in Places \ WithAddr
      BY DEF Places, InCode, WithAddr, WithName, WithPwd, WithUser
    <3>3. pwd[form[c].name] \in Pwd
      BY <3>1, <3>2 DEF FormsTypeOK, UsersTypeOK, UsersKnown
    <3> QED
      BY <3>1, <3>2, <3>3, PwdNoted
  <2>2. CodesTypeOK'
    BY <1>25 DEF ProfileRead, NewCode, Go, codeVars, CodesTypeOK, FormsTypeOK, WithAddr,
      InCode, Disturbed, Asking
  <2>3. UsersTypeOK'
    BY <1>25 DEF ProfileRead, NewCode, Go, userVars, loginVars, InsertToken, Holders,
      UsersTypeOK, FormsTypeOK, WithAddr, WithName, WithPwd
  <2>4. UsersKnown'
    BY <1>25 DEF ProfileRead, NewCode, Go, userVars, loginVars, InsertToken, UsersKnown,
      UsersTypeOK, FormsTypeOK, WithAddr, WithName, WithPwd, WithUser, NoTicket
  <2> QED
    BY <2>1, <2>2, <2>3, <2>4
<1>26. ASSUME NEW c \in Client, ProfileSet(c) PROVE TypeOK'
  <2>1. FormsTypeOK'
    BY <1>26, NoMoreForm DEF ProfileSet
  <2>2. CodesTypeOK'
    BY <1>26 DEF ProfileSet, Done, Go, codeVars, CodesTypeOK, FormsTypeOK, WithAddr, InCode,
      Disturbed, Asking
  <2>3. UsersTypeOK'
    BY <1>26 DEF ProfileSet, Done, Go, userVars, loginVars, InsertToken, Holders,
      UsersTypeOK, FormsTypeOK, WithAddr, WithName, WithPwd
  <2>4. UsersKnown'
    BY <1>26 DEF ProfileSet, Done, Go, userVars, loginVars, InsertToken, UsersKnown,
      UsersTypeOK, FormsTypeOK, WithAddr, WithName, WithPwd, WithUser, NoTicket
  <2> QED
    BY <2>1, <2>2, <2>3, <2>4
<1>27. ASSUME NEW c \in Client, GiveUp(c) PROVE TypeOK'
  <2>1. FormsTypeOK'
    BY <1>27, NoMoreForm DEF GiveUp
  <2>2. CodesTypeOK'
    BY <1>27 DEF GiveUp, Done, Go, codeVars, CodesTypeOK, FormsTypeOK, WithAddr, InCode,
      Disturbed, Asking
  <2>3. UsersTypeOK'
    BY <1>27 DEF GiveUp, Done, Go, userVars, loginVars, InsertToken, Holders, UsersTypeOK,
      FormsTypeOK, WithAddr, WithName, WithPwd
  <2>4. UsersKnown'
    BY <1>27 DEF GiveUp, Done, Go, userVars, loginVars, InsertToken, UsersKnown,
      UsersTypeOK, FormsTypeOK, WithAddr, WithName, WithPwd, WithUser, NoTicket
  <2> QED
    BY <2>1, <2>2, <2>3, <2>4
<1>28. ASSUME NEW e \in Addr, Expire(e) PROVE TypeOK'
  <2>1. FormsTypeOK' /\ UsersTypeOK' /\ UsersKnown'
    BY <1>28 DEF Expire, FormsTypeOK, UsersTypeOK, UsersKnown, userVars, loginVars
  <2>2. CodesTypeOK'
    BY <1>28 DEF Expire, CodesTypeOK, Disturbed, NoCode
  <2> QED
    BY <2>1, <2>2
<1>29. ASSUME NEW n \in Name, Route(n) PROVE TypeOK'
  BY <1>29 DEF Route, FormsTypeOK, CodesTypeOK, UsersTypeOK, UsersKnown, codeVars, userVars,
    InsertToken, Holders
<1>30. CASE UNCHANGED vars
  BY <1>30 DEF vars, codeVars, userVars, loginVars, FormsTypeOK, CodesTypeOK, UsersTypeOK,
    UsersKnown
<1> QED
  BY <1>1, <1>2, <1>3, <1>4, <1>5, <1>6, <1>7, <1>8, <1>9, <1>10, <1>11, <1>12, <1>13,
    <1>14, <1>15, <1>16, <1>17, <1>18, <1>19, <1>20, <1>21, <1>22, <1>23, <1>24, <1>25,
    <1>26, <1>27, <1>28, <1>29, <1>30 DEF Next, ClientStep, CodeStep, UserStep, LoginStep

(* Every reachable state is typed, and what is known of a user is in MySQL.   *)
THEOREM TypeCorrect == Spec => []TypeOK
BY InitTypeOK, NextTypeOK, PTL DEF Spec


-----------------------------------------------------------------------------
(* Steps and what they leave alone.                                           *)

Others(c) == \A d \in Client \ {c} : pc'[d] = pc[d] /\ form'[d] = form[d]

\* A step of a request that is not for a code, or gives up asking for one.
AsideFromCodes(c) ==
  UNCHANGED codeVars /\ pc'[c] \notin InCode /\ pc[c] # "codeExpire"

LEMMA UserSteps ==
  ASSUME TypeOK, NEW c \in Client, UserStep(c)
  PROVE  /\ Others(c) /\ AsideFromCodes(c)
         /\ UNCHANGED <<loginVars, cache>>
<1> USE DEF Others, AsideFromCodes, TypeOK, InCode
<1>1. CASE user_register(c) \/ reset_pwd(c)
  BY <1>1 DEF user_register, reset_pwd, FillIn, Request, Go, FormsTypeOK
<1>2. CASE CheckCode(c, "registerCode", "regUser") \/ CheckCode(c, "resetCode", "checkEmail")
  BY <1>2 DEF CheckCode, Step, Done, Go, FormsTypeOK
<1>3. CASE RegUser(c) \/ CheckEmail(c) \/ UpdatePwd(c)
  BY <1>3 DEF RegUser, CheckEmail, UpdatePwd, Step, Done, Go, FormsTypeOK
<1> QED
  BY <1>1, <1>2, <1>3 DEF UserStep

LEMMA LoginSteps ==
  ASSUME TypeOK, NEW c \in Client, LoginStep(c)
  PROVE  /\ Others(c) /\ AsideFromCodes(c)
         /\ UNCHANGED userVars
         /\ \/ GetChatServer(c) \/ GetChatServerUnstored(c) \/ GetChatServerLost(c)
            \/ UNCHANGED loginVars
         /\ \/ ProfileRead(c) \/ ProfileSet(c)
            \/ UNCHANGED cache /\ pc'[c] # "cacheSet"
<1> USE DEF Others, AsideFromCodes, TypeOK, InCode
<1>1. CASE user_login(c) \/ ChatLogin(c)
  BY <1>1 DEF user_login, ChatLogin, Request, Go, FormsTypeOK
<1>2. CASE CheckPwd(c) \/ TokenAccepted(c) \/ TokenInvalid(c) \/ ProfileCached(c)
  BY <1>2 DEF CheckPwd, TokenAccepted, TokenInvalid, ProfileCached, Step, Done, Go,
    FormsTypeOK
<1>3. CASE GetChatServer(c) \/ GetChatServerUnstored(c) \/ GetChatServerLost(c)
  BY <1>3 DEF GetChatServer, GetChatServerUnstored, GetChatServerLost, Done, Go, FormsTypeOK
<1>4. CASE ProfileRead(c) \/ ProfileSet(c)
  BY <1>4 DEF ProfileRead, ProfileSet, Done, Go, FormsTypeOK
<1> QED
  BY <1>1, <1>2, <1>3, <1>4 DEF LoginStep

LEMMA GivesUp ==
  ASSUME TypeOK, NEW c \in Client, GiveUp(c)
  PROVE  /\ Others(c) /\ AsideFromCodes(c)
         /\ UNCHANGED <<userVars, loginVars, cache>>
         /\ pc'[c] = "idle"
BY DEF GiveUp, Done, Go, Others, AsideFromCodes, TypeOK, FormsTypeOK, InCode

LEMMA CodeSteps ==
  ASSUME TypeOK, NEW c \in Client, CodeStep(c)
  PROVE  /\ Others(c)
         /\ UNCHANGED <<userVars, loginVars, cache>>
         /\ pc'[c] \in InCode \cup {"idle"}
<1> USE DEF Others, TypeOK, FormsTypeOK, InCode
<1>1. ASSUME NEW e \in Addr, get_varifycode(c, e) PROVE Others(c) /\ pc'[c] \in InCode
  BY <1>1 DEF get_varifycode, Request, Go
<1>2. CASE CodeFound(c) \/ CodeMissing(c) \/ CodeUnread(c)
  BY <1>2 DEF CodeFound, CodeMissing, CodeUnread, NewCode, Go
<1>3. CASE CodeSet(c) \/ CodeExpire(c) \/ CodeKept(c) \/ SendMail(c)
  BY <1>3 DEF CodeSet, CodeExpire, CodeKept, SendMail, Step, Done, Go
<1> QED
  BY <1>1, <1>2, <1>3 DEF CodeStep, get_varifycode, CodeFound, CodeMissing, CodeUnread, NewCode, CodeSet,
    CodeExpire, CodeKept, SendMail

-----------------------------------------------------------------------------
(* A ticket is honoured: what is written into a ticket and what is stored as  *)
(* a token is a new number each time, and every replacement is remembered.    *)

LEMMA TokenReplaced ==
  ASSUME TypeOK, TicketHonoured, NEW n \in Name, InsertToken(n),
         ticket' = ticket, overtaken' = overtaken \cup Holders(n)
  PROVE  TicketHonoured'
BY DEF TicketHonoured, InsertToken, Holders, TypeOK, UsersTypeOK

\* The ticket of a client is what the chat server will accept, unless another token
\* of the user has been made since or Redis did not take it (insertToken of
\* StatusServer, the token check of LoginHandler).
THEOREM TicketsHonoured == Spec => []TicketHonoured
<1>1. Init => TicketHonoured
  BY DEF Init, TicketHonoured
<1>2. TypeOK /\ TicketHonoured /\ [Next]_vars => TicketHonoured'
  <2> SUFFICES ASSUME TypeOK, TicketHonoured, [Next]_vars PROVE TicketHonoured'
    OBVIOUS
  <2>1. CASE UNCHANGED loginVars
    BY <2>1 DEF TicketHonoured, loginVars
  <2>2. ASSUME NEW c \in Client, GetChatServer(c) PROVE TicketHonoured'
    <3>1. form[c].name \in Name
      BY <2>2 DEF GetChatServer, Done, Go, TypeOK, FormsTypeOK, WithName
    <3> QED
      BY <2>2, <3>1 DEF GetChatServer, InsertToken, Holders, TicketHonoured, TypeOK, UsersTypeOK
  <2>3. ASSUME NEW c \in Client, GetChatServerUnstored(c) PROVE TicketHonoured'
    BY <2>3 DEF GetChatServerUnstored, TicketHonoured, TypeOK, UsersTypeOK
  <2>4. ASSUME NEW c \in Client, GetChatServerLost(c) PROVE TicketHonoured'
    <3>1. form[c].name \in Name
      BY <2>4 DEF GetChatServerLost, Done, Go, TypeOK, FormsTypeOK, WithName
    <3> QED
      BY <2>4, <3>1, TokenReplaced DEF GetChatServerLost
  <2>5. ASSUME NEW n \in Name, Route(n) PROVE TicketHonoured'
    BY <2>5, TokenReplaced DEF Route
  <2>6. ASSUME NEW c \in Client, ClientStep(c) PROVE TicketHonoured'
    BY <2>1, <2>2, <2>3, <2>4, <2>6, CodeSteps, UserSteps, LoginSteps, GivesUp DEF ClientStep
  <2>7. ASSUME NEW e \in Addr, Expire(e) PROVE TicketHonoured'
    BY <2>1, <2>7 DEF Expire
  <2> QED
    BY <2>1, <2>5, <2>6, <2>7 DEF Next, vars
<1> QED
  BY <1>1, <1>2, TypeCorrect, PTL DEF Spec

-----------------------------------------------------------------------------
(* A cached profile is fresh: what has been read and not yet cached is fresh  *)
(* too, or the user is on record as outdated.                                 *)

ReadFresh ==
  \A c \in Client :
    pc[c] = "cacheSet" /\ form[c].name \notin outdated => form[c].pwd = pwd[form[c].name]

\* The profile a chat server answers from the cache (GetBaseInfo) has the user's
\* password, unless a reset (UpdatePwd) came after MySQL was read for it.
THEOREM ProfilesFresh == Spec => []ProfileFresh
<1> DEFINE Fresh == ReadFresh /\ ProfileFresh
<1>1. Init => Fresh
  BY DEF Init, ReadFresh, ProfileFresh
<1>2. TypeOK /\ Fresh /\ [Next]_vars => Fresh'
  <2> SUFFICES ASSUME TypeOK, Fresh, [Next]_vars PROVE Fresh'
    OBVIOUS
  <2>1. ASSUME NEW c \in Client, Others(c), UNCHANGED <<userVars, cache>>, pc'[c] # "cacheSet"
        PROVE  Fresh'
    BY <2>1 DEF Others, userVars, ReadFresh, ProfileFresh
  <2>2. ASSUME NEW c \in Client, CodeStep(c) PROVE Fresh'
    BY <2>1, <2>2, CodeSteps DEF InCode
  <2>3. ASSUME NEW c \in Client, GiveUp(c) PROVE Fresh'
    BY <2>1, <2>3, GivesUp
  <2>4. ASSUME NEW c \in Client, ProfileRead(c) PROVE Fresh'
    <3>1. pc[c] = "profile" /\ form[c] \in Form
      BY <2>4 DEF ProfileRead, Go, TypeOK, FormsTypeOK
    <3>2. form'[c].pwd = pwd[form[c].name] /\ form'[c].name = form[c].name
      BY <2>4, <3>1 DEF ProfileRead, TypeOK, FormsTypeOK, Form
    <3>3. Others(c)
      BY <2>4 DEF ProfileRead, Go, Others, TypeOK, FormsTypeOK
    <3> QED
      BY <2>4, <3>2, <3>3 DEF ProfileRead, Others, userVars, ReadFresh, ProfileFresh
  <2>5. ASSUME NEW c \in Client, ProfileSet(c) PROVE Fresh'
    <3>1. pc[c] = "cacheSet" /\ pc'[c] = "idle" /\ Others(c) /\ form[c].name \in Name
      BY <2>5 DEF ProfileSet, Done, Go, Others, TypeOK, FormsTypeOK, WithName, WithPwd
    <3> QED
      BY <2>5, <3>1 DEF ProfileSet, Others, userVars, ReadFresh, ProfileFresh, TypeOK, UsersTypeOK
  <2>6. ASSUME NEW c \in Client, LoginStep(c) PROVE Fresh'
    BY <2>1, <2>4, <2>5, <2>6, LoginSteps
  <2>7. ASSUME NEW c \in Client, RegUser(c) PROVE Fresh'
    <3>1. /\ pc'[c] = "idle" /\ Others(c) /\ UNCHANGED <<cache, outdated>>
          /\ form[c].name \in Name
      BY <2>7 DEF RegUser, Done, Go, Others, TypeOK, FormsTypeOK, WithName, WithPwd
    <3>2. \A n \in Name : mail[n] # NoAddr => pwd'[n] = pwd[n]
      BY <2>7, <3>1 DEF RegUser, TypeOK, UsersTypeOK
    <3>3. \A n \in Name : cache[n] # NoPwd => mail[n] # NoAddr
      BY DEF TypeOK, UsersKnown
    <3>4. \A d \in Client : pc[d] = "cacheSet" => form[d].name \in Name /\ mail[form[d].name] # NoAddr
      BY DEF TypeOK, UsersKnown, FormsTypeOK, WithUser, WithName, WithPwd
    <3> QED
      BY <3>1, <3>2, <3>3, <3>4 DEF Others, ReadFresh, ProfileFresh
  <2>8. ASSUME NEW c \in Client, UpdatePwd(c) PROVE Fresh'
    <3>1. /\ pc'[c] = "idle" /\ Others(c) /\ UNCHANGED cache
          /\ form[c].name \in Name
      BY <2>8 DEF UpdatePwd, Done, Go, Others, TypeOK, FormsTypeOK, WithName, WithPwd
    <3>2. \A n \in Name \ {form[c].name} : pwd'[n] = pwd[n]
      BY <2>8, <3>1 DEF UpdatePwd, TypeOK, UsersTypeOK
    <3>3. /\ outdated \subseteq outdated'
          /\ \/ form[c].name \in outdated'
             \/ /\ cache[form[c].name] = NoPwd
                /\ \A d \in Client : pc[d] = "cacheSet" => form[d].name # form[c].name
      BY <2>8, <3>1 DEF UpdatePwd
    <3>4. \A d \in Client : pc[d] = "cacheSet" => form[d].name \in Name
      BY DEF TypeOK, FormsTypeOK, WithName, WithPwd
    <3> QED
      BY <3>1, <3>2, <3>3, <3>4 DEF Others, ReadFresh, ProfileFresh
  <2>9. ASSUME NEW c \in Client, UserStep(c) PROVE Fresh'
    <3>1. CASE UNCHANGED userVars /\ pc'[c] # "cacheSet"
      BY <2>1, <2>9, <3>1, UserSteps
    <3>2. CASE user_register(c) \/ reset_pwd(c)
      BY <3>1, <3>2 DEF user_register, reset_pwd, FillIn, Request, Go, TypeOK, FormsTypeOK
    <3>3. CASE CheckCode(c, "registerCode", "regUser") \/ CheckCode(c, "resetCode", "checkEmail")
      BY <3>1, <3>3 DEF CheckCode, Step, Done, Go, TypeOK, FormsTypeOK
    <3>4. CASE CheckEmail(c)
      BY <3>1, <3>4 DEF CheckEmail, Step, Done, Go, TypeOK, FormsTypeOK
    <3> QED
      BY <2>7, <2>8, <2>9, <3>2, <3>3, <3>4 DEF UserStep
  <2>10. ASSUME UNCHANGED <<pc, form, userVars, cache>> PROVE Fresh'
    BY <2>10 DEF userVars, ReadFresh, ProfileFresh
  <2> QED
    BY <2>2, <2>3, <2>6, <2>9, <2>10 DEF Next, ClientStep, Expire, Route, vars
<1> QED
  BY <1>1, <1>2, TypeCorrect, PTL DEF Spec

-----------------------------------------------------------------------------
(* Codes.                                                                     *)

\* Where a request that asks for a code is, and that its address is one.
LEMMA Asks ==
  ASSUME TypeOK, NEW c \in Client, pc[c] \in InCode
  PROVE  form[c] \in Form /\ form[c].addr \in Addr /\ form[c].code \in Nat
BY DEF TypeOK, FormsTypeOK, WithAddr, Form

\* What each step of a request for a code does to that request.
LEMMA NowGets ==
  ASSUME TypeOK, NEW c \in Client, NEW e \in Addr, get_varifycode(c, e)
  PROVE  Others(c) /\ pc[c] = "idle" /\ pc'[c] = "codeGet" /\ form'[c].addr = e
BY Forms DEF get_varifycode, Request, Go, Others, TypeOK, FormsTypeOK

LEMMA NowFinds ==
  ASSUME TypeOK, NEW c \in Client, CodeFound(c)
  PROVE  /\ Others(c) /\ pc[c] = "codeGet" /\ pc'[c] = "codeMail"
         /\ form'[c].addr = form[c].addr /\ form'[c].code = code[form[c].addr]
<1>1. pc[c] = "codeGet" /\ form[c] \in Form
  BY DEF CodeFound, Go, TypeOK, FormsTypeOK
<1> QED
  BY <1>1 DEF CodeFound, Go, Others, TypeOK, FormsTypeOK, Form

LEMMA NowMakes ==
  ASSUME TypeOK, NEW c \in Client, NewCode(c)
  PROVE  /\ Others(c) /\ pc[c] = "codeGet" /\ pc'[c] = "codeSet"
         /\ form'[c].addr = form[c].addr /\ form'[c].code = codes + 1
<1>1. pc[c] = "codeGet" /\ form[c] \in Form
  BY DEF NewCode, Go, TypeOK, FormsTypeOK
<1> QED
  BY <1>1 DEF NewCode, Go, Others, TypeOK, FormsTypeOK, Form

LEMMA NowSets ==
  ASSUME TypeOK, NEW c \in Client, CodeSet(c)
  PROVE  Others(c) /\ pc[c] = "codeSet" /\ pc'[c] = "codeExpire" /\ form'[c] = form[c]
BY DEF CodeSet, Step, Go, Others, TypeOK, FormsTypeOK

LEMMA NowExpires ==
  ASSUME TypeOK, NEW c \in Client, CodeExpire(c)
  PROVE  Others(c) /\ pc[c] = "codeExpire" /\ pc'[c] = "codeMail" /\ form'[c] = form[c]
BY DEF CodeExpire, Step, Go, Others, TypeOK, FormsTypeOK

LEMMA NowFails ==
  ASSUME TypeOK, NEW c \in Client, CodeKept(c)
  PROVE  Others(c) /\ pc[c] = "codeExpire" /\ pc'[c] = "idle"
BY DEF CodeKept, Done, Go, Others, TypeOK, FormsTypeOK

LEMMA NowMails ==
  ASSUME TypeOK, NEW c \in Client, SendMail(c)
  PROVE  Others(c) /\ pc[c] = "codeMail" /\ pc'[c] = "idle"
BY DEF SendMail, Done, Go, Others, TypeOK, FormsTypeOK

-----------------------------------------------------------------------------

\* Every stored code will expire, or is about to be given its time to live, or its
\* EXPIRE failed (SetRedisExpire of VarifyServer: SET, then EXPIRE).
THEOREM CodesDoExpire == Spec => []CodesExpire
<1> DEFINE Ending(e) ==
      code[e] # NoCode /\ ~ttl[e] =>
        e \in eternal \/ \E c \in Client : pc[c] = "codeExpire" /\ form[c].addr = e
<1>0. CodesExpire <=> \A e \in Addr : Ending(e)
  BY DEF CodesExpire, Asking
<1>1. Init => \A e \in Addr : Ending(e)
  BY DEF Init
<1>2. ASSUME TypeOK, \A e \in Addr : Ending(e), [Next]_vars PROVE \A e \in Addr : Ending(e)'
  <2>1. ASSUME NEW c \in Client, Others(c), pc[c] # "codeExpire", UNCHANGED <<code, ttl, eternal>>
        PROVE  \A e \in Addr : Ending(e)'
    BY <1>2, <2>1 DEF Others
  <2>2. ASSUME NEW c \in Client, CodeStep(c) PROVE \A e \in Addr : Ending(e)'
    <3>1. CASE CodeSet(c)
      <4>1. /\ form[c].addr \in Addr
            /\ code' = [code EXCEPT ![form[c].addr] = form[c].code]
            /\ ttl' = [ttl EXCEPT ![form[c].addr] = FALSE] /\ eternal' = eternal
        BY <1>2, <3>1, NowSets, Asks DEF CodeSet, InCode
      <4>2. \A e \in Addr \ {form[c].addr} : ttl'[e] = ttl[e] /\ code'[e] = code[e]
        BY <1>2, <4>1 DEF TypeOK, CodesTypeOK
      <4>3. pc'[c] = "codeExpire" /\ form'[c] = form[c] /\ pc[c] # "codeExpire"
        BY <1>2, <3>1, NowSets
      <4> QED
        BY <1>2, <3>1, <4>1, <4>2, <4>3, NowSets DEF Others
    <3>2. CASE CodeExpire(c)
      <4>1. /\ form[c].addr \in Addr
            /\ ttl' = [ttl EXCEPT ![form[c].addr] = code[form[c].addr] # NoCode]
            /\ code' = code /\ eternal' = eternal
        BY <1>2, <3>2, NowExpires, Asks DEF CodeExpire, InCode
      <4>2. \A e \in Addr \ {form[c].addr} : ttl'[e] = ttl[e]
        BY <1>2, <4>1 DEF TypeOK, CodesTypeOK
      <4>3. code'[form[c].addr] # NoCode => ttl'[form[c].addr]
        BY <1>2, <4>1 DEF TypeOK, CodesTypeOK
      <4> QED
        BY <1>2, <3>2, <4>1, <4>2, <4>3, NowExpires DEF Others
    <3>3. CASE CodeKept(c)
      <4>1. form[c].addr \in eternal'
        BY <3>3 DEF CodeKept
      <4> QED
        BY <1>2, <3>3, <4>1, NowFails DEF CodeKept, Others
    <3>4. CASE CodeFound(c) \/ CodeMissing(c) \/ CodeUnread(c)
      BY <1>2, <2>1, <3>4, NowFinds, NowMakes DEF CodeFound, CodeMissing, CodeUnread, NewCode, codeVars
    <3>5. CASE SendMail(c)
      BY <1>2, <2>1, <3>5, NowMails DEF SendMail
    <3>6. ASSUME NEW e \in Addr, get_varifycode(c, e) PROVE \A f \in Addr : Ending(f)'
      BY <1>2, <2>1, <3>6, NowGets DEF get_varifycode
    <3> QED
      BY <2>2, <3>1, <3>2, <3>3, <3>4, <3>5, <3>6 DEF CodeStep
  <2>3. ASSUME NEW c \in Client, ClientStep(c) PROVE \A e \in Addr : Ending(e)'
    BY <1>2, <2>1, <2>2, <2>3, UserSteps, LoginSteps, GivesUp DEF ClientStep, AsideFromCodes, codeVars
  <2>4. ASSUME NEW e \in Addr, Expire(e) PROVE \A f \in Addr : Ending(f)'
    BY <1>2, <2>4 DEF Expire, TypeOK, CodesTypeOK
  <2>5. ASSUME UNCHANGED <<pc, form, codeVars>> PROVE \A e \in Addr : Ending(e)'
    BY <1>2, <2>5 DEF codeVars
  <2> QED
    BY <1>2, <2>3, <2>4, <2>5 DEF Next, Route, vars
<1>3. TypeOK /\ CodesExpire /\ [Next]_vars => CodesExpire'
  <2> SUFFICES ASSUME TypeOK, CodesExpire, [Next]_vars PROVE CodesExpire'
    OBVIOUS
  <2>1. \A e \in Addr : Ending(e)'
    BY <1>0, <1>2
  <2> QED
    BY <2>1 DEF CodesExpire, Asking
<1>4. Init => CodesExpire
  BY <1>0, <1>1
<1> QED
  BY <1>3, <1>4, TypeCorrect, PTL DEF Spec

-----------------------------------------------------------------------------
(* The newest mail works.  A request that runs undisturbed is the only one    *)
(* for its address, so what it stored is still stored when it is mailed; and  *)
(* an address whose newest mail works gets no other code.                     *)

Tracked ==
  /\ \A c, d \in Client :
       clear[c] /\ pc[c] \in InCode /\ pc[d] \in InCode /\ form[d].addr = form[c].addr => c = d
  /\ \A c \in Client :
       clear[c] /\ pc[c] \in {"codeExpire", "codeMail"} => code[form[c].addr] = form[c].code
  /\ \A c \in Client : pc[c] = "codeSet" => ~good[form[c].addr]
  /\ \A c \in Client : pc[c] \in {"codeSet", "codeExpire", "codeMail"} => form[c].code # NoCode
  /\ \A e \in Addr : good[e] => last[e] # NoCode /\ code[e] = last[e]

LEMMA TrackedAside ==
  ASSUME TypeOK, Tracked, NEW c \in Client, Others(c), AsideFromCodes(c)
  PROVE  Tracked'
BY DEF Tracked, Others, AsideFromCodes, codeVars, InCode

LEMMA TrackedGets ==
  ASSUME TypeOK, Tracked, NEW c \in Client, NEW e \in Addr, get_varifycode(c, e)
  PROVE  Tracked'
<1>1. /\ \A d \in Client \ {c} : clear'[d] => clear[d] /\ ~(pc[d] \in InCode /\ form[d].addr = e)
      /\ clear'[c] => \A d \in Client : ~(pc[d] \in InCode /\ form[d].addr = e)
  BY DEF get_varifycode, Disturbed, Asking, TypeOK, CodesTypeOK
<1> QED
  BY <1>1, NowGets DEF get_varifycode, Tracked, Others, InCode

LEMMA TrackedFinds ==
  ASSUME TypeOK, Tracked, NEW c \in Client, CodeFound(c)
  PROVE  Tracked'
<1>1. UNCHANGED <<code, last, clear, good>> /\ code[form[c].addr] # NoCode
  BY DEF CodeFound, codeVars
<1>2. /\ Others(c) /\ pc[c] = "codeGet" /\ pc'[c] = "codeMail"
      /\ form'[c].addr = form[c].addr /\ form'[c].code = code[form[c].addr]
  BY NowFinds
<1>3. \A d \in Client : pc'[d] \in InCode => pc[d] \in InCode /\ form'[d].addr = form[d].addr
  BY <1>2 DEF Others, InCode
<1> QED
  BY <1>1, <1>2, <1>3 DEF Tracked, Others

LEMMA TrackedMakes ==
  ASSUME TypeOK, Tracked, NEW c \in Client, CodeMissing(c) \/ CodeUnread(c)
  PROVE  Tracked'
<1>1. /\ NewCode(c) /\ form[c].addr \in Addr /\ codes + 1 # NoCode
      /\ UNCHANGED <<code, last, clear>>
  BY NowMakes, Asks DEF CodeMissing, CodeUnread, NewCode, InCode, TypeOK, CodesTypeOK, NoCode
<1>2. ~good'[form[c].addr]
  BY <1>1 DEF CodeMissing, CodeUnread, NewCode, Tracked, TypeOK, CodesTypeOK
<1>3. \A f \in Addr : good'[f] => good[f]
  BY <1>1 DEF CodeMissing, CodeUnread, NewCode, TypeOK, CodesTypeOK
<1>4. \A d \in Client : pc[d] = "codeSet" => form[d].addr \in Addr
  BY Asks DEF InCode
<1> QED
  BY <1>1, <1>2, <1>3, <1>4, NowMakes DEF Tracked, Others, InCode

LEMMA TrackedSets ==
  ASSUME TypeOK, Tracked, NEW c \in Client, CodeSet(c)
  PROVE  Tracked'
<1>1. /\ form[c].addr \in Addr /\ ~good[form[c].addr]
      /\ code' = [code EXCEPT ![form[c].addr] = form[c].code]
      /\ UNCHANGED <<last, clear, good>>
  BY NowSets, Asks DEF CodeSet, Tracked, InCode
<1>2. /\ code'[form[c].addr] = form[c].code
      /\ \A f \in Addr \ {form[c].addr} : code'[f] = code[f]
  BY <1>1 DEF TypeOK, CodesTypeOK
<1>3. \A d \in Client : pc[d] \in InCode => form[d].addr \in Addr
  BY Asks
<1> QED
  BY <1>1, <1>2, <1>3, NowSets DEF Tracked, Others, InCode

LEMMA TrackedExpires ==
  ASSUME TypeOK, Tracked, NEW c \in Client, CodeExpire(c) \/ CodeKept(c)
  PROVE  Tracked'
<1>1. CASE CodeExpire(c)
  <2>1. UNCHANGED <<code, last, clear, good>>
    BY <1>1 DEF CodeExpire
  <2>2. Others(c) /\ pc[c] = "codeExpire" /\ pc'[c] = "codeMail" /\ form'[c] = form[c]
    BY <1>1, NowExpires
  <2>3. \A d \in Client : pc'[d] \in InCode => pc[d] \in InCode /\ form'[d] = form[d]
    BY <2>2 DEF Others, InCode
  <2> QED
    BY <2>1, <2>2, <2>3 DEF Tracked, Others
<1>2. CASE CodeKept(c)
  BY <1>2, NowFails DEF CodeKept, Tracked, Others, InCode
<1> QED
  BY <1>1, <1>2

LEMMA TrackedMails ==
  ASSUME TypeOK, Tracked, NEW c \in Client, SendMail(c)
  PROVE  Tracked'
<1>1. /\ form[c].addr \in Addr
      /\ last' = [last EXCEPT ![form[c].addr] = form[c].code]
      /\ good' = [good EXCEPT ![form[c].addr] = clear[c]]
      /\ UNCHANGED <<code, clear>>
  BY NowMails, Asks DEF SendMail, InCode
<1>2. /\ last'[form[c].addr] = form[c].code
      /\ good'[form[c].addr] = clear[c]
      /\ \A f \in Addr \ {form[c].addr} : last'[f] = last[f] /\ good'[f] = good[f]
  BY <1>1 DEF TypeOK, CodesTypeOK
<1>3. \A d \in Client : pc[d] \in InCode => form[d].addr \in Addr
  BY Asks
<1> QED
  BY <1>1, <1>2, <1>3, NowMails DEF Tracked, Others, InCode

LEMMA TrackedLapses ==
  ASSUME TypeOK, Tracked, NEW e \in Addr, Expire(e)
  PROVE  Tracked'
<1>1. \A d \in Client :
        clear'[d] => clear[d] /\ ~(pc[d] \in InCode \ {"codeGet"} /\ form[d].addr = e)
  BY DEF Expire, Disturbed, Asking
<1>2. /\ ~good'[e]
      /\ \A f \in Addr \ {e} : code'[f] = code[f] /\ good'[f] = good[f]
  BY DEF Expire, TypeOK, CodesTypeOK
<1>3. \A d \in Client : pc[d] \in InCode => form[d].addr \in Addr
  BY Asks
<1> QED
  BY <1>1, <1>2, <1>3 DEF Expire, Tracked, InCode

\* The newest code mailed to an address is the one the gate accepts, unless it has
\* expired, Redis failed, or requests for the address overlapped (GetVarifyCode).
THEOREM NewestMailWorks == Spec => []LastMailWorks
<1>1. Init => Tracked
  BY DEF Init, Tracked, InCode
<1>2. TypeOK /\ Tracked /\ [Next]_vars => Tracked'
  <2> SUFFICES ASSUME TypeOK, Tracked, [Next]_vars PROVE Tracked'
    OBVIOUS
  <2>1. ASSUME NEW c \in Client, CodeStep(c) PROVE Tracked'
    BY <2>1, TrackedGets, TrackedFinds, TrackedMakes, TrackedSets, TrackedExpires, TrackedMails
      DEF CodeStep
  <2>2. ASSUME NEW c \in Client, ClientStep(c) PROVE Tracked'
    BY <2>1, <2>2, TrackedAside, UserSteps, LoginSteps, GivesUp DEF ClientStep
  <2>3. ASSUME UNCHANGED <<pc, form, codeVars>> PROVE Tracked'
    BY <2>3 DEF Tracked, codeVars
  <2> QED
    BY <2>2, <2>3, TrackedLapses DEF Next, Route, vars
<1>3. Tracked => LastMailWorks
  BY DEF Tracked, LastMailWorks
<1> QED
  BY <1>1, <1>2, <1>3, TypeCorrect, PTL DEF Spec

-----------------------------------------------------------------------------
(* Passwords are set by owners.  Codes are never reused, so one code belongs  *)
(* to one address; who knows the code stored for an address reads its mail.   *)

Belongs(k, e) ==
  \/ k \in mailed[e]
  \/ k = code[e] /\ k # NoCode
  \/ \E c \in Client : /\ pc[c] \in {"codeSet", "codeExpire", "codeMail"}
                       /\ form[c].addr = e /\ form[c].code = k

OneAddress ==
  /\ \A k \in Nat, e \in Addr : Belongs(k, e) => 1 <= k /\ k <= codes
  /\ \A k \in Nat, e, f \in Addr : Belongs(k, e) /\ Belongs(k, f) => e = f

Owned(c) ==
  /\ pc[c] \in {"registerCode", "resetCode"} => form[c].code \in Known(c)
  /\ pc[c] \in {"regUser", "checkEmail", "updatePwd"} => form[c].addr \in Reads[c]

OwnAddress == \A c \in Client : Owned(c)

\* A step that makes no code gives none to another address.
LEMMA NoNewCode ==
  ASSUME OneAddress, codes' = codes,
         \A k \in Nat, e \in Addr : Belongs(k, e)' => Belongs(k, e)
  PROVE  OneAddress'
BY DEF OneAddress

LEMMA BelongsAside ==
  ASSUME TypeOK, OneAddress, NEW c \in Client, Others(c), AsideFromCodes(c)
  PROVE  OneAddress'
<1>1. \A k \in Nat, e \in Addr : Belongs(k, e)' => Belongs(k, e)
  BY DEF Belongs, Others, AsideFromCodes, codeVars, InCode
<1> QED
  BY <1>1, NoNewCode DEF AsideFromCodes, codeVars

LEMMA BelongsMakes ==
  ASSUME TypeOK, OneAddress, NEW c \in Client, NewCode(c)
  PROVE  OneAddress'
<1>1. /\ Others(c) /\ pc'[c] = "codeSet"
      /\ form'[c].addr = form[c].addr /\ form'[c].code = codes + 1
      /\ UNCHANGED <<code, mailed>> /\ codes' = codes + 1 /\ codes \in Nat
  BY NowMakes DEF NewCode, TypeOK, CodesTypeOK
<1>2. \A k \in Nat, e \in Addr :
        Belongs(k, e)' => Belongs(k, e) \/ (k = codes + 1 /\ e = form[c].addr)
  BY <1>1 DEF Belongs, Others
<1>3. \A k \in Nat, e \in Addr : Belongs(k, e) => k # codes + 1 /\ 1 <= k /\ k <= codes + 1
  BY <1>1 DEF OneAddress
<1> QED
  BY <1>1, <1>2, <1>3 DEF OneAddress

LEMMA BelongsStep ==
  ASSUME TypeOK, OneAddress, NEW c \in Client, CodeStep(c)
  PROVE  OneAddress'
<1>1. CASE CodeMissing(c) \/ CodeUnread(c)
  BY <1>1, BelongsMakes DEF CodeMissing, CodeUnread
<1>2. ASSUME NEW e \in Addr, get_varifycode(c, e) PROVE OneAddress'
  <2>1. \A k \in Nat, f \in Addr : Belongs(k, f)' => Belongs(k, f)
    BY <1>2, NowGets DEF get_varifycode, Belongs, Others
  <2> QED
    BY <1>2, <2>1, NoNewCode DEF get_varifycode
<1>3. CASE CodeFound(c)
  <2>1. UNCHANGED <<code, codes, mailed>> /\ code[form[c].addr] # NoCode
    BY <1>3 DEF CodeFound, codeVars
  <2>2. /\ Others(c) /\ form'[c].addr = form[c].addr
        /\ form'[c].code = code[form[c].addr]
    BY <1>3, NowFinds
  <2>3. \A k \in Nat, e \in Addr : Belongs(k, e)' => Belongs(k, e)
    BY <2>1, <2>2 DEF Belongs, Others
  <2> QED
    BY <2>1, <2>3, NoNewCode
<1>4. CASE CodeSet(c)
  <2>1. /\ pc[c] = "codeSet" /\ form'[c] = form[c] /\ Others(c)
        /\ code' = [code EXCEPT ![form[c].addr] = form[c].code]
        /\ mailed' = mailed
    BY <1>4, NowSets DEF CodeSet
  <2>2. \A e \in Addr : code'[e] = code[e] \/ (e = form[c].addr /\ code'[e] = form[c].code)
    BY <2>1 DEF TypeOK, CodesTypeOK
  <2>3. \A k \in Nat, e \in Addr : Belongs(k, e)' => Belongs(k, e)
    BY <1>4, <2>1, <2>2, NowSets DEF Belongs, Others
  <2> QED
    BY <1>4, <2>3, NoNewCode DEF CodeSet
<1>5. CASE CodeExpire(c)
  <2>1. \A k \in Nat, e \in Addr : Belongs(k, e)' => Belongs(k, e)
    BY <1>5, NowExpires DEF CodeExpire, Belongs, Others
  <2> QED
    BY <1>5, <2>1, NoNewCode DEF CodeExpire
<1>6. CASE CodeKept(c)
  <2>1. \A k \in Nat, e \in Addr : Belongs(k, e)' => Belongs(k, e)
    BY <1>6, NowFails DEF CodeKept, Belongs, Others
  <2> QED
    BY <1>6, <2>1, NoNewCode DEF CodeKept
<1>7. CASE SendMail(c)
  <2>1. \A e \in Addr : mailed'[e] \subseteq
          mailed[e] \cup (IF e = form[c].addr THEN {form[c].code} ELSE {})
    BY <1>7 DEF SendMail, TypeOK, CodesTypeOK
  <2>2. \A k \in Nat, e \in Addr : Belongs(k, e)' => Belongs(k, e)
    BY <1>7, <2>1, NowMails DEF SendMail, Belongs, Others
  <2> QED
    BY <1>7, <2>2, NoNewCode DEF SendMail
<1> QED
  BY <1>1, <1>2, <1>3, <1>4, <1>5, <1>6, <1>7 DEF CodeStep

LEMMA OneAddressKept == TypeOK /\ OneAddress /\ [Next]_vars => OneAddress'
<1> SUFFICES ASSUME TypeOK, OneAddress, [Next]_vars PROVE OneAddress'
  OBVIOUS
<1>1. ASSUME NEW c \in Client, ClientStep(c) PROVE OneAddress'
  BY <1>1, BelongsStep, BelongsAside, UserSteps, LoginSteps, GivesUp DEF ClientStep
<1>2. ASSUME NEW e \in Addr, Expire(e) PROVE OneAddress'
  <2>1. \A k \in Nat, f \in Addr : Belongs(k, f)' => Belongs(k, f)
    BY <1>2 DEF Expire, Belongs, TypeOK, CodesTypeOK
  <2> QED
    BY <1>2, <2>1, NoNewCode DEF Expire
<1>3. ASSUME UNCHANGED <<pc, form, codeVars>> PROVE OneAddress'
  BY <1>3 DEF OneAddress, Belongs, codeVars
<1> QED
  BY <1>1, <1>2, <1>3 DEF Next, Route, vars

\* A client that gives the code stored for an address reads the mail of that address.
LEMMA CodeOfOwner ==
  ASSUME TypeOK, OneAddress, NEW c \in Client, form[c].addr \in Addr,
         form[c].code \in Known(c), CodeAccepted(c)
  PROVE  form[c].addr \in Reads[c]
<1>1. PICK e \in Reads[c] : form[c].code \in mailed[e]
  BY DEF Known
<1>2. e \in Addr /\ form[c].code \in Nat
  BY <1>1, AccountsAssumption DEF TypeOK, CodesTypeOK
<1>3. Belongs(form[c].code, e) /\ Belongs(form[c].code, form[c].addr)
  BY <1>1 DEF Belongs, CodeAccepted
<1> QED
  BY <1>1, <1>2, <1>3 DEF OneAddress

\* Codes that a user knows stay known.
LEMMA StaysKnown ==
  ASSUME TypeOK, [Next]_vars, NEW c \in Client
  PROVE  Known(c) \subseteq Known(c)'
<1>1. \A e \in Addr : mailed[e] \subseteq mailed'[e]
  <2>1. CASE UNCHANGED mailed
    BY <2>1
  <2>2. ASSUME NEW d \in Client, SendMail(d) PROVE \A e \in Addr : mailed[e] \subseteq mailed'[e]
    BY <2>2 DEF SendMail, TypeOK, CodesTypeOK
  <2>3. ASSUME NEW d \in Client, CodeStep(d) PROVE \A e \in Addr : mailed[e] \subseteq mailed'[e]
    BY <2>1, <2>2, <2>3 DEF CodeStep, get_varifycode, CodeFound, codeVars, CodeMissing, CodeUnread, NewCode,
      CodeSet, CodeExpire, CodeKept
  <2>4. ASSUME NEW d \in Client, ClientStep(d) PROVE \A e \in Addr : mailed[e] \subseteq mailed'[e]
    BY <2>1, <2>3, <2>4, UserSteps, LoginSteps, GivesUp DEF ClientStep, AsideFromCodes, codeVars
  <2> QED
    BY <2>1, <2>4 DEF Next, Expire, Route, vars, codeVars
<1> QED
  BY <1>1, AccountsAssumption DEF Known

LEMMA OwnAddressKept == TypeOK /\ OneAddress /\ OwnAddress /\ [Next]_vars => OwnAddress'
<1> SUFFICES ASSUME TypeOK, OneAddress, OwnAddress, [Next]_vars PROVE OwnAddress'
  OBVIOUS
<1>1. ASSUME NEW d \in Client, pc'[d] = pc[d], form'[d] = form[d] PROVE Owned(d)'
  BY <1>1, StaysKnown DEF OwnAddress, Owned
<1>2. ASSUME NEW c \in Client, Others(c), Owned(c)' PROVE OwnAddress'
  <2>1. \A d \in Client : Owned(d)'
    BY <1>1, <1>2 DEF Others
  <2> QED
    BY <2>1 DEF OwnAddress, Owned
<1>3. ASSUME NEW c \in Client, CodeStep(c) \/ LoginStep(c) \/ GiveUp(c) PROVE OwnAddress'
  <2>1. pc'[c] \notin {"registerCode", "resetCode", "regUser", "checkEmail", "updatePwd"}
    <3>1. CASE CodeStep(c)
      BY <3>1, CodeSteps DEF InCode
    <3>2. CASE LoginStep(c)
      BY <3>2 DEF LoginStep, user_login, CheckPwd, GetChatServer, GetChatServerUnstored, GetChatServerLost,
        ChatLogin, TokenAccepted, TokenInvalid, ProfileCached, ProfileRead, ProfileSet,
        Request, Step, Done, Go, TypeOK, FormsTypeOK
    <3> QED
      BY <1>3, <3>1, <3>2, GivesUp
  <2> QED
    BY <1>2, <1>3, <2>1, CodeSteps, LoginSteps, GivesUp DEF Owned
<1>4. ASSUME NEW c \in Client, UserStep(c) PROVE OwnAddress'
  <2>1. CASE user_register(c) \/ reset_pwd(c)
    <3>1. form'[c].code \in Known(c) /\ pc'[c] \in {"registerCode", "resetCode"}
      BY <2>1, FilledIn DEF user_register, reset_pwd, Places, TypeOK, FormsTypeOK
    <3> QED
      BY <1>2, <1>4, <3>1, UserSteps, StaysKnown DEF Owned
  <2>2. CASE CheckCode(c, "registerCode", "regUser") \/ CheckCode(c, "resetCode", "checkEmail")
    <3>1. pc[c] \in {"registerCode", "resetCode"} /\ form[c].addr \in Addr
      BY <2>2 DEF CheckCode, TypeOK, FormsTypeOK, WithAddr
    <3>2. \/ pc'[c] = "idle"
          \/ form'[c] = form[c] /\ CodeAccepted(c) /\ pc'[c] \in {"regUser", "checkEmail"}
      BY <2>2 DEF CheckCode, Step, Done, Go, TypeOK, FormsTypeOK
    <3>3. CodeAccepted(c) => form[c].addr \in Reads[c]
      BY <3>1, CodeOfOwner DEF OwnAddress, Owned
    <3> QED
      BY <1>2, <1>4, <3>2, <3>3, UserSteps DEF Owned
  <2>3. CASE CheckEmail(c)
    <3>1. pc[c] = "checkEmail"
      BY <2>3 DEF CheckEmail
    <3>2. pc'[c] = "idle" \/ (form'[c] = form[c] /\ pc'[c] = "updatePwd")
      BY <2>3 DEF CheckEmail, Step, Done, Go, TypeOK, FormsTypeOK
    <3> QED
      BY <1>2, <1>4, <3>1, <3>2, UserSteps DEF Owned, OwnAddress
  <2>4. CASE RegUser(c) \/ UpdatePwd(c)
    <3>1. pc'[c] = "idle"
      BY <2>4 DEF RegUser, UpdatePwd, Done, Go, TypeOK, FormsTypeOK
    <3> QED
      BY <1>2, <1>4, <3>1, UserSteps DEF Owned
  <2> QED
    BY <1>4, <2>1, <2>2, <2>3, <2>4 DEF UserStep
<1>5. ASSUME UNCHANGED <<pc, form>> PROVE OwnAddress'
  BY <1>1, <1>5 DEF OwnAddress, Owned
<1> QED
  BY <1>3, <1>4, <1>5 DEF Next, ClientStep, Expire, Route, vars

LEMMA OwnersOnly ==
  ASSUME TypeOK, OwnAddress, [Next]_vars,
         NEW n \in Name, NEW c \in Client, pwd'[n] # pwd[n], pc'[c] # pc[c]
  PROVE  mail'[n] \in Reads[c]
<1>1. CASE RegUser(c)
  <2>1. /\ pc[c] = "regUser" /\ form[c].name \in Name
        /\ form[c].addr \in Reads[c]
    BY <1>1 DEF RegUser, Done, Go, TypeOK, FormsTypeOK, WithName, WithPwd, OwnAddress, Owned
  <2>2. /\ mail' = [mail EXCEPT ![form[c].name] = form[c].addr]
        /\ pwd' = [pwd EXCEPT ![form[c].name] = form[c].pwd]
    BY <1>1 DEF RegUser
  <2> QED
    BY <2>1, <2>2 DEF TypeOK, UsersTypeOK
<1>2. CASE UpdatePwd(c)
  <2>1. /\ pc[c] = "updatePwd" /\ form[c].name \in Name
        /\ form[c].addr \in Reads[c] /\ mail[form[c].name] = form[c].addr
    BY <1>2 DEF UpdatePwd, Done, Go, TypeOK, FormsTypeOK, WithName, WithPwd, OwnAddress, Owned, UsersKnown
  <2>2. mail' = mail /\ pwd' = [pwd EXCEPT ![form[c].name] = form[c].pwd]
    BY <1>2 DEF UpdatePwd
  <2> QED
    BY <2>1, <2>2 DEF TypeOK, UsersTypeOK
<1>3. PICK d \in Client : ClientStep(d)
  BY DEF Next, Expire, Route, vars, userVars
<1>4. UserStep(d) /\ Others(d)
  BY <1>3, CodeSteps, UserSteps, LoginSteps, GivesUp DEF ClientStep, userVars
<1>5. d = c
  BY <1>4 DEF Others
<1>6. RegUser(c) \/ UpdatePwd(c)
  BY <1>4, <1>5 DEF UserStep, user_register, reset_pwd, CheckCode, CheckEmail, userVars
<1> QED
  BY <1>1, <1>2, <1>6

\* A user's password is set only by a request of somebody who reads the mail of the
\* address the user is registered with (user_register and reset_pwd of the gate).
THEOREM PasswordsSetByOwners == Spec => SetByOwner
<1>1. Init => OneAddress /\ OwnAddress
  BY DEF Init, OneAddress, OwnAddress, Owned, Belongs
<1>2. TypeOK /\ OneAddress /\ OwnAddress /\ [Next]_vars => OneAddress' /\ OwnAddress'
  BY OneAddressKept, OwnAddressKept
<1>3. TypeOK /\ OwnAddress /\ [Next]_vars =>
        [\A n \in Name, c \in Client :
           pwd'[n] # pwd[n] /\ pc'[c] # pc[c] => mail'[n] \in Reads[c]]_vars
  BY OwnersOnly
<1> QED
  BY <1>1, <1>2, <1>3, TypeCorrect, PTL DEF Spec, SetByOwner

-----------------------------------------------------------------------------
(* The other two parts of MCLogins are instances of modules with theorems of *)
(* their own: a step of a part is a step of the instance of its proofs.      *)

S == INSTANCE StatusServerProofs WITH
  Thread <- Threads, MaxFaults <- MaxMisses, pc <- place, faults <- misses
C == INSTANCE ChatRegistryProofs WITH MaxFaults <- MaxMishaps, faults <- mishaps

\* getChatServer picks the least loaded server of config.ini, the first of equals,
\* for any list of servers, any loads and any number of gRPC threads and of missing
\* counts; and the thread that holds the mutex is never the one that waits for it.
THEOREM LeastLoadedPicked == SystemSpec => []PickedLeast
<1>1. S!Configured
  BY StatusAssumption DEF S!Configured
<1>2. SystemInit => S!Init
  BY DEF SystemInit, Status!Init, S!Init, Status!Place, S!Place
<1>3. [SystemNext]_<<part, vars, statusVars, chatVars>> => [S!Next]_S!vars
  <2>1. Status!Next => S!Next
    BY DEF Status!Next, S!Next, Status!Call, S!Call, Status!ThreadStep, S!ThreadStep,
      Status!Lock, S!Lock, Status!ReadFirst, S!ReadFirst, Status!ReadNext, S!ReadNext,
      Status!Unlock, S!Unlock, Status!Answer, S!Answer, Status!Go, S!Go,
      Status!HGet, S!HGet, Status!Report, S!Report, Status!Place, S!Place
  <2> QED
    BY <2>1 DEF SystemNext, statusVars, S!vars
<1>4. S!TypeOK /\ S!PickedLeast => PickedLeast
  BY DEF PickedLeast, S!TypeOK, Status!TypeOK, S!PickedLeast, Status!PickedLeast,
    S!Place, Status!Place, S!LeastLoaded, Status!LeastLoaded
<1> QED
  BY <1>1, <1>2, <1>3, <1>4, S!TypeCorrect, S!PicksLeast, PTL DEF SystemSpec, S!Spec

LEMMA ChatSteps == Restarts!Next => C!Next
BY DEF Restarts!Next, C!Next,
  Restarts!Accept, C!Accept, Restarts!Insert, C!Insert, Restarts!Receive, C!Receive,
  Restarts!Post, C!Post, Restarts!ReceiveInvalid, C!ReceiveInvalid,
  Restarts!BadHeader, C!BadHeader, Restarts!ReadError, C!ReadError,
  Restarts!WriteError, C!WriteError, Restarts!Tick, C!Tick,
  Restarts!TimerDeal, C!TimerDeal, Restarts!DealLock, C!DealLock,
  Restarts!DealGet, C!DealGet, Restarts!DealDelSession, C!DealDelSession,
  Restarts!DealDelIp, C!DealDelIp, Restarts!DealClear, C!DealClear,
  Restarts!DealRelease, C!DealRelease, Restarts!LoginBegin, C!LoginBegin,
  Restarts!LoginLock, C!LoginLock, Restarts!LoginGetIp, C!LoginGetIp,
  Restarts!LoginEvict, C!LoginEvict, Restarts!LoginKicked, C!LoginKicked,
  Restarts!LoginSetUid, C!LoginSetUid, Restarts!LoginSetIp, C!LoginSetIp,
  Restarts!LoginSetLocal, C!LoginSetLocal, Restarts!LoginSetSession, C!LoginSetSession,
  Restarts!LoginRelease, C!LoginRelease, Restarts!LoginReply, C!LoginReply,
  Restarts!KickLookup, C!KickLookup, Restarts!KickClear, C!KickClear,
  Restarts!KickLost, C!KickLost, Restarts!Expire, C!Expire, Restarts!Crash, C!Crash,
  Restarts!IoStep, C!IoStep, Restarts!DealStep, C!DealStep, Restarts!LoginStep, C!LoginStep,
  Restarts!connVars, C!connVars, Restarts!workVars, C!workVars,
  Restarts!cleanVars, C!cleanVars, Restarts!redisVars, C!redisVars,
  Restarts!MainFree, C!MainFree, Restarts!IoFree, C!IoFree,
  Restarts!Fault, C!Fault, Restarts!FaultIf, C!FaultIf,
  Restarts!ClearSession, C!ClearSession, Restarts!RmvUserSession, C!RmvUserSession,
  Restarts!SendTo, C!SendTo, Restarts!CloseAndDeal, C!CloseAndDeal,
  Restarts!SessionsOf, C!SessionsOf, Restarts!Goto, C!Goto,
  Restarts!ReleaseLock, C!ReleaseLock, Restarts!Step, C!Step, Restarts!Cur, C!Cur,
  Restarts!Luid, C!Luid, Restarts!PeerPools, C!PeerPools, Restarts!OwnerOf, C!OwnerOf,
  Restarts!Uid, C!Uid, Restarts!Timer, C!Timer, Restarts!Io, C!Io,
  Restarts!Worker, C!Worker, Restarts!Cleaner, C!Cleaner, Restarts!Thread, C!Thread

\* While the login locks neither expire nor give up, NotifyKickUser is waited for and
\* the servers know each other by name, a session logged in as a user is, between
\* logins, the one Redis registers for the user: for any servers, users, connections
\* and logins of a connection, however often the servers die and start again.
THEOREM OneSession ==
  ASSUME ~LockMayExpire, ~AcquireMayFail, ~KickMayTimeOut,
         \A s \in Server : RpcAddr[s] = s
  PROVE  SystemSpec => []SingleSession
<1>1. /\ NoUser \notin User /\ NoServer \notin Server /\ NoSession \notin Session
      /\ At \in [Session -> Server]
      /\ Of \in [Session -> User]
      /\ \A s \in Server : RpcAddr[s] # NoServer
      /\ {LockMayExpire, AcquireMayFail, KickMayTimeOut, MayCrash} \subseteq BOOLEAN
      /\ MaxLogins \in Nat /\ MaxMishaps \in Nat
  BY ChatAssumption
<1>2. {Free, Orphan} \cap C!Thread = {} /\ Free # Orphan
  BY ChatAssumption DEF Restarts!Thread, C!Thread, Restarts!Cleaner, C!Cleaner,
    Restarts!Timer, C!Timer, Restarts!Io, C!Io, Restarts!Worker, C!Worker
<1>3. C!LockReliable /\ C!Named
  BY DEF C!LockReliable, C!Named
<1>4. C!Spec => []C!SingleSession
  BY <1>1, <1>2, <1>3, C!OnlySession
<1>5. SystemInit => C!Init
  BY DEF SystemInit, Restarts!Init, C!Init, Restarts!Uid, C!Uid, Restarts!Cleaner,
    C!Cleaner, Restarts!Timer, C!Timer, Restarts!Io, C!Io
<1>6. [SystemNext]_<<part, vars, statusVars, chatVars>> => [C!Next]_C!vars
  BY ChatSteps DEF SystemNext, chatVars, C!vars, C!connVars, C!workVars, C!cleanVars,
    C!redisVars
<1>7. C!SingleSession <=> SingleSession
  BY DEF SingleSession, C!SingleSession, Restarts!SingleSession
<1> QED
  BY <1>4, <1>5, <1>6, <1>7, PTL DEF SystemSpec, C!Spec
=============================================================================
