------------------------- MODULE UserAccountsProofs -------------------------
(***************************************************************************)
(* Theorems about UserAccounts, and about its history in MCAccounts, for   *)
(* any numbers of names, users, codes and requests.                        *)
(*                                                                         *)
(* A request saves a copy of a row it read some time ago, so what holds of *)
(* the rows must hold of every copy in hand as well.  The inductive        *)
(* invariant says that all copies of a user carry one login (OneLogin),    *)
(* that a code is in one place until it is mailed (CodesFresh), and that   *)
(* every code and password in a row or a copy was mailed to the user or is *)
(* about to be (Sourced); only the copy of the request that generated a    *)
(* code holds it before.                                                   *)
(*                                                                         *)
(* Two more properties hold of the history.  A user is of one origin, seen *)
(* in his row and in all copies that may write his code (OneOrigin), and   *)
(* what confirms him showed a code of his (CInv).  All copies agree with   *)
(* his row on isBanned, unless they raced with a ban (BInv).               *)
(***************************************************************************)
EXTENDS MCAccounts, TLAPS

Hand == {"load", "save", "commit"}

\* What a request has in hand at each of its steps.
Shape(s) ==
    /\ s.pc = "idle" => s = IdleRequest
    /\ s.pc \in {"findByEmail", "create"} =>
          s.op = "register" /\ s.id = 0 /\ s.ent.login \in Names
    /\ s.pc = "findByEmail" => s.code = 0
    /\ s.pc = "create" => s.code # 0 /\ s.ent = NewUser(s.ent.login, s.code)
    /\ s.pc \in Hand => /\ s.id \in Id /\ s.ent.login \in Names
                        /\ s.op \in Operations \ {"register"} /\ (s.op \in Mails <=> s.code # 0)
    /\ s.pc = "load" => ~s.found
    /\ s.pc = "commit" => s.op = "ban"
    /\ s.pc = "mail" => /\ s.id \in Id /\ s.ent.login \in Names /\ s.code # 0
                        /\ s.op \in {"register"} \cup Mails

\* The e-mail that a request is about to send.
Letter(s) == <<IF s.op = "recover" THEN "recovery" ELSE "confirmation", s.ent.login, s.code>>

\* The code was mailed to name n for this purpose, or is about to be, user u being saved.
Known(purpose, n, u, code) ==
    \/ <<purpose, n, code>> \in mailed
    \/ \E q \in Requests : /\ req[q].pc = "mail" /\ req[q].id = u
                           /\ Letter(req[q]) = <<purpose, n, code>>

\* Row or copy e of user u holds codes that are known, and a password set by one that was
\* mailed.  Only the code which a request has just generated is not known yet.
Sourced(u, e, op, code) ==
    /\ e.confirmationCode # 0 /\ ~(op = "resend" /\ e.confirmationCode = code) =>
          Known("confirmation", e.login, u, e.confirmationCode)
    /\ e.passwordRecoveryCode # 0 /\ ~(op = "recover" /\ e.passwordRecoveryCode = code) =>
          Known("recovery", e.login, u, e.passwordRecoveryCode)
    /\ e.password # 0 => <<"recovery", e.login, e.password>> \in mailed
RowSourced(u) == Sourced(u, users[u], "none", 0)
CopySourced(s) == s.pc \in Hand => Sourced(s.id, s.ent, s.op, s.code)

\* User u is known by name n: from his row, or from a copy of it.
Claim(u, n) ==
    \/ users[u].login = n
    \/ \E r \in Requests : req[r].id = u /\ req[r].ent.login = n

\* Only ids that were handed out are in use, and every user has one login.
Claimed == \A u \in Id, n \in Names : Claim(u, n) => u <= lastId
OneLogin == \A u \in Id, m, n \in Names : Claim(u, m) /\ Claim(u, n) => m = n
RowsNamed == \A u \in Id : Present(u) => users[u].login \in Names

\* Until it is mailed a code belongs to one request.
CodesFresh ==
    /\ \A m \in mailed : m[3] <= lastCode
    /\ \A r \in Requests : req[r].code <= lastCode
    /\ \A r \in Requests, m \in mailed : req[r].code # 0 => m[3] # req[r].code
    /\ \A r, q \in Requests : r # q /\ req[r].code # 0 => req[r].code # req[q].code

IInv ==
    /\ TypeOK
    /\ \A r \in Requests : Shape(req[r])
    /\ Claimed /\ OneLogin /\ RowsNamed
    /\ CodesFresh
    /\ \A u \in Id : RowSourced(u)
    /\ \A r \in Requests : CopySourced(req[r])

-----------------------------------------------------------------------------
(***************************************************************************)
(* Rows, copies and codes                                                  *)
(***************************************************************************)
LEMMA IdleFacts ==
    /\ IdleRequest \in Request /\ NoUser \in UserRow
    /\ Shape(IdleRequest) /\ CopySourced(IdleRequest)
    /\ IdleRequest.pc = "idle" /\ IdleRequest.id = 0 /\ IdleRequest.code = 0
BY AccountConstants DEF IdleRequest, Request, RequestPC, NoUser, UserRow, Code, Shape, Hand,
                        CopySourced

\* A saved row keeps its login and takes each column from the row or from the copy.
LEMMA MergeFacts ==
    ASSUME NEW row \in UserRow, NEW ent \in UserRow, NEW cols
    PROVE  LET m == Merge(row, ent, cols) IN
           /\ m \in UserRow
           /\ m.login = IF "login" \in cols THEN ent.login ELSE row.login
           /\ m.password = IF "password" \in cols THEN ent.password ELSE row.password
           /\ m.isConfirmed = IF "isConfirmed" \in cols THEN ent.isConfirmed ELSE row.isConfirmed
           /\ m.isBanned = IF "isBanned" \in cols THEN ent.isBanned ELSE row.isBanned
           /\ m.confirmationCode =
                 IF "confirmationCode" \in cols THEN ent.confirmationCode
                 ELSE row.confirmationCode
           /\ m.passwordRecoveryCode =
                 IF "passwordRecoveryCode" \in cols THEN ent.passwordRecoveryCode
                 ELSE row.passwordRecoveryCode
BY DEF Merge, UserRow

\* What is known of a code stays known: an e-mail about to be sent is sent or stays so.
LEMMA KnownStays ==
    ASSUME mailed \subseteq mailed',
           \A q \in Requests : req[q].pc = "mail" =>
               req'[q] = req[q] \/ Letter(req[q]) \in mailed',
           NEW p, NEW n, NEW u, NEW c, Known(p, n, u, c)
    PROVE  Known(p, n, u, c)'
<1>1. CASE <<p, n, c>> \in mailed
  BY <1>1 DEF Known
<1>2. ASSUME NEW q \in Requests, req[q].pc = "mail", req[q].id = u,
             Letter(req[q]) = <<p, n, c>>
      PROVE  Known(p, n, u, c)'
  <2>1. CASE req'[q] = req[q]
    <3>1. req'[q].pc = "mail" /\ req'[q].id = u /\ Letter(req'[q]) = <<p, n, c>>
      BY <1>2, <2>1
    <3> QED BY <3>1 DEF Known, Letter
  <2>2. CASE Letter(req[q]) \in mailed'
    BY <1>2, <2>2 DEF Known
  <2> QED BY <1>2, <2>1, <2>2
<1> QED BY <1>1, <1>2 DEF Known

LEMMA SourcedStays ==
    ASSUME mailed \subseteq mailed',
           \A q \in Requests : req[q].pc = "mail" =>
               req'[q] = req[q] \/ Letter(req[q]) \in mailed',
           NEW u, NEW e, NEW op, NEW code, Sourced(u, e, op, code)
    PROVE  Sourced(u, e, op, code)'
BY KnownStays DEF Sourced

\* A known code is an old one, and once some e-mail carries it the user has it.
LEMMA KnownFacts ==
    ASSUME IInv, NEW p, NEW n, NEW u, NEW c, Known(p, n, u, c)
    PROVE  /\ c <= lastCode
           /\ \A m \in mailed : m[3] = c => <<p, n, c>> \in mailed
<1>1. CASE <<p, n, c>> \in mailed
  BY <1>1 DEF IInv, CodesFresh
<1>2. ASSUME NEW q \in Requests, req[q].pc = "mail", Letter(req[q]) = <<p, n, c>>
      PROVE  req[q].code = c /\ c <= lastCode /\ \A m \in mailed : m[3] # c
  <2>1. req[q].code = c /\ req[q].code # 0
    BY <1>2 DEF Letter, IInv, Shape
  <2> QED BY <2>1 DEF IInv, CodesFresh
<1> QED BY <1>1, <1>2 DEF Known

(***************************************************************************)
(* Steps                                                                   *)
(***************************************************************************)
\* Requests go on with what they had, or forget it; a code just generated belongs to one.
LEMMA CodesKept ==
    ASSUME IInv, UNCHANGED mailed, lastCode' \in Nat, lastCode <= lastCode',
           \A r \in Requests : req'[r].code \in {0, req[r].code}
    PROVE  CodesFresh'
<1>1. \A r \in Requests : req[r].code \in Nat
  BY AccountConstants DEF IInv, TypeOK, Request, Code
<1>2. \A m \in mailed : m[3] \in Nat
  BY AccountConstants DEF IInv, TypeOK
<1>3. lastCode \in Nat
  BY AccountConstants DEF IInv, TypeOK, Code
<1> QED BY <1>1, <1>2, <1>3 DEF IInv, CodesFresh

LEMMA CodeGenerated ==
    ASSUME IInv, UNCHANGED mailed, lastCode' = lastCode + 1, NEW r \in Requests,
           req'[r].code = lastCode', \A q \in Requests \ {r} : req'[q] = req[q]
    PROVE  CodesFresh'
<1>1. \A q \in Requests : req[q].code \in Nat
  BY AccountConstants DEF IInv, TypeOK, Request, Code
<1>2. \A m \in mailed : m[3] \in Nat
  BY AccountConstants DEF IInv, TypeOK
<1>3. lastCode \in Nat
  BY AccountConstants DEF IInv, TypeOK, Code
<1> QED BY <1>1, <1>2, <1>3 DEF IInv, CodesFresh

\* At most one user is new, and he has one name.
LEMMA ClaimsKept ==
    ASSUME IInv, TypeOK', NEW m,
           \/ lastId' = lastId /\ \A u \in Id, n \in Names : Claim(u, n)' => Claim(u, n)
           \/ /\ lastId' = lastId + 1
              /\ \A u \in Id, n \in Names :
                    Claim(u, n)' => Claim(u, n) \/ (u = lastId + 1 /\ n = m)
    PROVE  Claimed' /\ OneLogin'
<1>1. lastId \in Nat /\ \A u \in Id : u \in Nat
  BY AccountConstants DEF IInv, TypeOK, Id
<1>2. CASE lastId' = lastId /\ \A u \in Id, n \in Names : Claim(u, n)' => Claim(u, n)
  BY <1>2 DEF IInv, Claimed, OneLogin
<1>3. CASE /\ lastId' = lastId + 1
           /\ \A u \in Id, n \in Names :
                 Claim(u, n)' => Claim(u, n) \/ (u = lastId + 1 /\ n = m)
  <2>1. Claimed'
    BY <1>1, <1>3 DEF IInv, Claimed
  <2>2. OneLogin'
    BY <1>1, <1>3 DEF IInv, Claimed, OneLogin
  <2> QED BY <2>1, <2>2
<1> QED BY <1>2, <1>3

\* What every step has to show of the rows and copies it changes.
LEMMA Frame ==
    ASSUME IInv, TypeOK', Claimed', OneLogin', CodesFresh', mailed \subseteq mailed',
           \A q \in Requests : req[q].pc = "mail" =>
               req'[q] = req[q] \/ Letter(req[q]) \in mailed',
           \A r \in Requests : req'[r] = req[r] \/ (Shape(req'[r]) /\ CopySourced(req[r])'),
           \A u \in Id : users'[u] = users[u]
                         \/ (RowSourced(u)' /\ (Present(u)' => users'[u].login \in Names))
    PROVE  IInv'
<1>1. \A r \in Requests : Shape(req[r])'
  <2> TAKE r \in Requests
  <2>1. Shape(req[r]) /\ (req'[r] = req[r] \/ Shape(req'[r]))
    BY DEF IInv
  <2> QED BY <2>1 DEF Shape
<1>2. RowsNamed'
  BY DEF IInv, RowsNamed, Present
<1>3. \A u \in Id : RowSourced(u)'
  <2> TAKE u \in Id
  <2>1. CASE users'[u] = users[u]
    <3>1. PICK e : e = users[u]
      OBVIOUS
    <3>2. Sourced(u, e, "none", 0)
      BY <3>1 DEF IInv, RowSourced
    <3>3. Sourced(u, e, "none", 0)'
      BY <3>2, SourcedStays
    <3> QED BY <2>1, <3>1, <3>3 DEF RowSourced
  <2> QED BY <2>1
<1>4. \A r \in Requests : CopySourced(req[r])'
  <2> SUFFICES ASSUME NEW r \in Requests, req'[r] = req[r], req[r].pc \in Hand
               PROVE  CopySourced(req[r])'
    BY DEF CopySourced
  <2>1. PICK s : s = req[r]
    OBVIOUS
  <2>2. Sourced(s.id, s.ent, s.op, s.code)
    BY <2>1 DEF IInv, CopySourced
  <2>3. Sourced(s.id, s.ent, s.op, s.code)'
    BY <2>2, SourcedStays
  <2> QED BY <2>1, <2>3 DEF CopySourced
<1> QED BY <1>1, <1>2, <1>3, <1>4 DEF IInv

\* A request goes on with what it had in hand, or less: the tables do not change.
LEMMA Moves ==
    ASSUME IInv, NEW r \in Requests, NEW s \in Request, Step(r, s), req[r].pc # "mail",
           Shape(s), CopySourced(s), s.code \in {0, req[r].code},
           s.id \in Id => Claim(s.id, s.ent.login),
           UNCHANGED <<users, lastId, lastCode, mailed>>
    PROVE  IInv'
<1>1. req'[r] = s /\ \A q \in Requests \ {r} : req'[q] = req[q]
  BY DEF IInv, TypeOK, Step
<1>2. TypeOK'
  BY DEF IInv, TypeOK, Step
<1>3. \A u \in Id, n \in Names : Claim(u, n)' => Claim(u, n)
  BY <1>1 DEF Claim
<1>4. Claimed' /\ OneLogin'
  BY <1>2, <1>3, ClaimsKept
<1>5. CodesFresh'
  BY <1>1, CodesKept, AccountConstants DEF IInv, TypeOK, Code
<1>6. \A q \in Requests : req[q].pc = "mail" => req'[q] = req[q]
  BY <1>1
<1>7. CopySourced(s)'
  BY <1>6, SourcedStays DEF CopySourced
<1>8. CopySourced(req[r])'
  BY <1>1, <1>7 DEF CopySourced
<1> QED BY <1>1, <1>2, <1>4, <1>5, <1>6, <1>8, Frame

LEMMA Stops ==
    ASSUME IInv, NEW r \in Requests, req[r].pc # "mail", Stop(r),
           UNCHANGED <<users, lastId, lastCode, mailed>>
    PROVE  IInv'
BY IdleFacts, Moves DEF Stop, Id

\* A request's own state in the cases the actions distinguish.
LEMMA InHandFacts ==
    ASSUME IInv, NEW r \in Requests
    PROVE  /\ req[r] \in Request /\ Shape(req[r]) /\ CopySourced(req[r])
           /\ req[r].pc \in Hand \cup {"mail"} =>
                 /\ req[r].id \in Id /\ req[r].ent \in UserRow /\ req[r].ent.login \in Names
                 /\ Claim(req[r].id, req[r].ent.login) /\ req[r].id <= lastId
                 /\ Present(req[r].id) => users[req[r].id].login = req[r].ent.login
                 /\ users[req[r].id] \in UserRow
<1>1. req[r] \in Request /\ Shape(req[r]) /\ CopySourced(req[r])
  BY DEF IInv, TypeOK
<1>2. req[r].pc \in Hand \cup {"mail"} =>
          /\ req[r].id \in Id /\ req[r].ent \in UserRow /\ req[r].ent.login \in Names
          /\ Claim(req[r].id, req[r].ent.login)
  BY <1>1 DEF Shape, Request, Claim
<1>3. \A u \in Id : Present(u) => users[u].login \in Names /\ Claim(u, users[u].login)
  BY DEF IInv, RowsNamed, Claim
<1> QED BY <1>1, <1>2, <1>3 DEF IInv, Claimed, OneLogin, TypeOK

\* A handler found user u, changed the entity and is about to save it.
LEMMA SaveBegins ==
    ASSUME IInv, NEW r \in Requests, req[r].pc = "idle", NEW u \in Id, Present(u),
           NEW op \in Operations \ {"register"}, NEW ent \in UserRow, NEW code \in Code,
           Save(r, op, u, ent, code), ent.login = users[u].login, Sourced(u, ent, op, code),
           \/ op \notin Mails /\ code = 0 /\ lastCode' = lastCode
           \/ op \in Mails /\ code = lastCode + 1 /\ lastCode' = lastCode + 1,
           UNCHANGED <<users, lastId, mailed>>
    PROVE  IInv'
<1> DEFINE s == [IdleRequest EXCEPT !.pc = "load", !.op = op, !.id = u, !.ent = ent,
                                    !.code = code]
<1>1. s \in Request
  <2>1. u \in 0..MaxId /\ "load" \in RequestPC
    BY AccountConstants DEF Id, RequestPC
  <2> QED BY <2>1, IdleFacts DEF Request
<1>2. s.pc = "load" /\ s.op = op /\ s.id = u /\ s.ent = ent /\ s.code = code /\ ~s.found
  BY DEF IdleRequest
<1>3. lastCode \in Nat
  BY AccountConstants DEF IInv, TypeOK, Code
<1>4. Shape(s) /\ CopySourced(s)
  <2>1. ent.login \in Names /\ (op \in Mails <=> code # 0)
    BY <1>3 DEF IInv, RowsNamed
  <2> HIDE DEF s
  <2> QED BY <1>2, <2>1 DEF Shape, CopySourced, Hand
<1>5. req' = [req EXCEPT ![r] = s]
  BY DEF Save, Step
<1> HIDE DEF s
<1>6. req'[r] = s /\ \A q \in Requests \ {r} : req'[q] = req[q]
  BY <1>5 DEF IInv, TypeOK
<1>7. TypeOK'
  BY <1>1, <1>2, <1>5 DEF IInv, TypeOK
<1>8. \A v \in Id, n \in Names : Claim(v, n)' => Claim(v, n)
  BY <1>2, <1>6 DEF Claim
<1>9. Claimed' /\ OneLogin'
  BY <1>7, <1>8, ClaimsKept
<1>10. CodesFresh'
  <2>1. CASE code = 0 /\ lastCode' = lastCode
    BY <1>2, <1>3, <1>6, <2>1, CodesKept
  <2>2. CASE code = lastCode + 1 /\ lastCode' = lastCode + 1
    BY <1>2, <1>6, <2>2, CodeGenerated
  <2> QED BY <2>1, <2>2
<1>11. \A q \in Requests : req[q].pc = "mail" => req'[q] = req[q]
  BY <1>6
<1>12. CopySourced(s)'
  BY <1>4, <1>11, SourcedStays DEF CopySourced
<1>13. CopySourced(req[r])'
  BY <1>6, <1>12 DEF CopySourced
<1> QED BY <1>4, <1>6, <1>7, <1>9, <1>10, <1>11, <1>13, Frame

(***************************************************************************)
(* Handlers that find a user and begin to save him                         *)
(***************************************************************************)
LEMMA RowFacts ==
    ASSUME IInv, NEW u \in Id
    PROVE  /\ users[u] \in UserRow /\ RowSourced(u)
           /\ users[u].login \in Names => Present(u)
           /\ users[u].confirmationCode # 0 => Present(u)
           /\ users[u].passwordRecoveryCode # 0 => Present(u)
<1>1. NoUser.login = None /\ NoUser.confirmationCode = 0 /\ NoUser.passwordRecoveryCode = 0
  BY DEF NoUser
<1> QED BY <1>1, AccountConstants DEF IInv, TypeOK, Present

LEMMA MailFacts ==
    ASSUME IInv, NEW m \in mailed
    PROVE  m[3] \in Code /\ m[3] # 0
BY AccountConstants DEF IInv, TypeOK, Code

LEMMA ConfirmRegistrationPreserves ==
    ASSUME IInv, NEW r \in Requests, NEW m \in mailed, ConfirmRegistration(r, m[3])
    PROVE  IInv'
<1>1. PICK u \in Id : /\ users[u].confirmationCode = m[3]
                      /\ Save(r, "confirm", u, [users[u] EXCEPT !.isConfirmed = TRUE], 0)
  BY DEF ConfirmRegistration
<1> DEFINE ent == [users[u] EXCEPT !.isConfirmed = TRUE]
<1>2. Present(u)
  BY <1>1, RowFacts, MailFacts
<1>3. ent \in UserRow /\ ent.login = users[u].login /\ Sourced(u, ent, "confirm", 0)
  BY RowFacts DEF UserRow, RowSourced, Sourced
<1>4. /\ req[r].pc = "idle" /\ 0 \in Code /\ "confirm" \in Operations \ {"register"}
      /\ "confirm" \notin Mails /\ UNCHANGED <<users, lastId, lastCode, mailed>>
  BY AccountConstants DEF ConfirmRegistration, Operations, Mails, Code
<1> QED BY <1>1, <1>2, <1>3, <1>4, SaveBegins

LEMMA NextCodeFacts ==
    ASSUME IInv, lastCode < MaxCode
    PROVE  /\ lastCode + 1 \in Code /\ lastCode + 1 # 0
           /\ \A p, n, u, c : Known(p, n, u, c) => c # lastCode + 1
<1>1. lastCode \in Code
  BY DEF IInv, TypeOK
<1>2. \A p, n, u, c : Known(p, n, u, c) => c <= lastCode
  BY KnownFacts
<1> QED BY <1>1, <1>2, AccountConstants DEF Code

LEMMA ResendConfirmationCodePreserves ==
    ASSUME IInv, NEW r \in Requests, NEW n \in Names, ResendConfirmationCode(r, n)
    PROVE  IInv'
<1>1. PICK u \in FindByLoginOrEmail(n) :
          Save(r, "resend", u, [users[u] EXCEPT !.confirmationCode = lastCode + 1,
                                                !.isConfirmed = FALSE], lastCode + 1)
  BY DEF ResendConfirmationCode
<1> DEFINE ent == [users[u] EXCEPT !.confirmationCode = lastCode + 1, !.isConfirmed = FALSE]
<1>2. u \in Id /\ Present(u)
  BY RowFacts DEF FindByLoginOrEmail
<1>3. lastCode < MaxCode /\ lastCode' = lastCode + 1 /\ req[r].pc = "idle"
  BY DEF ResendConfirmationCode
<1>4. lastCode + 1 \in Code
  BY <1>3, NextCodeFacts
<1>5. ent \in UserRow /\ ent.login = users[u].login
  BY <1>2, <1>4, RowFacts DEF UserRow
<1>6. Sourced(u, ent, "resend", lastCode + 1)
  BY <1>2, RowFacts DEF UserRow, RowSourced, Sourced
<1> QED BY <1>1, <1>2, <1>3, <1>4, <1>5, <1>6, SaveBegins
        DEF ResendConfirmationCode, Operations, Mails

LEMMA PasswordRecoveryPreserves ==
    ASSUME IInv, NEW r \in Requests, NEW n \in Names, PasswordRecovery(r, n)
    PROVE  IInv'
<1>1. PICK u \in FindByLoginOrEmail(n) :
          Save(r, "recover", u, [users[u] EXCEPT !.passwordRecoveryCode = lastCode + 1],
               lastCode + 1)
  BY DEF PasswordRecovery
<1> DEFINE ent == [users[u] EXCEPT !.passwordRecoveryCode = lastCode + 1]
<1>2. u \in Id /\ Present(u)
  BY RowFacts DEF FindByLoginOrEmail
<1>3. lastCode < MaxCode /\ lastCode' = lastCode + 1 /\ req[r].pc = "idle"
  BY DEF PasswordRecovery
<1>4. lastCode + 1 \in Code
  BY <1>3, NextCodeFacts
<1>5. ent \in UserRow /\ ent.login = users[u].login
  BY <1>2, <1>4, RowFacts DEF UserRow
<1>6. Sourced(u, ent, "recover", lastCode + 1)
  BY <1>2, RowFacts DEF UserRow, RowSourced, Sourced
<1> QED BY <1>1, <1>2, <1>3, <1>4, <1>5, <1>6, SaveBegins
        DEF PasswordRecovery, Operations, Mails

\* Whoever presents a recovery code found in a row has got it from an e-mail to the user.
LEMMA NewPasswordPreserves ==
    ASSUME IInv, NEW r \in Requests, NEW m \in mailed, NewPassword(r, m[3])
    PROVE  IInv'
<1>1. PICK u \in FindUserByRecoveryCode(m[3]) :
          Save(r, "newPassword", u, [users[u] EXCEPT !.password = m[3]], 0)
  BY DEF NewPassword
<1> DEFINE ent == [users[u] EXCEPT !.password = m[3]]
<1>2. u \in Id /\ users[u].passwordRecoveryCode = m[3] /\ m[3] \in Code /\ m[3] # 0
  BY MailFacts DEF FindUserByRecoveryCode
<1>3. Present(u) /\ users[u] \in UserRow /\ RowSourced(u)
  BY <1>2, RowFacts
<1>4. Known("recovery", users[u].login, u, m[3])
  BY <1>2, <1>3 DEF RowSourced, Sourced
<1>5. <<"recovery", users[u].login, m[3]>> \in mailed
  BY <1>4, KnownFacts
<1>6. ent \in UserRow /\ ent.login = users[u].login /\ Sourced(u, ent, "newPassword", 0)
  BY <1>2, <1>3, <1>5 DEF UserRow, RowSourced, Sourced
<1>7. /\ req[r].pc = "idle" /\ 0 \in Code /\ "newPassword" \in Operations \ {"register"}
      /\ "newPassword" \notin Mails /\ UNCHANGED <<users, lastId, lastCode, mailed>>
  BY AccountConstants DEF NewPassword, Operations, Mails, Code
<1> QED BY <1>1, <1>2, <1>3, <1>6, <1>7, SaveBegins

LEMMA BanUnbanUserPreserves ==
    ASSUME IInv, NEW r \in Requests, NEW u \in Id, NEW isBanned \in BOOLEAN,
           BanUnbanUser(r, u, isBanned)
    PROVE  IInv'
<1> DEFINE ent == [users[u] EXCEPT !.isBanned = isBanned]
<1>1. ent \in UserRow /\ ent.login = users[u].login /\ Sourced(u, ent, "ban", 0)
  BY RowFacts DEF UserRow, RowSourced, Sourced
<1>2. /\ req[r].pc = "idle" /\ Present(u) /\ 0 \in Code
      /\ "ban" \in Operations \ {"register"} /\ "ban" \notin Mails
      /\ Save(r, "ban", u, ent, 0) /\ UNCHANGED <<users, lastId, lastCode, mailed>>
  BY AccountConstants DEF BanUnbanUser, Operations, Mails, Code
<1> HIDE DEF ent
<1> QED BY <1>1, <1>2, SaveBegins

(***************************************************************************)
(* Registration                                                            *)
(***************************************************************************)
LEMMA NewUserFacts ==
    ASSUME NEW n \in Names, NEW code \in Code
    PROVE  LET e == NewUser(n, code) IN
           /\ e \in UserRow /\ e # NoUser /\ e.login = n /\ e.confirmationCode = code
           /\ e.passwordRecoveryCode = 0 /\ e.password = 0
           /\ ~e.isConfirmed /\ ~e.isBanned
<1>1. /\ NoUser \in UserRow /\ NoUser.login = None /\ NoUser.passwordRecoveryCode = 0
      /\ NoUser.password = 0 /\ ~NoUser.isConfirmed /\ ~NoUser.isBanned
  BY IdleFacts DEF NoUser
<1> DEFINE e == NewUser(n, code)
<1>2. /\ e \in UserRow /\ e.login = n /\ e.confirmationCode = code
      /\ e.passwordRecoveryCode = 0 /\ e.password = 0 /\ ~e.isConfirmed /\ ~e.isBanned
  BY <1>1 DEF NewUser, UserRow
<1>3. e # NoUser
  BY <1>1, <1>2, AccountConstants
<1> QED BY <1>2, <1>3

LEMMA RegisterPreserves ==
    ASSUME IInv, NEW r \in Requests, NEW n \in Names, Register(r, n)
    PROVE  IInv'
<1> DEFINE s == [IdleRequest EXCEPT !.pc = "findByEmail", !.op = "register",
                                    !.ent = NewUser(n, 0)]
<1>1. NewUser(n, 0) \in UserRow /\ NewUser(n, 0).login = n
  BY NewUserFacts, AccountConstants DEF Code
<1>2. s \in Request /\ s.pc = "findByEmail" /\ s.op = "register" /\ s.ent.login = n
      /\ s.id = 0 /\ s.code = 0
  BY <1>1, IdleFacts DEF Request, RequestPC, Operations
<1>3. Step(r, s) /\ req[r].pc = "idle"
  BY DEF Register
<1> HIDE DEF s
<1>4. Shape(s) /\ CopySourced(s)
  BY <1>2 DEF Shape, CopySourced, Hand
<1>5. s.id \notin Id
  BY <1>2 DEF Id
<1> QED BY <1>2, <1>3, <1>4, <1>5, Moves DEF Register

LEMMA FindByEmailPreserves ==
    ASSUME IInv, NEW r \in Requests, FindByEmail(r)
    PROVE  IInv'
<1>1. /\ req[r].pc = "findByEmail" /\ req[r] \in Request /\ req[r].op = "register"
      /\ req[r].id = 0 /\ req[r].ent.login \in Names
  BY InHandFacts DEF FindByEmail, Shape
<1>2. CASE Taken(req[r].ent.login)
  BY <1>1, <1>2, Stops DEF FindByEmail
<1>3. CASE ~Taken(req[r].ent.login)
  <2> DEFINE e == NewUser(req[r].ent.login, lastCode + 1)
             s == [req[r] EXCEPT !.pc = "create", !.code = lastCode + 1, !.ent = e]
  <2>1. lastCode < MaxCode /\ lastCode' = lastCode + 1 /\ Step(r, s)
        /\ UNCHANGED <<users, lastId, mailed>>
    BY <1>3 DEF FindByEmail
  <2>2. lastCode + 1 \in Code /\ lastCode + 1 # 0
    BY <2>1, NextCodeFacts
  <2>3. e \in UserRow /\ e.login = req[r].ent.login
    BY <1>1, <2>2, NewUserFacts
  <2>4. s \in Request /\ s.pc = "create" /\ s.op = "register" /\ s.id = 0
        /\ s.code = lastCode + 1 /\ s.ent = e
    BY <1>1, <2>2, <2>3 DEF Request, RequestPC
  <2> HIDE DEF s
  <2>5. Shape(s) /\ s.pc \notin Hand
    BY <1>1, <2>2, <2>3, <2>4 DEF Shape, Hand
  <2>6. req'[r] = s /\ \A q \in Requests \ {r} : req'[q] = req[q]
    BY <2>1 DEF IInv, TypeOK, Step
  <2>7. TypeOK'
    BY <2>1, <2>2, <2>4 DEF IInv, TypeOK, Step
  <2>8. \A u \in Id, n \in Names : Claim(u, n)' => Claim(u, n)
    BY <2>1, <2>4, <2>6 DEF Claim, Id
  <2>9. Claimed' /\ OneLogin'
    BY <2>1, <2>7, <2>8, ClaimsKept
  <2>10. CodesFresh'
    BY <2>1, <2>4, <2>6, CodeGenerated
  <2>11. CopySourced(req[r])'
    BY <2>5, <2>6 DEF CopySourced
  <2> QED BY <1>1, <2>1, <2>5, <2>6, <2>7, <2>9, <2>10, <2>11, Frame
<1> QED BY <1>2, <1>3

\* The new row holds the code that its request is about to mail.
LEMMA CreateUserPreserves ==
    ASSUME IInv, NEW r \in Requests, CreateUser(r)
    PROVE  IInv'
<1>1. /\ req[r].pc = "create" /\ req[r] \in Request /\ req[r].op = "register"
      /\ req[r].id = 0 /\ req[r].ent.login \in Names /\ req[r].code # 0
      /\ req[r].ent = NewUser(req[r].ent.login, req[r].code)
  BY InHandFacts DEF CreateUser, Shape
<1> PICK n, e, u, code : n = req[r].ent.login /\ e = req[r].ent /\ u = lastId + 1
                         /\ code = req[r].code
  OBVIOUS
<1> DEFINE s == [IdleRequest EXCEPT !.pc = "mail", !.op = "register", !.id = u,
                                    !.ent.login = n, !.code = code]
<1>2. /\ lastId < MaxId /\ lastId' = u /\ users' = [users EXCEPT ![u] = e]
      /\ Step(r, s) /\ UNCHANGED <<lastCode, mailed>>
  BY <1>1 DEF CreateUser, Mail
<1>3. u \in Id /\ u \in 0..MaxId /\ lastId \in Nat
  BY <1>2, AccountConstants DEF IInv, TypeOK, Id
<1>4. code \in Code /\ code # 0 /\ e \in UserRow
  BY <1>1 DEF Request
<1>5. e.login = n /\ e.confirmationCode = code /\ e.passwordRecoveryCode = 0
      /\ e.password = 0 /\ n \in Names
  BY <1>1, <1>4, NewUserFacts
<1>6. /\ s \in Request /\ s.pc = "mail" /\ s.op = "register" /\ s.id = u
      /\ s.ent.login = n /\ s.code = code
  BY <1>1, <1>3, <1>4, <1>5, IdleFacts DEF Request, RequestPC, Operations, UserRow
<1> HIDE DEF s
<1>7. Shape(s) /\ s.pc \notin Hand
  BY <1>3, <1>4, <1>5, <1>6 DEF Shape, Hand
<1>8. req'[r] = s /\ \A q \in Requests \ {r} : req'[q] = req[q]
  BY <1>2 DEF IInv, TypeOK, Step
<1>9. users'[u] = e /\ \A v \in Id \ {u} : users'[v] = users[v]
  BY <1>2, <1>3 DEF IInv, TypeOK
<1>10. TypeOK'
  BY <1>2, <1>3, <1>4, <1>6 DEF IInv, TypeOK, Step
<1>11. \A v \in Id, m \in Names : Claim(v, m)' => Claim(v, m) \/ (v = u /\ m = n)
  BY <1>5, <1>6, <1>8, <1>9 DEF Claim
<1>12. Claimed' /\ OneLogin'
  BY <1>2, <1>10, <1>11, ClaimsKept
<1>13. CodesFresh'
  BY <1>2, <1>6, <1>8, CodesKept, AccountConstants DEF IInv, TypeOK, Code
<1>14. Known("confirmation", n, u, code)'
  BY <1>6, <1>8 DEF Known, Letter
<1>15. RowSourced(u)'
  BY <1>5, <1>9, <1>14 DEF RowSourced, Sourced
<1>16. CopySourced(req[r])'
  BY <1>7, <1>8 DEF CopySourced
<1> QED BY <1>1, <1>2, <1>5, <1>7, <1>8, <1>9, <1>10, <1>12, <1>13, <1>15, <1>16, Frame

LEMMA CreateUserByAdminPreserves ==
    ASSUME IInv, NEW n \in Names, CreateUserByAdmin(n)
    PROVE  IInv'
<1> DEFINE e == [NewUser(n, 0) EXCEPT !.isConfirmed = TRUE]
<1> PICK u : u = lastId + 1
  OBVIOUS
<1>1. /\ lastId < MaxId /\ lastId' = u /\ users' = [users EXCEPT ![u] = e]
      /\ UNCHANGED <<lastCode, mailed, req>>
  BY DEF CreateUserByAdmin
<1>2. u \in Id /\ u \in 0..MaxId /\ lastId \in Nat
  BY <1>1, AccountConstants DEF IInv, TypeOK, Id
<1>3. /\ e \in UserRow /\ e.login = n /\ e.confirmationCode = 0
      /\ e.passwordRecoveryCode = 0 /\ e.password = 0
  <2>1. 0 \in Code
    BY AccountConstants DEF Code
  <2>2. /\ NewUser(n, 0) \in UserRow /\ NewUser(n, 0).login = n
        /\ NewUser(n, 0).confirmationCode = 0 /\ NewUser(n, 0).passwordRecoveryCode = 0
        /\ NewUser(n, 0).password = 0
    BY <2>1, NewUserFacts
  <2> QED BY <2>2 DEF UserRow
<1> HIDE DEF e
<1>4. users'[u] = e /\ \A v \in Id \ {u} : users'[v] = users[v]
  BY <1>1, <1>2 DEF IInv, TypeOK
<1>5. TypeOK'
  BY <1>1, <1>2, <1>3 DEF IInv, TypeOK
<1>6. \A v \in Id, m \in Names : Claim(v, m)' => Claim(v, m) \/ (v = u /\ m = n)
  BY <1>1, <1>3, <1>4 DEF Claim
<1>7. Claimed' /\ OneLogin'
  BY <1>1, <1>5, <1>6, ClaimsKept
<1>8. CodesFresh'
  BY <1>1, CodesKept, AccountConstants DEF IInv, TypeOK, Code
<1>9. RowSourced(u)'
  BY <1>3, <1>4 DEF RowSourced, Sourced
<1> QED BY <1>1, <1>3, <1>4, <1>5, <1>7, <1>8, <1>9, Frame

(***************************************************************************)
(* save(user)                                                              *)
(***************************************************************************)
LEMMA LoadUserPreserves ==
    ASSUME IInv, NEW r \in Requests, LoadUser(r)
    PROVE  IInv'
<1>1. /\ req[r].pc = "load" /\ req[r] \in Request /\ Shape(req[r]) /\ CopySourced(req[r])
      /\ req[r].ent \in UserRow /\ Claim(req[r].id, req[r].ent.login)
  BY InHandFacts DEF LoadUser, Hand
<1> DEFINE row == users[req[r].id]
           cols == ColumnsToWrite(r)
           e == Merge(NoUser, req[r].ent, cols \cup {"login", "isBanned"})
           s == IF row = NoUser THEN [req[r] EXCEPT !.pc = "save"]
                ELSE [req[r] EXCEPT !.pc = "save", !.found = TRUE, !.cols = cols, !.ent = e]
<1>2. Step(r, s)
  BY DEF LoadUser
<1>3. /\ e \in UserRow /\ e.login = req[r].ent.login
      /\ e.password \in {0, req[r].ent.password}
      /\ e.confirmationCode \in {0, req[r].ent.confirmationCode}
      /\ e.passwordRecoveryCode \in {0, req[r].ent.passwordRecoveryCode}
  <2>1. NoUser \in UserRow /\ NoUser.password = 0 /\ NoUser.confirmationCode = 0
        /\ NoUser.passwordRecoveryCode = 0
    BY IdleFacts DEF NoUser
  <2> QED BY <1>1, <2>1, MergeFacts
<1>4. cols \subseteq Columns \cup {BanDate}
  BY DEF ColumnsToWrite, Differing
<1> HIDE DEF e, cols
<1>5. /\ s \in Request /\ s.pc = "save" /\ s.id = req[r].id /\ s.op = req[r].op
      /\ s.code = req[r].code /\ s.ent \in {req[r].ent, e}
  BY <1>1, <1>3, <1>4 DEF Request, RequestPC
<1> HIDE DEF s
<1>6. Shape(s)
  BY <1>1, <1>3, <1>5 DEF Shape, Hand
<1>7. Sourced(s.id, s.ent, s.op, s.code)
  <2>1. Sourced(req[r].id, req[r].ent, req[r].op, req[r].code)
    BY <1>1 DEF CopySourced, Hand
  <2>2. Sourced(req[r].id, e, req[r].op, req[r].code)
    BY <1>3, <2>1 DEF Sourced
  <2> QED BY <1>5, <2>1, <2>2
<1>8. CopySourced(s)
  BY <1>7 DEF CopySourced
<1> QED BY <1>1, <1>2, <1>3, <1>5, <1>6, <1>8, Moves DEF LoadUser

\* What a save leaves in the table.
LEMMA WrittenFacts ==
    ASSUME IInv, NEW r \in Requests, req[r].pc \in Hand
    PROVE  LET u == req[r].id
               row == Written(r)[u]
           IN /\ u \in Id
              /\ Written(r) \in [Id -> UserRow]
              /\ \A v \in Id \ {u} : Written(r)[v] = users[v]
              /\ row # NoUser => row.login = req[r].ent.login
              /\ Sourced(u, row, req[r].op, req[r].code)
<1> DEFINE u == req[r].id
           ent == req[r].ent
           row == Written(r)[u]
<1>1. /\ u \in Id /\ ent \in UserRow /\ users[u] \in UserRow
      /\ Present(u) => users[u].login = ent.login
  BY InHandFacts
<1>2. Sourced(u, ent, req[r].op, req[r].code) /\ Sourced(u, users[u], req[r].op, req[r].code)
  BY <1>1 DEF IInv, CopySourced, RowSourced, Sourced
<1>3. users \in [Id -> UserRow]
  BY DEF IInv, TypeOK
<1>4. CASE ~req[r].found
  <2>1. Written(r) = [users EXCEPT ![u] = ent]
    BY <1>4 DEF Written
  <2> QED BY <1>1, <1>2, <1>3, <2>1
<1>5. CASE req[r].found /\ Present(u)
  <2> DEFINE m == Merge(users[u], ent, req[r].cols)
  <2>1. Written(r) = [users EXCEPT ![u] = m]
    BY <1>5 DEF Written
  <2>2. /\ m \in UserRow /\ m.login \in {users[u].login, ent.login}
        /\ m.password \in {users[u].password, ent.password}
        /\ m.confirmationCode \in {users[u].confirmationCode, ent.confirmationCode}
        /\ m.passwordRecoveryCode \in {users[u].passwordRecoveryCode, ent.passwordRecoveryCode}
    BY <1>1, MergeFacts
  <2> HIDE DEF m
  <2>3. m.login = ent.login /\ ent.login = users[u].login
    BY <1>1, <1>5, <2>2
  <2>4. Sourced(u, m, req[r].op, req[r].code)
    BY <1>2, <2>2, <2>3 DEF Sourced
  <2> QED BY <1>1, <1>3, <2>1, <2>2, <2>3, <2>4
<1>6. CASE req[r].found /\ ~Present(u)
  <2>1. Written(r) = users
    BY <1>6 DEF Written
  <2> QED BY <1>1, <1>2, <1>3, <1>6, <2>1 DEF Present
<1> QED BY <1>4, <1>5, <1>6

\* A row is written and the request goes on to mail its code, or is done.
LEMMA Saves ==
    ASSUME IInv, NEW r \in Requests, req[r].pc \in Hand, users' = Written(r),
           \/ req[r].op \notin Mails /\ Stop(r)
           \/ req[r].op \in Mails /\ Mail(r, req[r].id, req[r].ent.login),
           UNCHANGED <<lastId, lastCode, mailed>>
    PROVE  IInv'
<1> PICK u, n, op, code : u = req[r].id /\ n = req[r].ent.login /\ op = req[r].op
                          /\ code = req[r].code
  OBVIOUS
<1> DEFINE mail == [IdleRequest EXCEPT !.pc = "mail", !.op = op, !.id = u,
                                       !.ent.login = n, !.code = code]
           s == IF op \in Mails THEN mail ELSE IdleRequest
<1>1. /\ u \in Id /\ n \in Names /\ op \in Operations /\ code \in Code
      /\ Claim(u, n) /\ (op \in Mails => code # 0)
  BY InHandFacts DEF Shape, Request
<1>2. Step(r, s)
  BY DEF Mail, Stop
<1>3. /\ mail \in Request /\ mail.pc = "mail" /\ mail.id = u /\ mail.op = op
      /\ mail.code = code /\ mail.ent.login = n
  <2>1. u \in 0..MaxId /\ "mail" \in RequestPC
    BY <1>1, AccountConstants DEF Id, RequestPC
  <2> QED BY <1>1, <2>1, IdleFacts DEF Request, UserRow
<1> HIDE DEF mail
<1>4. /\ s \in Request /\ s.pc \notin Hand /\ s.code \in {0, code}
      /\ op \in Mails => s = mail
      /\ s.id \in Id => s.id = u /\ s.ent.login = n
      /\ Shape(s)
  <2>1. CASE op \in Mails
    BY <1>1, <1>3, <2>1 DEF Shape, Hand
  <2>2. CASE op \notin Mails
    BY <2>2, IdleFacts DEF Hand, Id
  <2> QED BY <2>1, <2>2
<1> HIDE DEF s
<1>5. req'[r] = s /\ \A q \in Requests \ {r} : req'[q] = req[q]
  BY <1>2 DEF IInv, TypeOK, Step
<1>6. PICK row : /\ users'[u] = row /\ \A v \in Id \ {u} : users'[v] = users[v]
                 /\ row # NoUser => row.login = n
                 /\ Sourced(u, row, op, code)
                 /\ users' \in [Id -> UserRow]
  BY WrittenFacts
<1>7. TypeOK'
  BY <1>2, <1>4, <1>6 DEF IInv, TypeOK, Step
<1>8. \A v \in Id, m \in Names : Claim(v, m)' => Claim(v, m)
  <2>1. NoUser.login \notin Names
    BY AccountConstants DEF NoUser
  <2> QED BY <1>1, <1>4, <1>5, <1>6, <2>1 DEF Claim
<1>9. Claimed' /\ OneLogin'
  BY <1>7, <1>8, ClaimsKept
<1>10. CodesFresh'
  BY <1>4, <1>5, CodesKept, AccountConstants DEF IInv, TypeOK, Code
<1>11. \A q \in Requests : req[q].pc = "mail" => req'[q] = req[q]
  BY <1>5 DEF Hand
<1>12. Sourced(u, row, op, code)'
  BY <1>6, <1>11, SourcedStays
<1>13. row # NoUser => Sourced(u, row, "none", 0)'
  <2>1. op = "resend" => Known("confirmation", n, u, code)'
    BY <1>3, <1>4, <1>5 DEF Known, Letter, Mails
  <2>2. op = "recover" => Known("recovery", n, u, code)'
    BY <1>3, <1>4, <1>5 DEF Known, Letter, Mails
  <2> QED BY <1>6, <1>12, <2>1, <2>2 DEF Sourced
<1>14. Sourced(u, NoUser, "none", 0)'
  BY DEF Sourced, NoUser
<1>15. RowSourced(u)' /\ (Present(u)' => users'[u].login \in Names)
  BY <1>1, <1>6, <1>13, <1>14 DEF RowSourced, Present
<1>16. CopySourced(req[r])'
  BY <1>4, <1>5 DEF CopySourced
<1> QED BY <1>4, <1>5, <1>6, <1>7, <1>9, <1>10, <1>11, <1>15, <1>16, Frame

LEMMA SaveUserPreserves ==
    ASSUME IInv, NEW r \in Requests, SaveUser(r)
    PROVE  IInv'
<1>1. req[r].pc = "save" /\ UNCHANGED <<lastId, lastCode, mailed>>
  BY DEF SaveUser
<1>2. CASE DuplicateKey(r)
  BY <1>1, <1>2, Stops DEF SaveUser
<1>3. CASE ~DuplicateKey(r)
  BY <1>1, <1>3, Saves DEF SaveUser, Saved, Hand
<1> QED BY <1>2, <1>3

LEMMA CommitBanPreserves ==
    ASSUME IInv, NEW r \in Requests, CommitBan(r)
    PROVE  IInv'
<1>1. req[r].pc = "commit" /\ req[r].op = "ban"
  BY InHandFacts DEF CommitBan, Shape
<1> QED BY <1>1, Saves DEF CommitBan, Hand, Mails

LEMMA WriteBanPreserves ==
    ASSUME IInv, NEW r \in Requests, WriteBan(r)
    PROVE  IInv'
<1>1. /\ req[r].pc = "save" /\ req[r].op = "ban"
      /\ req[r] \in Request /\ Shape(req[r]) /\ CopySourced(req[r])
      /\ Claim(req[r].id, req[r].ent.login)
  BY InHandFacts DEF WriteBan, Hand
<1>2. CASE DuplicateKey(r)
  BY <1>1, <1>2, Stops DEF WriteBan
<1>3. CASE ~DuplicateKey(r)
  <2> DEFINE s == [req[r] EXCEPT !.pc = "commit", !.cols = BanColumns(r)]
  <2>1. BanColumns(r) \subseteq Columns \cup {BanDate}
    BY <1>1 DEF BanColumns, Request
  <2>2. /\ s \in Request /\ s.pc = "commit" /\ s.op = "ban" /\ s.id = req[r].id
        /\ s.ent = req[r].ent /\ s.code = req[r].code
    BY <1>1, <2>1 DEF Request, RequestPC
  <2>3. Step(r, s)
    BY <1>3 DEF WriteBan
  <2> HIDE DEF s
  <2>4. Shape(s) /\ CopySourced(s)
    BY <1>1, <2>2 DEF Shape, CopySourced, Hand
  <2> QED BY <1>1, <2>2, <2>3, <2>4, Moves DEF WriteBan
<1> QED BY <1>2, <1>3

LEMMA DeleteUserPreserves ==
    ASSUME IInv, NEW u \in Id, DeleteUser(u)
    PROVE  IInv'
<1>1. /\ users'[u] = NoUser /\ \A v \in Id \ {u} : users'[v] = users[v]
      /\ UNCHANGED <<lastId, lastCode, mailed, req>>
  BY DEF IInv, TypeOK, DeleteUser
<1>2. TypeOK'
  BY <1>1, IdleFacts DEF IInv, TypeOK, DeleteUser
<1>3. \A v \in Id, n \in Names : Claim(v, n)' => Claim(v, n)
  <2>1. NoUser.login \notin Names
    BY AccountConstants DEF NoUser
  <2> QED BY <1>1, <2>1 DEF Claim
<1>4. Claimed' /\ OneLogin'
  BY <1>1, <1>2, <1>3, ClaimsKept
<1>5. CodesFresh'
  BY <1>1, CodesKept, AccountConstants DEF IInv, TypeOK, Code
<1>6. RowSourced(u)' /\ ~Present(u)'
  BY <1>1 DEF RowSourced, Sourced, NoUser, Present
<1> QED BY <1>1, <1>2, <1>4, <1>5, <1>6, Frame

LEMMA SendMailPreserves ==
    ASSUME IInv, NEW r \in Requests, SendMail(r)
    PROVE  IInv'
<1> PICK letter : letter = Letter(req[r])
  OBVIOUS
<1>1. /\ req[r].pc = "mail" /\ req[r] \in Request /\ req[r].ent.login \in Names
      /\ req[r].code # 0 /\ req[r].code \in Code
  BY InHandFacts DEF SendMail, Shape, Request
<1>2. /\ mailed' = mailed \cup {letter} /\ Step(r, IdleRequest)
      /\ UNCHANGED <<users, lastId, lastCode>>
  BY DEF SendMail, Letter, Stop
<1>3. req'[r] = IdleRequest /\ \A q \in Requests \ {r} : req'[q] = req[q]
  BY <1>2 DEF IInv, TypeOK, Step
<1>4. letter \in Purpose \X Names \X (1..MaxCode) /\ letter[3] = req[r].code
  BY <1>1, AccountConstants DEF Letter, Purpose, Code
<1>5. TypeOK'
  BY <1>2, <1>4, IdleFacts DEF IInv, TypeOK, Step
<1>6. \A v \in Id, n \in Names : Claim(v, n)' => Claim(v, n)
  BY <1>2, <1>3, IdleFacts DEF Claim, Id
<1>7. Claimed' /\ OneLogin'
  BY <1>2, <1>5, <1>6, ClaimsKept
<1>8. CodesFresh'
  <2>1. \A q \in Requests \ {r} : req[q].code # 0 => req[q].code # req[r].code
    BY DEF IInv, CodesFresh
  <2>2. req'[r].code = 0
    BY <1>3, IdleFacts
  <2>3. lastCode \in Nat /\ req[r].code <= lastCode
    BY AccountConstants DEF IInv, TypeOK, Code, CodesFresh
  <2> QED BY <1>2, <1>3, <1>4, <2>1, <2>2, <2>3 DEF IInv, CodesFresh
<1>9. CopySourced(req[r])'
  BY <1>3, IdleFacts DEF CopySourced, Hand
<1> QED BY <1>2, <1>3, <1>5, <1>7, <1>8, <1>9, IdleFacts, Frame

LEMMA FailPreserves ==
    ASSUME IInv, NEW r \in Requests, Fail(r)
    PROVE  IInv'
BY Stops DEF Fail

(***************************************************************************)
(* The theorems about accounts                                             *)
(***************************************************************************)
LEMMA Initially == Init => IInv
<1> SUFFICES ASSUME Init PROVE IInv
  OBVIOUS
<1>1. TypeOK
  BY IdleFacts, AccountConstants DEF Init, TypeOK, Code
<1>2. NoUser.login = None /\ NoUser.confirmationCode = 0 /\ NoUser.passwordRecoveryCode = 0
      /\ NoUser.password = 0
  BY DEF NoUser
<1>3. Claimed /\ OneLogin /\ RowsNamed
  BY <1>2, IdleFacts, AccountConstants DEF Init, Claimed, OneLogin, RowsNamed, Claim, Id, Present
<1>4. CodesFresh
  BY IdleFacts DEF Init, CodesFresh
<1>5. \A u \in Id : RowSourced(u)
  BY <1>2 DEF Init, RowSourced, Sourced
<1> QED BY <1>1, <1>3, <1>4, <1>5, IdleFacts DEF IInv, Init

LEMMA NextPreserves ==
    ASSUME IInv, [Next]_vars
    PROVE  IInv'
<1>1. ASSUME NEW r \in Requests, RequestStep(r)
      PROVE  IInv'
  <2>1. ASSUME NEW n \in Names,
               Register(r, n) \/ ResendConfirmationCode(r, n) \/ PasswordRecovery(r, n)
        PROVE  IInv'
    BY <2>1, RegisterPreserves, ResendConfirmationCodePreserves, PasswordRecoveryPreserves
  <2>2. ASSUME NEW m \in mailed, ConfirmRegistration(r, m[3]) \/ NewPassword(r, m[3])
        PROVE  IInv'
    BY <2>2, ConfirmRegistrationPreserves, NewPasswordPreserves
  <2>3. ASSUME NEW u \in Id, NEW isBanned \in BOOLEAN, BanUnbanUser(r, u, isBanned)
        PROVE  IInv'
    BY <2>3, BanUnbanUserPreserves
  <2>4. CASE FindByEmail(r) \/ CreateUser(r) \/ LoadUser(r) \/ SaveUser(r)
    BY <2>4, FindByEmailPreserves, CreateUserPreserves, LoadUserPreserves, SaveUserPreserves
  <2>5. CASE SendMail(r) \/ WriteBan(r) \/ CommitBan(r) \/ Fail(r)
    BY <2>5, SendMailPreserves, WriteBanPreserves, CommitBanPreserves, FailPreserves
  <2> QED BY <1>1, <2>1, <2>2, <2>3, <2>4, <2>5 DEF RequestStep
<1>2. CASE UNCHANGED vars
  <2>1. TypeOK'
    BY <1>2 DEF IInv, TypeOK, vars
  <2>2. Claimed' /\ OneLogin' /\ CodesFresh'
    BY <1>2 DEF IInv, vars, Claimed, OneLogin, Claim, CodesFresh
  <2> QED BY <1>2, <2>1, <2>2, Frame DEF vars
<1> QED BY <1>1, <1>2, CreateUserByAdminPreserves, DeleteUserPreserves DEF Next

LEMMA Invariant == Spec => []IInv
BY Initially, NextPreserves, PTL DEF Spec

\* Every reachable state is well typed, however many requests overlap.
THEOREM TypeCorrect == Spec => []TypeOK
<1>1. IInv => TypeOK
  BY DEF IInv
<1> QED BY <1>1, Invariant, PTL

\* No code is in force that its owner cannot have: outside of the moment between save and
\* mail, the codes of every row were mailed to its address, each for its own purpose.
THEOREM CodesMailed == Spec => []CodesReachOwner
<1>1. IInv => CodesReachOwner
  <2> SUFFICES ASSUME IInv, NEW u \in Id, Mailing(u) = {}
               PROVE  /\ users[u].confirmationCode # 0 =>
                            <<"confirmation", users[u].login, users[u].confirmationCode>> \in mailed
                      /\ users[u].passwordRecoveryCode # 0 =>
                            <<"recovery", users[u].login, users[u].passwordRecoveryCode>> \in mailed
    BY DEF CodesReachOwner
  <2>1. RowSourced(u)
    BY DEF IInv
  <2> QED BY <2>1 DEF RowSourced, Sourced, Known, Mailing
<1> QED BY <1>1, Invariant, PTL

\* A password other than the first was set with a recovery code mailed to the account.
THEOREM PasswordsOwned == Spec => []PasswordFromOwner
<1>1. IInv => PasswordFromOwner
  BY DEF IInv, PasswordFromOwner, RowSourced, Sourced
<1> QED BY <1>1, Invariant, PTL

-----------------------------------------------------------------------------
(***************************************************************************)
(* History.  The variables of MCAccounts only watch: every behaviour of    *)
(* HSpec is one of Spec.  A user was either created by the administrator   *)
(* (confirmed, without a code) or registered (with a code, always): copies *)
(* of him agree on that (OneOrigin), so no stale copy confirms him without *)
(* a code having been presented.                                           *)
(***************************************************************************)
Presented(n) == \E c \in presented : <<"confirmation", n, c>> \in mailed

\* A copy shows that the user registered, or that the administrator created him.
ShowsCode(s) == s.ent.confirmationCode # 0 \/ (s.found /\ "isConfirmed" \in s.cols)
ShowsNoCode(s) == ~s.found /\ s.ent.confirmationCode = 0

Registered(u) ==
    \/ users[u].confirmationCode # 0
    \/ \E r \in InHand(u) : ShowsCode(req[r])
CreatedByAdmin(u) ==
    \/ Present(u) /\ users[u].confirmationCode = 0
    \/ \E r \in InHand(u) : ShowsNoCode(req[r])
OneOrigin == \A u \in Id : ~(Registered(u) /\ CreatedByAdmin(u))

WellConfirmed(e) ==
    IF e.confirmationCode = 0 THEN e.isConfirmed ELSE e.isConfirmed => Presented(e.login)
RowConfirmed(u) == Present(u) => WellConfirmed(users[u])
CopyConfirmed(s) ==
    s.pc \in Hand =>
        IF s.found THEN /\ s.ent.isConfirmed => Presented(s.ent.login)
                        /\ "confirmationCode" \in s.cols => s.ent.confirmationCode # 0
        ELSE WellConfirmed(s.ent)

CInv ==
    /\ OneOrigin
    /\ \A u \in Id : RowConfirmed(u)
    /\ \A r \in Requests : CopyConfirmed(req[r])

LEMMA HistoryWatches == [HNext]_<<vars, history>> => [Next]_vars
<1>1. CASE HNext
  <2>1. ASSUME NEW r \in Requests, HCommitBan(r) PROVE Next
    BY <2>1 DEF HCommitBan, Next, RequestStep
  <2>2. ASSUME NEW r \in Requests, NEW m \in mailed, HConfirm(r, m[3]) PROVE Next
    BY <2>2 DEF HConfirm, Next, RequestStep
  <2>3. ASSUME NEW u \in Id, HDelete(u) PROVE Next
    BY <2>3 DEF HDelete, Next
  <2>4. ASSUME NEW n \in Names, CreateUserByAdmin(n) PROVE Next
    BY <2>4 DEF Next
  <2>5. ASSUME NEW r \in Requests,
               \/ \E n \in Names : \/ Register(r, n) \/ ResendConfirmationCode(r, n)
                                   \/ PasswordRecovery(r, n)
               \/ \E m \in mailed : NewPassword(r, m[3])
               \/ \E u \in Id, isBanned \in BOOLEAN : BanUnbanUser(r, u, isBanned)
               \/ FindByEmail(r) \/ CreateUser(r) \/ LoadUser(r) \/ SaveUser(r)
               \/ SendMail(r) \/ WriteBan(r) \/ Fail(r)
        PROVE  Next
    BY <2>5 DEF Next, RequestStep
  <2> QED BY <1>1, <2>1, <2>2, <2>3, <2>4, <2>5 DEF HNext
<1> QED BY <1>1 DEF vars

LEMMA InHandIs == \A u \in Id : InHand(u) = {r \in Requests : req[r].id = u /\ req[r].pc \in Hand}
BY DEF InHand, Hand

\* What every step has to show of the rows and copies it changes.
LEMMA ConfirmFrame ==
    ASSUME IInv, CInv, presented \subseteq presented', mailed \subseteq mailed', OneOrigin',
           \A u \in Id : users'[u] = users[u] \/ RowConfirmed(u)',
           \A r \in Requests : req'[r] = req[r] \/ CopyConfirmed(req[r])'
    PROVE  CInv'
<1>1. \A n : Presented(n) => Presented(n)'
  BY DEF Presented
<1>2. \A u \in Id : RowConfirmed(u)'
  BY <1>1 DEF CInv, RowConfirmed, WellConfirmed, Present
<1>3. \A r \in Requests : CopyConfirmed(req[r])'
  BY <1>1 DEF CInv, CopyConfirmed, WellConfirmed
<1> QED BY <1>2, <1>3 DEF CInv

LEMMA OriginKept ==
    ASSUME CInv, NEW u \in Id, \A v \in Id \ {u} : users'[v] = users[v],
           \A r \in Requests : req'[r] = req[r] \/
               (req'[r].pc \in Hand =>
                   /\ ShowsCode(req'[r]) => Registered(req'[r].id)
                   /\ ShowsNoCode(req'[r]) => CreatedByAdmin(req'[r].id)),
           users'[u].confirmationCode # 0 => Registered(u),
           Present(u)' /\ users'[u].confirmationCode = 0 => CreatedByAdmin(u)
    PROVE  OneOrigin'
<1>1. \A v \in Id : Registered(v)' => Registered(v)
  BY DEF Registered, InHand, ShowsCode, Hand
<1>2. \A v \in Id : CreatedByAdmin(v)' => CreatedByAdmin(v)
  BY DEF CreatedByAdmin, InHand, ShowsNoCode, Hand, Present
<1> QED BY <1>1, <1>2 DEF CInv, OneOrigin

\* The table does not change.
LEMMA ConfirmMoves ==
    ASSUME IInv, CInv, NEW r \in Requests, NEW s, Step(r, s),
           UNCHANGED users, mailed \subseteq mailed', presented \subseteq presented',
           s.pc \in Hand =>
               /\ ShowsCode(s) => Registered(s.id)
               /\ ShowsNoCode(s) => CreatedByAdmin(s.id)
               /\ CopyConfirmed(s)'
    PROVE  CInv'
<1>1. req'[r] = s /\ \A q \in Requests \ {r} : req'[q] = req[q]
  BY DEF IInv, TypeOK, Step
<1>2. \A u \in Id : /\ users[u].confirmationCode # 0 => Registered(u)
                    /\ Present(u) /\ users[u].confirmationCode = 0 => CreatedByAdmin(u)
  BY DEF Registered, CreatedByAdmin
<1>3. OneOrigin'
  <2>1. PICK u : u \in Id
    BY AccountConstants DEF Id
  <2> QED BY <1>1, <1>2, <2>1, OriginKept DEF Present
<1>4. CopyConfirmed(req[r])'
  BY <1>1 DEF CopyConfirmed
<1> QED BY <1>1, <1>3, <1>4, ConfirmFrame

LEMMA ConfirmStops ==
    ASSUME IInv, CInv, NEW r \in Requests, Stop(r),
           UNCHANGED users, mailed \subseteq mailed', presented \subseteq presented'
    PROVE  CInv'
<1>1. IdleRequest.pc \notin Hand
  BY IdleFacts DEF Hand
<1> QED BY <1>1, ConfirmMoves DEF Stop

\* A changed copy of a row is taken in hand.
LEMMA ConfirmSave ==
    ASSUME IInv, CInv, NEW r \in Requests, NEW u \in Id, Present(u), NEW op, NEW code,
           NEW ent, Save(r, op, u, ent, code), UNCHANGED <<users, mailed>>,
           presented \subseteq presented',
           \/ ent.confirmationCode = users[u].confirmationCode
           \/ ent.confirmationCode # 0 /\ users[u].confirmationCode # 0,
           WellConfirmed(ent)'
    PROVE  CInv'
<1> DEFINE s == [IdleRequest EXCEPT !.pc = "load", !.op = op, !.id = u, !.ent = ent,
                                    !.code = code]
<1>1. Step(r, s)
  BY DEF Save
<1>2. s.pc = "load" /\ s.id = u /\ s.ent = ent /\ ~s.found
  BY DEF IdleRequest
<1> HIDE DEF s
<1>3. (ShowsCode(s) => Registered(u)) /\ (ShowsNoCode(s) => CreatedByAdmin(u))
  BY <1>2 DEF ShowsCode, ShowsNoCode, Registered, CreatedByAdmin
<1>4. CopyConfirmed(s)'
  BY <1>2 DEF CopyConfirmed
<1> QED BY <1>1, <1>2, <1>3, <1>4, ConfirmMoves

\* The code presented was mailed to the user it confirms.
LEMMA ConfirmRegistrationConfirms ==
    ASSUME IInv, CInv, NEW r \in Requests, NEW m \in mailed, HConfirm(r, m[3])
    PROVE  CInv'
<1>1. PICK u \in Id : /\ users[u].confirmationCode = m[3]
                      /\ Save(r, "confirm", u, [users[u] EXCEPT !.isConfirmed = TRUE], 0)
  BY DEF HConfirm, ConfirmRegistration
<1> PICK ent : ent = [users[u] EXCEPT !.isConfirmed = TRUE]
  OBVIOUS
<1>2. Present(u) /\ users[u] \in UserRow /\ RowSourced(u) /\ m[3] # 0
  BY <1>1, RowFacts, MailFacts
<1>3. Known("confirmation", users[u].login, u, m[3])
  BY <1>1, <1>2 DEF RowSourced, Sourced
<1>4. <<"confirmation", users[u].login, m[3]>> \in mailed
  BY <1>3, KnownFacts
<1>5. ent.login = users[u].login /\ ent.confirmationCode = m[3]
  BY <1>1, <1>2 DEF UserRow
<1>6. /\ presented' = presented \cup {m[3]} /\ UNCHANGED <<users, mailed>>
  BY DEF HConfirm, ConfirmRegistration
<1>7. WellConfirmed(ent)'
  BY <1>2, <1>4, <1>5, <1>6 DEF WellConfirmed, Presented
<1> QED BY <1>1, <1>2, <1>5, <1>6, <1>7, ConfirmSave

LEMMA ConfirmLoadUser ==
    ASSUME IInv, CInv, NEW r \in Requests, LoadUser(r), presented' = presented
    PROVE  CInv'
<1>1. /\ req[r].pc = "load" /\ req[r] \in Request /\ req[r].id \in Id
      /\ req[r].ent \in UserRow /\ CopyConfirmed(req[r])
      /\ users[req[r].id] \in UserRow
      /\ UNCHANGED <<users, mailed>>
  BY InHandFacts DEF CInv, LoadUser, Hand
<1> PICK u, ent, row, cols : /\ u = req[r].id /\ ent = req[r].ent /\ row = users[u]
                             /\ cols = ColumnsToWrite(r)
  OBVIOUS
<1> PICK e : e = Merge(NoUser, ent, cols \cup {"login", "isBanned"})
  OBVIOUS
<1> PICK s : s = IF row = NoUser THEN [req[r] EXCEPT !.pc = "save"]
                 ELSE [req[r] EXCEPT !.pc = "save", !.found = TRUE, !.cols = cols, !.ent = e]
  OBVIOUS
<1>2. Step(r, s)
  BY DEF LoadUser
<1>3. r \in InHand(u) /\ ~req[r].found
  BY <1>1, InHandFacts DEF InHand, Shape
<1>4. /\ ~(Registered(u) /\ CreatedByAdmin(u))
      /\ \A n : Presented(n) => Presented(n)'
  BY <1>1 DEF CInv, OneOrigin, Presented
<1>5. CASE row = NoUser
  <2>1. /\ s.pc = "save" /\ s.id = u /\ s.ent = ent /\ s.found = req[r].found
        /\ s.cols = req[r].cols
    BY <1>1, <1>5 DEF Request
  <2>2. (ShowsCode(s) => Registered(u)) /\ (ShowsNoCode(s) => CreatedByAdmin(u))
    BY <1>3, <2>1 DEF ShowsCode, ShowsNoCode, Registered, CreatedByAdmin
  <2>3. CopyConfirmed(s)'
    BY <1>1, <1>3, <1>4, <2>1 DEF CopyConfirmed, WellConfirmed, Hand
  <2> QED BY <1>1, <1>2, <2>1, <2>2, <2>3, ConfirmMoves
<1>6. CASE row # NoUser
  <2>1. s.pc = "save" /\ s.id = u /\ s.ent = e /\ s.found /\ s.cols = cols
    BY <1>1, <1>6 DEF Request
  <2>2. /\ e.login = ent.login
        /\ e.confirmationCode = IF "confirmationCode" \in cols THEN ent.confirmationCode ELSE 0
        /\ e.isConfirmed <=> "isConfirmed" \in cols /\ ent.isConfirmed
    <3>1. NoUser \in UserRow /\ NoUser.confirmationCode = 0 /\ NoUser.isConfirmed = FALSE
      BY IdleFacts DEF NoUser
    <3> DEFINE all == cols \cup {"login", "isBanned"}
    <3>2. /\ "login" \in all
          /\ "confirmationCode" \in all <=> "confirmationCode" \in cols
          /\ "isConfirmed" \in all <=> "isConfirmed" \in cols
      OBVIOUS
    <3>3. ent \in UserRow /\ e = Merge(NoUser, ent, all)
      BY <1>1
    <3> HIDE DEF all
    <3> QED BY <3>1, <3>2, <3>3, MergeFacts
  <2>3. /\ "confirmationCode" \in cols <=> ent.confirmationCode # row.confirmationCode
        /\ "isConfirmed" \in cols <=> ent.isConfirmed # row.isConfirmed
    BY <1>1 DEF ColumnsToWrite, Differing, Columns, BanDate, UserRow
  <2>4. RowConfirmed(u) /\ Present(u)
    BY <1>1, <1>6 DEF CInv, Present
  <2>5. CASE row.confirmationCode = 0
    <3>1. CreatedByAdmin(u)
      BY <2>4, <2>5 DEF CreatedByAdmin
    <3>2. ent.confirmationCode = 0
      BY <1>3, <1>4, <3>1 DEF Registered, ShowsCode
    <3>3. ent.isConfirmed /\ row.isConfirmed
      BY <1>1, <1>3, <2>4, <2>5, <3>2 DEF CopyConfirmed, RowConfirmed, WellConfirmed, Hand
    <3>4. e.confirmationCode = 0 /\ ~e.isConfirmed /\ cols \cap {"confirmationCode", "isConfirmed"} = {}
      BY <1>1, <2>2, <2>3, <2>5, <3>2, <3>3 DEF UserRow
    <3> QED BY <1>1, <1>2, <2>1, <3>4, ConfirmMoves DEF ShowsCode, ShowsNoCode, CopyConfirmed
  <2>6. CASE row.confirmationCode # 0
    <3>1. Registered(u)
      BY <2>6 DEF Registered
    <3>2. ent.confirmationCode # 0
      BY <1>3, <1>4, <3>1 DEF CreatedByAdmin, ShowsNoCode
    <3>3. ent.isConfirmed => Presented(ent.login)
      BY <1>1, <1>3, <3>2 DEF CopyConfirmed, WellConfirmed, Hand
    <3>4. /\ e.isConfirmed => Presented(e.login)
          /\ "confirmationCode" \in cols => e.confirmationCode # 0
      BY <2>2, <3>2, <3>3
    <3>5. CopyConfirmed(s)'
      BY <1>4, <2>1, <3>4 DEF CopyConfirmed
    <3> QED BY <1>1, <1>2, <2>1, <3>1, <3>5, ConfirmMoves DEF ShowsNoCode
  <2> QED BY <2>5, <2>6
<1> QED BY <1>5, <1>6

LEMMA ConfirmWriteBan ==
    ASSUME IInv, CInv, NEW r \in Requests, WriteBan(r), presented' = presented
    PROVE  CInv'
<1>1. /\ req[r].pc = "save" /\ req[r] \in Request /\ req[r].id \in Id
      /\ CopyConfirmed(req[r]) /\ UNCHANGED <<users, mailed>>
  BY InHandFacts DEF CInv, WriteBan, Hand
<1>2. CASE DuplicateKey(r)
  BY <1>1, <1>2, ConfirmStops DEF WriteBan
<1>3. CASE ~DuplicateKey(r)
  <2> PICK u, cols, s : /\ u = req[r].id /\ cols = BanColumns(r)
                        /\ s = [req[r] EXCEPT !.pc = "commit", !.cols = cols]
    OBVIOUS
  <2>1. Step(r, s)
    BY <1>3 DEF WriteBan
  <2>2. /\ s.pc = "commit" /\ s.id = u /\ s.ent = req[r].ent /\ s.found = req[r].found
        /\ s.cols \subseteq req[r].cols
    BY <1>1 DEF Request, BanColumns
  <2>3. r \in InHand(u)
    BY <1>1 DEF InHand
  <2>4. (ShowsCode(s) => Registered(u)) /\ (ShowsNoCode(s) => CreatedByAdmin(u))
    <3>1. ShowsCode(s) => ShowsCode(req[r])
      BY <2>2 DEF ShowsCode
    <3>2. ShowsNoCode(s) => ShowsNoCode(req[r])
      BY <2>2 DEF ShowsNoCode
    <3> QED BY <2>3, <3>1, <3>2 DEF Registered, CreatedByAdmin
  <2>5. CopyConfirmed(s)'
    BY <1>1, <2>2 DEF CopyConfirmed, WellConfirmed, Presented, Hand
  <2> QED BY <1>1, <2>1, <2>2, <2>4, <2>5, ConfirmMoves
<1> QED BY <1>2, <1>3

\* A saved row is of the kind of its user, and confirmed as the row or the copy was.
LEMMA ConfirmSaves ==
    ASSUME IInv, CInv, NEW r \in Requests, req[r].pc \in Hand, users' = Written(r),
           \E s : Step(r, s) /\ s.pc \notin Hand,
           UNCHANGED <<mailed, presented>>
    PROVE  CInv'
<1> PICK u, ent, row, cols : /\ u = req[r].id /\ ent = req[r].ent /\ row = users[u]
                             /\ cols = req[r].cols
  OBVIOUS
<1>1. req'[r].pc \notin Hand /\ \A q \in Requests \ {r} : req'[q] = req[q]
  BY DEF IInv, TypeOK, Step
<1>2. /\ u \in Id /\ ent \in UserRow /\ row \in UserRow
      /\ CopyConfirmed(req[r]) /\ RowConfirmed(u)
      /\ ~(Registered(u) /\ CreatedByAdmin(u))
      /\ users \in [Id -> UserRow] /\ r \in InHand(u)
  BY InHandFacts DEF CInv, OneOrigin, IInv, TypeOK, InHand, Hand
<1>3. /\ row.confirmationCode # 0 => Registered(u)
      /\ row # NoUser /\ row.confirmationCode = 0 => CreatedByAdmin(u)
      /\ ShowsCode(req[r]) => Registered(u)
      /\ ShowsNoCode(req[r]) => CreatedByAdmin(u)
  BY <1>2 DEF Registered, CreatedByAdmin, Present
<1>4. PICK new : /\ users'[u] = new /\ \A v \in Id \ {u} : users'[v] = users[v]
                 /\ new.confirmationCode # 0 => Registered(u)
                 /\ new # NoUser /\ new.confirmationCode = 0 => CreatedByAdmin(u)
                 /\ new # NoUser => WellConfirmed(new)
  <2>1. CASE ~req[r].found
    <3>1. users' = [users EXCEPT ![u] = ent]
      BY <2>1 DEF Written
    <3>2. WellConfirmed(ent)
      BY <1>2, <2>1 DEF CopyConfirmed
    <3> QED BY <1>2, <1>3, <2>1, <3>1, <3>2 DEF ShowsCode, ShowsNoCode
  <2>2. CASE req[r].found /\ row # NoUser
    <3> PICK m : m = Merge(row, ent, cols)
      OBVIOUS
    <3>1. users' = [users EXCEPT ![u] = m]
      BY <2>2 DEF Written, Present
    <3>2. /\ m.login = row.login \/ m.login = ent.login
          /\ m.confirmationCode = IF "confirmationCode" \in cols THEN ent.confirmationCode
                                  ELSE row.confirmationCode
          /\ m.isConfirmed <=> IF "isConfirmed" \in cols THEN ent.isConfirmed
                               ELSE row.isConfirmed
      BY <1>2, MergeFacts
    <3>3. row.login = ent.login /\ m.login = row.login
      BY <1>2, <2>2, <3>2, InHandFacts DEF Present
    <3>4. WellConfirmed(row)
      BY <1>2, <2>2 DEF RowConfirmed, Present
    <3>5. /\ ent.isConfirmed => Presented(ent.login)
          /\ "confirmationCode" \in cols => ent.confirmationCode # 0
      BY <1>2, <2>2 DEF CopyConfirmed
    <3>6. CASE row.confirmationCode = 0
      <4>1. "confirmationCode" \notin cols /\ "isConfirmed" \notin cols
        BY <1>2, <1>3, <2>2, <3>5, <3>6 DEF ShowsCode
      <4> QED BY <1>2, <1>3, <2>2, <3>1, <3>2, <3>4, <3>6, <4>1 DEF WellConfirmed
    <3>7. CASE row.confirmationCode # 0
      <4>1. m.confirmationCode # 0
        BY <3>2, <3>5, <3>7
      <4>2. WellConfirmed(m)
        BY <3>2, <3>3, <3>4, <3>5, <3>7, <4>1 DEF WellConfirmed
      <4> QED BY <1>2, <1>3, <3>1, <3>7, <4>1, <4>2
    <3> QED BY <3>6, <3>7
  <2>3. CASE req[r].found /\ row = NoUser
    <3>1. users' = users
      BY <2>3 DEF Written, Present
    <3> QED BY <1>2, <1>3, <2>3, <3>1
  <2> QED BY <2>1, <2>2, <2>3
<1>5. OneOrigin'
  BY <1>1, <1>2, <1>4, OriginKept DEF Present
<1>6. RowConfirmed(u)'
  BY <1>4 DEF RowConfirmed, WellConfirmed, Presented, Present
<1>7. CopyConfirmed(req[r])'
  BY <1>1 DEF CopyConfirmed
<1> QED BY <1>1, <1>4, <1>5, <1>6, <1>7, ConfirmFrame

LEMMA SavedFacts ==
    ASSUME NEW r \in Requests, Saved(r)
    PROVE  \E s : Step(r, s) /\ s.pc \notin Hand
<1>1. CASE Stop(r)
  BY <1>1, IdleFacts DEF Stop, Hand
<1>2. CASE Mail(r, req[r].id, req[r].ent.login)
  <2> PICK s : s = [IdleRequest EXCEPT !.pc = "mail", !.op = req[r].op, !.id = req[r].id,
                                       !.ent.login = req[r].ent.login, !.code = req[r].code]
    OBVIOUS
  <2>1. Step(r, s)
    BY <1>2 DEF Mail
  <2>2. s.pc \notin Hand
    BY DEF IdleRequest, Hand
  <2> QED BY <2>1, <2>2
<1> QED BY <1>1, <1>2 DEF Saved

LEMMA ConfirmSaveUser ==
    ASSUME IInv, CInv, NEW r \in Requests, SaveUser(r), presented' = presented
    PROVE  CInv'
<1>1. req[r].pc = "save" /\ UNCHANGED mailed
  BY DEF SaveUser
<1>2. CASE DuplicateKey(r)
  BY <1>1, <1>2, ConfirmStops DEF SaveUser
<1>3. CASE ~DuplicateKey(r)
  <2>1. users' = Written(r) /\ Saved(r)
    BY <1>3 DEF SaveUser
  <2>2. \E s : Step(r, s) /\ s.pc \notin Hand
    BY <2>1, SavedFacts
  <2> QED BY <1>1, <2>1, <2>2, ConfirmSaves DEF Hand
<1> QED BY <1>2, <1>3

LEMMA ConfirmCommitBan ==
    ASSUME IInv, CInv, NEW r \in Requests, CommitBan(r), presented' = presented
    PROVE  CInv'
<1>1. \E s : Step(r, s) /\ s.pc \notin Hand
  BY IdleFacts DEF CommitBan, Stop, Hand
<1> QED BY <1>1, ConfirmSaves DEF CommitBan, Hand

\* Nothing is in hand of an id that was not handed out.
LEMMA NewId ==
    ASSUME IInv, lastId < MaxId
    PROVE  /\ lastId + 1 \in Id /\ InHand(lastId + 1) = {}
           /\ users[lastId + 1] = NoUser
<1>1. lastId + 1 \in Id /\ lastId \in Nat
  BY AccountConstants DEF IInv, TypeOK, Id
<1>2. \A r \in Requests : req[r].pc \in Hand => req[r].id # lastId + 1
  BY <1>1, InHandFacts DEF Id
<1>3. ~Present(lastId + 1)
  BY <1>1 DEF IInv, RowsNamed, Claimed, Claim
<1> QED BY <1>1, <1>2, <1>3 DEF InHand, Hand, Present

\* The row of a new user shows how he came to be one.
LEMMA ConfirmNew ==
    ASSUME IInv, CInv, lastId < MaxId, NEW u, u = lastId + 1, NEW e,
           users' = [users EXCEPT ![u] = e],
           \A r \in Requests : req'[r] = req[r] \/ req'[r].pc \notin Hand,
           UNCHANGED <<mailed, presented>>, WellConfirmed(e)'
    PROVE  CInv'
<1>1. u \in Id /\ InHand(u) = {} /\ users[u] = NoUser
  BY NewId
<1>2. users'[u] = e /\ \A v \in Id \ {u} : users'[v] = users[v]
  BY <1>1 DEF IInv, TypeOK
<1>3. InHand(u)' = {}
  BY <1>1 DEF InHand, Hand
<1>4. OneOrigin'
  <2> SUFFICES ASSUME NEW v \in Id PROVE ~(Registered(v)' /\ CreatedByAdmin(v)')
    BY DEF OneOrigin
  <2>1. CASE v = u
    BY <1>3, <2>1 DEF Registered, CreatedByAdmin
  <2>2. CASE v # u
    <3>1. (Registered(v)' => Registered(v)) /\ (CreatedByAdmin(v)' => CreatedByAdmin(v))
      BY <1>2, <2>2 DEF Registered, CreatedByAdmin, InHand, ShowsCode, ShowsNoCode, Hand, Present
    <3> QED BY <3>1 DEF CInv, OneOrigin
  <2> QED BY <2>1, <2>2
<1>5. RowConfirmed(u)'
  BY <1>2 DEF RowConfirmed, WellConfirmed, Presented
<1> QED BY <1>2, <1>4, <1>5, ConfirmFrame DEF CopyConfirmed

LEMMA ConfirmCreateUser ==
    ASSUME IInv, CInv, NEW r \in Requests, CreateUser(r), presented' = presented
    PROVE  CInv'
<1> PICK e : e = req[r].ent
  OBVIOUS
<1>1. req[r].code # 0 /\ req[r].code \in Code /\ e = NewUser(e.login, req[r].code)
      /\ e.login \in Names
  BY InHandFacts DEF CreateUser, Shape, Request
<1>2. e.confirmationCode # 0 /\ ~e.isConfirmed
  BY <1>1, NewUserFacts
<1>3. WellConfirmed(e)'
  BY <1>2 DEF WellConfirmed
<1>4. \A q \in Requests : req'[q] = req[q] \/ req'[q].pc \notin Hand
  BY DEF CreateUser, Mail, Step, IdleRequest, IInv, TypeOK, Hand
<1> QED BY <1>3, <1>4, ConfirmNew DEF CreateUser

LEMMA ConfirmCreateUserByAdmin ==
    ASSUME IInv, CInv, NEW n \in Names, CreateUserByAdmin(n), presented' = presented
    PROVE  CInv'
<1> PICK e : e = [NewUser(n, 0) EXCEPT !.isConfirmed = TRUE]
  OBVIOUS
<1>1. e.confirmationCode = 0 /\ e.isConfirmed
  <2>1. 0 \in Code
    BY AccountConstants DEF Code
  <2>2. NewUser(n, 0) \in UserRow /\ NewUser(n, 0).confirmationCode = 0
    BY <2>1, NewUserFacts
  <2> QED BY <2>2 DEF UserRow
<1>2. WellConfirmed(e)'
  BY <1>1 DEF WellConfirmed
<1> QED BY <1>2, ConfirmNew DEF CreateUserByAdmin

LEMMA ConfirmDeleteUser ==
    ASSUME IInv, CInv, NEW u \in Id, DeleteUser(u), presented' = presented
    PROVE  CInv'
<1>1. /\ users'[u] = NoUser /\ \A v \in Id \ {u} : users'[v] = users[v]
      /\ UNCHANGED <<lastId, lastCode, mailed, req>>
  BY DEF IInv, TypeOK, DeleteUser
<1>2. NoUser.confirmationCode = 0
  BY DEF NoUser
<1>3. OneOrigin'
  BY <1>1, <1>2, OriginKept DEF Present
<1>4. RowConfirmed(u)'
  BY <1>1 DEF RowConfirmed, Present
<1> QED BY <1>1, <1>3, <1>4, ConfirmFrame

\* Copies that do not confirm anybody.
LEMMA ConfirmCopies ==
    ASSUME IInv, CInv, NEW r \in Requests, presented' = presented,
           \/ \E n \in Names : ResendConfirmationCode(r, n) \/ PasswordRecovery(r, n)
           \/ \E m \in mailed : NewPassword(r, m[3])
           \/ \E u \in Id, isBanned \in BOOLEAN : BanUnbanUser(r, u, isBanned)
    PROVE  CInv'
<1>1. UNCHANGED <<users, mailed>>
  BY DEF ResendConfirmationCode, PasswordRecovery, NewPassword, BanUnbanUser
<1>2. PICK u, ent, op, code :
          /\ u \in Id
          /\ Save(r, op, u, ent, code) /\ Present(u)
          /\ \/ /\ ent.confirmationCode = users[u].confirmationCode
                /\ ent.isConfirmed = users[u].isConfirmed /\ ent.login = users[u].login
             \/ ent.confirmationCode # 0 /\ ~ent.isConfirmed /\ ~users[u].isConfirmed
  <2>1. ASSUME NEW n \in Names, ResendConfirmationCode(r, n)
        PROVE  \E u \in Id : \E ent, op, code :
                  /\ Save(r, op, u, ent, code) /\ Present(u)
                  /\ ent.confirmationCode # 0 /\ ~ent.isConfirmed /\ ~users[u].isConfirmed
    <3>1. PICK u \in FindByLoginOrEmail(n) :
              /\ ~users[u].isConfirmed
              /\ Save(r, "resend", u, [users[u] EXCEPT !.confirmationCode = lastCode + 1,
                                                       !.isConfirmed = FALSE], lastCode + 1)
      BY <2>1 DEF ResendConfirmationCode
    <3> PICK ent : ent = [users[u] EXCEPT !.confirmationCode = lastCode + 1,
                                          !.isConfirmed = FALSE]
      OBVIOUS
    <3>2. u \in Id /\ users[u] \in UserRow /\ Present(u)
      BY RowFacts DEF FindByLoginOrEmail
    <3>3. ent.confirmationCode # 0 /\ ~ent.isConfirmed
      BY <2>1, <3>2, NextCodeFacts DEF ResendConfirmationCode, UserRow
    <3> QED BY <3>1, <3>2, <3>3
  <2>2. ASSUME NEW n \in Names, PasswordRecovery(r, n)
        PROVE  \E u \in Id : \E ent, op, code :
                  /\ Save(r, op, u, ent, code) /\ Present(u)
                  /\ ent.confirmationCode = users[u].confirmationCode
                  /\ ent.isConfirmed = users[u].isConfirmed /\ ent.login = users[u].login
    <3>1. PICK u \in FindByLoginOrEmail(n) :
              Save(r, "recover", u, [users[u] EXCEPT !.passwordRecoveryCode = lastCode + 1],
                   lastCode + 1)
      BY <2>2 DEF PasswordRecovery
    <3>2. u \in Id /\ users[u] \in UserRow /\ Present(u)
      BY RowFacts DEF FindByLoginOrEmail
    <3> QED BY <3>1, <3>2 DEF UserRow
  <2>3. ASSUME NEW m \in mailed, NewPassword(r, m[3])
        PROVE  \E u \in Id : \E ent, op, code :
                  /\ Save(r, op, u, ent, code) /\ Present(u)
                  /\ ent.confirmationCode = users[u].confirmationCode
                  /\ ent.isConfirmed = users[u].isConfirmed /\ ent.login = users[u].login
    <3>1. PICK u \in FindUserByRecoveryCode(m[3]) :
              Save(r, "newPassword", u, [users[u] EXCEPT !.password = m[3]], 0)
      BY <2>3 DEF NewPassword
    <3>2. u \in Id /\ users[u] \in UserRow /\ Present(u)
      BY RowFacts, MailFacts DEF FindUserByRecoveryCode
    <3> QED BY <3>1, <3>2 DEF UserRow
  <2>4. ASSUME NEW u \in Id, NEW isBanned \in BOOLEAN, BanUnbanUser(r, u, isBanned)
        PROVE  \E ent, op, code :
                  /\ Save(r, op, u, ent, code) /\ Present(u)
                  /\ ent.confirmationCode = users[u].confirmationCode
                  /\ ent.isConfirmed = users[u].isConfirmed /\ ent.login = users[u].login
    <3>1. users[u] \in UserRow
      BY RowFacts
    <3> QED BY <2>4, <3>1 DEF UserRow, BanUnbanUser
  <2> QED BY <2>1, <2>2, <2>3, <2>4
<1>3. RowConfirmed(u)
  BY <1>2 DEF CInv
<1>4. WellConfirmed(ent)'
  BY <1>1, <1>2, <1>3 DEF RowConfirmed, WellConfirmed, Presented
<1>5. \/ ent.confirmationCode = users[u].confirmationCode
      \/ ent.confirmationCode # 0 /\ users[u].confirmationCode # 0
  BY <1>2, <1>3 DEF RowConfirmed, WellConfirmed
<1> QED BY <1>1, <1>2, <1>4, <1>5, ConfirmSave

\* Requests that have no user in hand, and stay so.
LEMMA ConfirmOthers ==
    ASSUME IInv, CInv, NEW r \in Requests, presented' = presented,
           (\E n \in Names : Register(r, n)) \/ FindByEmail(r) \/ SendMail(r) \/ Fail(r)
    PROVE  CInv'
<1>1. UNCHANGED users /\ mailed \subseteq mailed'
  BY DEF Register, FindByEmail, SendMail, Fail
<1>2. CASE Stop(r)
  BY <1>1, <1>2, ConfirmStops
<1>3. CASE \E n \in Names : Register(r, n)
  <2>1. PICK n \in Names : Register(r, n)
    BY <1>3
  <2> PICK s : s = [IdleRequest EXCEPT !.pc = "findByEmail", !.op = "register",
                                       !.ent = NewUser(n, 0)]
    OBVIOUS
  <2>2. Step(r, s) /\ s.pc \notin Hand
    BY <2>1 DEF Register, IdleRequest, Hand
  <2> QED BY <1>1, <2>2, ConfirmMoves
<1>4. CASE FindByEmail(r) /\ ~Stop(r)
  <2> PICK s : s = [req[r] EXCEPT !.pc = "create", !.code = lastCode + 1,
                                  !.ent = NewUser(@.login, lastCode + 1)]
    OBVIOUS
  <2>1. Step(r, s)
    BY <1>4 DEF FindByEmail
  <2>2. req[r] \in Request
    BY DEF IInv, TypeOK
  <2>3. s.pc \notin Hand
    BY <2>2 DEF Request, Hand
  <2> QED BY <1>1, <2>1, <2>3, ConfirmMoves
<1> QED BY <1>2, <1>3, <1>4 DEF SendMail, Fail

LEMMA ConfirmInitially == HInit => CInv
<1> SUFFICES ASSUME HInit PROVE CInv
  OBVIOUS
<1>1. \A u \in Id : ~Present(u) /\ InHand(u) = {}
  BY IdleFacts DEF HInit, Init, Present, InHand
<1>2. OneOrigin
  <2>1. NoUser.confirmationCode = 0
    BY DEF NoUser
  <2> QED BY <1>1, <2>1 DEF HInit, Init, OneOrigin, Registered, CreatedByAdmin
<1>3. \A r \in Requests : CopyConfirmed(req[r])
  BY IdleFacts DEF HInit, Init, CopyConfirmed, Hand
<1> QED BY <1>1, <1>2, <1>3 DEF CInv, RowConfirmed

LEMMA ConfirmNext ==
    ASSUME IInv, CInv, [HNext]_<<vars, history>>
    PROVE  CInv'
<1>1. ASSUME NEW r \in Requests, HCommitBan(r) PROVE CInv'
  BY <1>1, ConfirmCommitBan DEF HCommitBan
<1>2. ASSUME NEW u \in Id, HDelete(u) PROVE CInv'
  BY <1>2, ConfirmDeleteUser DEF HDelete
<1>3. ASSUME NEW n \in Names, CreateUserByAdmin(n), UNCHANGED history PROVE CInv'
  BY <1>3, ConfirmCreateUserByAdmin DEF history
<1>4. ASSUME NEW r \in Requests, UNCHANGED history,
             \/ \E n \in Names : \/ Register(r, n) \/ ResendConfirmationCode(r, n)
                                 \/ PasswordRecovery(r, n)
             \/ \E m \in mailed : NewPassword(r, m[3])
             \/ \E u \in Id, isBanned \in BOOLEAN : BanUnbanUser(r, u, isBanned)
             \/ FindByEmail(r) \/ CreateUser(r) \/ LoadUser(r) \/ SaveUser(r)
             \/ SendMail(r) \/ WriteBan(r) \/ Fail(r)
      PROVE  CInv'
  <2>1. presented' = presented
    BY <1>4 DEF history
  <2> QED BY <1>4, <2>1, ConfirmOthers, ConfirmCopies, ConfirmCreateUser, ConfirmLoadUser,
             ConfirmSaveUser, ConfirmWriteBan
<1>5. CASE UNCHANGED <<vars, history>>
  <2>1. OneOrigin'
    BY <1>5 DEF CInv, OneOrigin, Registered, CreatedByAdmin, InHand, ShowsCode, ShowsNoCode,
                Present, vars
  <2> QED BY <1>5, <2>1, ConfirmFrame DEF vars, history
<1> QED BY <1>1, <1>2, <1>3, <1>4, <1>5, ConfirmRegistrationConfirms DEF HNext

\* Nobody who registered is confirmed without a code mailed to him having been presented,
\* whichever stale copies of his row were saved.
THEOREM ConfirmationEarned == HSpec => []ConfirmedByOwner
<1>1. IInv /\ CInv => ConfirmedByOwner
  <2> SUFFICES ASSUME CInv, NEW u \in Id \ ByAdmin, users[u].isConfirmed
               PROVE  \E c \in presented : <<"confirmation", users[u].login, c>> \in mailed
    BY DEF ConfirmedByOwner
  <2>1. ~NoUser.isConfirmed
    BY DEF NoUser
  <2> QED BY <2>1 DEF CInv, RowConfirmed, WellConfirmed, Presented, ByAdmin, Present
<1>2. HInit => IInv /\ CInv
  BY Initially, ConfirmInitially DEF HInit
<1>3. IInv /\ CInv /\ [HNext]_<<vars, history>> => IInv' /\ CInv'
  BY HistoryWatches, NextPreserves, ConfirmNext
<1> QED BY <1>1, <1>2, <1>3, PTL DEF HSpec

(***************************************************************************)
(* Bans.  As long as nobody who had read the user before the last command  *)
(* is still to save him (raced), all copies of him that may be written     *)
(* agree with his row on isBanned, and the row with the command.           *)
(***************************************************************************)
Agrees(s) ==
    LET isBanned == users[s.id].isBanned IN
    IF s.op = "ban" THEN s.pc # "load" /\ "isBanned" \notin s.cols => s.ent.isBanned = isBanned
    ELSE IF s.pc = "load" THEN s.ent.isBanned = isBanned
    ELSE "isBanned" \notin s.cols

Steady(u) ==
    u \notin torn =>
        /\ ~Present(u) => InHand(u) = {}
        /\ \A r \in InHand(u) : req[r].pc # "load" => req[r].found
        /\ Present(u) /\ ban[u].raced = {} =>
              /\ users[u].isBanned = ban[u].isBanned
              /\ \A r \in InHand(u) : Agrees(req[r])

HistoryTyped ==
    /\ ban \in [Id -> [isBanned: BOOLEAN, raced: SUBSET Requests]]
    /\ \A u \in Id : u > lastId => ban[u] = NotBanned

BInv == HistoryTyped /\ \A u \in Id : Steady(u)

\* What a step has to show when it leaves the history, and all but the rows, alone.
LEMMA BanFrame ==
    ASSUME IInv, BInv, HistoryTyped', torn \subseteq torn', NEW u \in Id, Steady(u)',
           \A v \in Id \ {u} : users'[v] = users[v] /\ ban'[v] = ban[v],
           \A r \in Requests : req'[r] = req[r] \/ req'[r].pc \notin Hand
    PROVE  BInv'
<1> SUFFICES ASSUME NEW v \in Id \ {u} PROVE Steady(v)'
  BY DEF BInv
<1>1. Steady(v) /\ users'[v] = users[v] /\ ban'[v] = ban[v]
  BY DEF BInv
<1>2. \A r \in InHand(v)' : r \in InHand(v) /\ req'[r] = req[r] /\ req[r].id = v
  BY DEF InHand, Hand
<1> QED BY <1>1, <1>2 DEF Steady, Agrees, Present

\* The tables and the history do not change.
LEMMA BanMoves ==
    ASSUME IInv, BInv, NEW r \in Requests, NEW s, Step(r, s),
           UNCHANGED <<users, lastId, ban, torn>>,
           s.pc \in Hand /\ s.id \notin torn =>
               /\ Present(s.id) /\ (s.pc # "load" => s.found)
               /\ ban[s.id].raced = {} => Agrees(s)
    PROVE  BInv'
<1>1. req'[r] = s /\ \A q \in Requests \ {r} : req'[q] = req[q]
  BY DEF IInv, TypeOK, Step
<1>2. HistoryTyped'
  BY DEF BInv, HistoryTyped
<1> SUFFICES ASSUME NEW v \in Id, v \notin torn PROVE Steady(v)'
  BY <1>2 DEF BInv, Steady
<1>3. Steady(v) /\ users'[v] = users[v] /\ ban'[v] = ban[v]
  BY DEF BInv
<1>4. \A q \in InHand(v)' : \/ q \in InHand(v) /\ req'[q] = req[q]
                            \/ q = r /\ s.pc \in Hand /\ s.id = v /\ req'[q] = s
  BY <1>1 DEF InHand, Hand
<1>5. ~Present(v) => InHand(v)' = {}
  BY <1>3, <1>4 DEF Steady
<1>6. \A q \in InHand(v)' : req'[q].pc # "load" => req'[q].found
  BY <1>3, <1>4 DEF Steady
<1>7. ASSUME Present(v), ban[v].raced = {}, NEW q \in InHand(v)'
      PROVE  Agrees(req[q])'
  BY <1>3, <1>4, <1>7 DEF Steady, Agrees
<1> QED BY <1>3, <1>5, <1>6, <1>7 DEF Steady, Present

LEMMA BanStops ==
    ASSUME IInv, BInv, NEW r \in Requests, Stop(r), UNCHANGED <<users, lastId, ban, torn>>
    PROVE  BInv'
<1>1. IdleRequest.pc \notin Hand
  BY IdleFacts DEF Hand
<1> QED BY <1>1, BanMoves DEF Stop

\* A request that is no ban takes isBanned from the row it read.
LEMMA BanSave ==
    ASSUME IInv, BInv, NEW r \in Requests, NEW u \in Id, Present(u), NEW op, NEW code,
           NEW ent, Save(r, op, u, ent, code), UNCHANGED <<users, lastId, ban, torn>>,
           op # "ban" => ent.isBanned = users[u].isBanned
    PROVE  BInv'
<1> DEFINE s == [IdleRequest EXCEPT !.pc = "load", !.op = op, !.id = u, !.ent = ent,
                                    !.code = code]
<1>1. Step(r, s)
  BY DEF Save
<1>2. s.pc = "load" /\ s.id = u /\ s.ent = ent /\ s.op = op
  BY DEF IdleRequest
<1> HIDE DEF s
<1>3. Agrees(s)
  BY <1>2 DEF Agrees
<1> QED BY <1>1, <1>2, <1>3, BanMoves

LEMMA BanCopies ==
    ASSUME IInv, BInv, NEW r \in Requests, UNCHANGED <<ban, torn>>,
           \/ \E n \in Names : ResendConfirmationCode(r, n) \/ PasswordRecovery(r, n)
           \/ \E m \in mailed : ConfirmRegistration(r, m[3]) \/ NewPassword(r, m[3])
           \/ \E u \in Id, isBanned \in BOOLEAN : BanUnbanUser(r, u, isBanned)
    PROVE  BInv'
<1>1. UNCHANGED <<users, lastId>>
  BY DEF ResendConfirmationCode, PasswordRecovery, ConfirmRegistration, NewPassword,
         BanUnbanUser
<1>2. PICK u, ent, op, code :
          /\ u \in Id
          /\ Save(r, op, u, ent, code) /\ Present(u)
          /\ op # "ban" => ent.isBanned = users[u].isBanned
  <2>1. ASSUME NEW n \in Names, ResendConfirmationCode(r, n)
        PROVE  \E u \in Id : \E ent, op, code :
                  Save(r, op, u, ent, code) /\ Present(u) /\ ent.isBanned = users[u].isBanned
    <3>1. PICK u \in FindByLoginOrEmail(n) :
              Save(r, "resend", u, [users[u] EXCEPT !.confirmationCode = lastCode + 1,
                                                    !.isConfirmed = FALSE], lastCode + 1)
      BY <2>1 DEF ResendConfirmationCode
    <3> PICK ent : ent = [users[u] EXCEPT !.confirmationCode = lastCode + 1,
                                          !.isConfirmed = FALSE]
      OBVIOUS
    <3>2. u \in Id /\ users[u] \in UserRow /\ Present(u)
      BY RowFacts DEF FindByLoginOrEmail
    <3>3. ent.isBanned = users[u].isBanned
      BY <3>2 DEF UserRow
    <3> QED BY <3>1, <3>2, <3>3
  <2>2. ASSUME NEW n \in Names, PasswordRecovery(r, n)
        PROVE  \E u \in Id : \E ent, op, code :
                  Save(r, op, u, ent, code) /\ Present(u) /\ ent.isBanned = users[u].isBanned
    <3>1. PICK u \in FindByLoginOrEmail(n) :
              Save(r, "recover", u, [users[u] EXCEPT !.passwordRecoveryCode = lastCode + 1],
                   lastCode + 1)
      BY <2>2 DEF PasswordRecovery
    <3>2. u \in Id /\ users[u] \in UserRow /\ Present(u)
      BY RowFacts DEF FindByLoginOrEmail
    <3> QED BY <3>1, <3>2 DEF UserRow
  <2>3. ASSUME NEW m \in mailed, NewPassword(r, m[3])
        PROVE  \E u \in Id : \E ent, op, code :
                  Save(r, op, u, ent, code) /\ Present(u) /\ ent.isBanned = users[u].isBanned
    <3>1. PICK u \in FindUserByRecoveryCode(m[3]) :
              Save(r, "newPassword", u, [users[u] EXCEPT !.password = m[3]], 0)
      BY <2>3 DEF NewPassword
    <3>2. u \in Id /\ users[u] \in UserRow /\ Present(u)
      BY RowFacts, MailFacts DEF FindUserByRecoveryCode
    <3> QED BY <3>1, <3>2 DEF UserRow
  <2>4. ASSUME NEW m \in mailed, ConfirmRegistration(r, m[3])
        PROVE  \E u \in Id : \E ent, op, code :
                  Save(r, op, u, ent, code) /\ Present(u) /\ ent.isBanned = users[u].isBanned
    <3>1. PICK u \in Id : /\ users[u].confirmationCode = m[3]
                          /\ Save(r, "confirm", u, [users[u] EXCEPT !.isConfirmed = TRUE], 0)
      BY <2>4 DEF ConfirmRegistration
    <3>2. users[u] \in UserRow /\ Present(u)
      BY <3>1, RowFacts, MailFacts
    <3> QED BY <3>1, <3>2 DEF UserRow
  <2>5. ASSUME NEW u \in Id, NEW isBanned \in BOOLEAN, BanUnbanUser(r, u, isBanned)
        PROVE  \E ent, code : Save(r, "ban", u, ent, code) /\ Present(u)
    BY <2>5 DEF BanUnbanUser
  <2> QED BY <2>1, <2>2, <2>3, <2>4, <2>5
<1> QED BY <1>1, <1>2, BanSave

\* save() reads the row: what was taken from it does not differ.
LEMMA BanLoadUser ==
    ASSUME IInv, BInv, NEW r \in Requests, LoadUser(r), UNCHANGED <<ban, torn>>
    PROVE  BInv'
<1>1. /\ req[r].pc = "load" /\ req[r] \in Request /\ req[r].id \in Id
      /\ req[r].ent \in UserRow /\ users[req[r].id] \in UserRow
      /\ UNCHANGED <<users, lastId>>
  BY InHandFacts DEF LoadUser, Hand
<1> PICK u, ent, row, cols : /\ u = req[r].id /\ ent = req[r].ent /\ row = users[u]
                             /\ cols = ColumnsToWrite(r)
  OBVIOUS
<1> PICK e : e = Merge(NoUser, ent, cols \cup {"login", "isBanned"})
  OBVIOUS
<1> PICK s : s = IF row = NoUser THEN [req[r] EXCEPT !.pc = "save"]
                 ELSE [req[r] EXCEPT !.pc = "save", !.found = TRUE, !.cols = cols, !.ent = e]
  OBVIOUS
<1>2. Step(r, s)
  BY DEF LoadUser
<1>3. r \in InHand(u) /\ Steady(u)
  BY <1>1 DEF InHand, BInv
<1>4. s.id = u
  BY <1>1 DEF Request
<1> SUFFICES ASSUME u \notin torn
             PROVE  /\ Present(u) /\ s.found
                    /\ ban[u].raced = {} => Agrees(s)
  BY <1>1, <1>2, <1>4, BanMoves
<1>5. Present(u)
  BY <1>3 DEF Steady
<1>6. s.pc = "save" /\ s.ent = e /\ s.found /\ s.cols = cols /\ s.op = req[r].op
  BY <1>1, <1>5 DEF Request, Present
<1>7. e.isBanned = ent.isBanned
  BY <1>1, IdleFacts, MergeFacts
<1>8. "isBanned" \in cols <=> ent.isBanned # row.isBanned
  BY DEF ColumnsToWrite, Differing, Columns, BanDate
<1>9. ASSUME ban[u].raced = {} PROVE Agrees(s)
  <2>1. Agrees(req[r])
    BY <1>3, <1>5, <1>9 DEF Steady
  <2> QED BY <1>1, <1>4, <1>6, <1>7, <1>8, <2>1 DEF Agrees
<1> QED BY <1>5, <1>6, <1>9

LEMMA BanWriteBan ==
    ASSUME IInv, BInv, NEW r \in Requests, WriteBan(r), UNCHANGED <<ban, torn>>
    PROVE  BInv'
<1>1. /\ req[r].pc = "save" /\ req[r].op = "ban" /\ req[r] \in Request /\ req[r].id \in Id
      /\ UNCHANGED <<users, lastId>>
  BY InHandFacts DEF WriteBan, Hand
<1>2. CASE DuplicateKey(r)
  BY <1>1, <1>2, BanStops DEF WriteBan
<1>3. CASE ~DuplicateKey(r)
  <2> PICK u, cols, s : /\ u = req[r].id /\ cols = BanColumns(r)
                        /\ s = [req[r] EXCEPT !.pc = "commit", !.cols = cols]
    OBVIOUS
  <2>1. Step(r, s)
    BY <1>3 DEF WriteBan
  <2>2. /\ s.pc = "commit" /\ s.op = "ban" /\ s.id = u /\ s.ent = req[r].ent
        /\ s.found = req[r].found /\ s.cols = cols
    BY <1>1 DEF Request
  <2>3. r \in InHand(u) /\ Steady(u)
    BY <1>1 DEF InHand, BInv
  <2>4. ASSUME u \notin torn
        PROVE  /\ Present(u) /\ s.found
               /\ ban[u].raced = {} => Agrees(s)
    <3>1. Present(u) /\ req[r].found
      BY <1>1, <2>3, <2>4 DEF Steady
    <3>2. req[r].cols \subseteq cols
      BY <3>1 DEF BanColumns
    <3>3. ban[u].raced = {} => Agrees(req[r])
      BY <2>3, <2>4, <3>1 DEF Steady
    <3> QED BY <1>1, <2>2, <3>1, <3>2, <3>3 DEF Agrees
  <2> QED BY <1>1, <2>1, <2>2, <2>4, BanMoves
<1> QED BY <1>2, <1>3

\* The row that a request writes, when its user was not deleted under it.
LEMMA WrittenRow ==
    ASSUME IInv, BInv, NEW r \in Requests, req[r].pc \in Hand, req[r].pc # "load",
           NEW u, u = req[r].id, u \notin torn, users' = Written(r)
    PROVE  /\ Present(u) /\ Present(u)'
           /\ users'[u].isBanned = IF "isBanned" \in req[r].cols THEN req[r].ent.isBanned
                                   ELSE users[u].isBanned
           /\ ban[u].raced = {} => Agrees(req[r])
<1> PICK ent, row, cols : ent = req[r].ent /\ row = users[u] /\ cols = req[r].cols
  OBVIOUS
<1>1. /\ u \in Id /\ ent \in UserRow /\ row \in UserRow /\ ent.login \in Names
      /\ users \in [Id -> UserRow]
  BY InHandFacts DEF IInv, TypeOK
<1>2. r \in InHand(u) /\ Steady(u)
  BY <1>1 DEF InHand, Hand, BInv
<1>3. Present(u) /\ req[r].found /\ (ban[u].raced = {} => Agrees(req[r]))
  BY <1>2 DEF Steady
<1> PICK m : m = Merge(row, ent, cols)
  OBVIOUS
<1>4. users' = [users EXCEPT ![u] = m]
  BY <1>3 DEF Written
<1>5. /\ m.login = row.login \/ m.login = ent.login
      /\ m.isBanned = IF "isBanned" \in cols THEN ent.isBanned ELSE row.isBanned
  BY <1>1, MergeFacts
<1>6. row.login = ent.login
  BY <1>3, InHandFacts
<1>7. m # NoUser
  BY <1>1, <1>5, <1>6, AccountConstants DEF NoUser
<1> QED BY <1>1, <1>3, <1>4, <1>5, <1>7 DEF Present

\* A request that is no ban leaves isBanned as it is, if nobody raced.
LEMMA BanSaveUser ==
    ASSUME IInv, BInv, NEW r \in Requests, SaveUser(r), UNCHANGED <<ban, torn>>
    PROVE  BInv'
<1>1. req[r].pc = "save" /\ req[r].op # "ban" /\ UNCHANGED lastId
  BY DEF SaveUser
<1>2. CASE DuplicateKey(r)
  BY <1>1, <1>2, BanStops DEF SaveUser
<1>3. CASE ~DuplicateKey(r)
  <2>1. users' = Written(r) /\ Saved(r)
    BY <1>3 DEF SaveUser
  <2>2. req'[r].pc \notin Hand /\ \A q \in Requests \ {r} : req'[q] = req[q]
    <3>1. PICK s : Step(r, s) /\ s.pc \notin Hand
      BY <2>1, SavedFacts
    <3> QED BY <3>1 DEF Step, IInv, TypeOK
  <2> PICK u : u = req[r].id
    OBVIOUS
  <2>3. /\ u \in Id /\ \A v \in Id \ {u} : users'[v] = users[v]
    BY <1>1, <2>1, InHandFacts DEF Written, IInv, TypeOK, Hand
  <2>4. HistoryTyped'
    BY <1>1 DEF BInv, HistoryTyped
  <2>5. \A q \in InHand(u)' : q \in InHand(u) /\ req'[q] = req[q] /\ req[q].id = u
    BY <2>2 DEF InHand, Hand
  <2>6. ASSUME u \notin torn PROVE Steady(u)'
    <3>1. /\ Present(u) /\ Present(u)'
          /\ ban[u].raced = {} => users'[u].isBanned = users[u].isBanned
      BY <1>1, <2>1, <2>6, WrittenRow DEF Agrees, Hand
    <3>2. Steady(u)
      BY <2>3 DEF BInv
    <3> QED BY <2>5, <2>6, <3>1, <3>2 DEF Steady, Agrees
  <2>7. Steady(u)'
    BY <2>6 DEF Steady
  <2> QED BY <2>2, <2>3, <2>4, <2>7, BanFrame
<1> QED BY <1>2, <1>3

\* After a ban or unban the row says what it says, and who else has the user in hand raced.
LEMMA BanCommitBan ==
    ASSUME IInv, BInv, NEW r \in Requests, HCommitBan(r)
    PROVE  BInv'
<1> PICK u, raced : /\ u = req[r].id
                    /\ raced = (IF users'[u].isBanned = req[r].ent.isBanned THEN {}
                                ELSE ban[u].raced)
                               \cup (InHand(u) \ {r})
  OBVIOUS
<1>1. /\ req[r].pc = "commit" /\ users' = Written(r) /\ UNCHANGED <<torn, lastId>>
      /\ ban' = [ban EXCEPT ![u] = [isBanned |-> req[r].ent.isBanned, raced |-> raced]]
  BY DEF HCommitBan, CommitBan
<1>2. /\ u \in Id /\ req[r].ent \in UserRow /\ u <= lastId /\ req[r].op = "ban"
  BY <1>1, InHandFacts DEF Shape, Hand
<1>3. req'[r].pc \notin Hand /\ \A q \in Requests \ {r} : req'[q] = req[q]
  BY IdleFacts DEF HCommitBan, CommitBan, Stop, Step, IInv, TypeOK, Hand
<1>4. /\ \A v \in Id \ {u} : users'[v] = users[v] /\ ban'[v] = ban[v]
      /\ ban'[u] = [isBanned |-> req[r].ent.isBanned, raced |-> raced]
  BY <1>1, <1>2 DEF Written, IInv, TypeOK, BInv, HistoryTyped
<1>5. HistoryTyped'
  <2>1. raced \in SUBSET Requests /\ req[r].ent.isBanned \in BOOLEAN
    BY <1>2 DEF BInv, HistoryTyped, InHand, UserRow
  <2>2. lastId \in Nat /\ \A v \in Id : v \in Nat
    BY DEF IInv, TypeOK, Id
  <2> QED BY <1>1, <1>2, <2>1, <2>2 DEF BInv, HistoryTyped
<1>6. \A q \in InHand(u)' : q \in InHand(u) \ {r} /\ req'[q] = req[q]
  BY <1>3 DEF InHand, Hand
<1>7. ASSUME u \notin torn PROVE Steady(u)'
  <2>1. /\ Present(u) /\ Present(u)'
        /\ users'[u].isBanned = IF "isBanned" \in req[r].cols THEN req[r].ent.isBanned
                                ELSE users[u].isBanned
        /\ ban[u].raced = {} => Agrees(req[r])
    BY <1>1, <1>7, WrittenRow DEF Hand
  <2>2. Steady(u)
    BY <1>2 DEF BInv
  <2>3. raced = {} => /\ InHand(u)' = {}
                      /\ users'[u].isBanned = req[r].ent.isBanned
    BY <1>1, <1>2, <1>6, <2>1 DEF Agrees
  <2> QED BY <1>4, <1>6, <1>7, <2>1, <2>2, <2>3 DEF Steady
<1>8. Steady(u)'
  BY <1>1, <1>7 DEF Steady
<1> QED BY <1>1, <1>2, <1>3, <1>4, <1>5, <1>8, BanFrame

LEMMA BanNew ==
    ASSUME IInv, BInv, lastId < MaxId, lastId' = lastId + 1, NEW e,
           e.isBanned = FALSE, users' = [users EXCEPT ![lastId + 1] = e],
           \A r \in Requests : req'[r] = req[r] \/ req'[r].pc \notin Hand,
           e # NoUser, UNCHANGED <<ban, torn>>
    PROVE  BInv'
<1> PICK u : u = lastId + 1
  OBVIOUS
<1>1. u \in Id /\ InHand(u) = {} /\ users[u] = NoUser
  BY NewId
<1>2. users'[u] = e /\ \A v \in Id \ {u} : users'[v] = users[v]
  BY <1>1 DEF IInv, TypeOK
<1>3. InHand(u)' = {}
  BY <1>1 DEF InHand, Hand
<1>4. lastId \in Nat
  BY DEF IInv, TypeOK
<1>5. HistoryTyped' /\ ban'[u] = NotBanned
  BY <1>1, <1>4 DEF BInv, HistoryTyped, Id
<1>6. Steady(u)'
  <2>1. ban'[u].isBanned = FALSE
    BY <1>5 DEF NotBanned
  <2>2. Present(u)' /\ users'[u].isBanned = FALSE
    BY <1>2 DEF Present
  <2> QED BY <1>3, <2>1, <2>2 DEF Steady
<1> QED BY <1>1, <1>2, <1>5, <1>6, BanFrame

LEMMA BanCreateUser ==
    ASSUME IInv, BInv, NEW r \in Requests, CreateUser(r), UNCHANGED <<ban, torn>>
    PROVE  BInv'
<1> PICK e : e = req[r].ent
  OBVIOUS
<1>1. req[r].code \in Code /\ e = NewUser(e.login, req[r].code) /\ e.login \in Names
  BY InHandFacts DEF CreateUser, Shape, Request
<1>2. e.isBanned = FALSE /\ e # NoUser
  <2> PICK n, c : n = e.login /\ c = req[r].code
    OBVIOUS
  <2>1. NewUser(n, c).isBanned = FALSE /\ NewUser(n, c).login = n /\ NoUser.login = None
    BY <1>1, NewUserFacts DEF NewUser, NoUser
  <2> QED BY <1>1, <2>1, AccountConstants
<1>3. \A q \in Requests : req'[q] = req[q] \/ req'[q].pc \notin Hand
  BY DEF CreateUser, Mail, Step, IdleRequest, IInv, TypeOK, Hand
<1> QED BY <1>2, <1>3, BanNew DEF CreateUser

LEMMA BanCreateUserByAdmin ==
    ASSUME IInv, BInv, NEW n \in Names, CreateUserByAdmin(n), UNCHANGED <<ban, torn>>
    PROVE  BInv'
<1> PICK e : e = [NewUser(n, 0) EXCEPT !.isConfirmed = TRUE]
  OBVIOUS
<1>1. 0 \in Code
  BY AccountConstants DEF Code
<1>2. NewUser(n, 0) \in UserRow /\ NewUser(n, 0).isBanned = FALSE
  BY <1>1, NewUserFacts DEF NewUser, NoUser
<1>3. e.isBanned = FALSE /\ e.isConfirmed = TRUE /\ NoUser.isConfirmed = FALSE
  BY <1>2 DEF UserRow, NoUser
<1> QED BY <1>3, BanNew DEF CreateUserByAdmin

LEMMA BanDeleteUser ==
    ASSUME IInv, BInv, NEW u \in Id, HDelete(u)
    PROVE  BInv'
<1>1. /\ users'[u] = NoUser /\ \A v \in Id \ {u} : users'[v] = users[v]
      /\ UNCHANGED <<lastId, req>>
      /\ ban' = [ban EXCEPT ![u] = NotBanned]
      /\ torn \subseteq torn' /\ (InHand(u) # {} => u \in torn')
  BY DEF IInv, TypeOK, HDelete, DeleteUser
<1>2. HistoryTyped' /\ \A v \in Id \ {u} : ban'[v] = ban[v]
  BY <1>1 DEF BInv, HistoryTyped, NotBanned
<1>3. Steady(u)'
  BY <1>1 DEF Steady, Present, InHand
<1> QED BY <1>1, <1>2, <1>3, BanFrame

\* Requests that have no user in hand, and stay so.
LEMMA BanOthers ==
    ASSUME IInv, BInv, NEW r \in Requests, UNCHANGED <<ban, torn>>,
           (\E n \in Names : Register(r, n)) \/ FindByEmail(r) \/ SendMail(r) \/ Fail(r)
    PROVE  BInv'
<1>1. UNCHANGED <<users, lastId>>
  BY DEF Register, FindByEmail, SendMail, Fail
<1>2. CASE Stop(r)
  BY <1>1, <1>2, BanStops
<1>3. CASE \E n \in Names : Register(r, n)
  <2>1. PICK n \in Names : Register(r, n)
    BY <1>3
  <2> PICK s : s = [IdleRequest EXCEPT !.pc = "findByEmail", !.op = "register",
                                       !.ent = NewUser(n, 0)]
    OBVIOUS
  <2>2. Step(r, s) /\ s.pc \notin Hand
    BY <2>1 DEF Register, IdleRequest, Hand
  <2> QED BY <1>1, <2>2, BanMoves
<1>4. CASE FindByEmail(r) /\ ~Stop(r)
  <2> PICK s : s = [req[r] EXCEPT !.pc = "create", !.code = lastCode + 1,
                                  !.ent = NewUser(@.login, lastCode + 1)]
    OBVIOUS
  <2>1. Step(r, s)
    BY <1>4 DEF FindByEmail
  <2>2. req[r] \in Request
    BY DEF IInv, TypeOK
  <2>3. s.pc \notin Hand
    BY <2>2 DEF Request, Hand
  <2> QED BY <1>1, <2>1, <2>3, BanMoves
<1> QED BY <1>2, <1>3, <1>4 DEF SendMail, Fail

LEMMA BanInitially == HInit => BInv
<1> SUFFICES ASSUME HInit PROVE BInv
  OBVIOUS
<1>1. \A u \in Id : ~Present(u) /\ InHand(u) = {}
  BY IdleFacts DEF HInit, Init, Present, InHand
<1> QED BY <1>1 DEF HInit, BInv, HistoryTyped, Steady, NotBanned

LEMMA BanNext ==
    ASSUME IInv, BInv, [HNext]_<<vars, history>>
    PROVE  BInv'
<1>1. ASSUME NEW r \in Requests, NEW m \in mailed, HConfirm(r, m[3]) PROVE BInv'
  BY <1>1, BanCopies DEF HConfirm
<1>2. ASSUME NEW n \in Names, CreateUserByAdmin(n), UNCHANGED history PROVE BInv'
  BY <1>2, BanCreateUserByAdmin DEF history
<1>3. ASSUME NEW r \in Requests, UNCHANGED history,
             \/ \E n \in Names : \/ Register(r, n) \/ ResendConfirmationCode(r, n)
                                 \/ PasswordRecovery(r, n)
             \/ \E m \in mailed : NewPassword(r, m[3])
             \/ \E u \in Id, isBanned \in BOOLEAN : BanUnbanUser(r, u, isBanned)
             \/ FindByEmail(r) \/ CreateUser(r) \/ LoadUser(r) \/ SaveUser(r)
             \/ SendMail(r) \/ WriteBan(r) \/ Fail(r)
      PROVE  BInv'
  <2>1. UNCHANGED <<ban, torn>>
    BY <1>3 DEF history
  <2> QED BY <1>3, <2>1, BanOthers, BanCopies, BanCreateUser, BanLoadUser, BanSaveUser,
             BanWriteBan
<1>4. CASE UNCHANGED <<vars, history>>
  <2>1. \A u \in Id : Steady(u)'
    <3> TAKE u \in Id
    <3>1. Steady(u) /\ InHand(u)' = InHand(u)
      BY <1>4 DEF BInv, InHand, vars
    <3> QED BY <1>4, <3>1 DEF Steady, Agrees, Present, vars, history
  <2> QED BY <1>4, <2>1 DEF BInv, HistoryTyped, vars, history
<1> QED BY <1>1, <1>2, <1>3, <1>4, BanCommitBan, BanDeleteUser DEF HNext

\* A ban or unban lasts: the user stays as the last committed command left him, whatever
\* he does afterwards, unless a request that had read him before was still to save him, or
\* he was deleted under a request.
THEOREM BansLast == HSpec => []BanLasts
<1>1. BInv => BanLasts
  BY DEF BInv, BanLasts, Steady
<1>2. HInit => IInv /\ BInv
  BY Initially, BanInitially DEF HInit
<1>3. IInv /\ BInv /\ [HNext]_<<vars, history>> => IInv' /\ BInv'
  BY HistoryWatches, NextPreserves, BanNext
<1> QED BY <1>1, <1>2, <1>3, PTL DEF HSpec

=============================================================================
