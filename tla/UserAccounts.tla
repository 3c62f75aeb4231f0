---------------------------- MODULE UserAccounts ----------------------------
(***************************************************************************)
(* User accounts: registration, confirmation by mail, resending of the     *)
(* code, password recovery (src/src/feature/users/users.service.ts), and   *)
(* the creation, ban and deletion of users by the administrator.  Every    *)
(* handler finds a user, changes the entity and saves it whole; the rows   *)
(* may change, or go, at each await in between.                            *)
(***************************************************************************)
EXTENDS Integers

CONSTANTS
    Names,     \* a user's login and e-mail address, which go together here
    MaxId,     \* bound on the ids of the Users table
    MaxCode,   \* bound on the codes generated
    Requests,  \* HTTP requests of users and administrators in flight at once
    Faulty,    \* requests whose statements may fail
    None       \* SQL NULL for a name

ASSUME AccountConstants ==
    /\ MaxId \in Nat \ {0} /\ MaxCode \in Nat
    /\ Faulty \subseteq Requests
    /\ None \notin Names

VARIABLES
    users,     \* committed rows of "Users", by id
    lastId,    \* last id the sequence handed out
    lastCode,  \* last code generated: codes are numbers, uuids never repeat
    mailed,    \* e-mails sent: what for, to whose address, with which code
    req        \* handler state of each request

vars == <<users, lastId, lastCode, mailed, req>>

Id == 1..MaxId
Code == 0..MaxCode  \* 0 is NULL; a code and its expiration date are always set together

\* password: 0 for the one chosen at registration, else the recovery code that set it.
UserRow == [login: Names \cup {None}, password: Code, isConfirmed: BOOLEAN,
            isBanned: BOOLEAN, confirmationCode: Code, passwordRecoveryCode: Code]
NoUser == [login |-> None, password |-> 0, isConfirmed |-> FALSE, isBanned |-> FALSE,
           confirmationCode |-> 0, passwordRecoveryCode |-> 0]
Columns == {"password", "isConfirmed", "isBanned", "confirmationCode", "passwordRecoveryCode"}
\* The date of a ban is always new, so that it is written; what it is, is left out.
BanDate == "banDate"

Present(u) == users[u] # NoUser

Purpose == {"confirmation", "recovery"}
Operations == {"register", "confirm", "resend", "recover", "newPassword", "ban"}
RequestPC == {"idle", "findByEmail", "create", "load", "save", "commit", "mail"}

\* ent: the entity in hand; found, cols: what save() read (the row is there, and the
\* columns in which it differs from the entity); code: to be mailed when all is done.
Request == [pc: RequestPC, op: Operations \cup {"none"}, id: 0..MaxId, ent: UserRow,
            found: BOOLEAN, cols: SUBSET (Columns \cup {BanDate}), code: Code]
IdleRequest == [pc |-> "idle", op |-> "none", id |-> 0, ent |-> NoUser, found |-> FALSE,
                cols |-> {}, code |-> 0]

TypeOK ==
    /\ users \in [Id -> UserRow]
    /\ lastId \in 0..MaxId
    /\ lastCode \in Code
    /\ mailed \subseteq Purpose \X Names \X (1..MaxCode)
    /\ req \in [Requests -> Request]

Init ==
    /\ users = [u \in Id |-> NoUser]
    /\ lastId = 0
    /\ lastCode = 0
    /\ mailed = {}
    /\ req = [r \in Requests |-> IdleRequest]

Step(r, state) == req' = [req EXCEPT ![r] = state]
Stop(r) == Step(r, IdleRequest)

\* The rows findByLoginOrEmail may return one of.
FindByLoginOrEmail(n) == {u \in Id : users[u].login = n}

(***************************************************************************)
(* save(user) reads the row, then updates the columns that differ, or      *)
(* inserts the entity when the row has gone.  A row that a ban has written *)
(* but not committed makes other writers wait.                             *)
(***************************************************************************)
Held(u) == \E r \in Requests : /\ req[r].pc = "commit" /\ req[r].id = u
                               /\ ~req[r].found \/ req[r].cols # {}

\* The handler found user u and changed the entity to ent.
Save(r, op, u, ent, code) ==
    Step(r, [IdleRequest EXCEPT !.pc = "load", !.op = op, !.id = u, !.ent = ent, !.code = code])

Differing(row, ent) == {c \in Columns : ent[c] # row[c]}
Merge(row, ent, cols) == [c \in DOMAIN row |-> IF c \in cols THEN ent[c] ELSE row[c]]

\* The columns that save() will write: those that differ from the row now, not when it does.
ColumnsToWrite(r) ==
    Differing(users[req[r].id], req[r].ent)
    \cup (IF req[r].op = "ban" /\ req[r].ent.isBanned THEN {BanDate} ELSE {})

\* What an UPDATE does not need of the entity is forgotten.
LoadUser(r) ==
    LET ent == req[r].ent
        row == users[req[r].id]
        cols == ColumnsToWrite(r)
    IN
    /\ req[r].pc = "load"
    /\ Step(r, IF row = NoUser
               THEN [req[r] EXCEPT !.pc = "save"]
               ELSE [req[r] EXCEPT !.pc = "save", !.found = TRUE, !.cols = cols,
                                   !.ent = Merge(NoUser, ent, cols \cup {"login", "isBanned"})])
    /\ UNCHANGED <<users, lastId, lastCode, mailed>>

Written(r) ==
    LET u == req[r].id IN
    IF ~req[r].found THEN [users EXCEPT ![u] = req[r].ent]
    ELSE IF Present(u) THEN [users EXCEPT ![u] = Merge(@, req[r].ent, req[r].cols)]
    ELSE users

Mails == {"resend", "recover"}
Mail(r, u, n) == Step(r, [IdleRequest EXCEPT !.pc = "mail", !.op = req[r].op, !.id = u,
                                             !.ent.login = n, !.code = req[r].code])
Saved(r) ==
    IF req[r].op \in Mails THEN Mail(r, req[r].id, req[r].ent.login) ELSE Stop(r)

\* The INSERT of a row that is back, or was never away, violates the primary key.
DuplicateKey(r) == ~req[r].found /\ Present(req[r].id)

SaveUser(r) ==
    /\ req[r].pc = "save" /\ req[r].op # "ban"
    /\ ~req[r].found \/ (Present(req[r].id) /\ req[r].cols # {}) => ~Held(req[r].id)
    /\ IF DuplicateKey(r) THEN Stop(r) /\ UNCHANGED users
       ELSE users' = Written(r) /\ Saved(r)
    /\ UNCHANGED <<lastId, lastCode, mailed>>

\* The e-mail is sent, without waiting for it, once the row is saved.
SendMail(r) ==
    /\ req[r].pc = "mail"
    /\ mailed' = mailed \cup {<<IF req[r].op = "recover" THEN "recovery" ELSE "confirmation",
                             req[r].ent.login, req[r].code>>}
    /\ Stop(r)
    /\ UNCHANGED <<users, lastId, lastCode>>

(***************************************************************************)
(* POST auth/registration: createUserForEmailConfirmation.  In both        *)
(* lookups a hit is answered with an error.                                *)
(***************************************************************************)
NewUserSwapped(n, code) ==  \* mutant: the address is stored as the code
    [NoUser EXCEPT !.login = n, !.confirmationCode = n]
NewUser(n, code) == [NoUser EXCEPT !.login = n, !.confirmationCode = code]

Taken(n) == FindByLoginOrEmail(n) # {}

Register(r, n) ==
    /\ req[r].pc = "idle"
    /\ ~Taken(n)
    /\ Step(r, [IdleRequest EXCEPT !.pc = "findByEmail", !.op = "register",
                                   !.ent = NewUser(n, 0)])
    /\ UNCHANGED <<users, lastId, lastCode, mailed>>

FindByEmail(r) ==
    /\ req[r].pc = "findByEmail"
    /\ IF Taken(req[r].ent.login) THEN Stop(r) /\ UNCHANGED lastCode
       ELSE /\ lastCode < MaxCode /\ lastCode' = lastCode + 1
            /\ Step(r, [req[r] EXCEPT !.pc = "create", !.code = lastCode + 1,
                                      !.ent = NewUser(@.login, lastCode + 1)])
    /\ UNCHANGED <<users, lastId, mailed>>

CreateUser(r) ==
    /\ req[r].pc = "create"
    /\ lastId < MaxId /\ lastId' = lastId + 1
    /\ users' = [users EXCEPT ![lastId + 1] = req[r].ent]
    /\ Mail(r, lastId + 1, req[r].ent.login)
    /\ UNCHANGED <<lastCode, mailed>>

\* POST sa/users: one INSERT; nobody looks whether the login is taken.
CreateUserByAdmin(n) ==
    /\ lastId < MaxId /\ lastId' = lastId + 1
    /\ users' = [users EXCEPT ![lastId + 1] = [NewUser(n, 0) EXCEPT !.isConfirmed = TRUE]]
    /\ UNCHANGED <<lastCode, mailed, req>>

(***************************************************************************)
(* The other operations of a user.  A code is one that was mailed: it may  *)
(* have expired, which like every refusal changes nothing.                 *)
(***************************************************************************)
ConfirmRegistration(r, code) ==
    /\ req[r].pc = "idle"
    /\ \E u \in Id : /\ users[u].confirmationCode = code
                     /\ ~users[u].isConfirmed
                     /\ Save(r, "confirm", u, [users[u] EXCEPT !.isConfirmed = TRUE], 0)
    /\ UNCHANGED <<users, lastId, lastCode, mailed>>

ResendRebuilt(r, n) ==  \* mutant: the row is overwritten with a new user's
    /\ req[r].pc = "idle"
    /\ lastCode < MaxCode /\ lastCode' = lastCode + 1
    /\ \E u \in FindByLoginOrEmail(n) :
          /\ ~users[u].isConfirmed
          /\ Save(r, "resend", u, NewUser(n, lastCode + 1), lastCode + 1)
    /\ UNCHANGED <<users, lastId, mailed>>

ResendOldCode(r, n) ==  \* mutant: the code mailed is the previous one
    /\ req[r].pc = "idle"
    /\ lastCode < MaxCode /\ lastCode' = lastCode + 1
    /\ \E u \in FindByLoginOrEmail(n) :
          /\ ~users[u].isConfirmed
          /\ Save(r, "resend", u, [users[u] EXCEPT !.confirmationCode = lastCode + 1],
                  users[u].confirmationCode)
    /\ UNCHANGED <<users, lastId, mailed>>

ResendConfirmationCode(r, n) ==
    /\ req[r].pc = "idle"
    /\ lastCode < MaxCode /\ lastCode' = lastCode + 1
    /\ \E u \in FindByLoginOrEmail(n) :
          /\ ~users[u].isConfirmed
          /\ Save(r, "resend", u, [users[u] EXCEPT !.confirmationCode = lastCode + 1,
                                                   !.isConfirmed = FALSE], lastCode + 1)
    /\ UNCHANGED <<users, lastId, mailed>>

PasswordRecovery(r, n) ==
    /\ req[r].pc = "idle"
    /\ lastCode < MaxCode /\ lastCode' = lastCode + 1
    /\ \E u \in FindByLoginOrEmail(n) :
          Save(r, "recover", u, [users[u] EXCEPT !.passwordRecoveryCode = lastCode + 1],
               lastCode + 1)
    /\ UNCHANGED <<users, lastId, mailed>>

FindAnyUser(code) == {u \in Id : Present(u)}  \* mutant: the condition is dropped
FindUserByRecoveryCode(code) == {u \in Id : users[u].passwordRecoveryCode = code}

NewPasswordConfirms(r, code) ==  \* mutant: whoever reads the mail is taken as confirmed
    /\ req[r].pc = "idle"
    /\ \E u \in FindUserByRecoveryCode(code) :
          Save(r, "newPassword", u, [users[u] EXCEPT !.password = code, !.isConfirmed = TRUE], 0)
    /\ UNCHANGED <<users, lastId, lastCode, mailed>>

\* The recovery code stays in the row.
NewPassword(r, code) ==
    /\ req[r].pc = "idle"
    /\ \E u \in FindUserByRecoveryCode(code) :
          Save(r, "newPassword", u, [users[u] EXCEPT !.password = code], 0)
    /\ UNCHANGED <<users, lastId, lastCode, mailed>>

(***************************************************************************)
(* PUT sa/users/:id/ban: the user is read outside the transaction; its row *)
(* is written in it, and stays locked until the commit.                    *)
(***************************************************************************)
BanUnbanUser(r, u, isBanned) ==
    /\ req[r].pc = "idle"
    /\ Present(u)
    /\ Save(r, "ban", u, [users[u] EXCEPT !.isBanned = isBanned], 0)
    /\ UNCHANGED <<users, lastId, lastCode, mailed>>

\* The UPDATE of a row that has gone writes nothing.  A ban of a user who was banned when
\* save() read him writes its date only: an unban that commits in between stays in force.
BanColumns(r) == IF Present(req[r].id) THEN req[r].cols ELSE {}

WriteBan(r) ==
    /\ req[r].pc = "save" /\ req[r].op = "ban"
    /\ ~req[r].found \/ BanColumns(r) # {} => ~Held(req[r].id)
    /\ IF DuplicateKey(r) THEN Stop(r)
       ELSE Step(r, [req[r] EXCEPT !.pc = "commit", !.cols = BanColumns(r)])
    /\ UNCHANGED <<users, lastId, lastCode, mailed>>

CommitBan(r) ==
    /\ req[r].pc = "commit"
    /\ users' = Written(r)
    /\ Stop(r)
    /\ UNCHANGED <<lastId, lastCode, mailed>>

DeleteUser(u) ==
    /\ Present(u) /\ ~Held(u)
    /\ users' = [users EXCEPT ![u] = NoUser]
    /\ UNCHANGED <<lastId, lastCode, mailed, req>>

\* A statement fails; the ban is rolled back.  (Once the row is saved the call that sends
\* the mail is made; whether the mail arrives is not the program's.)
Fail(r) ==
    /\ r \in Faulty /\ req[r].pc \notin {"idle", "mail"}
    /\ Stop(r)
    /\ UNCHANGED <<users, lastId, lastCode, mailed>>

RequestStep(r) ==
    \/ \E n \in Names : \/ Register(r, n) \/ ResendConfirmationCode(r, n)
                        \/ PasswordRecovery(r, n)
    \/ \E m \in mailed : ConfirmRegistration(r, m[3]) \/ NewPassword(r, m[3])
    \/ \E u \in Id, isBanned \in BOOLEAN : BanUnbanUser(r, u, isBanned)
    \/ FindByEmail(r) \/ CreateUser(r) \/ LoadUser(r) \/ SaveUser(r) \/ SendMail(r)
    \/ WriteBan(r) \/ CommitBan(r) \/ Fail(r)

Next ==
    \/ \E r \in Requests : RequestStep(r)
    \/ \E n \in Names : CreateUserByAdmin(n)
    \/ \E u \in Id : DeleteUser(u)

Spec == Init /\ [][Next]_vars

(***************************************************************************)
(* What accounts promise                                                   *)
(***************************************************************************)
Mailing(u) == {r \in Requests : req[r].pc = "mail" /\ req[r].id = u}

\* However saves overwrite each other's columns, no code is in force that its owner cannot
\* have: outside of the moment between save and mail, the codes in a row were mailed to its
\* address, each for its own purpose.
CodesReachOwner ==
    \A u \in Id : Present(u) /\ Mailing(u) = {} =>
        /\ users[u].confirmationCode # 0 =>
              <<"confirmation", users[u].login, users[u].confirmationCode>> \in mailed
        /\ users[u].passwordRecoveryCode # 0 =>
              <<"recovery", users[u].login, users[u].passwordRecoveryCode>> \in mailed

\* A password comes from the registration, or from a request that presented a recovery
\* code mailed to the owner of the account, never a confirmation code: also after stale
\* saves and re-inserted rows.
PasswordFromOwner ==
    \A u \in Id : Present(u) /\ users[u].password # 0 =>
        <<"recovery", users[u].login, users[u].password>> \in mailed

=============================================================================
