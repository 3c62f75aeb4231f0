-------------------------- MODULE TelegramAccounts --------------------------
(***************************************************************************)
(* The link between a user and his Telegram chat                           *)
(* (src/src/feature/users/telegram-user-accounts): a link with a code is   *)
(* made for the user, and the message that brings the code back from a     *)
(* chat stores the chat in his account.  The user's entity is saved here   *)
(* and by his ban, the account's here and by the message.                  *)
(***************************************************************************)
EXTENDS Integers, Saves

CONSTANTS
    Users,
    Chats,       \* ids of Telegram users
    MaxAccount,  \* bound on the ids of TelegramUserAccounts
    MaxCode,     \* bound on the codes made; a code is a uuid, never made twice
    Requests,    \* requests and unawaited handlers in flight at once
    Faulty,      \* requests whose statements may fail
    None         \* no account, no chat, no code

TelegramConstants ==
    /\ MaxAccount \in Nat \ {0} /\ MaxCode \in Nat \ {0}
    /\ Faulty \subseteq Requests
    /\ None \notin Users \cup Chats \cup Int

VARIABLES
    users,        \* rows of "Users": ban flag and account
    accounts,     \* rows of "TelegramUserAccounts", by id
    lastAccount,  \* last id of the table
    lastCode,     \* how many codes were made
    req           \* handler state of each request

tables == <<users, accounts, lastAccount, lastCode>>
vars == <<tables, req>>

AccountId == 1..MaxAccount
Code == 1..MaxCode
UserRow == [isBanned: BOOLEAN, account: AccountId \cup {None}]
AccountRow == [code: Code, telegramId: Chats \cup {None}]
NoAccount == [code |-> None, telegramId |-> None]

Request ==
    [pc: {"idle"}]
    \cup [pc: {"insertAccount"}, user: Users, ent: UserRow, code: Code]
    \cup [pc: {"saveUser"}, user: Users, ent: UserRow, changed: SUBSET {"isBanned", "account"}, code: Code]
    \cup [pc: {"saveCode", "saveChat"}, id: AccountId, ent: AccountRow, changed: SUBSET {"code", "telegramId"}]
    \cup [pc: {"commitBan"}, user: Users, ent: UserRow, changed: SUBSET {"isBanned", "account"}]
Idle == [pc |-> "idle"]

TypeOK ==
    /\ users \in [Users -> UserRow]
    /\ accounts \in [AccountId -> AccountRow \cup {NoAccount}]
    /\ lastAccount \in 0..MaxAccount /\ lastCode \in 0..MaxCode
    /\ req \in [Requests -> Request]

Init ==
    /\ users = [u \in Users |-> [isBanned |-> FALSE, account |-> None]]
    /\ accounts = [a \in AccountId |-> NoAccount]
    /\ lastAccount = 0 /\ lastCode = 0
    /\ req = [r \in Requests |-> Idle]

Await(r, state) == req' = [req EXCEPT ![r] = state]
Answer(r) == Await(r, Idle)
At(r, pc) == req[r].pc = pc

\* findUserById brings the account along; a user without one gets a new row, saved before it
\* is attached to him.
GenerateAuthBotLink(r, u) ==
    LET a == users[u].account
        code == lastCode + 1
    IN
    /\ At(r, "idle") /\ lastCode < MaxCode
    /\ lastCode' = code
    /\ IF a = None
       THEN Await(r, [pc |-> "insertAccount", user |-> u, ent |-> users[u], code |-> code])
       ELSE Await(r, [pc |-> "saveCode", id |-> a, ent |-> [accounts[a] EXCEPT !.code = code],
                      changed |-> {"code"}])
    /\ UNCHANGED <<users, accounts, lastAccount>>

InsertAccount(r) ==
    /\ At(r, "insertAccount") /\ lastAccount < MaxAccount
    /\ lastAccount' = lastAccount + 1
    /\ accounts' = [accounts EXCEPT ![lastAccount'] = [code |-> req[r].code, telegramId |-> None]]
    /\ Await(r, [pc |-> "saveUser", user |-> req[r].user, code |-> req[r].code,
                 ent |-> [req[r].ent EXCEPT !.account = lastAccount'], changed |-> {"account"}])
    /\ UNCHANGED <<users, lastCode>>

UserUnsaved(u, ent, changed) == {users[u]}  \* mutant: the account is never attached
\* The account, and the ban flag as it was found, should it differ then.
UserSaved(u, ent, changed) == Saved(users[u], ent, changed)

SaveUser(r) ==
    /\ At(r, "saveUser")
    /\ \E row \in UserSaved(req[r].user, req[r].ent, req[r].changed) :
            users' = [users EXCEPT ![req[r].user] = row]
    /\ Answer(r)
    /\ UNCHANGED <<accounts, lastAccount, lastCode>>

\* An account is saved by a new link and by a message.
SaveAccount(r) ==
    /\ At(r, "saveCode") \/ At(r, "saveChat")
    /\ \E row \in Saved(accounts[req[r].id], req[r].ent, req[r].changed) :
            accounts' = [accounts EXCEPT ![req[r].id] = row]
    /\ Answer(r)
    /\ UNCHANGED <<users, lastAccount, lastCode>>

\* findOneBy with an undefined code has no condition, and finds any row; nobody looks
\* whether the code has expired.
FindByActivateCode(code) ==
    {a \in 1..lastAccount : code \in {None, accounts[a].code}}

\* The controller answers at once and does not await this.
UpdatingMessagesFromTelegram(r, chat, code) ==
    /\ At(r, "idle")
    /\ \E a \in FindByActivateCode(code) :
            LET ent == [accounts[a] EXCEPT !.telegramId = chat] IN
            Await(r, [pc |-> "saveChat", id |-> a, ent |-> ent, changed |-> Differing(accounts[a], ent)])
    /\ UNCHANGED tables

\* The user is found, with his account, and saved in a transaction of the ban: a ban of a
\* user found banned need not write isBanned, and an account found missing may be written
\* as NULL.
BanUnbanUser(r, u, isBanned) ==
    LET ent == [users[u] EXCEPT !.isBanned = isBanned] IN
    /\ At(r, "idle")
    /\ Await(r, [pc |-> "commitBan", user |-> u, ent |-> ent, changed |-> Differing(users[u], ent)])
    /\ UNCHANGED tables

CommitBan(r) ==
    /\ At(r, "commitBan")
    /\ \E row \in Saved(users[req[r].user], req[r].ent, req[r].changed) :
            users' = [users EXCEPT ![req[r].user] = row]
    /\ Answer(r)
    /\ UNCHANGED <<accounts, lastAccount, lastCode>>

\* A statement fails: what was saved before it stays.
Fail(r) ==
    /\ ~At(r, "idle") /\ r \in Faulty
    /\ Answer(r)
    /\ UNCHANGED tables

Begin(r) ==
    \/ \E u \in Users : GenerateAuthBotLink(r, u)
    \/ \E chat \in Chats, code \in Code \cup {None} : UpdatingMessagesFromTelegram(r, chat, code)
    \/ \E u \in Users, isBanned \in BOOLEAN : BanUnbanUser(r, u, isBanned)
Save(r) == InsertAccount(r) \/ SaveUser(r) \/ SaveAccount(r) \/ CommitBan(r)

Next == \E r \in Requests : Begin(r) \/ Save(r) \/ Fail(r)

Spec == Init /\ [][Next]_vars

HoldsUser(r, u) == req[r].pc \in {"insertAccount", "saveUser", "commitBan"} /\ req[r].user = u
HoldsAccount(r, a) == req[r].pc \in {"saveCode", "saveChat"} /\ req[r].id = a

=============================================================================
