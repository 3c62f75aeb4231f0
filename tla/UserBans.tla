------------------------------ MODULE UserBans ------------------------------
(***************************************************************************)
(* The ban and the unban of a user as the tables of his content see it     *)
(* (src/src/feature/users/use-case/ban-unban-user.usercase.ts): in one     *)
(* transaction his row is saved and his rows are flagged, in one table     *)
(* after another.  Blogs, Comments and Likes extend this with a table      *)
(* each.  The UPDATE of the table is one step with that of the user: in    *)
(* between the transaction only holds a lock.                              *)
(***************************************************************************)
CONSTANTS
    Users,
    Requests  \* HTTP requests in flight at once

VARIABLES
    users,    \* rows of "Users": active, banned, or deleted
    req       \* handler state of each request

UsersTyped == users \in [Users -> {"active", "banned", "deleted"}]
UsersInit == users = [u \in Users |-> "active"]

Exists(u) == users[u] # "deleted"

\* The handler of request r goes on to its next await, or answers.
Idle == [pc |-> "idle"]
Await(r, state) == req' = [req EXCEPT ![r] = state]
Answer(r) == Await(r, Idle)
At(r, pc) == req[r].pc = pc

\* changed: save() is to write isBanned; draft: what it has written of the user, if anything;
\* rows: the rows it has flagged.  User and rows stay locked until the commit.
BanRequest(Ids) ==
    [pc: {"updateUser"}, user: Users, isBanned: BOOLEAN, changed: BOOLEAN]
    \cup [pc: {"commitBan"}, user: Users, isBanned: BOOLEAN,
          draft: {"none", "active", "banned"}, rows: SUBSET Ids]

UserHeld(u) == \E r \in Requests : At(r, "commitBan") /\ req[r].user = u /\ req[r].draft # "none"
Held(i) == \E r \in Requests : At(r, "commitBan") /\ i \in req[r].rows

Target(isBanned) == IF isBanned THEN "banned" ELSE "active"

\* The user is found outside the transaction, and read again by save().
FindUser(r, u, isBanned) ==
    /\ At(r, "idle") /\ Exists(u)
    /\ Await(r, [pc |-> "updateUser", user |-> u, isBanned |-> isBanned,
                 changed |-> users[u] # Target(isBanned)])

\* save() writes what differed when it read the row, and the date of a ban in any case: the
\* ban of a user who was banned then leaves isBanned as it has become.  A user deleted
\* meanwhile is not updated; one inserted again is the matter of UserAccounts.
Draft(r) ==
    LET row == users[req[r].user] IN
    IF row = "deleted" \/ ~(req[r].isBanned \/ req[r].changed) THEN "none"
    ELSE IF req[r].changed THEN Target(req[r].isBanned) ELSE row

\* rows: what the WHERE clause of the table's UPDATE finds now.  A row inserted from here on
\* is not flagged; its foreign key does not wait for the transaction.
UpdateUserAnd(r, rows) ==
    LET state == req[r] IN
    /\ At(r, "updateUser")
    /\ Draft(r) # "none" => ~UserHeld(state.user)
    /\ \A i \in rows : ~Held(i)
    /\ Await(r, [pc |-> "commitBan", user |-> state.user, isBanned |-> state.isBanned,
                 draft |-> Draft(r), rows |-> rows])

CommitUser(r) ==
    /\ At(r, "commitBan")
    /\ users' = IF req[r].draft = "none" THEN users
                ELSE [users EXCEPT ![req[r].user] = req[r].draft]
    /\ Answer(r)

=============================================================================
