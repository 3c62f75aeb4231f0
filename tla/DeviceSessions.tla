--------------------------- MODULE DeviceSessions ---------------------------
(***************************************************************************)
(* Login sessions of src/src/feature/auth and security-devices.  A session *)
(* is a row of "SecurityDevices"; its refresh token names the row and is   *)
(* accepted while the row's lastActiveDate is the token's issue time.      *)
(* Logins, refreshes, logouts and the deletion of other sessions are       *)
(* requests that interleave at every await with each other, with the       *)
(* transactions that ban and unban users, and with the deletion of users.  *)
(***************************************************************************)
EXTENDS Integers

CONSTANTS
    Users,     \* user ids
    Devices,   \* ids of the SecurityDevices table (bounds the number of logins)
    Requests,  \* HTTP requests that may be in flight at once
    Admins,    \* ban and unban commands that may be in flight at once
    MaxClock,  \* bound on the clock
    Faulty,    \* requests and commands whose statements may fail
    None       \* SQL NULL for a user id, and "no device"

ASSUME SessionConstants ==
    /\ MaxClock \in Nat \ {0}
    /\ Requests \cap Admins = {} /\ Faulty \subseteq Requests \cup Admins
    /\ None \notin Users \cup Devices

VARIABLES
    users,   \* committed rows of "Users": absent, active or banned
    device,  \* committed rows of "SecurityDevices"
    taken,   \* device ids the sequence has handed out
    clock,   \* seconds, the unit of a token's iat
    issued,  \* refresh tokens sent in a response
    req,     \* handler state of each request
    ban      \* handler state and uncommitted writes of each ban command

vars == <<users, device, taken, clock, issued, req, ban>>

DeviceRow == [userId: Users \cup {None}, lastActiveDate: 0..MaxClock]  \* 0 is NULL
NoDevice == [userId |-> None, lastActiveDate |-> 0]
Present(d) == device[d] # NoDevice

Token == [userId: Users, deviceId: Devices, iat: 1..MaxClock]
NoToken == [userId |-> None, deviceId |-> None, iat |-> 0]

Operations == {"login", "refresh", "logout", "deleteOthers", "deleteOne"}
RequestPC == {"idle", "insert", "verify", "findUser", "sign", "find", "load", "write",
              "respond", "findTarget", "delete"}

\* token: the one presented, then the one signed; target: the row a DELETE names;
\* found: whether save() found the row, changed: whether the row differs from the entity.
Request == [pc: RequestPC, op: Operations \cup {"none"}, userId: Users \cup {None},
            token: Token \cup {NoToken}, target: Devices \cup {None},
            found: BOOLEAN, changed: BOOLEAN]
IdleRequest == [pc |-> "idle", op |-> "none", userId |-> None, token |-> NoToken,
                target |-> None, found |-> FALSE, changed |-> FALSE]

\* found, changed: as above, for the user row; draft: its uncommitted form ("none" when
\* the transaction has not written it); rows: device rows deleted but not committed.
BanPC == {"idle", "save", "update", "devices", "commit"}
Ban == [pc: BanPC, userId: Users \cup {None}, isBanned: BOOLEAN, found: BOOLEAN,
        changed: BOOLEAN, draft: {"none", "active", "banned"}, rows: SUBSET Devices]
IdleBan == [pc |-> "idle", userId |-> None, isBanned |-> FALSE, found |-> FALSE,
            changed |-> FALSE, draft |-> "none", rows |-> {}]

TypeOK ==
    /\ users \in [Users -> {"absent", "active", "banned"}]
    /\ device \in [Devices -> DeviceRow]
    /\ taken \subseteq Devices
    /\ clock \in 1..MaxClock
    /\ issued \subseteq Token
    /\ req \in [Requests -> Request]
    /\ ban \in [Admins -> Ban]

Init ==
    /\ users = [u \in Users |-> "active"]
    /\ device = [d \in Devices |-> NoDevice]
    /\ taken = {}
    /\ clock = 1
    /\ issued = {}
    /\ req = [r \in Requests |-> IdleRequest]
    /\ ban = [a \in Admins |-> IdleBan]

Step(r, state) == req' = [req EXCEPT ![r] = state]
Stop(r) == Step(r, IdleRequest)
BanStep(a, state) == ban' = [ban EXCEPT ![a] = state]

\* A row deleted by a transaction that has not committed: statements on it wait.
Held(d) == \E a \in Admins : d \in ban[a].rows
\* A user row written by a transaction that has not committed.
UserHeld(u) == \E a \in Admins : ban[a].userId = u /\ ban[a].draft # "none"

Delete(rows) == device' = [d \in Devices |-> IF d \in rows THEN NoDevice ELSE device[d]]
DevicesOf(u) == {d \in Devices : device[d].userId = u}

(***************************************************************************)
(* POST auth/login                                                         *)
(***************************************************************************)
LoginBanned(r, u) ==  \* mutant: isBanned is not checked
    /\ req[r].pc = "idle"
    /\ users[u] # "absent"
    /\ Step(r, [IdleRequest EXCEPT !.pc = "insert", !.op = "login", !.userId = u])
    /\ UNCHANGED <<users, device, taken, clock, issued, ban>>

\* checkCredentials: the user row is read once; a wrong password changes nothing.
Login(r, u) ==
    /\ req[r].pc = "idle"
    /\ users[u] = "active"
    /\ Step(r, [IdleRequest EXCEPT !.pc = "insert", !.op = "login", !.userId = u])
    /\ UNCHANGED <<users, device, taken, clock, issued, ban>>

CreateSecurityDeviceReusing(r) ==  \* mutant: the lowest free id instead of a sequence
    LET u == req[r].userId IN
    /\ req[r].pc = "insert"
    /\ IF users[u] = "absent" THEN Stop(r) /\ UNCHANGED <<device, taken>>
       ELSE \E d \in {e \in Devices : ~Present(e)} :
               /\ taken' = taken \cup {d}
               /\ device' = [device EXCEPT ![d] = [userId |-> u, lastActiveDate |-> 0]]
               /\ Step(r, [req[r] EXCEPT !.pc = "sign", !.target = d])
    /\ UNCHANGED <<users, clock, issued, ban>>

\* CreateSecurityDevice: an INSERT without dates, refused by the foreign key once the
\* user has gone.
CreateSecurityDevice(r) ==
    LET u == req[r].userId IN
    /\ req[r].pc = "insert"
    /\ IF users[u] = "absent" THEN Stop(r) /\ UNCHANGED <<device, taken>>
       ELSE \E d \in Devices \ taken :
               /\ taken' = taken \cup {d}
               /\ device' = [device EXCEPT ![d] = [userId |-> u, lastActiveDate |-> 0]]
               /\ Step(r, [req[r] EXCEPT !.pc = "sign", !.target = d])
    /\ UNCHANGED <<users, clock, issued, ban>>

(***************************************************************************)
(* The refresh token: RefreshJwtStrategy.validate                          *)
(***************************************************************************)
\* findUserById, which does not look at isBanned.
PresentToken(r, t, op) ==
    /\ req[r].pc = "idle"
    /\ users[t.userId] # "absent"
    /\ Step(r, [IdleRequest EXCEPT !.pc = "verify", !.op = op, !.userId = t.userId,
                                   !.token = t])
    /\ UNCHANGED <<users, device, taken, clock, issued, ban>>

\* verifySecurityDeviceByToken: the row must carry the token's issue time.  A NULL date
\* is a TypeError; like every refusal it changes nothing.
Verifies(t) == device[t.deviceId].userId = t.userId /\ device[t.deviceId].lastActiveDate = t.iat

AfterVerify == [refresh |-> "findUser", logout |-> "delete", deleteOthers |-> "delete",
                deleteOne |-> "findTarget"]

\* The device to delete is the request's own, except where the client names it.
Targets(r) == IF req[r].op = "deleteOne" THEN Devices ELSE {req[r].token.deviceId}

VerifyToken(r) ==
    /\ req[r].pc = "verify"
    /\ IF Verifies(req[r].token)
       THEN \E d \in Targets(r) :
               Step(r, [req[r] EXCEPT !.pc = AfterVerify[req[r].op], !.target = d])
       ELSE Stop(r)
    /\ UNCHANGED <<users, device, taken, clock, issued, ban>>

(***************************************************************************)
(* POST auth/refresh-token: updateUserRefreshToken; login joins in at      *)
(* createTokens.                                                           *)
(***************************************************************************)
FindUser(r) ==
    /\ req[r].pc = "findUser"
    /\ IF users[req[r].userId] = "absent" THEN Stop(r)
       ELSE Step(r, [req[r] EXCEPT !.pc = "sign"])
    /\ UNCHANGED <<users, device, taken, clock, issued, ban>>

CreateTokens(r) ==
    /\ req[r].pc = "sign"
    /\ Step(r, [req[r] EXCEPT !.pc = "find",
                  !.token = [userId |-> req[r].userId, deviceId |-> req[r].target,
                             iat |-> clock]])
    /\ UNCHANGED <<users, device, taken, clock, issued, ban>>

FindSessionUnsaved(r) ==  \* mutant: login answers without waiting for the save
    /\ req[r].pc = "find"
    /\ Step(r, IF req[r].op = "login" THEN [req[r] EXCEPT !.pc = "respond"]
               ELSE IF Present(req[r].target) THEN [req[r] EXCEPT !.pc = "load"]
               ELSE IdleRequest)
    /\ UNCHANGED <<users, device, taken, clock, issued, ban>>

\* updateSecurityDeviceSession.  The row may be gone: refresh answers 401, login ignores
\* the result and hands out its tokens.
FindSession(r) ==
    /\ req[r].pc = "find"
    /\ Step(r, IF Present(req[r].target) THEN [req[r] EXCEPT !.pc = "load"]
               ELSE IF req[r].op = "login" THEN [req[r] EXCEPT !.pc = "respond"]
               ELSE IdleRequest)
    /\ UNCHANGED <<users, device, taken, clock, issued, ban>>

\* save(device) reads the row again: it will be inserted when it has gone, and updated
\* when it differs from the entity.
LoadDevice(r) ==
    LET t == req[r].token IN
    /\ req[r].pc = "load"
    /\ Step(r, [req[r] EXCEPT !.pc = "write", !.found = Present(t.deviceId),
                              !.changed = device[t.deviceId].lastActiveDate # t.iat])
    /\ UNCHANGED <<users, device, taken, clock, issued, ban>>

SavedNow(t) ==  \* mutant: the current time instead of the token's issue time
    [userId |-> t.userId, lastActiveDate |-> clock]
SavedExpiration(t) ==  \* mutant: the token's expiration instead of its issue time
    [userId |-> t.userId, lastActiveDate |-> t.iat + MaxClock]
Saved(t) == [userId |-> t.userId, lastActiveDate |-> t.iat]

\* An UPDATE of a row that has gone changes nothing and is no error.
UpdateDevice(r) ==
    LET d == req[r].token.deviceId IN
    /\ req[r].pc = "write" /\ req[r].found
    /\ req[r].changed => ~Held(d)
    /\ device' = IF req[r].changed /\ Present(d)
                 THEN [device EXCEPT ![d] = Saved(req[r].token)] ELSE device
    /\ Step(r, [req[r] EXCEPT !.pc = "respond"])
    /\ UNCHANGED <<users, taken, clock, issued, ban>>

\* The primary key and the foreign key may refuse the INSERT.
InsertDevice(r) ==
    LET d == req[r].token.deviceId IN
    /\ req[r].pc = "write" /\ ~req[r].found
    /\ ~Held(d)
    /\ IF Present(d) \/ users[req[r].userId] = "absent"
       THEN Stop(r) /\ UNCHANGED device
       ELSE /\ device' = [device EXCEPT ![d] = Saved(req[r].token)]
            /\ Step(r, [req[r] EXCEPT !.pc = "respond"])
    /\ UNCHANGED <<users, taken, clock, issued, ban>>

\* The handler goes on after its last statement: the tokens are sent.
Respond(r) ==
    /\ req[r].pc = "respond"
    /\ issued' = issued \cup {req[r].token}
    /\ Stop(r)
    /\ UNCHANGED <<users, device, taken, clock, ban>>

(***************************************************************************)
(* POST auth/logout, DELETE security/devices and security/devices/:id      *)
(***************************************************************************)
\* deleteUserSessionByDeviceID in the service: 404 and 403 change nothing.
FindTarget(r) ==
    /\ req[r].pc = "findTarget"
    /\ IF device[req[r].target].userId = req[r].userId
       THEN Step(r, [req[r] EXCEPT !.pc = "delete"])
       ELSE Stop(r)
    /\ UNCHANGED <<users, device, taken, clock, issued, ban>>

DoomedOfAnybody(r) ==  \* mutant: the WHERE clause without userId
    IF req[r].op = "deleteOthers"
    THEN {d \in Devices : Present(d)} \ {req[r].token.deviceId}
    ELSE DevicesOf(req[r].userId) \cap {req[r].target}

\* The rows the request's DELETE names: its WHERE clause.
Doomed(r) ==
    IF req[r].op = "deleteOthers" THEN DevicesOf(req[r].userId) \ {req[r].token.deviceId}
    ELSE DevicesOf(req[r].userId) \cap {req[r].target}

DeleteSessions(r) ==
    /\ req[r].pc = "delete"
    /\ \A d \in Doomed(r) : ~Held(d)
    /\ Delete(Doomed(r))
    /\ Stop(r)
    /\ UNCHANGED <<users, taken, clock, issued, ban>>

(***************************************************************************)
(* PUT sa/users/:id/ban: BanUnbanUserUseCase.execute, as far as users and  *)
(* sessions go.  The user is read outside the transaction.                 *)
(***************************************************************************)
BanUnbanUser(a, u, isBanned) ==
    /\ ban[a].pc = "idle"
    /\ users[u] # "absent"
    /\ BanStep(a, [IdleBan EXCEPT !.pc = "save", !.userId = u, !.isBanned = isBanned])
    /\ UNCHANGED <<users, device, taken, clock, issued, req>>

Target(isBanned) == IF isBanned THEN "banned" ELSE "active"

\* manager.save(user) reads the row again; changed is about the isBanned column.
LoadUser(a) ==
    LET row == users[ban[a].userId] IN
    /\ ban[a].pc = "save"
    /\ BanStep(a, [ban[a] EXCEPT !.pc = "update", !.found = row # "absent",
                                 !.changed = row # Target(ban[a].isBanned)])
    /\ UNCHANGED <<users, device, taken, clock, issued, req>>

\* A ban always updates (its date is new), an unban only what differs.  A user deleted in
\* between is inserted again when the read found no row.
Draft(a) ==
    LET row == users[ban[a].userId] IN
    IF ~ban[a].found THEN Target(ban[a].isBanned)
    ELSE IF row = "absent" \/ ~(ban[a].isBanned \/ ban[a].changed) THEN "none"
    ELSE IF ban[a].changed THEN Target(ban[a].isBanned) ELSE row

UpdateUser(a) ==
    /\ ban[a].pc = "update"
    /\ Draft(a) # "none" => ~UserHeld(ban[a].userId)
    /\ IF ~ban[a].found /\ users[ban[a].userId] # "absent"
       THEN BanStep(a, IdleBan)
       ELSE BanStep(a, [ban[a] EXCEPT !.draft = Draft(a),
                          !.pc = IF ban[a].isBanned THEN "devices" ELSE "commit"])
    /\ UNCHANGED <<users, device, taken, clock, issued, req>>

DeleteAllDevices(a) ==
    /\ ban[a].pc = "devices"
    /\ \A d \in DevicesOf(ban[a].userId) : ~Held(d)
    /\ BanStep(a, [ban[a] EXCEPT !.pc = "commit", !.rows = DevicesOf(ban[a].userId)])
    /\ UNCHANGED <<users, device, taken, clock, issued, req>>

CommitBan(a) ==
    /\ ban[a].pc = "commit"
    /\ users' = IF ban[a].draft = "none" THEN users
                ELSE [users EXCEPT ![ban[a].userId] = ban[a].draft]
    /\ Delete(ban[a].rows)
    /\ BanStep(a, IdleBan)
    /\ UNCHANGED <<taken, clock, issued, req>>

\* DELETE sa/users/:id; the sessions go with the user.
DeleteUser(u) ==
    /\ users[u] # "absent" /\ ~UserHeld(u)
    /\ \A d \in DevicesOf(u) : ~Held(d)
    /\ users' = [users EXCEPT ![u] = "absent"]
    /\ Delete(DevicesOf(u))
    /\ UNCHANGED <<taken, clock, issued, req, ban>>

\* A statement fails: the request ends with an error, the ban is rolled back.  (A response
\* lost after the save is not modelled: the client would hold no valid token.)
FailRequest(r) ==
    /\ r \in Faulty /\ req[r].pc \notin {"idle", "respond"}
    /\ Stop(r)
    /\ UNCHANGED <<users, device, taken, clock, issued, ban>>

FailBan(a) ==
    /\ a \in Faulty /\ ban[a].pc # "idle"
    /\ BanStep(a, IdleBan)
    /\ UNCHANGED <<users, device, taken, clock, issued, req>>

Tick == clock < MaxClock /\ clock' = clock + 1
        /\ UNCHANGED <<users, device, taken, issued, req, ban>>

TokenOperations == Operations \ {"login"}

RequestStep(r) ==
    \/ \E u \in Users : Login(r, u)
    \/ CreateSecurityDevice(r)
    \/ \E t \in issued, op \in TokenOperations : PresentToken(r, t, op)
    \/ VerifyToken(r) \/ FindUser(r) \/ CreateTokens(r) \/ FindSession(r)
    \/ LoadDevice(r) \/ UpdateDevice(r) \/ InsertDevice(r) \/ Respond(r)
    \/ FindTarget(r) \/ DeleteSessions(r) \/ FailRequest(r)

AdminStep(a) ==
    \/ \E u \in Users, isBanned \in BOOLEAN : BanUnbanUser(a, u, isBanned)
    \/ LoadUser(a) \/ UpdateUser(a) \/ DeleteAllDevices(a) \/ CommitBan(a) \/ FailBan(a)

Next ==
    \/ \E r \in Requests : RequestStep(r)
    \/ \E a \in Admins : AdminStep(a)
    \/ \E u \in Users : DeleteUser(u)
    \/ Tick

Spec == Init /\ [][Next]_vars

(***************************************************************************)
(* What sessions promise                                                   *)
(***************************************************************************)
\* Requests that have saved session d and not answered yet.
Renewing(d) == {r \in Requests : req[r].pc = "respond" /\ req[r].target = d}

\* No client is locked out by a race: whatever refreshes, logouts and bans overlapped on a
\* session, once those that saved it have answered, the row's date is the issue time of a
\* token that was sent to its user, or the row is the leftover of a login that never answered.
SessionsStayUsable ==
    \A d \in Devices : Present(d) /\ Renewing(d) = {} =>
        \/ device[d].lastActiveDate = 0
        \/ [userId |-> device[d].userId, deviceId |-> d,
            iat |-> device[d].lastActiveDate] \in issued

\* The check of a token never meets a NULL date (it would be a TypeError and a 500 answer):
\* a session whose token has been sent has its date, even after it was deleted and
\* inserted again by a request that still held it.
IssuedTokenHasDate ==
    \A t \in issued : Present(t.deviceId) => device[t.deviceId].lastActiveDate # 0

\* A session never changes hands: every token ever sent for it names its present owner, so
\* a row inserted again after its deletion cannot belong to another user.
SessionKeepsOwner ==
    \A t \in issued : device[t.deviceId].userId \in {t.userId, None}

\* A request touches the sessions of the user whose token it presented and of nobody else,
\* whichever device id it names and whatever was deleted since its checks.
OthersUntouched ==
    [][\A r \in Requests : req'[r] # req[r] =>
          \A d \in Devices : device[d].userId \notin {None, req[r].userId, req'[r].userId}
                             => device'[d] = device[d]]_vars

=============================================================================
