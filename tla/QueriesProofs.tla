---------------------------- MODULE QueriesProofs ----------------------------
(***************************************************************************)
(* Proofs about Likes, about the lists and views of ContentViews and about *)
(* the pages of Paging, for any number of users, targets, likes, requests, *)
(* items, rows and writes.                                                 *)
(*                                                                         *)
(* First part: the likes a user has of a target are bounded.  The bound    *)
(* counts the rows of a user on a target together with the requests that   *)
(* are about to create one.  It is kept because only a request that found  *)
(* no row joins the latter, and because a save leaves the target and the   *)
(* user of its row alone: what SavesOwnRow is for.                         *)
(*                                                                         *)
(* Second part: likes come to upserts, and follow the bans of their users. *)
(* A request that has found no like is the first to say anything of the    *)
(* target, as long as it is alone (Sole, FirstSays); a like in hand whose  *)
(* row has a user has his flag, as the row has (HandFlag).                 *)
(*                                                                         *)
(* Third part: a list tells of every item what its own view tells, for     *)
(* any tables.  The numbers of later likes of a post are a bijection onto  *)
(* 0..n-1, so that the limit of newest likes takes n of them or all.       *)
(*                                                                         *)
(* Fourth part: a walk through the pages.  The items not yet sent whose    *)
(* rows end before the client's offset are counted against the rows that   *)
(* the list has lost: no two items end at the same row, so that the loss   *)
(* of n rows carries at most n items past the offset.                      *)
(***************************************************************************)
EXTENDS MCQueries, FiniteSetTheorems, TLAPS

\* Ids are handed out in order.
Fresh == \A l \in LikeId : l > lastLike => likes[l] = NoLike

\* A request that saves a like holds one that was there, with its target and its user.
SavesOwnRow(r) ==
    At(r, "saveLike") =>
        LET ent == req[r].ent
            row == likes[req[r].id]
        IN /\ ent.target \in Targets /\ ent.user \in Users /\ req[r].id <= lastLike
           /\ CanWrite(ent.target, ent.user) \/ row.user \in Users
                 => row.target = ent.target /\ row.user = ent.user

\* A user whose row a transaction has written is not deleted before it commits.
UsersHeld ==
    \A r \in Requests : At(r, "commitBan") /\ req[r].draft # "none" => Exists(req[r].user)

IInv == TypeOK /\ Fresh /\ UsersHeld /\ (\A r \in Requests : SavesOwnRow(r)) /\ OneLikePerRequest

(***************************************************************************)
(* Rows and records                                                        *)
(***************************************************************************)
\* A row that names a target or a user is a row.
LEMMA NamedRow ==
    ASSUME TypeOK, NEW l \in LikeId,
           likes[l].target \in Targets \/ likes[l].user \in Users
    PROVE  likes[l] \in LikeRow
<1>1. NoLike.target \notin Targets /\ NoLike.user \notin Users
  BY LikesConstants DEF NoLike
<1> QED BY <1>1 DEF TypeOK

\* What the types say of a request, by the place it is at.
LEMMA RequestTypes ==
    ASSUME TypeOK, NEW r \in Requests
    PROVE  /\ At(r, "createLike") =>
                 req[r].target \in Targets /\ req[r].user \in Users /\ req[r].status \in Status
           /\ At(r, "saveLike") => req[r].id \in LikeId /\ req[r].ent \in LikeRow
           /\ At(r, "updateUser") => req[r].user \in Users /\ req[r].isBanned \in BOOLEAN
           /\ At(r, "commitBan") =>
                 /\ req[r].user \in Users /\ req[r].isBanned \in BOOLEAN
                 /\ req[r].draft \in {"none", "active", "banned"}
<1>1. req[r] \in Request
  BY DEF TypeOK
<1> QED BY <1>1 DEF Request, BanRequest, At

\* What is drafted of a user is a row of his.
LEMMA DraftTyped ==
    ASSUME TypeOK, NEW r \in Requests, At(r, "updateUser")
    PROVE  /\ Draft(r) \in {"none", "active", "banned"}
           /\ Draft(r) # "none" => Exists(req[r].user)
<1>1. users[req[r].user] \in {"active", "banned", "deleted"}
  BY RequestTypes DEF TypeOK, UsersTyped
<1> QED BY <1>1 DEF Draft, Target, Exists

\* A save leaves targets and users of the rows as they are, and a row that it may write has
\* its status then; the flag is the one of the row, or the one it was found with.
LEMMA SaveMoves ==
    ASSUME TypeOK, NEW r \in Requests, SavesOwnRow(r), SaveLike(r)
    PROVE  /\ \A l \in LikeId :
                 /\ likes'[l].target = likes[l].target /\ likes'[l].user = likes[l].user
                 /\ likes'[l] \in LikeRow \cup {NoLike}
                 /\ likes[l] = NoLike => likes'[l] = NoLike
                 /\ \/ likes'[l].isBanned = likes[l].isBanned
                    \/ l = req[r].id /\ likes'[l].isBanned = req[r].ent.isBanned
                 /\ l # req[r].id => likes'[l] = likes[l]
           /\ likes' \in [LikeId -> LikeRow \cup {NoLike}]
           /\ CanWrite(req[r].ent.target, req[r].ent.user)
                 => likes'[req[r].id].status = req[r].ent.status
<1> DEFINE id == req[r].id
           ent == req[r].ent
<1>1. At(r, "saveLike") /\ id \in LikeId /\ ent \in LikeRow
  BY RequestTypes DEF SaveLike
<1>2. likes \in [LikeId -> LikeRow \cup {NoLike}]
  BY DEF TypeOK
<1>3. NoLike.target \notin Targets /\ NoLike.user \notin Users
  BY LikesConstants DEF NoLike
<1>4. CASE likes[id] # NoLike /\ \E flag \in {likes[id].isBanned, ent.isBanned} :
              likes' = [likes EXCEPT ![id] = [likes[id] EXCEPT !.status = ent.status, !.isBanned = flag]]
  <2>1. PICK flag \in {likes[id].isBanned, ent.isBanned} :
           likes' = [likes EXCEPT ![id] = [likes[id] EXCEPT !.status = ent.status, !.isBanned = flag]]
    BY <1>4
  <2>2. likes[id] \in LikeRow
    BY <1>1, <1>2, <1>4
  <2> DEFINE row == [likes[id] EXCEPT !.status = ent.status, !.isBanned = flag]
  <2>3. /\ row \in LikeRow /\ row.target = likes[id].target /\ row.user = likes[id].user
        /\ row.isBanned = flag /\ row.status = ent.status
    BY <1>1, <2>2 DEF LikeRow
  <2>4. likes' = [likes EXCEPT ![id] = row]
    BY <2>1
  <2> HIDE DEF row
  <2>5. likes'[id] = row /\ likes' \in [LikeId -> LikeRow \cup {NoLike}]
    BY <1>1, <1>2, <2>3, <2>4
  <2>6. \A l \in LikeId : l # id => likes'[l] = likes[l]
    BY <1>2, <2>4
  <2> QED BY <1>2, <1>4, <2>3, <2>5, <2>6
<1>5. CASE likes[id] = NoLike /\ CanWrite(ent.target, ent.user)
  <2>1. likes[id].target = ent.target /\ ent.target \in Targets
    BY <1>1, <1>5 DEF SavesOwnRow
  <2> QED BY <1>3, <1>5, <2>1
<1>6. CASE likes[id].user # ent.user /\ likes' = likes
  BY <1>1, <1>2, <1>6 DEF SavesOwnRow
<1> QED BY <1>4, <1>5, <1>6 DEF SaveLike

\* The flags are all that a ban changes of the rows.
LEMMA BanMoves ==
    ASSUME TypeOK, NEW r \in Requests, CommitBan(r)
    PROVE  /\ \A l \in LikeId :
                 /\ likes'[l].target = likes[l].target /\ likes'[l].user = likes[l].user
                 /\ likes'[l].status = likes[l].status
                 /\ likes[l] = NoLike => likes'[l] = NoLike
                 /\ IF l \in req[r].rows \cap LikedBy(req[r].user)
                    THEN likes'[l].isBanned = req[r].isBanned ELSE likes'[l] = likes[l]
           /\ likes' \in [LikeId -> LikeRow \cup {NoLike}]
           /\ users' \in [Users -> {"active", "banned", "deleted"}]
           /\ \A u \in Users : u # req[r].user => users'[u] = users[u]
<1>1. /\ req[r].user \in Users /\ req[r].isBanned \in BOOLEAN
      /\ req[r].draft \in {"none", "active", "banned"}
  BY RequestTypes DEF CommitBan, CommitUser
<1>2. NoLike.user \notin Users
  BY LikesConstants DEF NoLike
<1>3. ASSUME NEW l \in LikedBy(req[r].user)
      PROVE  LET row == [likes[l] EXCEPT !.isBanned = req[r].isBanned]
             IN /\ row \in LikeRow /\ row.isBanned = req[r].isBanned /\ row.status = likes[l].status
                /\ row.target = likes[l].target /\ row.user = likes[l].user /\ likes[l] # NoLike
  <2>1. l \in LikeId /\ likes[l].user \in Users
    BY <1>1 DEF LikedBy
  <2>2. likes[l] \in LikeRow
    BY <2>1, NamedRow
  <2> QED BY <1>1, <1>2, <2>1, <2>2 DEF LikeRow
<1>4. likes' = UpdateBanUnban(r)
  BY DEF CommitBan
<1>5. \A l \in LikeId :
         likes'[l] = IF l \in req[r].rows \cap LikedBy(req[r].user)
                     THEN [likes[l] EXCEPT !.isBanned = req[r].isBanned] ELSE likes[l]
  BY <1>4 DEF UpdateBanUnban
<1>6. likes \in [LikeId -> LikeRow \cup {NoLike}]
  BY DEF TypeOK
<1>7. likes' \in [LikeId -> LikeRow \cup {NoLike}]
  <2>1. \A l \in LikeId : likes'[l] \in LikeRow \cup {NoLike}
    BY <1>3, <1>5, <1>6
  <2>2. likes' = [l \in LikeId |-> likes'[l]]
    BY <1>4 DEF UpdateBanUnban
  <2> QED BY <2>1, <2>2
<1>8. /\ users' \in [Users -> {"active", "banned", "deleted"}]
      /\ \A u \in Users : u # req[r].user => users'[u] = users[u]
  BY <1>1 DEF CommitBan, CommitUser, TypeOK, UsersTyped
<1> QED BY <1>3, <1>5, <1>7, <1>8

\* A request that is answered, or waits in a state of the right type, keeps the requests typed.
LEMMA AwaitType ==
    ASSUME TypeOK, NEW r \in Requests, NEW state \in Request, Await(r, state)
    PROVE  req' \in [Requests -> Request]
BY DEF TypeOK, Await

LEMMA AnswerType ==
    ASSUME TypeOK, NEW r \in Requests, Answer(r)
    PROVE  req' \in [Requests -> Request]
<1>1. Idle \in Request
  BY DEF Idle, Request
<1> QED BY <1>1, AwaitType DEF Answer

(***************************************************************************)
(* Types                                                                   *)
(***************************************************************************)
LEMMA TypeInit == Init => TypeOK
<1> SUFFICES ASSUME Init PROVE TypeOK
  OBVIOUS
<1>1. Idle \in Request
  BY DEF Idle, Request
<1>2. lastLike \in 0..MaxLike
  BY LikesConstants DEF Init
<1> QED BY <1>1, <1>2 DEF Init, TypeOK, UsersInit, UsersTyped

LEMMA TypeStep == TypeOK /\ [Next]_vars => TypeOK'
<1> SUFFICES ASSUME TypeOK, [Next]_vars PROVE TypeOK'
  OBVIOUS
<1>1. ASSUME NEW r \in Requests, NEW t \in Targets, NEW u \in Users, NEW status \in Status,
             SetLikeStatus(r, t, u, status)
      PROVE  TypeOK'
  <2>1. CASE FindLike(t, u, status) = {}
    <3>1. [pc |-> "createLike", target |-> t, user |-> u, status |-> status] \in Request
      BY DEF Request
    <3>2. Await(r, [pc |-> "createLike", target |-> t, user |-> u, status |-> status])
      BY <1>1, <2>1 DEF SetLikeStatus
    <3> QED BY <1>1, <3>1, <3>2, AwaitType DEF SetLikeStatus, TypeOK, UsersTyped, tables
  <2>2. CASE FindLike(t, u, status) # {}
    <3>1. PICK l \in FindLike(t, u, status) :
             Await(r, [pc |-> "saveLike", id |-> l, ent |-> [likes[l] EXCEPT !.status = status]])
      BY <1>1, <2>2 DEF SetLikeStatus
    <3>2. l \in LikeId /\ likes[l] \in LikeRow
      BY <3>1, NamedRow DEF FindLike
    <3>3. [likes[l] EXCEPT !.status = status] \in LikeRow
      BY <3>2 DEF LikeRow
    <3>4. [pc |-> "saveLike", id |-> l, ent |-> [likes[l] EXCEPT !.status = status]] \in Request
      BY <3>2, <3>3 DEF Request
    <3> QED BY <1>1, <3>1, <3>4, AwaitType DEF SetLikeStatus, TypeOK, UsersTyped, tables
  <2> QED BY <2>1, <2>2
<1>2. ASSUME NEW r \in Requests, CreateLike(r)
      PROVE  TypeOK'
  <2> DEFINE row == [target |-> req[r].target, user |-> req[r].user,
                     status |-> req[r].status, isBanned |-> FALSE]
  <2>1. req' \in [Requests -> Request]
    BY <1>2, AnswerType DEF CreateLike
  <2>2. row \in LikeRow
    BY <1>2, RequestTypes DEF CreateLike, LikeRow
  <2>3. CASE CanWrite(req[r].target, req[r].user)
    <3>1. lastLike < MaxLike /\ lastLike' = lastLike + 1 /\ likes' = [likes EXCEPT ![lastLike'] = row]
      BY <1>2, <2>3 DEF CreateLike
    <3>2. lastLike' \in 0..MaxLike /\ lastLike' \in LikeId
      BY <3>1, LikesConstants DEF TypeOK, LikeId
    <3>3. likes' \in [LikeId -> LikeRow \cup {NoLike}]
      BY <3>1, <3>2, <2>2 DEF TypeOK
    <3> QED BY <1>2, <2>1, <3>2, <3>3 DEF CreateLike, TypeOK, UsersTyped
  <2>4. CASE ~CanWrite(req[r].target, req[r].user)
    BY <1>2, <2>1, <2>4 DEF CreateLike, TypeOK, UsersTyped
  <2> QED BY <2>3, <2>4
<1>3. ASSUME NEW r \in Requests, SaveLike(r)
      PROVE  TypeOK'
  <2>1. req' \in [Requests -> Request]
    BY <1>3, AnswerType DEF SaveLike
  <2>2. req[r].id \in LikeId /\ req[r].ent \in LikeRow
    BY <1>3, RequestTypes DEF SaveLike
  <2>3. ASSUME NEW flag \in {likes[req[r].id].isBanned, req[r].ent.isBanned}, likes[req[r].id] # NoLike
        PROVE  [likes[req[r].id] EXCEPT !.status = req[r].ent.status, !.isBanned = flag] \in LikeRow
    <3>1. likes[req[r].id] \in LikeRow
      BY <2>2, <2>3 DEF TypeOK
    <3> QED BY <2>2, <2>3, <3>1 DEF LikeRow
  <2>4. likes' \in [LikeId -> LikeRow \cup {NoLike}]
    BY <1>3, <2>2, <2>3 DEF SaveLike, TypeOK
  <2> QED BY <1>3, <2>1, <2>4 DEF SaveLike, TypeOK, UsersTyped
<1>4. ASSUME NEW r \in Requests, NEW u \in Users, NEW isBanned \in BOOLEAN,
             BanUnbanUser(r, u, isBanned)
      PROVE  TypeOK'
  <2>1. [pc |-> "updateUser", user |-> u, isBanned |-> isBanned,
         changed |-> users[u] # Target(isBanned)] \in Request
    BY DEF Request, BanRequest
  <2> QED BY <1>4, <2>1, AwaitType DEF BanUnbanUser, FindUser, TypeOK, UsersTyped, tables
<1>5. ASSUME NEW r \in Requests, CommitBan(r)
      PROVE  TypeOK'
  <2>1. req' \in [Requests -> Request]
    BY <1>5, AnswerType DEF CommitBan, CommitUser
  <2> QED BY <1>5, <2>1, BanMoves DEF CommitBan, TypeOK, UsersTyped
<1>10. ASSUME NEW r \in Requests, UpdateUser(r)
       PROVE  TypeOK'
  <2>1. /\ req[r].user \in Users /\ req[r].isBanned \in BOOLEAN
        /\ Draft(r) \in {"none", "active", "banned"}
    BY <1>10, RequestTypes, DraftTyped DEF UpdateUser, UpdateUserAnd
  <2>2. LikedBy(req[r].user) \in SUBSET LikeId
    BY DEF LikedBy
  <2>3. [pc |-> "commitBan", user |-> req[r].user, isBanned |-> req[r].isBanned,
         draft |-> Draft(r), rows |-> LikedBy(req[r].user)] \in Request
    BY <2>1, <2>2 DEF Request, BanRequest
  <2> QED BY <1>10, <2>3, AwaitType DEF UpdateUser, UpdateUserAnd, TypeOK, UsersTyped, tables
<1>6. ASSUME NEW r \in Requests, Fail(r)
      PROVE  TypeOK'
  BY <1>6, AnswerType DEF Fail, TypeOK, UsersTyped, tables
<1>7. ASSUME NEW u \in Users, DeleteUser(u)
      PROVE  TypeOK'
  <2>1. ASSUME NEW l \in LikeId, likes[l].user = u
        PROVE  [likes[l] EXCEPT !.user = None] \in LikeRow
    BY <2>1, NamedRow DEF LikeRow
  <2>2. likes' \in [LikeId -> LikeRow \cup {NoLike}]
    BY <1>7, <2>1 DEF DeleteUser, TypeOK
  <2> QED BY <1>7, <2>2 DEF DeleteUser, TypeOK, UsersTyped
<1>8. ASSUME NEW t \in Targets, DeleteTarget(t)
      PROVE  TypeOK'
  BY <1>8 DEF DeleteTarget, TypeOK, UsersTyped
<1>9. CASE UNCHANGED vars
  BY <1>9 DEF vars, tables, TypeOK, UsersTyped
<1> QED
  BY <1>1, <1>2, <1>3, <1>4, <1>5, <1>6, <1>7, <1>8, <1>9, <1>10
     DEF Next, RequestStep, Begin

\* Every reachable state is well typed: rows name targets and users of the tables, requests
\* hold what their handlers found (src/src/feature/posts/use-case/like-status-by-post-id.usecase.ts).
THEOREM TypeCorrect == Spec => []TypeOK
<1>1. TypeOK /\ [Next]_vars => TypeOK'
  BY TypeStep
<1> QED BY TypeInit, <1>1, PTL DEF Spec

(***************************************************************************)
(* Rows and saves                                                          *)
(***************************************************************************)
\* A request that leaves "saveLike" out of the state it goes to has no row of its own to save.
LEMMA Elsewhere ==
    ASSUME TypeOK, NEW r \in Requests, NEW state, state.pc # "saveLike", Await(r, state)
    PROVE  ~At(r, "saveLike")'
BY DEF TypeOK, Await, At

\* What a step does to the others' saves: targets and users that were there stay the same
\* or go, rows keep their target and user or lose them, and the ids go on.
LEMMA OthersSave ==
    ASSUME TypeOK, NEW q \in Requests, SavesOwnRow(q), req'[q] = req[q],
           At(q, "saveLike") =>
               /\ req[q].id <= lastLike'
               /\ CanWrite(req[q].ent.target, req[q].ent.user)'
                     => CanWrite(req[q].ent.target, req[q].ent.user)
               /\ CanWrite(req[q].ent.target, req[q].ent.user)' \/ likes'[req[q].id].user \in Users
                     => /\ likes'[req[q].id].target = likes[req[q].id].target
                        /\ likes'[req[q].id].user = likes[req[q].id].user
    PROVE  SavesOwnRow(q)'
<1> SUFFICES ASSUME At(q, "saveLike")
             PROVE  /\ req[q].ent.target \in Targets /\ req[q].ent.user \in Users /\ req[q].id <= lastLike'
                    /\ CanWrite(req[q].ent.target, req[q].ent.user)' \/ likes'[req[q].id].user \in Users
                          => /\ likes'[req[q].id].target = req[q].ent.target
                             /\ likes'[req[q].id].user = req[q].ent.user
  BY DEF SavesOwnRow, At, CanWrite, Exists
<1> QED BY DEF SavesOwnRow

LEMMA SavesInit == Init => Fresh /\ UsersHeld /\ \A r \in Requests : SavesOwnRow(r)
BY DEF Init, Fresh, UsersHeld, SavesOwnRow, At, Idle

\* A step leaves what is held alone.
LEMMA StaysHeld ==
    ASSUME UsersHeld,
           \A q \in Requests : At(q, "commitBan")' =>
               \/ req'[q] = req[q] /\ (Exists(req[q].user) => Exists(req[q].user)')
               \/ req'[q].draft = "none" \/ Exists(req[q].user)'
    PROVE  UsersHeld'
BY DEF UsersHeld, At, Exists

LEMMA HeldStep ==
    ASSUME TypeOK, TypeOK', UsersHeld, [Next]_vars
    PROVE  UsersHeld' /\ \A r \in Requests : CommitBan(r) => \A u \in Users : Exists(u)' = Exists(u)
<1> DEFINE Kept(q) == \/ req'[q] = req[q] /\ (Exists(req[q].user) => Exists(req[q].user)')
                     \/ req'[q].draft = "none" \/ Exists(req[q].user)'
<1>1. ASSUME NEW r \in Requests, NEW state, Await(r, state)
      PROVE  req'[r] = state /\ \A q \in Requests : q # r => req'[q] = req[q]
  BY <1>1 DEF Await, TypeOK
<1>2. ASSUME NEW r \in Requests, NEW state, Await(r, state), state.pc # "commitBan", users' = users
      PROVE  UsersHeld'
  <2>1. ASSUME NEW q \in Requests, At(q, "commitBan")'
        PROVE  req'[q] = req[q]
    BY <1>1, <1>2, <2>1 DEF At
  <2> QED BY <1>2, <2>1, StaysHeld DEF Exists
<1>3. ASSUME NEW r \in Requests, CommitBan(r)
      PROVE  UsersHeld' /\ \A u \in Users : Exists(u)' = Exists(u)
  <2>1. req[r].user \in Users /\ req[r].draft \in {"none", "active", "banned"}
    BY <1>3, RequestTypes DEF CommitBan, CommitUser
  <2>2. req[r].draft # "none" => Exists(req[r].user)
    BY <1>3 DEF UsersHeld, CommitBan, CommitUser
  <2>3. ASSUME NEW u \in Users
        PROVE  Exists(u)' = Exists(u)
    BY <1>3, <2>1, <2>2 DEF CommitBan, CommitUser, Exists, TypeOK, UsersTyped
  <2>4. Await(r, Idle) /\ Idle.pc # "commitBan"
    BY <1>3 DEF CommitBan, CommitUser, Answer, Idle
  <2>5. ASSUME NEW q \in Requests, At(q, "commitBan")'
        PROVE  req'[q] = req[q] /\ (Exists(req[q].user) => Exists(req[q].user)')
    <3>1. req'[q] = req[q] /\ At(q, "commitBan")
      BY <1>1, <2>4, <2>5 DEF At
    <3>2. req[q].user \in Users
      BY <3>1, RequestTypes
    <3> QED BY <2>3, <3>1, <3>2
  <2>6. UsersHeld'
    BY <2>5, StaysHeld
  <2> QED BY <2>3, <2>6
<1>4. ASSUME NEW r \in Requests, UpdateUser(r)
      PROVE  UsersHeld'
  <2> DEFINE state == [pc |-> "commitBan", user |-> req[r].user, isBanned |-> req[r].isBanned,
                       draft |-> Draft(r), rows |-> LikedBy(req[r].user)]
  <2>1. Await(r, state) /\ users' = users /\ (Draft(r) # "none" => Exists(req[r].user))
    BY <1>4, DraftTyped DEF UpdateUser, UpdateUserAnd, tables
  <2>2. req'[r] = state /\ \A q \in Requests : q # r => req'[q] = req[q]
    BY <1>1, <2>1
  <2>3. req'[r].draft = Draft(r) /\ req'[r].user = req[r].user
    BY <2>2
  <2>4. ASSUME NEW q \in Requests
        PROVE  Kept(q)
    BY <2>1, <2>2, <2>3 DEF Exists
  <2> QED BY <2>4, StaysHeld
<1>5. ASSUME NEW r \in Requests, Begin(r) \/ CreateLike(r) \/ SaveLike(r) \/ Fail(r)
      PROVE  UsersHeld'
  <2>1. \E state : Await(r, state) /\ state.pc # "commitBan" /\ users' = users
    <3>1. ASSUME NEW t \in Targets, NEW u \in Users, NEW status \in Status, SetLikeStatus(r, t, u, status)
          PROVE  \E state : Await(r, state) /\ state.pc # "commitBan" /\ users' = users
      BY <3>1 DEF SetLikeStatus, tables
    <3>2. ASSUME NEW u \in Users, NEW isBanned \in BOOLEAN, BanUnbanUser(r, u, isBanned)
          PROVE  \E state : Await(r, state) /\ state.pc # "commitBan" /\ users' = users
      BY <3>2 DEF BanUnbanUser, FindUser, tables
    <3>3. CASE CreateLike(r) \/ SaveLike(r) \/ Fail(r)
      BY <3>3 DEF CreateLike, SaveLike, Fail, Answer, Idle, tables
    <3> QED BY <1>5, <3>1, <3>2, <3>3 DEF Begin
  <2> QED BY <1>2, <2>1
<1>6. ASSUME NEW v \in Users, DeleteUser(v)
      PROVE  UsersHeld'
  <2>1. ~UserHeld(v) /\ req' = req /\ users' = [users EXCEPT ![v] = "deleted"]
    BY <1>6 DEF DeleteUser
  <2>2. ASSUME NEW q \in Requests, At(q, "commitBan")'
        PROVE  Kept(q)
    <3>1. At(q, "commitBan") /\ req[q].user \in Users
      BY <2>1, <2>2, RequestTypes DEF At
    <3>2. CASE req[q].user = v
      BY <2>1, <3>1, <3>2 DEF UserHeld
    <3>3. CASE req[q].user # v
      BY <2>1, <3>1, <3>3 DEF Exists, TypeOK, UsersTyped
    <3> QED BY <3>2, <3>3
  <2> QED BY <2>2, StaysHeld
<1>7. ASSUME UNCHANGED <<users, req>>
      PROVE  UsersHeld'
  BY <1>7 DEF UsersHeld, At, Exists
<1>8. ASSUME NEW t \in Targets, DeleteTarget(t)
      PROVE  UsersHeld'
  BY <1>7, <1>8 DEF DeleteTarget
<1>9. CASE UNCHANGED vars
  <2>1. UNCHANGED <<users, req>>
    BY <1>9 DEF vars, tables
  <2> QED BY <1>3, <1>7, <2>1
<1> QED BY <1>3, <1>4, <1>5, <1>6, <1>8, <1>9 DEF Next, RequestStep

LEMMA SavesStep ==
    ASSUME TypeOK, TypeOK', Fresh, UsersHeld, \A r \in Requests : SavesOwnRow(r), [Next]_vars
    PROVE  Fresh' /\ \A r \in Requests : SavesOwnRow(r)'
<1>1. ASSUME NEW r \in Requests, NEW t \in Targets, NEW u \in Users, NEW status \in Status,
             SetLikeStatus(r, t, u, status)
      PROVE  Fresh' /\ \A q \in Requests : SavesOwnRow(q)'
  <2>1. Fresh'
    BY <1>1 DEF SetLikeStatus, tables, Fresh
  <2>2. ASSUME NEW q \in Requests, q # r
        PROVE  SavesOwnRow(q)'
    <3>1. req'[q] = req[q]
      BY <1>1, <2>2 DEF SetLikeStatus, Await, TypeOK
    <3> QED BY <1>1, <3>1 DEF SetLikeStatus, tables, SavesOwnRow, At, CanWrite, Exists
  <2>3. SavesOwnRow(r)'
    <3>1. CASE FindLike(t, u, status) = {}
      <4>1. Await(r, [pc |-> "createLike", target |-> t, user |-> u, status |-> status])
        BY <1>1, <3>1 DEF SetLikeStatus
      <4> QED BY <4>1, Elsewhere DEF SavesOwnRow
    <3>2. CASE FindLike(t, u, status) # {}
      <4>1. PICK l \in FindLike(t, u, status) :
               Await(r, [pc |-> "saveLike", id |-> l, ent |-> [likes[l] EXCEPT !.status = status]])
        BY <1>1, <3>2 DEF SetLikeStatus
      <4>2. l \in LikeId /\ likes[l].target = t /\ likes[l].user = u /\ likes[l] \in LikeRow
        BY <4>1, NamedRow DEF FindLike
      <4>7. l <= lastLike
        <5>1. NoLike.user \notin Users
          BY LikesConstants DEF NoLike
        <5>2. ~(l > lastLike)
          BY <4>2, <5>1 DEF Fresh
        <5> QED BY <4>2, <5>2, LikesConstants DEF LikeId, TypeOK
      <4> DEFINE ent == [likes[l] EXCEPT !.status = status]
      <4>3. ent.target = t /\ ent.user = u
        BY <4>2 DEF LikeRow
      <4>4. req'[r] = [pc |-> "saveLike", id |-> l, ent |-> ent]
        BY <4>1 DEF Await, TypeOK
      <4> HIDE DEF ent
      <4>5. req'[r].id = l /\ req'[r].ent.target = t /\ req'[r].ent.user = u
        BY <4>3, <4>4
      <4>6. likes' = likes /\ lastLike' = lastLike
        BY <1>1 DEF SetLikeStatus, tables
      <4> QED BY <4>2, <4>5, <4>6, <4>7 DEF SavesOwnRow
    <3> QED BY <3>1, <3>2
  <2> QED BY <2>1, <2>2, <2>3
<1>2. ASSUME NEW r \in Requests, CreateLike(r)
      PROVE  Fresh' /\ \A q \in Requests : SavesOwnRow(q)'
  <2> DEFINE row == [target |-> req[r].target, user |-> req[r].user,
                     status |-> req[r].status, isBanned |-> FALSE]
  <2>1. CASE CanWrite(req[r].target, req[r].user)
    <3>1. /\ lastLike < MaxLike /\ lastLike' = lastLike + 1
          /\ likes' = [likes EXCEPT ![lastLike'] = row]
          /\ UNCHANGED <<users, targets>> /\ Answer(r)
      BY <1>2, <2>1 DEF CreateLike
    <3>2. lastLike' \in LikeId /\ likes[lastLike'] = NoLike
      BY <3>1, LikesConstants DEF TypeOK, LikeId, Fresh
    <3>3. Fresh'
      <4>1. ASSUME NEW l \in LikeId, l > lastLike'
            PROVE  likes'[l] = NoLike
        <5>1. l # lastLike' /\ l > lastLike
          BY <3>1, <4>1 DEF TypeOK, LikeId
        <5> QED BY <3>1, <5>1 DEF TypeOK, Fresh
      <4> QED BY <4>1 DEF Fresh
    <3>4. ASSUME NEW q \in Requests, q # r
          PROVE  SavesOwnRow(q)'
      <4>1. req'[q] = req[q]
        BY <3>1, <3>4 DEF Answer, Await, TypeOK
      <4>2. ASSUME At(q, "saveLike")
            PROVE  likes'[req[q].id] = likes[req[q].id] /\ req[q].id <= lastLike'
        <5>1. req[q].id \in LikeId /\ req[q].id <= lastLike
          BY <4>2, RequestTypes DEF SavesOwnRow
        <5>2. req[q].id # lastLike' /\ req[q].id <= lastLike'
          BY <3>1, <5>1, LikesConstants DEF LikeId, TypeOK
        <5> QED BY <3>1, <5>1, <5>2 DEF TypeOK
      <4> QED BY <3>1, <4>1, <4>2, OthersSave DEF CanWrite, Exists
    <3>5. SavesOwnRow(r)'
      BY <3>1, Elsewhere DEF Answer, Idle, SavesOwnRow
    <3> QED BY <3>3, <3>4, <3>5
  <2>2. CASE ~CanWrite(req[r].target, req[r].user)
    <3>1. UNCHANGED tables /\ Answer(r)
      BY <1>2, <2>2 DEF CreateLike, tables
    <3>2. ASSUME NEW q \in Requests, q # r
          PROVE  SavesOwnRow(q)'
      <4>1. req'[q] = req[q]
        BY <3>1, <3>2 DEF Answer, Await, TypeOK
      <4> QED BY <3>1, <4>1 DEF tables, SavesOwnRow, At, CanWrite, Exists
    <3>3. SavesOwnRow(r)'
      BY <3>1, Elsewhere DEF Answer, Idle, SavesOwnRow
    <3> QED BY <3>1, <3>2, <3>3 DEF tables, Fresh
  <2> QED BY <2>1, <2>2
<1>3. ASSUME NEW r \in Requests, SaveLike(r)
      PROVE  Fresh' /\ \A q \in Requests : SavesOwnRow(q)'
  <2>1. Answer(r) /\ UNCHANGED <<users, targets, lastLike>>
    BY <1>3 DEF SaveLike
  <2>2. SavesOwnRow(r)'
    BY <2>1, Elsewhere DEF Answer, Idle, SavesOwnRow
  <2>3. ASSUME NEW l \in LikeId
        PROVE  /\ likes'[l].target = likes[l].target /\ likes'[l].user = likes[l].user
               /\ likes[l] = NoLike => likes'[l] = NoLike
    BY <1>3, SaveMoves
  <2>4. Fresh'
    BY <2>1, <2>3 DEF Fresh
  <2>5. ASSUME NEW q \in Requests, q # r
        PROVE  SavesOwnRow(q)'
    <3>1. req'[q] = req[q]
      BY <2>1, <2>5 DEF Answer, Await, TypeOK
    <3>2. At(q, "saveLike") => req[q].id \in LikeId /\ req[q].id <= lastLike'
      BY <2>1, RequestTypes DEF SavesOwnRow
    <3> QED BY <2>1, <2>3, <3>1, <3>2, OthersSave DEF CanWrite, Exists
  <2> QED BY <2>2, <2>4, <2>5
<1>4. ASSUME NEW r \in Requests, NEW u \in Users, NEW isBanned \in BOOLEAN,
             BanUnbanUser(r, u, isBanned)
      PROVE  Fresh' /\ \A q \in Requests : SavesOwnRow(q)'
  <2>1. UNCHANGED tables
    BY <1>4 DEF BanUnbanUser
  <2>2. SavesOwnRow(r)'
    BY <1>4, Elsewhere DEF BanUnbanUser, FindUser, SavesOwnRow
  <2>3. ASSUME NEW q \in Requests, q # r
        PROVE  SavesOwnRow(q)'
    <3>1. req'[q] = req[q]
      BY <1>4, <2>3 DEF BanUnbanUser, FindUser, Await, TypeOK
    <3> QED BY <2>1, <3>1 DEF tables, SavesOwnRow, At, CanWrite, Exists
  <2> QED BY <2>1, <2>2, <2>3 DEF tables, Fresh
<1>5. ASSUME NEW r \in Requests, CommitBan(r)
      PROVE  Fresh' /\ \A q \in Requests : SavesOwnRow(q)'
  <2>1. Answer(r) /\ UNCHANGED <<targets, lastLike>>
    BY <1>5 DEF CommitBan, CommitUser
  <2>2. ASSUME NEW l \in LikeId
        PROVE  /\ likes'[l].target = likes[l].target /\ likes'[l].user = likes[l].user
               /\ likes[l] = NoLike => likes'[l] = NoLike
    BY <1>5, BanMoves
  <2>3. Fresh'
    BY <2>1, <2>2 DEF Fresh
  <2>4. SavesOwnRow(r)'
    BY <2>1, Elsewhere DEF Answer, Idle, SavesOwnRow
  <2>5. ASSUME NEW q \in Requests, q # r
        PROVE  SavesOwnRow(q)'
    <3>1. req'[q] = req[q]
      BY <2>1, <2>5 DEF Answer, Await, TypeOK
    <3>2. At(q, "saveLike") =>
             req[q].id \in LikeId /\ req[q].ent.user \in Users /\ req[q].id <= lastLike'
      BY <2>1, RequestTypes DEF SavesOwnRow
    <3>3. \A v \in Users : Exists(v)' = Exists(v)
      BY <1>5, HeldStep
    <3> QED BY <2>1, <2>2, <3>1, <3>2, <3>3, OthersSave DEF CanWrite
  <2> QED BY <2>3, <2>4, <2>5
<1>10. ASSUME NEW r \in Requests, UpdateUser(r)
       PROVE  Fresh' /\ \A q \in Requests : SavesOwnRow(q)'
  <2>1. UNCHANGED tables
    BY <1>10 DEF UpdateUser
  <2>2. SavesOwnRow(r)'
    BY <1>10, Elsewhere DEF UpdateUser, UpdateUserAnd, SavesOwnRow
  <2>3. ASSUME NEW q \in Requests, q # r
        PROVE  SavesOwnRow(q)'
    <3>1. req'[q] = req[q]
      BY <1>10, <2>3 DEF UpdateUser, UpdateUserAnd, Await, TypeOK
    <3> QED BY <2>1, <3>1 DEF tables, SavesOwnRow, At, CanWrite, Exists
  <2> QED BY <2>1, <2>2, <2>3 DEF tables, Fresh
<1>6. ASSUME NEW r \in Requests, Fail(r)
      PROVE  Fresh' /\ \A q \in Requests : SavesOwnRow(q)'
  <2>1. UNCHANGED tables /\ Answer(r)
    BY <1>6 DEF Fail
  <2>2. SavesOwnRow(r)'
    BY <2>1, Elsewhere DEF Answer, Idle, SavesOwnRow
  <2>3. ASSUME NEW q \in Requests, q # r
        PROVE  SavesOwnRow(q)'
    <3>1. req'[q] = req[q]
      BY <2>1, <2>3 DEF Answer, Await, TypeOK
    <3> QED BY <2>1, <3>1 DEF tables, SavesOwnRow, At, CanWrite, Exists
  <2> QED BY <2>1, <2>2, <2>3 DEF tables, Fresh
<1>7. ASSUME NEW u \in Users, DeleteUser(u)
      PROVE  Fresh' /\ \A q \in Requests : SavesOwnRow(q)'
  <2>1. /\ users' = [users EXCEPT ![u] = "deleted"]
        /\ likes' = [l \in LikeId |-> IF likes[l].user = u THEN [likes[l] EXCEPT !.user = None] ELSE likes[l]]
        /\ UNCHANGED <<targets, lastLike, req>>
    BY <1>7 DEF DeleteUser
  <2>2. ASSUME NEW l \in LikeId, likes[l].user # u
        PROVE  likes'[l] = likes[l]
    BY <2>1, <2>2
  <2>3. NoLike.user \notin Users
    BY LikesConstants DEF NoLike
  <2>4. Fresh'
    <3>1. ASSUME NEW l \in LikeId, l > lastLike'
          PROVE  likes'[l] = NoLike
      BY <2>1, <2>2, <2>3, <3>1 DEF Fresh
    <3> QED BY <3>1 DEF Fresh
  <2>5. ASSUME NEW v \in Users, Exists(v)'
        PROVE  v # u /\ Exists(v)
    BY <2>1, <2>5 DEF Exists, TypeOK, UsersTyped
  <2>6. ASSUME NEW q \in Requests
        PROVE  SavesOwnRow(q)'
    <3>1. At(q, "saveLike") =>
             /\ req[q].id \in LikeId /\ req[q].ent.user \in Users /\ req[q].id <= lastLike'
             /\ CanWrite(req[q].ent.target, req[q].ent.user) =>
                   likes[req[q].id].user = req[q].ent.user
      BY <2>1, RequestTypes DEF SavesOwnRow
    <3>2. ASSUME NEW l \in LikeId, likes'[l].user \in Users
          PROVE  likes'[l] = likes[l]
      <4>1. CASE likes[l].user = u
        <5>1. likes[l] \in LikeRow
          BY <4>1, NamedRow
        <5>2. likes'[l].user = None
          BY <2>1, <4>1, <5>1 DEF LikeRow
        <5> QED BY <3>2, <5>2, LikesConstants
      <4>2. CASE likes[l].user # u
        BY <2>2, <4>2
      <4> QED BY <4>1, <4>2
    <3> QED BY <2>1, <2>2, <2>5, <3>1, <3>2, OthersSave DEF CanWrite
  <2> QED BY <2>4, <2>6
<1>8. ASSUME NEW t \in Targets, DeleteTarget(t)
      PROVE  Fresh' /\ \A q \in Requests : SavesOwnRow(q)'
  <2>1. /\ targets' = targets \ {t}
        /\ likes' = [l \in LikeId |-> IF likes[l].target = t THEN NoLike ELSE likes[l]]
        /\ UNCHANGED <<users, lastLike, req>>
    BY <1>8 DEF DeleteTarget
  <2>2. Fresh'
    BY <2>1 DEF Fresh
  <2>3. ASSUME NEW l \in LikeId, likes[l].target # t
        PROVE  likes'[l] = likes[l]
    BY <2>1, <2>3
  <2>4. ASSUME NEW q \in Requests
        PROVE  SavesOwnRow(q)'
    <3>1. At(q, "saveLike") =>
             /\ req[q].id \in LikeId /\ req[q].id <= lastLike'
             /\ CanWrite(req[q].ent.target, req[q].ent.user) =>
                   likes[req[q].id].target = req[q].ent.target
      BY <2>1, RequestTypes DEF SavesOwnRow
    <3>2. ASSUME NEW l \in LikeId, likes'[l].user \in Users
          PROVE  likes'[l] = likes[l]
      <4>1. NoLike.user \notin Users
        BY LikesConstants DEF NoLike
      <4> QED BY <2>1, <3>2, <4>1
    <3> QED BY <2>1, <2>3, <3>1, <3>2, OthersSave DEF CanWrite, Exists
  <2> QED BY <2>2, <2>4
<1>9. CASE UNCHANGED vars
  BY <1>9 DEF vars, tables, Fresh, SavesOwnRow, At, CanWrite, Exists
<1> QED
  BY <1>1, <1>2, <1>3, <1>4, <1>5, <1>6, <1>7, <1>8, <1>9, <1>10
     DEF Next, RequestStep, Begin

(***************************************************************************)
(* Counting                                                                *)
(***************************************************************************)
LEMMA RowsFinite ==
    ASSUME NEW t, NEW u
    PROVE  IsFiniteSet(LikesOf(t, u)) /\ IsFiniteSet(Creating(t, u))
<1>1. IsFiniteSet(LikeId)
  BY FS_Interval, LikesConstants DEF LikeId
<1>2. LikesOf(t, u) \subseteq LikeId /\ Creating(t, u) \subseteq Requests
  BY DEF LikesOf, Creating
<1> QED BY <1>1, <1>2, FS_Subset, LikesConstants

LEMMA SmallerCount ==
    ASSUME NEW A, NEW B, IsFiniteSet(A), IsFiniteSet(B),
           NEW C \in SUBSET A, NEW D \in SUBSET B, NEW n \in Nat,
           Cardinality(A) + Cardinality(B) <= n
    PROVE  Cardinality(C) + Cardinality(D) <= n
<1>1. /\ Cardinality(A) \in Nat /\ Cardinality(B) \in Nat
      /\ Cardinality(C) \in Nat /\ Cardinality(D) \in Nat
      /\ Cardinality(C) <= Cardinality(A) /\ Cardinality(D) <= Cardinality(B)
  BY FS_Subset, FS_CardinalityType
<1> QED BY <1>1

\* A request that creates its row moves from one set to the other.
LEMMA MovedCount ==
    ASSUME NEW A, NEW B, IsFiniteSet(A), IsFiniteSet(B), NEW r \in B, NEW l, NEW n \in Nat,
           Cardinality(A) + Cardinality(B) <= n
    PROVE  Cardinality(A \cup {l}) + Cardinality(B \ {r}) <= n
<1>1. Cardinality(A) \in Nat /\ Cardinality(B) \in Nat
  BY FS_CardinalityType
<1>2. Cardinality(A \cup {l}) = Cardinality(A) \/ Cardinality(A \cup {l}) = Cardinality(A) + 1
  BY FS_AddElement
<1>3. Cardinality(B \ {r}) = Cardinality(B) - 1
  BY FS_RemoveElement
<1> QED BY <1>1, <1>2, <1>3

LEMMA CountInit == Init => OneLikePerRequest
<1> SUFFICES ASSUME Init, NEW t \in Targets, NEW u \in Users
             PROVE  Cardinality(LikesOf(t, u)) + Cardinality(Creating(t, u)) <= Cardinality(Requests)
  BY DEF OneLikePerRequest
<1>1. NoLike.target \notin Targets
  BY LikesConstants DEF NoLike
<1>2. LikesOf(t, u) = {} /\ Creating(t, u) = {}
  BY <1>1 DEF Init, LikesOf, Creating, Idle
<1>3. Cardinality(Requests) \in Nat
  BY LikesConstants, FS_CardinalityType
<1> QED BY <1>2, <1>3, FS_EmptySet

\* A step that adds no row and no request that creates one keeps the bound.
LEMMA NoneAdded ==
    ASSUME OneLikePerRequest, NEW t \in Targets, NEW u \in Users,
           LikesOf(t, u)' \subseteq LikesOf(t, u), Creating(t, u)' \subseteq Creating(t, u)
    PROVE  Cardinality(LikesOf(t, u)') + Cardinality(Creating(t, u)') <= Cardinality(Requests)
<1>1. Cardinality(Requests) \in Nat
  BY LikesConstants, FS_CardinalityType
<1>2. Cardinality(LikesOf(t, u)) + Cardinality(Creating(t, u)) <= Cardinality(Requests)
  BY DEF OneLikePerRequest
<1>3. IsFiniteSet(LikesOf(t, u)) /\ IsFiniteSet(Creating(t, u))
  BY RowsFinite
<1> HIDE DEF LikesOf, Creating
<1> QED BY <1>1, <1>2, <1>3, SmallerCount

\* A request that does not go to "createLike" is not added to those that create.
LEMMA NotCreating ==
    ASSUME TypeOK, NEW r \in Requests, NEW state, state.pc # "createLike", Await(r, state),
           NEW t, NEW u
    PROVE  Creating(t, u)' \subseteq Creating(t, u) \ {r}
BY DEF TypeOK, Await, Creating

\* Rows keep their target and user, or lose them.
LEMMA NotAdded ==
    ASSUME NEW t \in Targets, NEW u \in Users,
           \A l \in LikeId : likes'[l].target = t /\ likes'[l].user = u
                             => likes[l].target = t /\ likes[l].user = u
    PROVE  LikesOf(t, u)' \subseteq LikesOf(t, u)
BY DEF LikesOf

LEMMA CountStep ==
    ASSUME TypeOK, \A r \in Requests : SavesOwnRow(r), OneLikePerRequest, [Next]_vars
    PROVE  OneLikePerRequest'
<1> SUFFICES ASSUME NEW t \in Targets, NEW u \in Users
             PROVE  Cardinality(LikesOf(t, u)') + Cardinality(Creating(t, u)') <= Cardinality(Requests)
  BY DEF OneLikePerRequest
<1>1. ASSUME NEW r \in Requests, NEW tt \in Targets, NEW v \in Users, NEW status \in Status,
             SetLikeStatus(r, tt, v, status)
      PROVE  Cardinality(LikesOf(t, u)') + Cardinality(Creating(t, u)') <= Cardinality(Requests)
  <2>1. LikesOf(t, u)' = LikesOf(t, u)
    BY <1>1 DEF SetLikeStatus, tables, LikesOf
  <2>2. CASE FindLike(tt, v, status) = {} /\ tt = t /\ v = u
    <3>1. LikesOf(t, u)' = {}
      BY <2>1, <2>2 DEF FindLike, LikesOf
    <3>2. Creating(t, u)' \subseteq Requests
      BY DEF Creating
    <3>3. Cardinality(Creating(t, u)') <= Cardinality(Requests) /\ Cardinality(Creating(t, u)') \in Nat
      BY <3>2, FS_Subset, FS_CardinalityType, LikesConstants
    <3>4. Cardinality(LikesOf(t, u)') = 0
      BY <3>1, FS_EmptySet
    <3>5. Cardinality(Requests) \in Nat
      BY FS_CardinalityType, LikesConstants
    <3> HIDE DEF LikesOf, Creating
    <3> QED BY <3>3, <3>4, <3>5
  <2>3. CASE FindLike(tt, v, status) = {} /\ ~(tt = t /\ v = u)
    <3>1. Await(r, [pc |-> "createLike", target |-> tt, user |-> v, status |-> status])
      BY <1>1, <2>3 DEF SetLikeStatus
    <3>2. Creating(t, u)' \subseteq Creating(t, u)
      BY <2>3, <3>1 DEF Await, Creating, TypeOK
    <3> QED BY <2>1, <3>2, NoneAdded
  <2>4. CASE FindLike(tt, v, status) # {}
    <3>1. PICK l \in FindLike(tt, v, status) :
             Await(r, [pc |-> "saveLike", id |-> l, ent |-> [likes[l] EXCEPT !.status = status]])
      BY <1>1, <2>4 DEF SetLikeStatus
    <3>2. Creating(t, u)' \subseteq Creating(t, u)
      BY <3>1, NotCreating
    <3> QED BY <2>1, <3>2, NoneAdded
  <2> QED BY <2>2, <2>3, <2>4
<1>2. ASSUME NEW r \in Requests, CreateLike(r)
      PROVE  Cardinality(LikesOf(t, u)') + Cardinality(Creating(t, u)') <= Cardinality(Requests)
  <2> DEFINE row == [target |-> req[r].target, user |-> req[r].user,
                     status |-> req[r].status, isBanned |-> FALSE]
  <2>1. Creating(t, u)' \subseteq Creating(t, u) \ {r}
    BY <1>2, NotCreating DEF CreateLike, Answer, Idle
  <2>2. CASE CanWrite(req[r].target, req[r].user) /\ req[r].target = t /\ req[r].user = u
    <3>1. likes' = [likes EXCEPT ![lastLike'] = row]
      BY <1>2, <2>2 DEF CreateLike
    <3>2. LikesOf(t, u)' \subseteq LikesOf(t, u) \cup {lastLike'}
      BY <3>1 DEF LikesOf, TypeOK
    <3>3. r \in Creating(t, u)
      BY <1>2, <2>2 DEF CreateLike, At, Creating
    <3>4. IsFiniteSet(LikesOf(t, u)) /\ IsFiniteSet(Creating(t, u))
      BY RowsFinite
    <3>5. Cardinality(LikesOf(t, u)) + Cardinality(Creating(t, u)) <= Cardinality(Requests)
      BY DEF OneLikePerRequest
    <3>6. Cardinality(Requests) \in Nat
      BY FS_CardinalityType, LikesConstants
    <3>7. Cardinality(LikesOf(t, u) \cup {lastLike'}) + Cardinality(Creating(t, u) \ {r})
             <= Cardinality(Requests)
      <4> HIDE DEF LikesOf, Creating
      <4> QED BY <3>3, <3>4, <3>5, <3>6, MovedCount
    <3>8. IsFiniteSet(LikesOf(t, u) \cup {lastLike'}) /\ IsFiniteSet(Creating(t, u) \ {r})
      BY <3>4, FS_AddElement, FS_RemoveElement
    <3> HIDE DEF LikesOf, Creating
    <3> QED BY <2>1, <3>2, <3>6, <3>7, <3>8, SmallerCount
  <2>3. CASE CanWrite(req[r].target, req[r].user) /\ ~(req[r].target = t /\ req[r].user = u)
    <3>1. likes' = [likes EXCEPT ![lastLike'] = row]
      BY <1>2, <2>3 DEF CreateLike
    <3>2. LikesOf(t, u)' \subseteq LikesOf(t, u)
      BY <2>3, <3>1 DEF LikesOf, TypeOK
    <3> QED BY <2>1, <3>2, NoneAdded
  <2>4. CASE ~CanWrite(req[r].target, req[r].user)
    <3>1. LikesOf(t, u)' \subseteq LikesOf(t, u)
      BY <1>2, <2>4 DEF CreateLike, LikesOf
    <3> QED BY <2>1, <3>1, NoneAdded
  <2> QED BY <2>2, <2>3, <2>4
<1>3. ASSUME NEW r \in Requests, SaveLike(r)
      PROVE  Cardinality(LikesOf(t, u)') + Cardinality(Creating(t, u)') <= Cardinality(Requests)
  <2>1. Creating(t, u)' \subseteq Creating(t, u)
    BY <1>3, NotCreating DEF SaveLike, Answer, Idle
  <2> QED BY <1>3, <2>1, SaveMoves, NotAdded, NoneAdded
<1>4. ASSUME NEW r \in Requests, NEW v \in Users, NEW isBanned \in BOOLEAN,
             BanUnbanUser(r, v, isBanned)
      PROVE  Cardinality(LikesOf(t, u)') + Cardinality(Creating(t, u)') <= Cardinality(Requests)
  <2>1. Creating(t, u)' \subseteq Creating(t, u)
    BY <1>4, NotCreating DEF BanUnbanUser, FindUser
  <2>2. likes' = likes
    BY <1>4 DEF BanUnbanUser, tables
  <2> QED BY <2>1, <2>2, NotAdded, NoneAdded
<1>5. ASSUME NEW r \in Requests, CommitBan(r)
      PROVE  Cardinality(LikesOf(t, u)') + Cardinality(Creating(t, u)') <= Cardinality(Requests)
  <2>1. Creating(t, u)' \subseteq Creating(t, u)
    BY <1>5, NotCreating DEF CommitBan, CommitUser, Answer, Idle
  <2> QED BY <1>5, <2>1, BanMoves, NotAdded, NoneAdded
<1>10. ASSUME NEW r \in Requests, UpdateUser(r)
       PROVE  Cardinality(LikesOf(t, u)') + Cardinality(Creating(t, u)') <= Cardinality(Requests)
  <2>1. Creating(t, u)' \subseteq Creating(t, u)
    BY <1>10, NotCreating DEF UpdateUser, UpdateUserAnd
  <2>2. likes' = likes
    BY <1>10 DEF UpdateUser, tables
  <2> QED BY <2>1, <2>2, NotAdded, NoneAdded
<1>6. ASSUME NEW r \in Requests, Fail(r)
      PROVE  Cardinality(LikesOf(t, u)') + Cardinality(Creating(t, u)') <= Cardinality(Requests)
  <2>1. Creating(t, u)' \subseteq Creating(t, u)
    BY <1>6, NotCreating DEF Fail, Answer, Idle
  <2>2. likes' = likes
    BY <1>6 DEF Fail, tables
  <2> QED BY <2>1, <2>2, NotAdded, NoneAdded
<1>7. ASSUME NEW v \in Users, DeleteUser(v)
      PROVE  Cardinality(LikesOf(t, u)') + Cardinality(Creating(t, u)') <= Cardinality(Requests)
  <2>1. Creating(t, u)' \subseteq Creating(t, u)
    BY <1>7 DEF DeleteUser, Creating
  <2>2. ASSUME NEW l \in LikeId, likes'[l].target = t, likes'[l].user = u
        PROVE  likes[l].target = t /\ likes[l].user = u
    <3>1. CASE likes[l].user = v
      <4>1. likes[l] \in LikeRow
        BY <3>1, NamedRow
      <4>2. likes'[l] = [likes[l] EXCEPT !.user = None]
        BY <1>7, <3>1 DEF DeleteUser
      <4>3. likes'[l].user = None
        BY <4>1, <4>2 DEF LikeRow
      <4> QED BY <2>2, <4>3, LikesConstants
    <3>2. CASE likes[l].user # v
      BY <1>7, <2>2, <3>2 DEF DeleteUser
    <3> QED BY <3>1, <3>2
  <2> QED BY <2>1, <2>2, NotAdded, NoneAdded
<1>8. ASSUME NEW tt \in Targets, DeleteTarget(tt)
      PROVE  Cardinality(LikesOf(t, u)') + Cardinality(Creating(t, u)') <= Cardinality(Requests)
  <2>1. Creating(t, u)' \subseteq Creating(t, u)
    BY <1>8 DEF DeleteTarget, Creating
  <2>2. NoLike.target \notin Targets
    BY LikesConstants DEF NoLike
  <2>3. ASSUME NEW l \in LikeId, likes'[l].target = t, likes'[l].user = u
        PROVE  likes[l].target = t /\ likes[l].user = u
    BY <1>8, <2>2, <2>3 DEF DeleteTarget
  <2> QED BY <2>1, <2>3, NotAdded, NoneAdded
<1>9. CASE UNCHANGED vars
  <2>1. LikesOf(t, u)' = LikesOf(t, u) /\ Creating(t, u)' = Creating(t, u)
    BY <1>9 DEF vars, tables, LikesOf, Creating
  <2> QED BY <2>1, NoneAdded
<1> QED
  BY <1>1, <1>2, <1>3, <1>4, <1>5, <1>6, <1>7, <1>8, <1>9, <1>10
     DEF Next, RequestStep, Begin

\* However many requests of any users overlap, with failures, bans and deletions among them,
\* nobody has more likes of a target than there are requests
\* (like-status-by-post-id.usecase.ts and set-like-status-by-comment-id.usecase.ts, whose
\* find and create are separate statements, and no unique index).
THEOREM LikesBounded == Spec => []OneLikePerRequest
<1>1. Init => IInv
  BY TypeInit, SavesInit, CountInit DEF IInv
<1>2. IInv /\ [Next]_vars => IInv'
  <2> SUFFICES ASSUME IInv, [Next]_vars PROVE IInv'
    OBVIOUS
  <2>1. TypeOK'
    BY TypeStep DEF IInv
  <2>2. Fresh' /\ UsersHeld' /\ \A r \in Requests : SavesOwnRow(r)'
    BY <2>1, SavesStep, HeldStep DEF IInv
  <2>3. OneLikePerRequest'
    BY CountStep DEF IInv
  <2> QED BY <2>1, <2>2, <2>3 DEF IInv
<1>3. IInv => OneLikePerRequest
  BY DEF IInv
<1> QED BY <1>1, <1>2, <1>3, PTL DEF Spec

(***************************************************************************)
(* Likes as upserts                                                        *)
(***************************************************************************)
\* One request at most is about to store what the user says of the target.
Sole(t, u) ==
    said[<<t, u>>] # "contested" /\ CanWrite(t, u) => \A q1, q2 \in Setting(t, u) : q1 = q2

\* There is one row with the status last set, or none if none was set.
RowSays(t, u, status) ==
    \/ status = None /\ LikesOf(t, u) = {}
    \/ status \in Status /\ \E l \in LikeId : LikesOf(t, u) = {l} /\ likes[l].status = status
OneRow(t, u) == said[<<t, u>>] # "contested" => RowSays(t, u, said[<<t, u>>])

\* A request that found no row is the first to say anything.
FirstSays(t, u) ==
    /\ Creating(t, u) # {} /\ CanWrite(t, u) /\ said[<<t, u>>] # "contested" => said[<<t, u>>] = None
    /\ ~CanWrite(t, u) => said[<<t, u>>] = None

UpsertInv ==
    /\ said \in [Targets \X Users -> Status \cup {None, "contested"}]
    /\ \A t \in Targets, u \in Users : Sole(t, u) /\ OneRow(t, u) /\ FirstSays(t, u)

\* Outside loose, rows and what is in hand of them have the flag of their user.
RowFlag(l) == likes[l].user \in Users => likes[l].isBanned = (users[likes[l].user] = "banned")
HandFlag(l, q) ==
    At(q, "saveLike") /\ req[q].id = l /\ likes[l].user \in Users
        => req[q].ent.isBanned = (users[likes[l].user] = "banned")
FlagInv == \A l \in LikeId \ loose : RowFlag(l) /\ \A q \in Requests : HandFlag(l, q)

LikesInv == IInv /\ (part = "likes" => UpsertInv /\ FlagInv)

LEMMA NotContested == "contested" \notin Status \cup {None} /\ None \notin Status
BY QueriesConstants DEF Status

LEMMA OneSets ==
    ASSUME NEW t, NEW u, ~(Cardinality(Setting(t, u)') > 1)
    PROVE  \A q1, q2 \in Setting(t, u)' : q1 = q2
<1> PICK S : S = Setting(t, u)'
  OBVIOUS
<1>1. S \subseteq Requests
  BY DEF Setting, Creating
<1>2. IsFiniteSet(S) /\ Cardinality(S) \in Nat
  BY <1>1, LikesConstants, FS_Subset, FS_CardinalityType
<1>3. ASSUME NEW q1 \in S, NEW q2 \in S, q1 # q2 PROVE FALSE
  <2>1. {q1, q2} \subseteq S /\ Cardinality({q1, q2}) = 2
    <3>1. IsFiniteSet({q1}) /\ Cardinality({q1}) = 1
      BY FS_Singleton
    <3>2. Cardinality({q1} \cup {q2}) = 2
      BY <1>3, <3>1, FS_AddElement
    <3>3. {q1} \cup {q2} = {q1, q2}
      OBVIOUS
    <3> QED BY <3>2, <3>3
  <2>2. Cardinality({q1, q2}) <= Cardinality(S)
    BY <1>2, <2>1, FS_Subset
  <2> QED BY <1>2, <2>1, <2>2
<1> QED BY <1>3

LEMMA Remembered ==
    ASSUME NEW told, NEW flagged, Remember(told, flagged), NEW t \in Targets, NEW u \in Users
    PROVE  said'[<<t, u>>] = IF ~CanWrite(t, u)' THEN None
                            ELSE IF Cardinality(Setting(t, u)') > 1 THEN "contested" ELSE told[<<t, u>>]
BY DEF Remember, CanWrite, Exists, Setting, Creating, At

\* A pair keeps its invariant if the rows say what was told.
LEMMA PairKeeps ==
    ASSUME NEW told, NEW flagged, Remember(told, flagged), NEW t \in Targets, NEW u \in Users,
           ~CanWrite(t, u)' => LikesOf(t, u)' = {},
           CanWrite(t, u)' /\ told[<<t, u>>] # "contested" /\ (\A q1, q2 \in Setting(t, u)' : q1 = q2)
              => /\ RowSays(t, u, told[<<t, u>>])'
                 /\ Creating(t, u)' # {} => told[<<t, u>>] = None
    PROVE  Sole(t, u)' /\ OneRow(t, u)' /\ FirstSays(t, u)'
<1> PICK s : s = told[<<t, u>>]
  OBVIOUS
<1>1. said'[<<t, u>>] = IF ~CanWrite(t, u)' THEN None
                        ELSE IF Cardinality(Setting(t, u)') > 1 THEN "contested" ELSE s
  BY Remembered
<1>2. CASE ~CanWrite(t, u)'
  <2>1. said'[<<t, u>>] = None /\ LikesOf(t, u)' = {}
    BY <1>1, <1>2
  <2> QED BY <1>2, <2>1 DEF Sole, OneRow, RowSays, FirstSays
<1>3. CASE CanWrite(t, u)' /\ Cardinality(Setting(t, u)') > 1
  BY <1>1, <1>3 DEF Sole, OneRow, FirstSays
<1>4. CASE CanWrite(t, u)' /\ ~(Cardinality(Setting(t, u)') > 1)
  <2>1. said'[<<t, u>>] = s /\ \A q1, q2 \in Setting(t, u)' : q1 = q2
    BY <1>1, <1>4, OneSets
  <2>2. CASE s = "contested"
    BY <1>4, <2>1, <2>2 DEF Sole, OneRow, FirstSays
  <2>3. CASE s # "contested"
    <3>1. RowSays(t, u, s)' /\ (Creating(t, u)' # {} => s = None)
      BY <1>4, <2>1, <2>3
    <3> QED BY <1>4, <2>1, <3>1 DEF Sole, OneRow, RowSays, FirstSays
  <2> QED BY <2>2, <2>3
<1> QED BY <1>2, <1>3, <1>4

\* A step that stores nothing: the rows of those that can still write stay, and whoever goes
\* to create one has found none.
LEMMA QuietKeeps ==
    ASSUME UpsertInv, NEW told, told = said, NEW flagged, Remember(told, flagged),
           NEW t \in Targets, NEW u \in Users,
           ~CanWrite(t, u)' => LikesOf(t, u)' = {},
           CanWrite(t, u)' =>
              /\ CanWrite(t, u) /\ LikesOf(t, u)' = LikesOf(t, u)
              /\ \A l \in LikesOf(t, u) : likes'[l].status = likes[l].status,
           Creating(t, u)' \subseteq Creating(t, u) \/ LikesOf(t, u) = {}
    PROVE  Sole(t, u)' /\ OneRow(t, u)' /\ FirstSays(t, u)'
<1> PICK s : s = told[<<t, u>>]
  OBVIOUS
<1>1. ASSUME CanWrite(t, u)', s # "contested"
      PROVE  RowSays(t, u, s)' /\ (Creating(t, u)' # {} => s = None)
  <2>1. RowSays(t, u, s) /\ (Creating(t, u) # {} => s = None)
    BY <1>1 DEF UpsertInv, OneRow, FirstSays
  <2>2. RowSays(t, u, s)'
    <3> PICK L : L = LikesOf(t, u)
      OBVIOUS
    <3>1. LikesOf(t, u)' = L /\ \A l \in L : likes'[l].status = likes[l].status
      BY <1>1
    <3>2. \/ s = None /\ L = {}
          \/ s \in Status /\ \E l \in LikeId : L = {l} /\ likes[l].status = s
      BY <2>1 DEF RowSays
    <3> QED BY <3>1, <3>2 DEF RowSays
  <2>3. LikesOf(t, u) = {} => s = None
    BY <2>1 DEF RowSays
  <2> QED BY <2>1, <2>2, <2>3
<1> QED BY <1>1, PairKeeps

LEMMA SaidTyped ==
    ASSUME NEW X, NEW told \in [Targets \X Users -> X], None \in X, "contested" \in X,
           NEW flagged, Remember(told, flagged)
    PROVE  said' \in [Targets \X Users -> X]
BY DEF Remember

LEMMA Nameless == NoLike.target = None /\ NoLike.user = None /\ None \notin Users \cup Targets
BY LikesConstants DEF NoLike

\* A user or a target that is gone takes the likes along.
LEMMA NoRowsLeft ==
    ASSUME UpsertInv, NEW t \in Targets, NEW u \in Users, ~CanWrite(t, u)
    PROVE  LikesOf(t, u) = {}
<1>1. said[<<t, u>>] = None
  BY DEF UpsertInv, FirstSays
<1>2. said[<<t, u>>] # "contested" /\ said[<<t, u>>] \notin Status
  BY <1>1, NotContested
<1>3. RowSays(t, u, said[<<t, u>>])
  BY <1>2 DEF UpsertInv, OneRow
<1> QED BY <1>2, <1>3 DEF RowSays

LEMMA BeginUpserts ==
    ASSUME IInv, UpsertInv, NEW r \in Requests, Begin(r) \/ UpdateUser(r) \/ Fail(r),
           NEW told, told = said, NEW flagged, Remember(told, flagged),
           NEW t \in Targets, NEW u \in Users
    PROVE  Sole(t, u)' /\ OneRow(t, u)' /\ FirstSays(t, u)'
<1>1. UNCHANGED tables
  BY DEF Begin, SetLikeStatus, BanUnbanUser, UpdateUser, Fail
<1>2. CanWrite(t, u)' = CanWrite(t, u) /\ LikesOf(t, u)' = LikesOf(t, u) /\ likes' = likes
  BY <1>1 DEF tables, CanWrite, Exists, LikesOf
<1>3. ~CanWrite(t, u)' => LikesOf(t, u)' = {}
  BY <1>2, NoRowsLeft
<1>4. Creating(t, u)' \subseteq Creating(t, u) \/ LikesOf(t, u) = {}
  <2>1. ASSUME NEW state, Await(r, state), state.pc # "createLike"
        PROVE  Creating(t, u)' \subseteq Creating(t, u)
    BY <2>1, NotCreating DEF IInv
  <2>2. ASSUME NEW t0 \in Targets, NEW u0 \in Users, NEW status \in Status, SetLikeStatus(r, t0, u0, status)
        PROVE  Creating(t, u)' \subseteq Creating(t, u) \/ LikesOf(t, u) = {}
    <3>1. CASE FindLike(t0, u0, status) = {}
      <4>1. Await(r, [pc |-> "createLike", target |-> t0, user |-> u0, status |-> status])
        BY <2>2, <3>1 DEF SetLikeStatus
      <4>2. CASE t0 = t /\ u0 = u
        BY <3>1, <4>2 DEF FindLike, LikesOf
      <4>3. CASE ~(t0 = t /\ u0 = u)
        BY <4>1, <4>3 DEF IInv, TypeOK, Await, Creating
      <4> QED BY <4>2, <4>3
    <3>2. CASE FindLike(t0, u0, status) # {}
      BY <2>1, <2>2, <3>2 DEF SetLikeStatus
    <3> QED BY <3>1, <3>2
  <2>3. ASSUME NEW u0 \in Users, NEW isBanned \in BOOLEAN, BanUnbanUser(r, u0, isBanned)
        PROVE  Creating(t, u)' \subseteq Creating(t, u)
    BY <2>1, <2>3 DEF BanUnbanUser, FindUser
  <2>4. CASE Fail(r)
    BY <2>1, <2>4 DEF Fail, Answer, Idle
  <2>5. CASE UpdateUser(r)
    BY <2>1, <2>5 DEF UpdateUser, UpdateUserAnd
  <2> QED BY <2>2, <2>3, <2>4, <2>5 DEF Begin
<1> QED BY <1>2, <1>3, <1>4, QuietKeeps

LEMMA BanUpserts ==
    ASSUME IInv, UpsertInv, NEW r \in Requests, CommitBan(r),
           NEW told, told = said, NEW flagged, Remember(told, flagged),
           NEW t \in Targets, NEW u \in Users
    PROVE  Sole(t, u)' /\ OneRow(t, u)' /\ FirstSays(t, u)'
<1>1. \A l \in LikeId : /\ likes'[l].target = likes[l].target /\ likes'[l].user = likes[l].user
                        /\ likes'[l].status = likes[l].status
  BY BanMoves DEF IInv
<1>2. LikesOf(t, u)' = LikesOf(t, u)
  BY <1>1 DEF LikesOf
<1>3. CanWrite(t, u)' = CanWrite(t, u)
  <2>1. Exists(u)' = Exists(u)
    <3>1. TypeOK' /\ [Next]_vars
      BY TypeStep DEF IInv, Next, RequestStep
    <3> QED BY <3>1, HeldStep DEF IInv
  <2> QED BY <2>1 DEF CommitBan, CanWrite
<1>4. Creating(t, u)' \subseteq Creating(t, u)
  BY NotCreating DEF CommitBan, CommitUser, Answer, Idle, IInv
<1>5. \A l \in LikesOf(t, u) : likes'[l].status = likes[l].status
  BY <1>1 DEF LikesOf
<1>6. ~CanWrite(t, u)' => LikesOf(t, u)' = {}
  BY <1>2, <1>3, NoRowsLeft
<1> QED BY <1>2, <1>3, <1>4, <1>5, <1>6, QuietKeeps

LEMMA DeletionUpserts ==
    ASSUME IInv, UpsertInv, (\E v \in Users : DeleteUser(v)) \/ (\E p \in Targets : DeleteTarget(p)),
           NEW told, told = said, NEW flagged, Remember(told, flagged), NEW t \in Targets, NEW u \in Users
    PROVE  Sole(t, u)' /\ OneRow(t, u)' /\ FirstSays(t, u)'
<1>1. Creating(t, u)' = Creating(t, u)
  BY DEF DeleteUser, DeleteTarget, Creating
<1>2. CanWrite(t, u)' => CanWrite(t, u)
  BY DEF IInv, TypeOK, UsersTyped, DeleteUser, DeleteTarget, CanWrite, Exists
<1>3. ASSUME NEW v \in Users, DeleteUser(v)
      PROVE  /\ LikesOf(t, u)' = IF u = v THEN {} ELSE LikesOf(t, u)
             /\ u # v => \A l \in LikesOf(t, u) : likes'[l].status = likes[l].status
             /\ ~CanWrite(t, u)' => ~CanWrite(t, u) \/ u = v
             /\ u = v => ~CanWrite(t, u)'
  <2>1. \A l \in LikeId : /\ likes[l].user = v => likes'[l].user = None
                          /\ likes[l].user # v => likes'[l] = likes[l]
    <3> TAKE l \in LikeId
    <3>1. likes'[l] = IF likes[l].user = v THEN [likes[l] EXCEPT !.user = None] ELSE likes[l]
      BY <1>3 DEF DeleteUser
    <3>2. likes[l].user = v => likes[l] \in LikeRow
      BY <1>3, NamedRow DEF IInv
    <3> QED BY <3>1, <3>2 DEF LikeRow
  <2>2. u # None
    BY Nameless
  <2>3. LikesOf(t, u)' = IF u = v THEN {} ELSE LikesOf(t, u)
    BY <2>1, <2>2 DEF LikesOf
  <2>4. u # v => \A l \in LikesOf(t, u) : likes'[l].status = likes[l].status
    BY <2>1 DEF LikesOf
  <2>5. (~CanWrite(t, u)' => ~CanWrite(t, u) \/ u = v) /\ (u = v => ~CanWrite(t, u)')
    BY <1>3 DEF DeleteUser, CanWrite, Exists, IInv, TypeOK, UsersTyped
  <2> QED BY <2>3, <2>4, <2>5
<1>4. ASSUME NEW p \in Targets, DeleteTarget(p)
      PROVE  /\ LikesOf(t, u)' = IF t = p THEN {} ELSE LikesOf(t, u)
             /\ t # p => \A l \in LikesOf(t, u) : likes'[l].status = likes[l].status
             /\ ~CanWrite(t, u)' => ~CanWrite(t, u) \/ t = p
             /\ t = p => ~CanWrite(t, u)'
  <2>1. \A l \in LikeId : likes'[l] = IF likes[l].target = p THEN NoLike ELSE likes[l]
    BY <1>4 DEF DeleteTarget
  <2>2. LikesOf(t, u)' = IF t = p THEN {} ELSE LikesOf(t, u)
    BY <2>1, Nameless DEF LikesOf
  <2>3. t # p => \A l \in LikesOf(t, u) : likes'[l].status = likes[l].status
    BY <2>1 DEF LikesOf
  <2>4. (~CanWrite(t, u)' => ~CanWrite(t, u) \/ t = p) /\ (t = p => ~CanWrite(t, u)')
    BY <1>4 DEF DeleteTarget, CanWrite, Exists
  <2> QED BY <2>2, <2>3, <2>4
<1>5. ~CanWrite(t, u)' => LikesOf(t, u)' = {}
  BY <1>3, <1>4, NoRowsLeft
<1>6. CanWrite(t, u)' => /\ LikesOf(t, u)' = LikesOf(t, u)
                         /\ \A l \in LikesOf(t, u) : likes'[l].status = likes[l].status
  BY <1>3, <1>4
<1> QED BY <1>1, <1>2, <1>5, <1>6, QuietKeeps

\* A like is created where there was none.
LEMMA CreateUpserts ==
    ASSUME IInv, UpsertInv, NEW r \in Requests, CreateLike(r), NEW told, told = SaidIn(req[r]),
           NEW flagged, Remember(told, flagged), NEW t \in Targets, NEW u \in Users
    PROVE  Sole(t, u)' /\ OneRow(t, u)' /\ FirstSays(t, u)'
<1> PICK t0, u0, status : t0 = req[r].target /\ u0 = req[r].user /\ status = req[r].status
  OBVIOUS
<1>1. t0 \in Targets /\ u0 \in Users /\ status \in Status /\ At(r, "createLike")
  BY RequestTypes DEF CreateLike, IInv
<1>2. UNCHANGED <<users, targets>> /\ Answer(r)
  BY DEF CreateLike
<1>3. CanWrite(t, u)' = CanWrite(t, u)
  BY <1>2 DEF CanWrite, Exists
<1>4. Creating(t, u)' \subseteq Creating(t, u) \ {r}
  BY <1>2, NotCreating DEF IInv, Answer, Idle
<1>5. told = IF said[<<t0, u0>>] = "contested" THEN said ELSE [said EXCEPT ![<<t0, u0>>] = status]
  BY DEF SaidIn
<1>6. CASE t = t0 /\ u = u0
  <2>1. CASE ~CanWrite(t, u)
    <3>1. likes' = likes
      BY <1>6, <2>1 DEF CreateLike
    <3>2. LikesOf(t, u)' = {}
      BY <2>1, <3>1, NoRowsLeft DEF LikesOf
    <3> QED BY <1>3, <2>1, <3>2, PairKeeps
  <2>2. CASE CanWrite(t, u)
    <3> SUFFICES ASSUME told[<<t, u>>] # "contested"
                 PROVE  RowSays(t, u, told[<<t, u>>])' /\ Creating(t, u)' = {}
      BY <1>3, <2>2, PairKeeps
    <3>1. said[<<t, u>>] # "contested" /\ told[<<t, u>>] = status
      BY <1>1, <1>5, <1>6 DEF UpsertInv
    <3>2. r \in Creating(t, u) /\ r \in Setting(t, u)
      BY <1>1, <1>6 DEF Creating, Setting, At
    <3>3. said[<<t, u>>] = None /\ LikesOf(t, u) = {}
      BY <2>2, <3>1, <3>2, NotContested DEF UpsertInv, FirstSays, OneRow, RowSays
    <3>4. Creating(t, u)' = {}
      <4>1. \A q \in Creating(t, u) : q = r
        BY <2>2, <3>1, <3>2 DEF UpsertInv, Sole, Setting
      <4> QED BY <1>4, <4>1
    <3> PICK n : n = lastLike'
      OBVIOUS
    <3>5. /\ lastLike < MaxLike /\ n = lastLike + 1
          /\ likes' = [likes EXCEPT ![n] = [target |-> t, user |-> u, status |-> status, isBanned |-> FALSE]]
      BY <1>6, <2>2 DEF CreateLike
    <3>6. n \in LikeId
      BY <3>5, LikesConstants DEF IInv, TypeOK, LikeId
    <3>7. \A l \in LikeId : likes'[l] = IF l = n THEN [target |-> t, user |-> u, status |-> status, isBanned |-> FALSE]
                                        ELSE likes[l]
      BY <3>5 DEF IInv, TypeOK
    <3>8. LikesOf(t, u)' = {n} /\ likes'[n].status = status
      BY <3>3, <3>6, <3>7 DEF LikesOf
    <3> QED BY <1>1, <3>1, <3>4, <3>6, <3>8 DEF RowSays
  <2> QED BY <2>1, <2>2
<1>7. CASE ~(t = t0 /\ u = u0)
  <2>1. told[<<t, u>>] = said[<<t, u>>]
    BY <1>1, <1>5, <1>7 DEF UpsertInv
  <2>2. LikesOf(t, u)' = LikesOf(t, u) /\ \A l \in LikesOf(t, u) : likes'[l] = likes[l]
    <3>1. CASE ~CanWrite(t0, u0)
      BY <3>1 DEF CreateLike, LikesOf
    <3>2. CASE CanWrite(t0, u0)
      <4> PICK n : n = lastLike'
        OBVIOUS
      <4>1. /\ lastLike < MaxLike /\ n = lastLike + 1
            /\ likes' = [likes EXCEPT ![n] = [target |-> t0, user |-> u0, status |-> status, isBanned |-> FALSE]]
        BY <3>2 DEF CreateLike
      <4>2. n \in LikeId /\ n > lastLike
        BY <4>1, LikesConstants DEF IInv, TypeOK, LikeId
      <4>3. likes[n] = NoLike
        BY <4>2 DEF IInv, Fresh
      <4>4. \A l \in LikeId :
               likes'[l] = IF l = n THEN [target |-> t0, user |-> u0, status |-> status, isBanned |-> FALSE]
                           ELSE likes[l]
        BY <4>1 DEF IInv, TypeOK
      <4>5. n \notin LikesOf(t, u) /\ n \notin LikesOf(t, u)'
        BY <1>7, <4>2, <4>3, <4>4, Nameless DEF LikesOf
      <4> QED BY <4>4, <4>5 DEF LikesOf
    <3> QED BY <3>1, <3>2
  <2>3. ~CanWrite(t, u)' => LikesOf(t, u)' = {}
    BY <1>3, <2>2, NoRowsLeft
  <2>4. ASSUME CanWrite(t, u)', told[<<t, u>>] # "contested"
        PROVE  RowSays(t, u, told[<<t, u>>])' /\ (Creating(t, u)' # {} => told[<<t, u>>] = None)
    <3> PICK s, L : s = told[<<t, u>>] /\ L = LikesOf(t, u)
      OBVIOUS
    <3>1. s = said[<<t, u>>] /\ s # "contested" /\ CanWrite(t, u)
      BY <1>3, <2>1, <2>4
    <3>2. \/ s = None /\ L = {}
          \/ s \in Status /\ \E l \in LikeId : L = {l} /\ likes[l].status = s
      BY <3>1 DEF UpsertInv, OneRow, RowSays
    <3>3. Creating(t, u) # {} => s = None
      BY <3>1 DEF UpsertInv, FirstSays
    <3>4. RowSays(t, u, s)'
      BY <2>2, <3>2 DEF RowSays
    <3> QED BY <1>4, <3>3, <3>4
  <2> QED BY <2>3, <2>4, PairKeeps
<1> QED BY <1>6, <1>7

\* A like is saved over itself.
LEMMA SaveUpserts ==
    ASSUME IInv, UpsertInv, NEW r \in Requests, SaveLike(r), NEW told, told = SaidIn(req[r].ent),
           NEW flagged, Remember(told, flagged), NEW t \in Targets, NEW u \in Users
    PROVE  Sole(t, u)' /\ OneRow(t, u)' /\ FirstSays(t, u)'
<1> PICK k, ent : k = req[r].id /\ ent = req[r].ent
  OBVIOUS
<1>1. k \in LikeId /\ ent \in LikeRow /\ At(r, "saveLike")
  BY RequestTypes DEF SaveLike, IInv
<1>2. UNCHANGED <<users, targets>> /\ Answer(r)
  BY DEF SaveLike
<1>3. CanWrite(t, u)' = CanWrite(t, u)
  BY <1>2 DEF CanWrite, Exists
<1>4. Creating(t, u)' \subseteq Creating(t, u) \ {r}
  BY <1>2, NotCreating DEF IInv, Answer, Idle
<1>5. /\ ent.target \in Targets /\ ent.user \in Users /\ ent.status \in Status
      /\ CanWrite(ent.target, ent.user) => likes[k].target = ent.target /\ likes[k].user = ent.user
  BY <1>1 DEF IInv, SavesOwnRow, LikeRow
<1>6. told = IF said[<<ent.target, ent.user>>] = "contested" THEN said
             ELSE [said EXCEPT ![<<ent.target, ent.user>>] = ent.status]
  BY DEF SaidIn
<1>7. /\ \A l \in LikeId : /\ likes'[l].target = likes[l].target /\ likes'[l].user = likes[l].user
                           /\ l # k => likes'[l] = likes[l]
      /\ CanWrite(ent.target, ent.user) => likes'[k].status = ent.status
  BY SaveMoves DEF IInv
<1>11. likes[k].user \in Users => likes[k].target = ent.target /\ likes[k].user = ent.user
  BY <1>1 DEF IInv, SavesOwnRow
<1>8. LikesOf(t, u)' = LikesOf(t, u)
  BY <1>7 DEF LikesOf
<1>9. ~CanWrite(t, u)' => LikesOf(t, u)' = {}
  BY <1>3, <1>8, NoRowsLeft
<1>10. ASSUME CanWrite(t, u)', told[<<t, u>>] # "contested"
       PROVE  RowSays(t, u, told[<<t, u>>])' /\ (Creating(t, u)' # {} => told[<<t, u>>] = None)
  <2> PICK s, L : s = told[<<t, u>>] /\ L = LikesOf(t, u)
    OBVIOUS
  <2>1. CanWrite(t, u) /\ L = LikesOf(t, u)'
    BY <1>3, <1>8, <1>10
  <2>2. CASE t = ent.target /\ u = ent.user
    <3>1. said[<<t, u>>] # "contested" /\ s = ent.status
      BY <1>5, <1>6, <1>10, <2>2 DEF UpsertInv
    <3>2. k \in L
      BY <1>1, <1>5, <2>1, <2>2 DEF LikesOf
    <3>3. L = {k}
      BY <3>1, <3>2 DEF UpsertInv, OneRow, RowSays
    <3>4. likes'[k].status = s
      BY <1>7, <2>1, <2>2, <3>1
    <3>5. r \in Setting(t, u)
      BY <1>1, <2>2 DEF Setting
    <3>6. \A q \in Creating(t, u) : q = r
      BY <2>1, <3>1, <3>5 DEF UpsertInv, Sole, Setting
    <3>7. Creating(t, u)' = {}
      BY <1>4, <3>6
    <3> QED BY <1>1, <1>5, <2>1, <3>1, <3>3, <3>4, <3>7 DEF RowSays
  <2>3. CASE ~(t = ent.target /\ u = ent.user)
    <3>1. s = said[<<t, u>>] /\ s # "contested"
      BY <1>5, <1>6, <1>10, <2>3 DEF UpsertInv
    <3>2. \A l \in L : likes'[l] = likes[l]
      BY <1>7, <1>11, <2>3 DEF LikesOf
    <3>3. \/ s = None /\ L = {}
          \/ s \in Status /\ \E l \in LikeId : L = {l} /\ likes[l].status = s
      BY <3>1 DEF UpsertInv, OneRow, RowSays
    <3>4. RowSays(t, u, s)'
      BY <2>1, <3>2, <3>3 DEF RowSays
    <3>5. Creating(t, u) # {} => s = None
      BY <2>1, <3>1 DEF UpsertInv, FirstSays
    <3> QED BY <1>4, <3>4, <3>5
  <2> QED BY <2>2, <2>3
<1> QED BY <1>9, <1>10, PairKeeps

LEMMA UpsertStep ==
    ASSUME IInv, UpsertInv, LikesStep
    PROVE  UpsertInv'
<1>1. /\ None \in Status \cup {None, "contested"} /\ "contested" \in Status \cup {None, "contested"}
      /\ said \in [Targets \X Users -> Status \cup {None, "contested"}]
  BY DEF UpsertInv
<1>2. ASSUME NEW r \in Requests, CreateLike(r), Remember(SaidIn(req[r]), LoosenedByLike(r))
      PROVE  UpsertInv'
  <2> PICK told, flagged : told = SaidIn(req[r]) /\ flagged = LoosenedByLike(r)
    OBVIOUS
  <2>1. Remember(told, flagged)
    BY <1>2
  <2>2. req[r].status \in Status
    BY <1>2, RequestTypes DEF CreateLike, IInv
  <2>3. told \in [Targets \X Users -> Status \cup {None, "contested"}]
    BY <1>1, <2>2 DEF SaidIn
  <2> QED BY <1>1, <1>2, <2>1, <2>3, SaidTyped, CreateUpserts DEF UpsertInv
<1>3. ASSUME NEW r \in Requests, SaveLike(r), Remember(SaidIn(req[r].ent), loose)
      PROVE  UpsertInv'
  <2> PICK told, flagged : told = SaidIn(req[r].ent) /\ flagged = loose
    OBVIOUS
  <2>1. Remember(told, flagged)
    BY <1>3
  <2>2. req[r].ent.status \in Status
    BY <1>3, RequestTypes DEF SaveLike, IInv, LikeRow
  <2>3. told \in [Targets \X Users -> Status \cup {None, "contested"}]
    BY <1>1, <2>2 DEF SaidIn
  <2> QED BY <1>1, <1>3, <2>1, <2>3, SaidTyped, SaveUpserts DEF UpsertInv
<1>4. ASSUME NEW r \in Requests, CommitBan(r), Remember(said, LoosenedByBan(r))
      PROVE  UpsertInv'
  <2> PICK told, flagged : told = said /\ flagged = LoosenedByBan(r)
    OBVIOUS
  <2>1. Remember(told, flagged) /\ told \in [Targets \X Users -> Status \cup {None, "contested"}]
    BY <1>1, <1>4
  <2> QED BY <1>1, <1>4, <2>1, SaidTyped, BanUpserts DEF UpsertInv
<1>5. ASSUME Remember(said, loose),
             \/ \E r \in Requests : Begin(r) \/ UpdateUser(r) \/ Fail(r)
             \/ \E u \in Users : DeleteUser(u)
             \/ \E t \in Targets : DeleteTarget(t)
      PROVE  UpsertInv'
  <2> PICK told, flagged : told = said /\ flagged = loose
    OBVIOUS
  <2>1. Remember(told, flagged) /\ told \in [Targets \X Users -> Status \cup {None, "contested"}]
    BY <1>1, <1>5
  <2>2. \A t \in Targets, u \in Users : Sole(t, u)' /\ OneRow(t, u)' /\ FirstSays(t, u)'
    BY <1>5, <2>1, BeginUpserts, DeletionUpserts
  <2> QED BY <1>1, <2>1, <2>2, SaidTyped DEF UpsertInv
<1> QED BY <1>2, <1>3, <1>4, <1>5 DEF LikesStep

(***************************************************************************)
(* Likes and bans                                                          *)
(***************************************************************************)
\* What is remembered of a row that has a user is what the step says of it.
LEMMA FlagsKeep ==
    ASSUME IInv', NEW told, NEW flagged, Remember(told, flagged),
           \A l \in LikeId \ flagged : likes'[l].user \in Users =>
               RowFlag(l)' /\ \A q \in Requests : HandFlag(l, q)'
    PROVE  FlagInv'
<1> SUFFICES ASSUME NEW l \in LikeId \ loose'
             PROVE  RowFlag(l)' /\ \A q \in Requests : HandFlag(l, q)'
  BY DEF FlagInv
<1>1. likes'[l].user \in Users => l \notin flagged
  BY DEF Remember
<1>2. CASE likes'[l].user \in Users
  BY <1>1, <1>2
<1>3. CASE likes'[l].user \notin Users
  BY <1>3 DEF RowFlag, HandFlag
<1> QED BY <1>2, <1>3

LEMMA BeginFlags ==
    ASSUME IInv, IInv', FlagInv, NEW r \in Requests, Begin(r) \/ UpdateUser(r) \/ Fail(r),
           NEW told, NEW flagged, flagged = loose, Remember(told, flagged)
    PROVE  FlagInv'
<1> SUFFICES ASSUME NEW l \in LikeId \ loose, likes'[l].user \in Users
             PROVE  RowFlag(l)' /\ \A q \in Requests : HandFlag(l, q)'
  BY FlagsKeep
<1>1. UNCHANGED tables
  BY DEF Begin, SetLikeStatus, BanUnbanUser, UpdateUser, Fail
<1>2. likes' = likes /\ users' = users /\ targets' = targets
  BY <1>1 DEF tables
<1>3. RowFlag(l)'
  BY <1>2 DEF FlagInv, RowFlag
<1>4. ASSUME NEW q \in Requests, req'[q] = req[q] PROVE HandFlag(l, q)'
  BY <1>2, <1>4 DEF FlagInv, HandFlag, At
<1>5. ASSUME NEW state, Await(r, state) PROVE req'[r] = state /\ \A q \in Requests \ {r} : req'[q] = req[q]
  BY <1>5 DEF IInv, TypeOK, Await
<1>6. ASSUME NEW state, Await(r, state), state.pc # "saveLike" PROVE \A q \in Requests : HandFlag(l, q)'
  <2>1. ~At(r, "saveLike")'
    BY <1>5, <1>6 DEF At
  <2>2. HandFlag(l, r)'
    BY <2>1 DEF HandFlag
  <2> QED BY <1>4, <1>5, <1>6, <2>2
<1>7. ASSUME NEW t \in Targets, NEW u \in Users, NEW status \in Status, SetLikeStatus(r, t, u, status)
      PROVE  \A q \in Requests : HandFlag(l, q)'
  <2>1. CASE FindLike(t, u, status) = {}
    BY <1>6, <1>7, <2>1 DEF SetLikeStatus
  <2>2. CASE FindLike(t, u, status) # {}
    <3>1. PICK k \in FindLike(t, u, status) :
             Await(r, [pc |-> "saveLike", id |-> k, ent |-> [likes[k] EXCEPT !.status = status]])
      BY <1>7, <2>2 DEF SetLikeStatus
    <3>2. k \in LikeId /\ likes[k].user = u /\ likes[k] \in LikeRow
      BY <3>1, NamedRow DEF FindLike, IInv
    <3> PICK ent : ent = [likes[k] EXCEPT !.status = status]
      OBVIOUS
    <3>3. ent.isBanned = likes[k].isBanned
      BY <3>2 DEF LikeRow
    <3>4. req'[r].id = k /\ req'[r].ent = ent
      BY <1>5, <3>1
    <3>5. HandFlag(l, r)'
      <4> SUFFICES ASSUME l = k PROVE ent.isBanned = (users[likes[k].user] = "banned")
        BY <1>2, <3>4 DEF HandFlag
      <4> QED BY <3>2, <3>3 DEF FlagInv, RowFlag
    <3> QED BY <1>4, <1>5, <3>1, <3>5
  <2> QED BY <2>1, <2>2
<1>8. ASSUME NEW u \in Users, NEW isBanned \in BOOLEAN, BanUnbanUser(r, u, isBanned)
      PROVE  \A q \in Requests : HandFlag(l, q)'
  BY <1>6, <1>8 DEF BanUnbanUser, FindUser
<1>9. ASSUME Fail(r) PROVE \A q \in Requests : HandFlag(l, q)'
  BY <1>6, <1>9 DEF Fail, Answer, Idle
<1>10. ASSUME UpdateUser(r) PROVE \A q \in Requests : HandFlag(l, q)'
  BY <1>6, <1>10 DEF UpdateUser, UpdateUserAnd
<1> QED BY <1>3, <1>7, <1>8, <1>9, <1>10 DEF Begin

\* The others go on with what they have in hand.
LEMMA OthersFlags ==
    ASSUME NEW q \in Requests, NEW l, HandFlag(l, q), req'[q] = req[q],
           likes'[l].user \in Users =>
               likes'[l].user = likes[l].user /\ users'[likes[l].user] = users[likes[l].user]
    PROVE  HandFlag(l, q)'
BY DEF HandFlag, At

LEMMA AnswerFlags ==
    ASSUME TypeOK, NEW r \in Requests, Answer(r), NEW l
    PROVE  HandFlag(l, r)' /\ \A q \in Requests \ {r} : req'[q] = req[q]
<1>1. req'[r] = Idle /\ \A q \in Requests \ {r} : req'[q] = req[q]
  BY DEF Answer, Await, TypeOK
<1>2. Idle.pc # "saveLike"
  BY DEF Idle
<1> QED BY <1>1, <1>2 DEF HandFlag, At

LEMMA CreateFlags ==
    ASSUME IInv, IInv', FlagInv, NEW r \in Requests, CreateLike(r),
           NEW told, NEW flagged, flagged = LoosenedByLike(r), Remember(told, flagged)
    PROVE  FlagInv'
<1> SUFFICES ASSUME NEW l \in LikeId \ flagged, likes'[l].user \in Users
             PROVE  RowFlag(l)' /\ \A q \in Requests : HandFlag(l, q)'
  BY FlagsKeep
<1> PICK u0 : u0 = req[r].user
  OBVIOUS
<1>1. users' = users /\ targets' = targets /\ Answer(r) /\ u0 \in Users
  BY RequestTypes DEF CreateLike, IInv
<1>2. l \notin loose
  BY DEF LoosenedByLike
<1>3. ASSUME NEW q \in Requests PROVE HandFlag(l, q)'
  <2>1. CASE q = r
    BY <1>1, <2>1, AnswerFlags DEF IInv
  <2>2. CASE q # r
    <3>1. req'[q] = req[q] /\ HandFlag(l, q)
      BY <1>1, <1>2, <2>2, AnswerFlags DEF IInv, FlagInv
    <3>2. CASE likes'[l] = likes[l]
      BY <1>1, <3>1, <3>2, OthersFlags
    <3>3. CASE likes'[l] # likes[l]
      <4>1. l > lastLike /\ lastLike \in Nat /\ l \in Nat
        <5>1. lastLike' = lastLike + 1 /\ \A k \in LikeId : k # lastLike' => likes'[k] = likes[k]
          BY <3>3 DEF CreateLike, IInv, TypeOK
        <5> QED BY <3>3, <5>1, LikesConstants DEF IInv, TypeOK, LikeId
      <4>2. At(q, "saveLike") => req[q].id <= lastLike /\ req[q].id \in LikeId
        BY RequestTypes DEF IInv, SavesOwnRow
      <4>3. ~(At(q, "saveLike") /\ req[q].id = l)
        BY <4>1, <4>2, LikesConstants DEF LikeId
      <4> QED BY <3>1, <4>3 DEF HandFlag, At
    <3> QED BY <3>2, <3>3
  <2> QED BY <2>1, <2>2
<1>4. RowFlag(l)'
  <2>1. CASE likes'[l] = likes[l]
    BY <1>1, <1>2, <2>1 DEF FlagInv, RowFlag
  <2>2. CASE likes'[l] # likes[l]
    <3> PICK n : n = lastLike'
      OBVIOUS
    <3>1. /\ CanWrite(req[r].target, u0) /\ n = lastLike + 1
          /\ likes' = [likes EXCEPT ![n] =
                [target |-> req[r].target, user |-> u0, status |-> req[r].status, isBanned |-> FALSE]]
      BY <2>2 DEF CreateLike
    <3>2. l = n /\ likes'[l].user = u0 /\ likes'[l].isBanned = FALSE
      BY <2>2, <3>1 DEF IInv, TypeOK
    <3>3. lastLike \in Nat
      BY LikesConstants DEF IInv, TypeOK
    <3>4. users[u0] # "banned"
      <4>1. n \in (lastLike + 1)..n
        BY <3>1, <3>3
      <4> QED BY <3>2, <4>1 DEF LoosenedByLike
    <3> QED BY <1>1, <3>2, <3>4 DEF RowFlag
  <2> QED BY <2>1, <2>2
<1> QED BY <1>3, <1>4

LEMMA SaveFlags ==
    ASSUME IInv, IInv', FlagInv, NEW r \in Requests, SaveLike(r),
           NEW told, NEW flagged, flagged = loose, Remember(told, flagged)
    PROVE  FlagInv'
<1> SUFFICES ASSUME NEW l \in LikeId \ loose, likes'[l].user \in Users
             PROVE  RowFlag(l)' /\ \A q \in Requests : HandFlag(l, q)'
  BY FlagsKeep
<1>1. users' = users /\ Answer(r) /\ At(r, "saveLike")
  BY DEF SaveLike
<1>2. /\ likes'[l].user = likes[l].user
      /\ \/ likes'[l].isBanned = likes[l].isBanned
         \/ l = req[r].id /\ likes'[l].isBanned = req[r].ent.isBanned
  BY SaveMoves DEF IInv
<1>3. ASSUME NEW q \in Requests PROVE HandFlag(l, q)'
  <2>1. CASE q = r
    BY <1>1, <2>1, AnswerFlags DEF IInv
  <2>2. CASE q # r
    <3>1. req'[q] = req[q] /\ HandFlag(l, q)
      BY <1>1, <2>2, AnswerFlags DEF IInv, FlagInv
    <3> QED BY <1>1, <1>2, <3>1, OthersFlags
  <2> QED BY <2>1, <2>2
<1>4. RowFlag(l) /\ HandFlag(l, r)
  BY DEF FlagInv
<1>5. RowFlag(l)'
  BY <1>1, <1>2, <1>4 DEF RowFlag, HandFlag
<1> QED BY <1>3, <1>5

LEMMA BanFlags ==
    ASSUME IInv, IInv', FlagInv, NEW r \in Requests, CommitBan(r),
           NEW told, NEW flagged, flagged = LoosenedByBan(r), Remember(told, flagged)
    PROVE  FlagInv'
<1> SUFFICES ASSUME NEW l \in LikeId \ flagged, likes'[l].user \in Users
             PROVE  RowFlag(l)' /\ \A q \in Requests : HandFlag(l, q)'
  BY FlagsKeep
<1> PICK u0, isBanned : u0 = req[r].user /\ isBanned = req[r].isBanned
  OBVIOUS
<1>1. u0 \in Users /\ isBanned \in BOOLEAN /\ Answer(r)
  BY RequestTypes DEF CommitBan, CommitUser, IInv
<1>2. /\ \A u \in Users : u # u0 => users'[u] = users[u]
      /\ likes'[l].user = likes[l].user
      /\ IF l \in req[r].rows \cap LikedBy(u0) THEN likes'[l].isBanned = isBanned ELSE likes'[l] = likes[l]
  BY BanMoves DEF IInv
<1>3. CASE likes[l].user = u0
  <2>1. l \in LikedBy(u0)
    BY <1>3 DEF LikedBy
  <2>2. /\ l \in req[r].rows \cap LikedBy(u0) /\ (users'[u0] = "banned") = isBanned
        /\ l \notin HeldLikesOf(u0)
    BY <2>1 DEF LoosenedByBan
  <2>3. RowFlag(l)'
    BY <1>2, <1>3, <2>2 DEF RowFlag
  <2>4. ASSUME NEW q \in Requests PROVE HandFlag(l, q)'
    <3>1. CASE q = r
      BY <1>1, <3>1, AnswerFlags DEF IInv
    <3>2. CASE q # r
      <4>1. req'[q] = req[q]
        BY <1>1, <3>2, AnswerFlags DEF IInv
      <4>2. ~(At(q, "saveLike") /\ req[q].id = l)
        <5> SUFFICES ASSUME At(q, "saveLike") /\ req[q].id = l PROVE FALSE
          OBVIOUS
        <5>1. req[q].ent.user = u0
          BY <1>1, <1>3 DEF IInv, SavesOwnRow
        <5> QED BY <2>2, <5>1 DEF HeldLikesOf
      <4> QED BY <4>1, <4>2 DEF HandFlag, At
    <3> QED BY <3>1, <3>2
  <2> QED BY <2>3, <2>4
<1>4. CASE likes[l].user # u0
  <2>1. likes'[l] = likes[l] /\ users'[likes[l].user] = users[likes[l].user]
    BY <1>2, <1>4 DEF LikedBy
  <2>2. l \notin loose
    BY <1>4 DEF LoosenedByBan, LikedBy
  <2>3. RowFlag(l)'
    BY <2>1, <2>2 DEF FlagInv, RowFlag
  <2>4. ASSUME NEW q \in Requests PROVE HandFlag(l, q)'
    <3>1. CASE q = r
      BY <1>1, <3>1, AnswerFlags DEF IInv
    <3>2. CASE q # r
      <4>1. req'[q] = req[q] /\ HandFlag(l, q)
        BY <1>1, <2>2, <3>2, AnswerFlags DEF IInv, FlagInv
      <4> QED BY <2>1, <4>1, OthersFlags
    <3> QED BY <3>1, <3>2
  <2> QED BY <2>3, <2>4
<1> QED BY <1>3, <1>4

LEMMA DeletionFlags ==
    ASSUME IInv, IInv', FlagInv, (\E v \in Users : DeleteUser(v)) \/ (\E p \in Targets : DeleteTarget(p)),
           NEW told, NEW flagged, flagged = loose, Remember(told, flagged)
    PROVE  FlagInv'
<1> SUFFICES ASSUME NEW l \in LikeId \ loose, likes'[l].user \in Users
             PROVE  RowFlag(l)' /\ \A q \in Requests : HandFlag(l, q)'
  BY FlagsKeep
<1>1. /\ req' = req /\ likes'[l] = likes[l] /\ targets' \subseteq targets
      /\ \A u \in Users : users'[u] # "deleted" => users'[u] = users[u]
      /\ users'[likes[l].user] = users[likes[l].user]
  <2>1. ASSUME NEW v \in Users, DeleteUser(v)
        PROVE  /\ req' = req /\ likes'[l] = likes[l] /\ targets' = targets
               /\ \A u \in Users : u # v => users'[u] = users[u]
               /\ users'[v] = "deleted" /\ likes[l].user # v
    <3>1. likes'[l] = IF likes[l].user = v THEN [likes[l] EXCEPT !.user = None] ELSE likes[l]
      BY <2>1 DEF DeleteUser
    <3>2. likes[l].user # v
      <4> SUFFICES ASSUME likes[l].user = v PROVE FALSE
        OBVIOUS
      <4>1. likes[l] \in LikeRow
        BY <2>1, NamedRow DEF IInv
      <4>2. likes'[l].user = None
        BY <3>1, <4>1 DEF LikeRow
      <4> QED BY <4>2, Nameless
    <3> QED BY <2>1, <3>1, <3>2 DEF DeleteUser, IInv, TypeOK, UsersTyped
  <2>2. ASSUME NEW p \in Targets, DeleteTarget(p)
        PROVE  req' = req /\ likes'[l] = likes[l] /\ targets' \subseteq targets /\ users' = users
    <3>1. likes'[l] = IF likes[l].target = p THEN NoLike ELSE likes[l]
      BY <2>2 DEF DeleteTarget
    <3> QED BY <2>2, <3>1, Nameless DEF DeleteTarget
  <2> QED BY <2>1, <2>2
<1>2. RowFlag(l)'
  BY <1>1 DEF FlagInv, RowFlag
<1>3. ASSUME NEW q \in Requests PROVE HandFlag(l, q)'
  BY <1>1, OthersFlags DEF FlagInv
<1> QED BY <1>2, <1>3

LEMMA FlagStep ==
    ASSUME IInv, IInv', FlagInv, LikesStep
    PROVE  FlagInv'
<1>1. ASSUME NEW r \in Requests, CreateLike(r), Remember(SaidIn(req[r]), LoosenedByLike(r))
      PROVE  FlagInv'
  <2> PICK told, flagged : told = SaidIn(req[r]) /\ flagged = LoosenedByLike(r)
    OBVIOUS
  <2> QED BY <1>1, CreateFlags
<1>2. ASSUME NEW r \in Requests, SaveLike(r), Remember(SaidIn(req[r].ent), loose)
      PROVE  FlagInv'
  <2> PICK told, flagged : told = SaidIn(req[r].ent) /\ flagged = loose
    OBVIOUS
  <2> QED BY <1>2, SaveFlags
<1>3. ASSUME NEW r \in Requests, CommitBan(r), Remember(said, LoosenedByBan(r))
      PROVE  FlagInv'
  <2> PICK told, flagged : told = said /\ flagged = LoosenedByBan(r)
    OBVIOUS
  <2> QED BY <1>3, BanFlags
<1>4. ASSUME Remember(said, loose),
             \/ \E r \in Requests : Begin(r) \/ UpdateUser(r) \/ Fail(r)
             \/ \E u \in Users : DeleteUser(u)
             \/ \E t \in Targets : DeleteTarget(t)
      PROVE  FlagInv'
  <2> PICK told, flagged : told = said /\ flagged = loose
    OBVIOUS
  <2> QED BY <1>4, BeginFlags, DeletionFlags
<1> QED BY <1>1, <1>2, <1>3, <1>4 DEF LikesStep

(***************************************************************************)
(* What holds of both                                                      *)
(***************************************************************************)
LEMMA IInvStep ==
    ASSUME IInv, [Next]_vars
    PROVE  IInv'
<1>1. TypeOK'
  BY TypeStep DEF IInv
<1>2. Fresh' /\ UsersHeld' /\ \A r \in Requests : SavesOwnRow(r)'
  BY <1>1, SavesStep, HeldStep DEF IInv
<1>3. OneLikePerRequest'
  BY CountStep DEF IInv
<1> QED BY <1>1, <1>2, <1>3 DEF IInv

LEMMA LikesBegin == MCInit => LikesInv
<1> SUFFICES ASSUME MCInit PROVE LikesInv
  OBVIOUS
<1>1. Init /\ said = [tu \in Targets \X Users |-> None] /\ loose = {}
  BY DEF MCInit
<1>2. IInv
  BY <1>1, TypeInit, SavesInit, CountInit DEF IInv
<1>3. \A r \in Requests : req[r].pc = "idle"
  BY <1>1 DEF Init, Idle
<1>4. \A l \in LikeId : likes[l] = NoLike
  BY <1>1 DEF Init
<1>5. UpsertInv
  <2>1. ASSUME NEW t \in Targets, NEW u \in Users
        PROVE  Setting(t, u) = {} /\ Creating(t, u) = {} /\ LikesOf(t, u) = {} /\ said[<<t, u>>] = None
    BY <1>1, <1>3, <1>4, Nameless DEF Setting, Creating, At, LikesOf
  <2> QED BY <1>1, <2>1 DEF UpsertInv, Sole, OneRow, RowSays, FirstSays
<1>6. FlagInv
  BY <1>3, <1>4, Nameless DEF FlagInv, RowFlag, HandFlag, At
<1> QED BY <1>2, <1>5, <1>6 DEF LikesInv

LEMMA LikesGoOn == LikesInv /\ [MCNext]_<<part, likesVars, viewsVars, pagesVars, games>> => LikesInv'
<1> SUFFICES ASSUME LikesInv, [MCNext]_<<part, likesVars, viewsVars, pagesVars, games>> PROVE LikesInv'
  OBVIOUS
<1>1. CASE LikesStep
  <2>1. Next /\ part = "likes" /\ part' = part
    BY <1>1 DEF LikesStep, Next, RequestStep
  <2>2. IInv'
    BY <2>1, IInvStep DEF LikesInv
  <2> QED BY <1>1, <2>1, <2>2, UpsertStep, FlagStep DEF LikesInv
<1>2. ASSUME UNCHANGED <<part, likesVars>> PROVE LikesInv'
  <2>1. UNCHANGED <<vars, said, loose, part>>
    BY <1>2 DEF likesVars
  <2>2. IInv'
    BY <2>1, IInvStep DEF LikesInv
  <2>3. UNCHANGED <<users, targets, likes, lastLike, req, said, loose, part>>
    BY <2>1 DEF vars, tables
  <2>4. part = "likes" => UpsertInv' /\ FlagInv'
    BY <2>3 DEF LikesInv, UpsertInv, FlagInv, Sole, OneRow, RowSays, FirstSays, RowFlag, HandFlag,
                Setting, Creating, LikesOf, At, CanWrite, Exists
  <2> QED BY <2>2, <2>3, <2>4 DEF LikesInv
<1> QED BY <1>1, <1>2 DEF MCNext, PagesStep

\* However requests, failures, bans and deletions interleave, a user has one like of a
\* target, with the status he last set, or none if he set none, unless two of his requests
\* for it overlapped: finding and then creating or saving (like-status-by-post-id.usecase.ts
\* and set-like-status-by-comment-id.usecase.ts) comes to an upsert.
THEOREM LikesUpsert == MCSpec => []LikesAreUpserts
<1>1. LikesInv => LikesAreUpserts
  <2> SUFFICES ASSUME LikesInv, part = "likes", NEW t \in Targets, NEW u \in Users, said[<<t, u>>] # "contested"
               PROVE  /\ {likes[l].status : l \in LikesOf(t, u)} = {said[<<t, u>>]} \ {None}
                      /\ Cardinality(LikesOf(t, u)) <= 1
    BY DEF LikesAreUpserts
  <2> PICK s, L : s = said[<<t, u>>] /\ L = LikesOf(t, u)
    OBVIOUS
  <2>1. \/ s = None /\ L = {}
        \/ s \in Status /\ \E l \in LikeId : L = {l} /\ likes[l].status = s
    BY DEF LikesInv, UpsertInv, OneRow, RowSays
  <2>2. CASE s = None /\ L = {}
    BY <2>2, FS_EmptySet
  <2>3. ASSUME s \in Status, NEW l \in LikeId, L = {l}, likes[l].status = s
        PROVE  {likes[k].status : k \in L} = {s} \ {None} /\ Cardinality(L) <= 1
    <3>1. s # None
      BY <2>3, NotContested
    <3> QED BY <2>3, <3>1, FS_Singleton
  <2> QED BY <2>1, <2>2, <2>3
<1> QED BY <1>1, LikesBegin, LikesGoOn, PTL DEF MCSpec

\* A like has the flag of its user's ban (ban-unban-user.usercase.ts, whose updateBanUnban is
\* one statement, while a like in hand is saved with the flag it was found with), unless it
\* was set while he was banned, or while a ban or unban of him was about to commit; was in
\* hand across one; or an overlapping command left his row as that one did not ask for.
THEOREM LikesFlagged == MCSpec => []LikesFollowTheBan
<1>1. LikesInv => LikesFollowTheBan
  BY DEF LikesInv, FlagInv, RowFlag, LikesFollowTheBan
<1> QED BY <1>1, LikesBegin, LikesGoOn, PTL DEF MCSpec

(***************************************************************************)
(* What the lists and the single views tell                                *)
(***************************************************************************)
LEMMA FewLikes ==
    ASSUME NEW L \in SUBSET V!LikeId
    PROVE  IsFiniteSet(L) /\ Cardinality(L) \in Nat
<1>1. IsFiniteSet(V!LikeId)
  BY QueriesConstants, FS_Interval DEF V!LikeId, V!ViewsConstants
<1> QED BY <1>1, FS_Subset, FS_CardinalityType

LEMMA FirstNumbers ==
    ASSUME NEW c \in Nat
    PROVE  IsFiniteSet(0..(c - 1)) /\ Cardinality(0..(c - 1)) = c
<1>1. IsFiniteSet(0..(c - 1)) /\ Cardinality(0..(c - 1)) = IF 0 > c - 1 THEN 0 ELSE (c - 1) - 0 + 1
  BY FS_Interval
<1> QED BY <1>1

\* The newest of a set of likes, up to a limit.
Newest(L, n) == {l \in L : Cardinality({k \in L : k > l}) < n}

\* They are as many as there are, up to the limit: the number of later ones tells the likes
\* apart, so that it takes every value below their number once.
LEMMA NewestCount ==
    ASSUME NEW L \in SUBSET Int, IsFiniteSet(L), NEW n \in Nat
    PROVE  Cardinality(Newest(L, n)) = IF Cardinality(L) < n THEN Cardinality(L) ELSE n
<1> PICK later, c : later = [l \in L |-> Cardinality({k \in L : k > l})] /\ c = Cardinality(L)
  OBVIOUS
<1>0. L \subseteq Int /\ IsFiniteSet(L) /\ c \in Nat
  BY FS_CardinalityType
<1>1. ASSUME NEW l \in L PROVE later[l] \in 0..(c - 1)
  <2> PICK above : above = {k \in L : k > l}
    OBVIOUS
  <2>1. above \subseteq L /\ l \notin above /\ above # L
    BY <1>0
  <2>2. Cardinality(above) \in Nat /\ Cardinality(above) < c
    BY <1>0, <2>1, FS_Subset, FS_CardinalityType
  <2>3. later[l] = Cardinality(above)
    OBVIOUS
  <2> QED BY <1>0, <2>2, <2>3
<1>2. ASSUME NEW l \in L, NEW m \in L, l < m PROVE later[m] < later[l]
  <2> PICK above, below : above = {k \in L : k > m} /\ below = {k \in L : k > l}
    OBVIOUS
  <2>0. l \in Int /\ m \in Int /\ l < m
    BY <1>0, <1>2
  <2>1. above \subseteq below /\ m \in below /\ m \notin above /\ below \subseteq L
    <3>1. ASSUME NEW k \in L, k > m PROVE k > l
      BY <1>0, <2>0, <3>1
    <3>2. ~(m > m) /\ m > l
      BY <2>0
    <3> QED BY <3>1, <3>2
  <2>2. IsFiniteSet(below)
    BY <1>0, <2>1, FS_Subset
  <2>3. Cardinality(above) < Cardinality(below)
    BY <2>1, <2>2, FS_Subset, FS_CardinalityType
  <2> QED BY <2>3
<1>3. later \in Injection(L, 0..(c - 1))
  <2>1. \A l, m \in L : later[l] = later[m] => l = m
    BY <1>0, <1>1, <1>2
  <2>2. later \in [L -> 0..(c - 1)]
    BY <1>1
  <2> QED BY <2>1, <2>2 DEF Injection, IsInjective
<1>4. IsFiniteSet(0..(c - 1)) /\ Cardinality(0..(c - 1)) = c
  BY <1>0, FirstNumbers
<1>5. later \in Surjection(L, 0..(c - 1))
  BY <1>3, <1>4, FS_Injection
<1> PICK m : m = IF c < n THEN c ELSE n
  OBVIOUS
<1>6. m \in Nat /\ m <= c
  BY <1>0
<1> PICK first : first = [l \in Newest(L, n) |-> later[l]]
  OBVIOUS
<1>7. \A l \in L : l \in Newest(L, n) <=> later[l] \in 0..(m - 1)
  BY <1>0, <1>1 DEF Newest
<1>8. first \in Bijection(Newest(L, n), 0..(m - 1))
  <2>1. Newest(L, n) \subseteq L
    BY DEF Newest
  <2>2. first \in [Newest(L, n) -> 0..(m - 1)]
    BY <1>7, <2>1
  <2>3. \A k, l \in Newest(L, n) : first[k] = first[l] => k = l
    BY <1>3, <2>1 DEF Injection, IsInjective
  <2>4. ASSUME NEW i \in 0..(m - 1) PROVE \E l \in Newest(L, n) : first[l] = i
    <3>1. i \in 0..(c - 1)
      BY <1>0, <1>6
    <3>2. PICK l \in L : later[l] = i
      BY <1>5, <3>1 DEF Surjection
    <3> QED BY <1>7, <3>2
  <2> QED BY <2>2, <2>3, <2>4 DEF Bijection, Injection, Surjection, IsInjective
<1>9. Cardinality(Newest(L, n)) = Cardinality(0..(m - 1))
  <2>1. IsFiniteSet(Newest(L, n))
    BY <1>0, FS_Subset DEF Newest
  <2>2. ExistsBijection(Newest(L, n), 0..(m - 1))
    BY <1>8 DEF ExistsBijection
  <2> QED BY <2>1, <2>2, FS_Bijection
<1>10. Cardinality(Newest(L, n)) = m
  BY <1>6, <1>9, FirstNumbers
<1> QED BY <1>10

\* Of fewer likes, one that was among the newest still is.
LEMMA NewestOfFewer ==
    ASSUME NEW L \in SUBSET V!LikeId, NEW K \in SUBSET L, NEW n \in Nat, NEW l \in K, l \in Newest(L, n)
    PROVE  l \in Newest(K, n)
<1> PICK a, b : a = {k \in K : k > l} /\ b = {k \in L : k > l}
  OBVIOUS
<1>1. a \subseteq b /\ b \in SUBSET V!LikeId
  OBVIOUS
<1>2. Cardinality(a) <= Cardinality(b) /\ Cardinality(a) \in Nat /\ Cardinality(b) \in Nat
  BY <1>1, FewLikes, FS_Subset
<1> QED BY <1>2 DEF Newest

\* Their module counts as this one does.
LEMMA CountsAlike == \A S : V!Cardinality(S) = Cardinality(S)
  BY DEF V!Cardinality, Cardinality

LEMMA LikesAreIds ==
    ASSUME NEW ids
    PROVE  /\ V!Liking(ids) \in SUBSET V!LikeId
           /\ V!NewestLikes(ids) = Newest(V!Liking(ids), NewestLimit)
           /\ V!NewestLikes(ids) \subseteq V!Liking(ids)
<1>1. V!Liking(ids) \in SUBSET V!LikeId
  BY DEF V!Liking
<1>2. V!NewestLikes(ids) = Newest(V!Liking(ids), NewestLimit)
  BY CountsAlike DEF V!NewestLikes, Newest
<1> QED BY <1>1, <1>2 DEF Newest

\* The bloggers' repository counts up to the like itself, and finds the same.
Latest(L, n) == {l \in L : Cardinality({k \in L : k >= l}) <= n}

LEMMA LatestAreNewest ==
    ASSUME NEW L \in SUBSET V!LikeId, NEW n \in Nat
    PROVE  Latest(L, n) = Newest(L, n)
<1>1. ASSUME NEW l \in L
      PROVE  Cardinality({k \in L : k >= l}) <= n <=> Cardinality({k \in L : k > l}) < n
  <2> PICK a, b : a = {k \in L : k > l} /\ b = {k \in L : k >= l}
    OBVIOUS
  <2>1. l \in Int /\ L \subseteq Int
    BY DEF V!LikeId
  <2>2. b = a \cup {l} /\ l \notin a /\ a \in SUBSET V!LikeId
    <3>1. \A k \in L : k >= l <=> k > l \/ k = l
      BY <2>1
    <3>2. ~(l > l)
      BY <2>1
    <3> QED BY <3>1, <3>2
  <2>3. IsFiniteSet(a) /\ Cardinality(a) \in Nat
    BY <2>2, FewLikes
  <2>4. Cardinality(b) = Cardinality(a) + 1
    BY <2>2, <2>3, FS_AddElement
  <2>5. Cardinality(b) <= n <=> Cardinality(a) < n
    BY <2>3, <2>4
  <2> QED BY <2>5
<1> QED BY <1>1 DEF Latest, Newest

LEMMA SameNewestLikes ==
    ASSUME NEW ids
    PROVE  V!BloggerNewestLikes(ids) = V!NewestLikes(ids)
<1> PICK L : L = {l \in V!LikeId : viewedLikes[l].status = "Like" /\ viewedLikes[l].target \in ids /\ ~viewedLikes[l].isBanned}
  OBVIOUS
<1>1. V!BloggerNewestLikes(ids) = Latest(L, NewestLimit)
  BY CountsAlike DEF V!BloggerNewestLikes, Latest
<1>2. L = V!Liking(ids)
  BY DEF V!Liking
<1>3. NewestLimit \in Nat
  BY QueriesConstants DEF V!ViewsConstants
<1> QED BY <1>1, <1>2, <1>3, LatestAreNewest, LikesAreIds

\* The rows on an item, and the viewer's, whatever the order of the conditions.
RowsOn(i) == {l \in V!LikeId : viewedLikes[l].target = i}
MineIn(S, viewer) == {l \in S : viewer # None /\ viewedLikes[l].user = viewer}
Counted(S, s) == Cardinality({l \in S : viewedLikes[l].status = s /\ ~viewedLikes[l].isBanned})
Statuses(S) == {viewedLikes[l].status : l \in S}

LEMMA SameLikesInfo ==
    ASSUME NEW i, NEW viewer
    PROVE  V!BloggerLikesInfo(i, viewer) = V!LikesInfo(i, viewer)
<1> PICK of, mine : of = RowsOn(i) /\ mine = MineIn(of, viewer)
  OBVIOUS
<1>1. ASSUME NEW s PROVE V!CountLikeDislike(i, s) = Counted(of, s)
  <2> PICK T : T = {l \in V!LikeId : viewedLikes[l].target = i /\ viewedLikes[l].status = s /\ ~viewedLikes[l].isBanned}
    OBVIOUS
  <2>1. V!CountLikeDislike(i, s) = Cardinality(T)
    BY CountsAlike DEF V!CountLikeDislike
  <2>2. T = {l \in of : viewedLikes[l].status = s /\ ~viewedLikes[l].isBanned}
    BY DEF RowsOn
  <2> QED BY <2>1, <2>2 DEF Counted
<1>2. V!MyStatus(i, viewer) = Statuses(mine)
  <2> PICK T : T = {k \in V!LikeId : viewedLikes[k].target = i /\ viewer # None /\ viewedLikes[k].user = viewer}
    OBVIOUS
  <2>1. V!MyStatus(i, viewer) = Statuses(T)
    BY DEF V!MyStatus, Statuses
  <2>2. T = mine
    BY DEF MineIn, RowsOn
  <2> QED BY <2>1, <2>2
<1>3. mine = {} <=> Statuses(mine) = {}
  BY DEF Statuses
<1>4. V!BloggerLikesInfo(i, viewer) =
         [likesCount |-> Counted(of, "Like"), dislikesCount |-> Counted(of, "Dislike"),
          myStatus |-> IF mine = {} THEN {"None"} ELSE Statuses(mine)]
  BY CountsAlike DEF V!BloggerLikesInfo, RowsOn, MineIn, Counted, Statuses
<1> QED BY <1>1, <1>2, <1>3, <1>4 DEF V!LikesInfo

LEMMA SamePostViews ==
    ASSUME NEW ids, NEW viewer
    PROVE  V!BloggerPostViews(ids, viewer) = V!PostViews(ids, viewer)
<1> PICK n : n = V!NewestLikes(ids)
  OBVIOUS
<1>1. None \in {viewedLikes[l].user : l \in n} <=> \E l \in n : viewedLikes[l].user = None
  OBVIOUS
<1>2. V!BloggerPostViews(ids, viewer) =
         IF None \in {viewedLikes[l].user : l \in n} THEN V!Crash
         ELSE V!Ok([p \in ids |-> [info |-> V!BloggerLikesInfo(p, viewer),
                                   newest |-> {l \in n : viewedLikes[l].target = p}]])
  BY SameNewestLikes DEF V!BloggerPostViews
<1>3. V!PostViews(ids, viewer) =
         IF \E l \in n : viewedLikes[l].user = None THEN V!Crash
         ELSE V!Ok([p \in ids |-> [info |-> V!LikesInfo(p, viewer),
                                   newest |-> {l \in n : viewedLikes[l].target = p}]])
  BY DEF V!PostViews
<1>4. [p \in ids |-> [info |-> V!BloggerLikesInfo(p, viewer), newest |-> {l \in n : viewedLikes[l].target = p}]]
      = [p \in ids |-> [info |-> V!LikesInfo(p, viewer), newest |-> {l \in n : viewedLikes[l].target = p}]]
  BY SameLikesInfo
<1> QED BY <1>1, <1>2, <1>3, <1>4

\* A like that is among the newest of a page is among those of its post.
LEMMA NewestOfPost ==
    ASSUME NEW ids, NEW l \in V!NewestLikes(ids), NEW i, i = viewedLikes[l].target
    PROVE  i \in ids /\ l \in V!NewestLikes({i})
<1>1. l \in V!Liking(ids) /\ l \in Newest(V!Liking(ids), NewestLimit)
  BY LikesAreIds
<1>2. i \in ids /\ l \in V!Liking({i}) /\ V!Liking({i}) \subseteq V!Liking(ids)
  BY <1>1 DEF V!Liking
<1>3. NewestLimit \in Nat
  BY QueriesConstants DEF V!ViewsConstants
<1>4. l \in Newest(V!Liking({i}), NewestLimit)
  BY <1>1, <1>2, <1>3, LikesAreIds, NewestOfFewer
<1> QED BY <1>2, <1>4, LikesAreIds

PostView(p, n, viewer) == [info |-> V!LikesInfo(p, viewer), newest |-> {l \in n : viewedLikes[l].target = p}]

LEMMA PostAnswers ==
    ASSUME NEW ids, NEW viewer
    PROVE  /\ V!PostViews(ids, viewer).code =
                  IF \E l \in V!NewestLikes(ids) : viewedLikes[l].user = None THEN "crash" ELSE "ok"
           /\ V!PostViews(ids, viewer).code = "ok" =>
                  /\ DOMAIN V!PostViews(ids, viewer).views = ids
                  /\ \A p \in ids : V!PostViews(ids, viewer).views[p] = PostView(p, V!NewestLikes(ids), viewer)
<1>1. V!PostViews(ids, viewer) =
         IF \E l \in V!NewestLikes(ids) : viewedLikes[l].user = None THEN V!Crash
         ELSE V!Ok([p \in ids |-> PostView(p, V!NewestLikes(ids), viewer)])
  BY DEF V!PostViews, PostView
<1> QED BY <1>1 DEF V!Crash, V!Ok

LEMMA PostFields ==
    ASSUME NEW p, NEW n, NEW viewer
    PROVE  /\ PostView(p, n, viewer).info = V!LikesInfo(p, viewer)
           /\ PostView(p, n, viewer).newest = {l \in n : viewedLikes[l].target = p}
  BY DEF PostView

\* A list of posts and the views of the posts by themselves.
LEMMA PostsAgree ==
    ASSUME NEW ids, NEW viewer
    PROVE  /\ V!PostViews(ids, viewer).code = "ok" =>
                  /\ DOMAIN V!PostViews(ids, viewer).views = ids
                  /\ \A i \in ids : V!PostViews({i}, viewer).code = "ok" =>
                        /\ V!PostViews(ids, viewer).views[i].info = V!PostViews({i}, viewer).views[i].info
                        /\ V!PostViews(ids, viewer).views[i].newest
                              \subseteq V!PostViews({i}, viewer).views[i].newest
           /\ V!PostViews(ids, viewer).code = "crash" =>
                  \E i \in ids : V!PostViews({i}, viewer).code = "crash"
<1>1. ASSUME V!PostViews(ids, viewer).code = "ok", NEW i \in ids, V!PostViews({i}, viewer).code = "ok"
      PROVE  /\ V!PostViews(ids, viewer).views[i].info = V!PostViews({i}, viewer).views[i].info
             /\ V!PostViews(ids, viewer).views[i].newest \subseteq V!PostViews({i}, viewer).views[i].newest
  <2> PICK n, m : n = V!NewestLikes(ids) /\ m = V!NewestLikes({i})
    OBVIOUS
  <2>1. /\ V!PostViews(ids, viewer).views[i] = PostView(i, n, viewer)
        /\ V!PostViews({i}, viewer).views[i] = PostView(i, m, viewer)
    BY <1>1, PostAnswers, Zenon
  <2>2. \A l \in n : viewedLikes[l].target = i => l \in m
    BY NewestOfPost
  <2> PICK v, w : v = PostView(i, n, viewer) /\ w = PostView(i, m, viewer)
    OBVIOUS
  <2>3. v.info = w.info /\ v.newest \subseteq w.newest
    <3>1. v.info = V!LikesInfo(i, viewer) /\ w.info = V!LikesInfo(i, viewer)
      BY PostFields
    <3>2. v.newest = {l \in n : viewedLikes[l].target = i} /\ w.newest = {l \in m : viewedLikes[l].target = i}
      BY PostFields
    <3> QED BY <2>2, <3>1, <3>2
  <2> QED BY <2>1, <2>3
<1>2. ASSUME V!PostViews(ids, viewer).code = "crash"
      PROVE  \E i \in ids : V!PostViews({i}, viewer).code = "crash"
  <2>1. PICK l \in V!NewestLikes(ids) : viewedLikes[l].user = None
    BY <1>2, PostAnswers
  <2> PICK i : i = viewedLikes[l].target
    OBVIOUS
  <2>2. i \in ids /\ l \in V!NewestLikes({i})
    BY NewestOfPost
  <2> QED BY <2>1, <2>2, PostAnswers
<1>3. V!PostViews(ids, viewer).code = "ok" => DOMAIN V!PostViews(ids, viewer).views = ids
  BY PostAnswers
<1> QED BY <1>1, <1>2, <1>3

\* A post that is shown by itself has as many newest likes as it counts, up to the limit.
LEMMA NewestCounted ==
    ASSUME NEW p \in Posts, NEW viewer
    PROVE  V!NewestAreCounted(p, viewer)
<1> SUFFICES ASSUME V!GetPostById(p, viewer).code = "ok"
             PROVE  LET count == V!GetPostById(p, viewer).views[p].info.likesCount
                    IN  Cardinality(V!GetPostById(p, viewer).views[p].newest)
                           = IF count < NewestLimit THEN count ELSE NewestLimit
  BY CountsAlike DEF V!NewestAreCounted
<1> PICK L, n : L = V!Liking({p}) /\ n = V!NewestLikes({p})
  OBVIOUS
<1>1. V!GetPostById(p, viewer) = V!PostViews({p}, viewer)
  BY DEF V!GetPostById, V!NotFound
<1>2. V!GetPostById(p, viewer).views[p] = PostView(p, n, viewer)
  <2>1. V!PostViews({p}, viewer).code = "ok" /\ p \in {p}
    BY <1>1
  <2>2. V!PostViews({p}, viewer).views[p] = PostView(p, V!NewestLikes({p}), viewer)
    BY <2>1, PostAnswers
  <2> QED BY <1>1, <2>2
<1>3. {l \in n : viewedLikes[l].target = p} = n
  BY LikesAreIds DEF V!Liking
<1>4. V!LikesInfo(p, viewer).likesCount = Cardinality(L)
  <2> PICK T : T = {l \in V!LikeId : viewedLikes[l].target = p /\ viewedLikes[l].status = "Like" /\ ~viewedLikes[l].isBanned}
    OBVIOUS
  <2>1. T = L
    BY DEF V!Liking
  <2>2. V!CountLikeDislike(p, "Like") = Cardinality(T)
    BY CountsAlike DEF V!CountLikeDislike
  <2> QED BY <2>1, <2>2 DEF V!LikesInfo
<1>5. NewestLimit \in Nat
  BY QueriesConstants DEF V!ViewsConstants
<1>6. Cardinality(n) = IF Cardinality(L) < NewestLimit THEN Cardinality(L) ELSE NewestLimit
  <2>1. L \in SUBSET Int /\ IsFiniteSet(L)
    BY LikesAreIds, FewLikes DEF V!LikeId
  <2> QED BY <1>5, <2>1, LikesAreIds, NewestCount
<1>7. /\ V!GetPostById(p, viewer).views[p].info.likesCount = Cardinality(L)
      /\ V!GetPostById(p, viewer).views[p].newest = n
  <2> PICK v : v = PostView(p, n, viewer)
    OBVIOUS
  <2>1. v.info = V!LikesInfo(p, viewer) /\ v.newest = {l \in n : viewedLikes[l].target = p}
    BY PostFields
  <2> QED BY <1>2, <1>3, <1>4, <2>1
<1> QED BY <1>6, <1>7

\* What Agrees and FailsWithAnItem say, for a list of posts that is found by PostViews, and
\* views of its posts.
LEMMA ListOfPosts ==
    ASSUME NEW shown, NEW viewer, NEW list, list = V!PostViews(shown, viewer)
    PROVE  /\ list.code \in {"ok", "crash"}
           /\ list.code = "ok" => DOMAIN list.views = shown
           /\ list.code = "ok" => \A i \in shown : V!PostViews({i}, viewer).code = "ok" =>
                 /\ list.views[i].info = V!PostViews({i}, viewer).views[i].info
                 /\ list.views[i].newest \subseteq V!PostViews({i}, viewer).views[i].newest
           /\ list.code = "crash" => \E i \in shown : V!PostViews({i}, viewer).code = "crash"
<1>1. list.code \in {"ok", "crash"}
  BY PostAnswers
<1> QED BY <1>1, PostsAgree

LEMMA PublicPosts ==
    ASSUME NEW ids \in SUBSET Posts, NEW viewer, NEW list,
           list = V!PostViews({p \in ids : ~posts[p].isBanned}, viewer)
    PROVE  /\ list.code = "ok" =>
                 /\ DOMAIN list.views = {i \in ids : V!GetPostById(i, viewer).code # "notFound"}
                 /\ \A i \in DOMAIN list.views : V!GetPostById(i, viewer).code = "ok" =>
                       /\ list.views[i].info = V!GetPostById(i, viewer).views[i].info
                       /\ list.views[i].newest \subseteq V!GetPostById(i, viewer).views[i].newest
           /\ list.code = "crash" => \E i \in ids : V!GetPostById(i, viewer).code = "crash"
           /\ list.code \in {"ok", "crash"}
<1> PICK shown : shown = {p \in ids : ~posts[p].isBanned}
  OBVIOUS
<1>1. \A i \in ids : /\ i \in shown => V!GetPostById(i, viewer) = V!PostViews({i}, viewer)
                     /\ i \notin shown => V!GetPostById(i, viewer).code = "notFound"
  BY DEF V!GetPostById, V!NotFound
<1>2. \A i : V!PostViews({i}, viewer).code # "notFound"
  BY PostAnswers
<1>3. shown = {i \in ids : V!GetPostById(i, viewer).code # "notFound"}
  BY <1>1, <1>2
<1>4. list = V!PostViews(shown, viewer) /\ shown \subseteq ids
  OBVIOUS
<1>5. /\ list.code \in {"ok", "crash"}
      /\ list.code = "ok" => DOMAIN list.views = shown
      /\ list.code = "ok" => \A i \in shown : V!PostViews({i}, viewer).code = "ok" =>
            /\ list.views[i].info = V!PostViews({i}, viewer).views[i].info
            /\ list.views[i].newest \subseteq V!PostViews({i}, viewer).views[i].newest
      /\ list.code = "crash" => \E i \in shown : V!PostViews({i}, viewer).code = "crash"
  BY <1>4, ListOfPosts, Zenon
<1>6. ASSUME list.code = "ok"
      PROVE  /\ DOMAIN list.views = {i \in ids : V!GetPostById(i, viewer).code # "notFound"}
             /\ \A i \in shown : V!GetPostById(i, viewer).code = "ok" =>
                   /\ list.views[i].info = V!GetPostById(i, viewer).views[i].info
                   /\ list.views[i].newest \subseteq V!GetPostById(i, viewer).views[i].newest
  <2>1. DOMAIN list.views = shown
    BY <1>5, <1>6
  <2> QED BY <1>1, <1>3, <1>4, <1>5, <1>6, <2>1
<1>7. list.code = "crash" => \E i \in ids : V!GetPostById(i, viewer).code = "crash"
  BY <1>1, <1>4, <1>5
<1>8. list.code = "ok" => DOMAIN list.views = shown
  BY <1>5
<1> QED BY <1>5, <1>6, <1>7, <1>8

\* What a blogger is shown of a post he sees is what the public is shown of it.
LEMMA OwnPost ==
    ASSUME NEW p, NEW viewer
    PROVE  /\ V!BloggerGetPostById(p, viewer) = V!PostViews({p}, viewer)
           /\ V!GetPostById(p, viewer).code # "notFound" =>
                 V!BloggerGetPostById(p, viewer) = V!GetPostById(p, viewer)
<1>1. V!BloggerGetPostById(p, viewer) = V!PostViews({p}, viewer)
  BY SamePostViews DEF V!BloggerGetPostById
<1> QED BY <1>1 DEF V!GetPostById, V!NotFound

LEMMA BloggersPosts ==
    ASSUME NEW b, NEW viewer, NEW list, list = V!BloggerFindPostsByBlogId(b, viewer)
    PROVE  /\ list.code = "ok" =>
                 /\ DOMAIN list.views = {i \in V!PostsOf(b) : V!BloggerGetPostById(i, viewer).code # "notFound"}
                 /\ \A i \in DOMAIN list.views : V!BloggerGetPostById(i, viewer).code = "ok" =>
                       /\ list.views[i].info = V!BloggerGetPostById(i, viewer).views[i].info
                       /\ list.views[i].newest \subseteq V!BloggerGetPostById(i, viewer).views[i].newest
           /\ list.code = "crash" => \E i \in V!PostsOf(b) : V!BloggerGetPostById(i, viewer).code = "crash"
           /\ list.code # "forbidden" <=> blogs[b].owner = viewer
<1>1. CASE blogs[b].owner # viewer
  BY <1>1 DEF V!BloggerFindPostsByBlogId, V!Forbidden
<1>2. CASE blogs[b].owner = viewer
  <2>1. list = V!PostViews(V!PostsOf(b), viewer)
    BY <1>2, SamePostViews DEF V!BloggerFindPostsByBlogId
  <2>2. \A i : V!PostViews({i}, viewer).code # "notFound"
    BY PostAnswers
  <2>3. \A i : V!BloggerGetPostById(i, viewer) = V!PostViews({i}, viewer)
    BY OwnPost
  <2>4. V!PostsOf(b) = {i \in V!PostsOf(b) : V!BloggerGetPostById(i, viewer).code # "notFound"}
    BY <2>2, <2>3
  <2> PICK mine : mine = V!PostsOf(b)
    OBVIOUS
  <2>5. /\ list.code \in {"ok", "crash"}
        /\ list.code = "ok" => DOMAIN list.views = mine
        /\ list.code = "ok" => \A i \in mine : V!PostViews({i}, viewer).code = "ok" =>
              /\ list.views[i].info = V!PostViews({i}, viewer).views[i].info
              /\ list.views[i].newest \subseteq V!PostViews({i}, viewer).views[i].newest
        /\ list.code = "crash" => \E i \in mine : V!PostViews({i}, viewer).code = "crash"
    BY <2>1, ListOfPosts, Zenon
  <2>6. list.code = "ok" => DOMAIN list.views = {i \in V!PostsOf(b) : V!BloggerGetPostById(i, viewer).code # "notFound"}
    BY <2>4, <2>5
  <2>7. list.code = "ok" => \A i \in DOMAIN list.views : V!BloggerGetPostById(i, viewer).code = "ok" =>
              /\ list.views[i].info = V!BloggerGetPostById(i, viewer).views[i].info
              /\ list.views[i].newest \subseteq V!BloggerGetPostById(i, viewer).views[i].newest
    BY <2>3, <2>5
  <2>8. list.code = "crash" => \E i \in V!PostsOf(b) : V!BloggerGetPostById(i, viewer).code = "crash"
    BY <2>3, <2>5
  <2> QED BY <1>2, <2>5, <2>6, <2>7, <2>8
<1> QED BY <1>1, <1>2

LEMMA BlogsPosts ==
    ASSUME NEW b, NEW viewer, NEW list, list = V!FindPostsByBlogId(b, viewer)
    PROVE  /\ list.code = "ok" =>
                 /\ DOMAIN list.views = {i \in V!PostsOf(b) : V!GetPostById(i, viewer).code # "notFound"}
                 /\ \A i \in DOMAIN list.views : V!GetPostById(i, viewer).code = "ok" =>
                       /\ list.views[i].info = V!GetPostById(i, viewer).views[i].info
                       /\ list.views[i].newest \subseteq V!GetPostById(i, viewer).views[i].newest
           /\ list.code = "crash" => \E i \in V!PostsOf(b) : V!GetPostById(i, viewer).code = "crash"
<1>1. CASE blogs[b].isBanned
  BY <1>1 DEF V!FindPostsByBlogId, V!NotFound
<1>2. CASE ~blogs[b].isBanned
  <2>1. list = V!PostViews({p \in V!PostsOf(b) : ~posts[p].isBanned}, viewer)
    BY <1>2 DEF V!FindPostsByBlogId
  <2>2. V!PostsOf(b) \in SUBSET Posts
    BY DEF V!PostsOf
  <2> QED BY <2>1, <2>2, PublicPosts
<1> QED BY <1>1, <1>2

LEMMA CommentAnswers ==
    ASSUME NEW ids, NEW viewer
    PROVE  /\ V!CommentViews(ids, viewer).code = "ok"
           /\ DOMAIN V!CommentViews(ids, viewer).views = ids
           /\ \A c \in ids : /\ V!CommentViews(ids, viewer).views[c].info = V!LikesInfo(c, viewer)
                             /\ V!CommentViews(ids, viewer).views[c].newest = {}
  BY DEF V!CommentViews, V!Ok

CommentsOn(p) == {c \in Comments : comments[c].post = p}

LEMMA PostsComments ==
    ASSUME NEW p, NEW viewer, NEW list, list = V!FindCommentsByPostId(p, viewer)
    PROVE  /\ DOMAIN list.views = {c \in CommentsOn(p) : V!GetCommentViewById(c, viewer).code # "notFound"}
           /\ \A c \in DOMAIN list.views : V!GetCommentViewById(c, viewer).code = "ok" =>
                 /\ list.views[c].info = V!GetCommentViewById(c, viewer).views[c].info
                 /\ list.views[c].newest \subseteq V!GetCommentViewById(c, viewer).views[c].newest
           /\ viewer # None /\ blogs[posts[p].blog].owner = viewer =>
                 DOMAIN list.views \subseteq DOMAIN V!AllCommentsForAllPostsInsideBlogs(viewer).views
<1> PICK of, shown : of = CommentsOn(p) /\ shown = {c \in of : ~comments[c].isBanned}
  OBVIOUS
<1>1. list = V!CommentViews(shown, viewer)
  <2>1. shown = {c \in Comments : comments[c].post = p /\ ~comments[c].isBanned}
    BY DEF CommentsOn
  <2> QED BY <2>1 DEF V!FindCommentsByPostId
<1>2. \A c \in of : /\ c \in shown => V!GetCommentViewById(c, viewer) = V!CommentViews({c}, viewer)
                    /\ c \notin shown => V!GetCommentViewById(c, viewer).code = "notFound"
  BY DEF V!GetCommentViewById, V!NotFound
<1>3. \A c : V!CommentViews({c}, viewer).code = "ok" /\ V!CommentViews({c}, viewer).views[c].info = V!LikesInfo(c, viewer)
  BY CommentAnswers
<1>4. DOMAIN list.views = shown
  BY <1>1, CommentAnswers
<1>5. shown = {c \in of : V!GetCommentViewById(c, viewer).code # "notFound"}
  BY <1>2, <1>3
<1>6. \A c \in shown : /\ list.views[c].info = V!GetCommentViewById(c, viewer).views[c].info
                       /\ list.views[c].newest = {}
  <2>1. \A c \in shown : list.views[c].info = V!LikesInfo(c, viewer) /\ list.views[c].newest = {}
    BY <1>1, CommentAnswers
  <2> QED BY <1>2, <1>3, <2>1
<1>7. ASSUME blogs[posts[p].blog].owner = viewer
      PROVE  shown \subseteq DOMAIN V!AllCommentsForAllPostsInsideBlogs(viewer).views
  <2>1. DOMAIN V!AllCommentsForAllPostsInsideBlogs(viewer).views
           = {c \in Comments : blogs[posts[comments[c].post].blog].owner = viewer}
    BY CommentAnswers DEF V!AllCommentsForAllPostsInsideBlogs
  <2> QED BY <1>7, <2>1 DEF CommentsOn
<1> QED BY <1>4, <1>5, <1>6, <1>7

LEMMA BlogsAgree ==
    ASSUME NEW viewer
    PROVE  /\ DOMAIN V!GetBlogs(viewer).views = {b \in Blogs : V!GetBlogById(b, viewer).code = "ok"}
           /\ \A b \in DOMAIN V!GetBlogs(viewer).views :
                 /\ V!GetBlogs(viewer).views[b] = V!GetBlogById(b, viewer).views[b]
                 /\ V!GetBlogById(b, viewer) = V!BloggerGetBlogById(b, viewer)
<1> PICK shown : shown = {b \in Blogs : ~blogs[b].isBanned}
  OBVIOUS
<1>1. /\ DOMAIN V!GetBlogs(viewer).views = shown
      /\ \A b \in shown : V!GetBlogs(viewer).views[b] = V!BlogView(V!SubscribersOf(b), viewer)
  BY DEF V!GetBlogs, V!Ok
<1>2. \A b : /\ blogs[b].isBanned => V!GetBlogById(b, viewer).code = "notFound"
             /\ ~blogs[b].isBanned => /\ V!GetBlogById(b, viewer) = V!BloggerGetBlogById(b, viewer)
                                      /\ V!GetBlogById(b, viewer).code = "ok"
  BY DEF V!GetBlogById, V!BloggerGetBlogById, V!NotFound, V!Ok
<1>3. \A b : V!BloggerGetBlogById(b, viewer).views[b] = V!BlogView(V!SubscribersOf(b), viewer)
  BY DEF V!BloggerGetBlogById, V!Ok
<1>4. shown = {b \in Blogs : V!GetBlogById(b, viewer).code = "ok"}
  BY <1>2
<1> QED BY <1>1, <1>2, <1>3, <1>4

LEMMA ViewsAgree == V!ListsAgreeWithDetails
<1>1. ASSUME NEW viewer \in Viewers \cup {None}
      PROVE  /\ V!GetPosts(viewer).code = "ok" =>
                   /\ DOMAIN V!GetPosts(viewer).views = {i \in Posts : V!GetPostById(i, viewer).code # "notFound"}
                   /\ \A i \in DOMAIN V!GetPosts(viewer).views : V!GetPostById(i, viewer).code = "ok" =>
                         /\ V!GetPosts(viewer).views[i].info = V!GetPostById(i, viewer).views[i].info
                         /\ V!GetPosts(viewer).views[i].newest \subseteq V!GetPostById(i, viewer).views[i].newest
             /\ V!GetPosts(viewer).code = "crash" => \E i \in Posts : V!GetPostById(i, viewer).code = "crash"
  <2>1. V!GetPosts(viewer) = V!PostViews({p \in Posts : ~posts[p].isBanned}, viewer)
    BY DEF V!GetPosts, V!ShownPosts
  <2> QED BY <2>1, PublicPosts
<1>2. ASSUME NEW viewer \in Viewers \cup {None}, NEW b \in Blogs
      PROVE  b \in DOMAIN V!BloggerGetBlogs(viewer).views <=> V!BloggerFindPostsByBlogId(b, viewer).code # "forbidden"
  <2>1. DOMAIN V!BloggerGetBlogs(viewer).views = {a \in Blogs : blogs[a].owner = viewer}
    BY DEF V!BloggerGetBlogs, V!Ok
  <2> QED BY <2>1, BloggersPosts
<1>3. V!GetAllUsersBlogs.code = "ok" => DOMAIN V!GetBlogs(None).views \subseteq V!GetAllUsersBlogs.views
  BY BlogsAgree DEF V!GetAllUsersBlogs, V!Crash, V!Ok
<1>4. ASSUME NEW viewer \in Viewers \cup {None}
      PROVE  LET post(p) == V!GetPostById(p, viewer)
                 ownPost(p) == V!BloggerGetPostById(p, viewer)
             IN /\ V!Agrees(V!GetPosts(viewer), post, Posts)
                /\ V!FailsWithAnItem(V!GetPosts(viewer), post, Posts)
                /\ \A b \in Blogs :
                      /\ V!Agrees(V!FindPostsByBlogId(b, viewer), post, V!PostsOf(b))
                      /\ V!FailsWithAnItem(V!FindPostsByBlogId(b, viewer), post, V!PostsOf(b))
                      /\ V!Agrees(V!BloggerFindPostsByBlogId(b, viewer), ownPost, V!PostsOf(b))
                      /\ V!FailsWithAnItem(V!BloggerFindPostsByBlogId(b, viewer), ownPost, V!PostsOf(b))
  BY <1>1, BlogsPosts, BloggersPosts DEF V!Agrees, V!FailsWithAnItem
<1>5. ASSUME NEW viewer \in Viewers \cup {None}, NEW p \in Posts
      PROVE  LET comment(c) == V!GetCommentViewById(c, viewer)
             IN  V!Agrees(V!FindCommentsByPostId(p, viewer), comment, {c \in Comments : comments[c].post = p})
  <2> PICK of, list : of = CommentsOn(p) /\ list = V!FindCommentsByPostId(p, viewer)
    OBVIOUS
  <2>1. /\ DOMAIN list.views = {c \in of : V!GetCommentViewById(c, viewer).code # "notFound"}
        /\ \A c \in DOMAIN list.views : V!GetCommentViewById(c, viewer).code = "ok" =>
              /\ list.views[c].info = V!GetCommentViewById(c, viewer).views[c].info
              /\ list.views[c].newest \subseteq V!GetCommentViewById(c, viewer).views[c].newest
    BY PostsComments
  <2> QED BY <2>1 DEF V!Agrees, CommentsOn
<1>6. ASSUME NEW viewer \in Viewers \cup {None}, NEW p \in Posts, viewer # None, blogs[posts[p].blog].owner = viewer
      PROVE  DOMAIN V!FindCommentsByPostId(p, viewer).views
                 \subseteq DOMAIN V!AllCommentsForAllPostsInsideBlogs(viewer).views
  BY <1>6, PostsComments
<1> QED BY <1>2, <1>3, <1>4, <1>5, <1>6, NewestCounted, OwnPost, BlogsAgree DEF V!ListsAgreeWithDetails

\* A list of posts, comments or blogs, for the public or for a blogger, shows the items that
\* have a view of their own and tells the same of each, whatever is in the tables and however
\* small the limit of newest likes (blogs-query, posts-query, comments-query and
\* blogger-query.repository.ts).
THEOREM ViewsTellTheSame == MCSpec => []ListsAgreeWithDetails
<1>1. ListsAgreeWithDetails
  BY ViewsAgree DEF ListsAgreeWithDetails
<1> QED BY <1>1, PTL

(***************************************************************************)
(* Items and their rows                                                    *)
(***************************************************************************)
ItemRows == [P!ItemId -> 1..MaxRows]
Rows(rw, X) == UNION {{i} \X (1..rw[i]) : i \in X}
Extra(rw, X) == UNION {{i} \X (2..rw[i]) : i \in X}

\* How many rows of the list S there are down to the last of item i.
EndOf(rw, S, i) == Cardinality(Rows(rw, {k \in S : k >= i}))

LEMMA InRows ==
    ASSUME NEW rw, NEW X, NEW x
    PROVE  /\ x \in Rows(rw, X) <=> \E i \in X : \E n \in 1..rw[i] : x = <<i, n>>
           /\ x \in Extra(rw, X) <=> \E i \in X : \E n \in 2..rw[i] : x = <<i, n>>
  BY DEF Rows, Extra

LEMMA FewItems ==
    ASSUME NEW X \in SUBSET P!ItemId
    PROVE  IsFiniteSet(X) /\ Cardinality(X) \in Nat
<1>1. IsFiniteSet(P!ItemId)
  BY QueriesConstants, FS_Interval DEF P!ItemId, P!PagingConstants
<1> QED BY <1>1, FS_Subset, FS_CardinalityType

LEMMA FewRows ==
    ASSUME NEW rw \in ItemRows, NEW X \in SUBSET P!ItemId
    PROVE  /\ IsFiniteSet(Rows(rw, X)) /\ Cardinality(Rows(rw, X)) \in Nat
           /\ IsFiniteSet(Extra(rw, X)) /\ Cardinality(Extra(rw, X)) \in Nat
           /\ Extra(rw, X) \subseteq Rows(rw, X)
<1> PICK all : all = P!ItemId \X (1..MaxRows)
  OBVIOUS
<1>0. IsFiniteSet(1..MaxRows) /\ MaxRows \in Nat
  BY QueriesConstants, FS_Interval DEF P!PagingConstants
<1>1. IsFiniteSet(all)
  BY <1>0, FewItems, FS_Product
<1>2. ASSUME NEW i \in X, NEW n \in 1..rw[i] PROVE <<i, n>> \in all
  <2>1. rw[i] \in 1..MaxRows
    BY DEF ItemRows
  <2> QED BY <1>0, <2>1
<1>3. Extra(rw, X) \subseteq Rows(rw, X) /\ Rows(rw, X) \subseteq all
  <2>1. ASSUME NEW x \in Rows(rw, X) PROVE x \in all
    BY <1>2, InRows
  <2>2. ASSUME NEW x \in Extra(rw, X) PROVE x \in Rows(rw, X)
    <3>1. PICK i \in X : \E n \in 2..rw[i] : x = <<i, n>>
      BY InRows
    <3>2. PICK n \in 2..rw[i] : x = <<i, n>>
      BY <3>1
    <3>3. n \in 1..rw[i]
      BY DEF ItemRows
    <3> QED BY <3>2, <3>3, InRows
  <2> QED BY <2>1, <2>2
<1> QED BY <1>1, <1>3, FS_Subset, FS_CardinalityType

\* One row of each item, and the others.
LEMMA RowsAndItems ==
    ASSUME NEW rw \in ItemRows, NEW X \in SUBSET P!ItemId
    PROVE  Cardinality(Rows(rw, X)) = Cardinality(X) + Cardinality(Extra(rw, X))
<1> PICK firsts : firsts = X \X {1}
  OBVIOUS
<1>1. IsFiniteSet(firsts) /\ Cardinality(firsts) = Cardinality(X)
  <2>1. IsFiniteSet(X) /\ Cardinality(X) \in Nat /\ IsFiniteSet({1}) /\ Cardinality({1}) = 1
    BY FewItems, FS_Singleton
  <2>2. IsFiniteSet(firsts) /\ Cardinality(firsts) = Cardinality(X) * Cardinality({1})
    BY <2>1, FS_Product
  <2> QED BY <2>1, <2>2
<1>2. firsts \cap Extra(rw, X) = {}
  <2>1. ASSUME NEW x \in Extra(rw, X) PROVE x \notin firsts
    BY InRows
  <2> QED BY <2>1
<1>3. Rows(rw, X) = firsts \cup Extra(rw, X)
  <2>1. ASSUME NEW x \in Rows(rw, X) PROVE x \in firsts \cup Extra(rw, X)
    <3>1. PICK i \in X : \E n \in 1..rw[i] : x = <<i, n>>
      BY InRows
    <3>2. PICK n \in 1..rw[i] : x = <<i, n>>
      BY <3>1
    <3>3. n = 1 \/ n \in 2..rw[i]
      BY DEF ItemRows
    <3> QED BY <3>2, <3>3, InRows
  <2>2. ASSUME NEW i \in X PROVE <<i, 1>> \in Rows(rw, X)
    <3>1. 1 \in 1..rw[i]
      BY DEF ItemRows
    <3> QED BY <3>1, InRows
  <2>3. firsts \subseteq Rows(rw, X)
    BY <2>2
  <2> QED BY <2>1, <2>3, FewRows
<1>4. Cardinality(firsts \cup Extra(rw, X)) =
         Cardinality(firsts) + Cardinality(Extra(rw, X)) - Cardinality(firsts \cap Extra(rw, X))
  BY <1>1, FewRows, FS_Union
<1> QED BY <1>1, <1>2, <1>3, <1>4, FewItems, FewRows, FS_EmptySet

\* The rows of an item are its own.
LEMMA OneMoreItem ==
    ASSUME NEW rw \in ItemRows, NEW X \in SUBSET P!ItemId, NEW i \in P!ItemId, i \notin X
    PROVE  Cardinality(Rows(rw, X \cup {i})) = Cardinality(Rows(rw, X)) + rw[i]
<1> PICK own : own = {i} \X (1..rw[i])
  OBVIOUS
<1>1. rw[i] \in Nat
  BY DEF ItemRows
<1>2. IsFiniteSet(own) /\ Cardinality(own) = rw[i]
  <2>1. IsFiniteSet(1..rw[i]) /\ Cardinality(1..rw[i]) = rw[i]
    <3>1. IsFiniteSet(1..rw[i]) /\ Cardinality(1..rw[i]) = IF 1 > rw[i] THEN 0 ELSE rw[i] - 1 + 1
      BY <1>1, FS_Interval
    <3> QED BY <1>1, <3>1
  <2>2. IsFiniteSet({i}) /\ Cardinality({i}) = 1
    BY FS_Singleton
  <2>3. IsFiniteSet(own) /\ Cardinality(own) = Cardinality({i}) * Cardinality(1..rw[i])
    BY <2>1, <2>2, FS_Product
  <2> QED BY <1>1, <2>1, <2>2, <2>3
<1>3. own \cap Rows(rw, X) = {}
  <2>1. ASSUME NEW x \in Rows(rw, X) PROVE x \notin own
    BY InRows
  <2> QED BY <2>1
<1>4. Rows(rw, X \cup {i}) = Rows(rw, X) \cup own
  BY DEF Rows
<1>5. Cardinality(Rows(rw, X) \cup own) = Cardinality(Rows(rw, X)) + Cardinality(own) - Cardinality(Rows(rw, X) \cap own)
  BY <1>2, FewRows, FS_Union
<1>6. Rows(rw, X) \cap own = {} /\ Cardinality({}) = 0
  BY <1>3, FS_EmptySet
<1>7. Cardinality(Rows(rw, X)) \in Nat
  BY FewRows
<1>8. Cardinality(Rows(rw, X) \cup own) = Cardinality(Rows(rw, X)) + rw[i]
  <2>1. Cardinality(Rows(rw, X) \cap own) = 0
    BY <1>6
  <2> QED BY <1>1, <1>2, <1>5, <1>7, <2>1
<1> QED BY <1>4, <1>8

\* Ends of different items are different.
LEMMA EndsGrow ==
    ASSUME NEW rw \in ItemRows, NEW S \in SUBSET P!ItemId, NEW i \in S, NEW j \in S, i < j
    PROVE  EndOf(rw, S, j) < EndOf(rw, S, i)
<1> PICK a, b : a = Rows(rw, {k \in S : k >= j}) /\ b = Rows(rw, {k \in S : k >= i})
  OBVIOUS
<1>1. i \in Int /\ j \in Int /\ S \subseteq Int
  BY DEF P!ItemId
<1>2. a \subseteq b
  <2>1. ASSUME NEW k \in S, k >= j PROVE k >= i
    BY <1>1, <2>1
  <2>2. {k \in S : k >= j} \subseteq {k \in S : k >= i}
    BY <2>1
  <2> QED BY <2>2 DEF Rows
<1>3. <<i, 1>> \in b /\ <<i, 1>> \notin a
  <2>1. 1 \in 1..rw[i] /\ i >= i /\ ~(i >= j)
    BY <1>1 DEF ItemRows
  <2>2. i \in {k \in S : k >= i} /\ i \notin {k \in S : k >= j}
    BY <2>1
  <2> QED BY <2>1, <2>2, InRows
<1>4. IsFiniteSet(b)
  BY FewRows
<1>5. Cardinality(a) <= Cardinality(b) /\ Cardinality(a) # Cardinality(b)
  BY <1>2, <1>3, <1>4, FS_Subset
<1>6. Cardinality(a) \in Nat /\ Cardinality(b) \in Nat
  BY <1>2, <1>4, FS_Subset, FS_CardinalityType
<1> QED BY <1>5, <1>6 DEF EndOf

LEMMA EndTypes ==
    ASSUME NEW rw \in ItemRows, NEW S \in SUBSET P!ItemId
    PROVE  \A i : EndOf(rw, S, i) \in Nat
<1>1. ASSUME NEW i PROVE EndOf(rw, S, i) \in Nat
  <2>1. {k \in S : k >= i} \in SUBSET P!ItemId
    OBVIOUS
  <2> QED BY <2>1, FewRows DEF EndOf
<1> QED BY <1>1

EndingWithin(rw, S, c, n) == {i \in S : EndOf(rw, S, i) \in (c + 1)..(c + n)}

\* So no more items end within a stretch of the list than it has rows.
LEMMA FewEndThere ==
    ASSUME NEW rw \in ItemRows, NEW S \in SUBSET P!ItemId, NEW c \in Nat, NEW n \in Nat
    PROVE  Cardinality(EndingWithin(rw, S, c, n)) <= n
<1> PICK X : X = EndingWithin(rw, S, c, n)
  OBVIOUS
<1>0. X = {i \in S : EndOf(rw, S, i) \in (c + 1)..(c + n)}
  BY DEF EndingWithin
<1> PICK ends : ends = [i \in X |-> EndOf(rw, S, i)]
  OBVIOUS
<1>1. IsFiniteSet((c + 1)..(c + n)) /\ Cardinality((c + 1)..(c + n)) = n
  <2>1. /\ IsFiniteSet((c + 1)..(c + n))
        /\ Cardinality((c + 1)..(c + n)) = IF c + 1 > c + n THEN 0 ELSE (c + n) - (c + 1) + 1
    BY FS_Interval
  <2> QED BY <2>1
<1>2. ends \in Injection(X, (c + 1)..(c + n))
  <2>1. ends \in [X -> (c + 1)..(c + n)]
    BY <1>0
  <2>2. ASSUME NEW i \in X, NEW j \in X, ends[i] = ends[j] PROVE i = j
    <3>1. i \in Int /\ j \in Int
      BY <1>0 DEF P!ItemId
    <3>2. ~(i < j) /\ ~(j < i)
      BY <1>0, <2>2, EndsGrow, EndTypes
    <3> QED BY <3>1, <3>2
  <2> QED BY <2>1, <2>2 DEF Injection, IsInjective
<1> QED BY <1>1, <1>2, FS_Injection

\* An item moves up the list by no more rows than the list loses, whatever comes.
LEMMA EndsShift ==
    ASSUME NEW rw \in ItemRows, NEW S \in SUBSET P!ItemId,
           NEW rw2 \in ItemRows, NEW S2 \in SUBSET P!ItemId,
           \A i \in P!ItemId : rw[i] <= rw2[i], NEW i
    PROVE  EndOf(rw, S, i) <= EndOf(rw2, S2, i) + Cardinality(Rows(rw, S \ S2))
<1> PICK a, b, d : /\ a = Rows(rw, {k \in S : k >= i}) /\ b = Rows(rw2, {k \in S2 : k >= i})
                   /\ d = Rows(rw, S \ S2)
  OBVIOUS
<1>1. a \subseteq b \cup d
  <2> SUFFICES ASSUME NEW x \in a PROVE x \in b \cup d
    OBVIOUS
  <2>1. PICK k \in {k \in S : k >= i} : \E n \in 1..rw[k] : x = <<k, n>>
    BY InRows
  <2>2. PICK n \in 1..rw[k] : x = <<k, n>>
    BY <2>1
  <2>3. n \in 1..rw2[k]
    BY DEF ItemRows
  <2>4. k \in S \ S2 \/ k \in {j \in S2 : j >= i}
    OBVIOUS
  <2> QED BY <2>2, <2>3, <2>4, InRows
<1>2. IsFiniteSet(a) /\ IsFiniteSet(b) /\ IsFiniteSet(d)
  <2>1. {k \in S : k >= i} \in SUBSET P!ItemId /\ {k \in S2 : k >= i} \in SUBSET P!ItemId /\ S \ S2 \in SUBSET P!ItemId
    OBVIOUS
  <2> QED BY <2>1, FewRows
<1>3. /\ Cardinality(b \cup d) = Cardinality(b) + Cardinality(d) - Cardinality(b \cap d)
      /\ IsFiniteSet(b \cup d) /\ IsFiniteSet(b \cap d)
  BY <1>2, FS_Union, FS_Intersection
<1>4. Cardinality(a) <= Cardinality(b \cup d)
  BY <1>1, <1>3, FS_Subset
<1>5. /\ Cardinality(a) \in Nat /\ Cardinality(b) \in Nat /\ Cardinality(d) \in Nat
      /\ Cardinality(b \cap d) \in Nat
  BY <1>2, <1>3, FS_CardinalityType
<1> QED BY <1>3, <1>4, <1>5 DEF EndOf

\* When a set of items has no more than c items, but for some that came late, those that
\* end beyond c rows are no more than the extra rows and the late ones: the c rows before
\* them belong to other items.
LEMMA FewBeyond ==
    ASSUME NEW rw \in ItemRows, NEW S \in SUBSET P!ItemId, NEW came \in SUBSET P!ItemId, NEW c \in Nat,
           Cardinality(S \ came) <= c,
           NEW X, X = {i \in S : EndOf(rw, S, i) > c}
    PROVE  Cardinality(X) <= Cardinality(Extra(rw, S)) + Cardinality(came)
<1>0. /\ X \in SUBSET P!ItemId /\ IsFiniteSet(X) /\ Cardinality(X) \in Nat
      /\ IsFiniteSet(S) /\ IsFiniteSet(came) /\ Cardinality(came) \in Nat
      /\ IsFiniteSet(Extra(rw, S)) /\ Cardinality(Extra(rw, S)) \in Nat
  BY FewItems, FewRows
<1>1. CASE X = {}
  BY <1>0, <1>1, FS_EmptySet
<1>2. CASE X # {}
  <2>1. PICK i \in X : \A k \in X : ~(k > i)
    <3>1. Cardinality(X) # 0
      BY <1>0, <1>2, FS_EmptySet
    <3>2. X \in SUBSET Int
      BY <1>0 DEF P!ItemId
    <3>3. Cardinality(Newest(X, 1)) = 1
      BY <1>0, <3>1, <3>2, NewestCount
    <3>4. PICK i \in Newest(X, 1) : TRUE
      BY <3>3, FS_EmptySet
    <3> PICK above : above = {k \in X : k > i}
      OBVIOUS
    <3>5. i \in X /\ Cardinality(above) < 1
      BY <3>4 DEF Newest
    <3>6. IsFiniteSet(above) /\ Cardinality(above) \in Nat
      BY <1>0, FS_Subset, FS_CardinalityType
    <3>7. above = {}
      BY <3>5, <3>6, FS_EmptySet
    <3> QED BY <3>5, <3>7
  <2> PICK upto, after : upto = {k \in S : k >= i} /\ after = {k \in S : k <= i}
    OBVIOUS
  <2>2. S \subseteq Int /\ i \in S
    BY DEF P!ItemId
  <2>3. upto \in SUBSET P!ItemId /\ after \in SUBSET P!ItemId
    OBVIOUS
  <2>4. upto \cup after = S /\ upto \cap after = {i}
    <3>1. \A k \in S : (k >= i \/ k <= i) /\ (k >= i /\ k <= i <=> k = i)
      BY <2>2
    <3> QED BY <2>2, <3>1
  <2>5. X \subseteq after
    <3>1. \A k \in X : k <= i
      BY <2>1, <2>2
    <3> QED BY <3>1
  <2>6. Cardinality(upto) + Cardinality(after) = Cardinality(S) + 1
    <3>1. Cardinality(upto \cup after) = Cardinality(upto) + Cardinality(after) - Cardinality(upto \cap after)
      BY <2>3, FewItems, FS_Union
    <3>2. Cardinality(upto \cap after) = 1
      BY <2>4, FS_Singleton
    <3>3. Cardinality(upto) \in Nat /\ Cardinality(after) \in Nat
      BY <2>3, FewItems
    <3>4. Cardinality(S) = Cardinality(upto) + Cardinality(after) - 1
      BY <2>4, <3>1, <3>2
    <3> QED BY <3>3, <3>4
  <2>7. Cardinality(upto) + Cardinality(Extra(rw, upto)) > c
    <3>1. EndOf(rw, S, i) = Cardinality(Rows(rw, upto))
      BY DEF EndOf
    <3> QED BY <2>3, <3>1, RowsAndItems
  <2>8. Cardinality(Extra(rw, upto)) <= Cardinality(Extra(rw, S)) /\ Cardinality(Extra(rw, upto)) \in Nat
    <3>1. Extra(rw, upto) \subseteq Extra(rw, S)
      BY DEF Extra
    <3> QED BY <1>0, <2>3, <3>1, FS_Subset, FewRows
  <2>9. Cardinality(S) <= Cardinality(S \ came) + Cardinality(came)
    <3>1. Cardinality(S \ came) = Cardinality(S) - Cardinality(S \cap came)
      BY <1>0, FS_Difference
    <3>2. Cardinality(S \cap came) <= Cardinality(came) /\ Cardinality(S \cap came) \in Nat
      BY <1>0, FS_Intersection, FS_CardinalityType
    <3> QED BY <1>0, <3>1, <3>2, FS_CardinalityType
  <2>10. Cardinality(X) <= Cardinality(after)
    BY <2>3, <2>5, FewItems, FS_Subset
  <2>11. /\ Cardinality(S) \in Nat /\ Cardinality(S \ came) \in Nat
         /\ Cardinality(upto) \in Nat /\ Cardinality(after) \in Nat
    BY <2>3, FewItems
  <2> QED BY <1>0, <2>6, <2>7, <2>8, <2>9, <2>10, <2>11
<1> QED BY <1>1, <1>2

(***************************************************************************)
(* A walk through the pages                                                *)
(***************************************************************************)
\* The rows a client has had the pages of: those before the page it is going to find, and
\* those of the page when it has found it.
Finding(w) == w.pc = "page" \/ (w.pc = "count" /\ w.list = "counted")
Cursor(w) == IF Finding(w) THEN (w.page - 1) * PageSize ELSE w.page * PageSize

Unseen(w, st) == st \ (w.seen \cup w.found)
PassedOver(S, rw, w, st) == {i \in Unseen(w, st) : EndOf(rw, S, i) <= Cursor(w)}

WalkTyped(w) ==
    /\ w \in [list: P!Lists, pc: {"page", "count", "answer", "done"}, page: Nat \ {0},
              found: SUBSET P!ItemId, total: Nat, seen: SUBSET P!ItemId]
    /\ Finding(w) \/ w.pc = "done" => w.found = {}

\* The list S, with rows rw, has lost lo rows since the walk w began; st is what stayed in
\* it and la what came late.
WalkOk(S, rw, w, st, lo, la) ==
    /\ S \in SUBSET P!ItemId /\ rw \in ItemRows /\ WalkTyped(w)
    /\ st \in SUBSET S /\ lo \in Nat /\ la \in SUBSET P!ItemId
    /\ Cardinality(PassedOver(S, rw, w, st)) <= lo
    /\ w.pc = "page" /\ w.list = "counted" => Cardinality(S \ la) <= w.total
    /\ (w.pc = "answer" /\ w.total <= Cursor(w)) \/ w.pc = "done" =>
          Cardinality(Unseen(w, st)) <= lo + Cardinality(Extra(rw, S)) + Cardinality(la)

LEMMA Products ==
    ASSUME NEW p \in Nat \ {0}
    PROVE  /\ p * PageSize \in Nat /\ (p - 1) * PageSize \in Nat
           /\ ((p + 1) - 1) * PageSize = p * PageSize
           /\ (p - 1) * PageSize + PageSize = p * PageSize
<1>1. PageSize \in Nat
  BY QueriesConstants DEF P!PagingConstants
<1>2. p - 1 \in Nat /\ (p + 1) - 1 = p
  OBVIOUS
<1>3. p * PageSize \in Nat /\ (p - 1) * PageSize \in Nat
  BY <1>1, <1>2
<1>4. (p - 1) * PageSize + PageSize = p * PageSize
  BY <1>1
<1> QED BY <1>2, <1>3, <1>4

LEMMA CursorType ==
    ASSUME NEW w, WalkTyped(w)
    PROVE  Cursor(w) \in Nat
  BY Products DEF Cursor, WalkTyped

\* What is passed over, and what ends beyond the cursor.
LEMMA UnseenWhole ==
    ASSUME NEW S \in SUBSET P!ItemId, NEW rw \in ItemRows, NEW w, WalkTyped(w), NEW st \in SUBSET S,
           NEW lo \in Nat, NEW la \in SUBSET P!ItemId,
           Cardinality(PassedOver(S, rw, w, st)) <= lo, Cardinality(S \ la) <= Cursor(w)
    PROVE  Cardinality(Unseen(w, st)) <= lo + Cardinality(Extra(rw, S)) + Cardinality(la)
<1> PICK c : c = Cursor(w)
  OBVIOUS
<1> PICK u, a, x : /\ u = Unseen(w, st) /\ a = PassedOver(S, rw, w, st)
                   /\ x = {i \in S : EndOf(rw, S, i) > c}
  OBVIOUS
<1>0. Cardinality(a) <= lo /\ c \in Nat /\ Cardinality(S \ la) <= c
  BY CursorType
<1>1. u \subseteq a \cup x
  <2>1. ASSUME NEW i \in u PROVE EndOf(rw, S, i) <= c \/ EndOf(rw, S, i) > c
    BY <1>0, EndTypes
  <2> QED BY <1>0, <2>1 DEF PassedOver, Unseen
<1>2. Cardinality(x) <= Cardinality(Extra(rw, S)) + Cardinality(la)
  BY <1>0, FewBeyond
<1>3. a \in SUBSET P!ItemId /\ x \in SUBSET P!ItemId /\ u \in SUBSET P!ItemId
  BY <1>0 DEF PassedOver, Unseen
<1>4. /\ Cardinality(a \cup x) = Cardinality(a) + Cardinality(x) - Cardinality(a \cap x)
      /\ IsFiniteSet(a \cup x) /\ Cardinality(a \cap x) \in Nat
  BY <1>3, FewItems, FS_Union, FS_Intersection, FS_CardinalityType
<1>5. Cardinality(u) <= Cardinality(a \cup x)
  BY <1>1, <1>4, FS_Subset
<1>6. /\ Cardinality(u) \in Nat /\ Cardinality(a) \in Nat /\ Cardinality(x) \in Nat
      /\ Cardinality(Extra(rw, S)) \in Nat /\ Cardinality(la) \in Nat
  BY <1>0, <1>3, FewItems, FewRows
<1> QED BY <1>0, <1>2, <1>4, <1>5, <1>6

\* The walk goes on while others write: items come and go, and get more rows.
LEMMA ListChanges ==
    ASSUME NEW S, NEW rw, NEW w, NEW st, NEW lo, NEW la, WalkOk(S, rw, w, st, lo, la),
           NEW S2 \in SUBSET P!ItemId, NEW rw2 \in ItemRows, \A i \in P!ItemId : rw[i] <= rw2[i],
           NEW st2, st2 = st \cap S2,
           NEW lo2, lo2 = lo + Cardinality(Rows(rw, S \ S2)),
           NEW la2 \in SUBSET P!ItemId, la \subseteq la2,
           w.pc = "page" /\ w.list = "counted" => S2 \ S \subseteq la2
    PROVE  WalkOk(S2, rw2, w, st2, lo2, la2)
<1> PICK c, gone, x : c = Cursor(w) /\ gone = S \ S2 /\ x = Cardinality(Rows(rw, gone))
  OBVIOUS
<1>0. /\ S \in SUBSET P!ItemId /\ rw \in ItemRows /\ WalkTyped(w) /\ st \in SUBSET S /\ lo \in Nat
      /\ la \in SUBSET P!ItemId /\ c \in Nat /\ x \in Nat /\ lo2 = lo + x
      /\ Cardinality(PassedOver(S, rw, w, st)) <= lo
  <2>1. S \in SUBSET P!ItemId /\ rw \in ItemRows /\ WalkTyped(w)
    BY DEF WalkOk
  <2>2. gone \in SUBSET P!ItemId
    BY <2>1
  <2> QED BY <2>1, <2>2, CursorType, FewRows DEF WalkOk
<1>1. Cardinality(PassedOver(S2, rw2, w, st2)) <= lo2
  <2> PICK a, b, moved : /\ a = PassedOver(S, rw, w, st) /\ b = PassedOver(S2, rw2, w, st2)
                         /\ moved = EndingWithin(rw, S, c, x)
    OBVIOUS
  <2>1. a \in SUBSET P!ItemId /\ b \in SUBSET P!ItemId /\ moved \in SUBSET P!ItemId
    BY <1>0 DEF PassedOver, Unseen, EndingWithin
  <2>2. Cardinality(moved) <= x
    BY <1>0, FewEndThere
  <2>3. b \subseteq a \cup moved
    <3> SUFFICES ASSUME NEW i \in b, i \notin a PROVE i \in moved
      OBVIOUS
    <3>1. i \in Unseen(w, st) /\ i \in S /\ EndOf(rw2, S2, i) <= c
      BY <1>0 DEF PassedOver, Unseen
    <3>2. EndOf(rw, S, i) <= EndOf(rw2, S2, i) + x
      BY <1>0, EndsShift
    <3>3. ~(EndOf(rw, S, i) <= c)
      BY <3>1 DEF PassedOver
    <3>4. EndOf(rw, S, i) \in Nat /\ EndOf(rw2, S2, i) \in Nat
      BY <1>0, EndTypes
    <3>5. EndOf(rw, S, i) \in (c + 1)..(c + x)
      BY <1>0, <3>1, <3>2, <3>3, <3>4
    <3> QED BY <3>1, <3>5 DEF EndingWithin
  <2>4. /\ Cardinality(a \cup moved) = Cardinality(a) + Cardinality(moved) - Cardinality(a \cap moved)
        /\ IsFiniteSet(a \cup moved) /\ Cardinality(a \cap moved) \in Nat
    BY <2>1, FewItems, FS_Union, FS_Intersection, FS_CardinalityType
  <2>5. Cardinality(b) <= Cardinality(a \cup moved)
    BY <2>3, <2>4, FS_Subset
  <2>6. Cardinality(a) \in Nat /\ Cardinality(b) \in Nat /\ Cardinality(moved) \in Nat
    BY <2>1, FewItems
  <2> QED BY <1>0, <2>2, <2>4, <2>5, <2>6
<1>2. lo + Cardinality(Extra(rw, S)) <= lo2 + Cardinality(Extra(rw2, S2))
  <2> PICK e, f, d : e = Extra(rw, S) /\ f = Extra(rw2, S2) /\ d = Rows(rw, gone)
    OBVIOUS
  <2>1. e \subseteq f \cup d
    <3> SUFFICES ASSUME NEW r \in e PROVE r \in f \cup d
      OBVIOUS
    <3>1. PICK k \in S : \E n \in 2..rw[k] : r = <<k, n>>
      BY InRows
    <3>2. PICK n \in 2..rw[k] : r = <<k, n>>
      BY <3>1
    <3>3. n \in 2..rw2[k] /\ n \in 1..rw[k]
      BY <1>0 DEF ItemRows
    <3>4. k \in gone \/ k \in S2
      OBVIOUS
    <3> QED BY <3>2, <3>3, <3>4, InRows
  <2>2. IsFiniteSet(e) /\ IsFiniteSet(f) /\ IsFiniteSet(d)
    BY <1>0, FewRows
  <2>3. /\ Cardinality(f \cup d) = Cardinality(f) + Cardinality(d) - Cardinality(f \cap d)
        /\ IsFiniteSet(f \cup d) /\ IsFiniteSet(f \cap d)
    BY <2>2, FS_Union, FS_Intersection
  <2>4. Cardinality(e) <= Cardinality(f \cup d)
    BY <2>1, <2>3, FS_Subset
  <2>5. /\ Cardinality(e) \in Nat /\ Cardinality(f) \in Nat /\ Cardinality(d) \in Nat
        /\ Cardinality(f \cap d) \in Nat
    BY <2>2, <2>3, FS_CardinalityType
  <2> QED BY <1>0, <2>3, <2>4, <2>5
<1>3. Cardinality(Unseen(w, st2)) <= Cardinality(Unseen(w, st)) /\ Cardinality(la) <= Cardinality(la2)
  <2>1. Unseen(w, st2) \subseteq Unseen(w, st) /\ Unseen(w, st) \in SUBSET P!ItemId
    BY <1>0 DEF Unseen
  <2> QED BY <1>0, <2>1, FewItems, FS_Subset
<1>4. w.pc = "page" /\ w.list = "counted" => Cardinality(S2 \ la2) <= w.total
  <2> HAVE w.pc = "page" /\ w.list = "counted"
  <2>1. S2 \ la2 \subseteq S \ la /\ S \ la \in SUBSET P!ItemId
    BY <1>0
  <2>2. Cardinality(S2 \ la2) <= Cardinality(S \ la) /\ Cardinality(S2 \ la2) \in Nat /\ Cardinality(S \ la) \in Nat
    BY <2>1, FewItems, FS_Subset
  <2>3. Cardinality(S \ la) <= w.total /\ w.total \in Nat
    BY DEF WalkOk, WalkTyped
  <2> QED BY <2>2, <2>3
<1>5. (w.pc = "answer" /\ w.total <= Cursor(w)) \/ w.pc = "done" =>
          Cardinality(Unseen(w, st2)) <= lo2 + Cardinality(Extra(rw2, S2)) + Cardinality(la2)
  <2> HAVE (w.pc = "answer" /\ w.total <= Cursor(w)) \/ w.pc = "done"
  <2>1. Cardinality(Unseen(w, st)) <= lo + Cardinality(Extra(rw, S)) + Cardinality(la)
    BY DEF WalkOk
  <2>2. /\ Cardinality(Unseen(w, st)) \in Nat /\ Cardinality(Unseen(w, st2)) \in Nat
        /\ Cardinality(la) \in Nat /\ Cardinality(la2) \in Nat
        /\ Cardinality(Extra(rw, S)) \in Nat /\ Cardinality(Extra(rw2, S2)) \in Nat
    <3>1. Unseen(w, st2) \in SUBSET P!ItemId /\ Unseen(w, st) \in SUBSET P!ItemId
      BY <1>0 DEF Unseen
    <3> QED BY <1>0, <3>1, FewItems, FewRows
  <2> QED BY <1>0, <1>2, <1>3, <2>1, <2>2
<1> QED BY <1>0, <1>1, <1>4, <1>5 DEF WalkOk

\* The client finds a page: the items with a row in it.
PageRows(S, rw, p) ==
    {i \in S : /\ EndOf(rw, S, i) > (p - 1) * PageSize
               /\ EndOf(rw, S, i) - rw[i] < (p - 1) * PageSize + PageSize}

LEMMA PageFound ==
    ASSUME NEW S, NEW rw, NEW w, NEW st, NEW lo, NEW la, WalkOk(S, rw, w, st, lo, la),
           w.pc = "page", NEW w2,
           w2 = [w EXCEPT !.pc = IF w.list = "counted" THEN "answer" ELSE "count",
                          !.found = PageRows(S, rw, w.page)]
    PROVE  WalkOk(S, rw, w2, st, lo, la)
<1> PICK p, c, d : p = w.page /\ c = (p - 1) * PageSize /\ d = p * PageSize
  OBVIOUS
<1>0. /\ S \in SUBSET P!ItemId /\ rw \in ItemRows /\ WalkTyped(w) /\ st \in SUBSET S /\ lo \in Nat
      /\ la \in SUBSET P!ItemId /\ p \in Nat \ {0} /\ w.found = {} /\ w.list \in P!Lists /\ w.total \in Nat
      /\ Cardinality(PassedOver(S, rw, w, st)) <= lo
  BY DEF WalkOk, WalkTyped, Finding
<1>1. /\ w2.list = w.list /\ w2.page = p /\ w2.total = w.total /\ w2.seen = w.seen
      /\ w2.found = PageRows(S, rw, p)
      /\ w2.pc = IF w.list = "counted" THEN "answer" ELSE "count"
  BY <1>0 DEF WalkTyped
<1>2. WalkTyped(w2)
  <2>1. w2.found \in SUBSET P!ItemId
    BY <1>0, <1>1 DEF PageRows
  <2>2. ~Finding(w2) /\ w2.pc # "done"
    BY <1>1 DEF Finding
  <2> QED BY <1>0, <1>1, <2>1, <2>2 DEF WalkTyped
<1>3. c \in Nat /\ d \in Nat /\ c + PageSize = d /\ Cursor(w) = c /\ Cursor(w2) = d
  <2>1. Finding(w) /\ ~Finding(w2)
    BY <1>1 DEF Finding
  <2> QED BY <1>0, <1>1, <2>1, Products DEF Cursor
<1>4. PassedOver(S, rw, w2, st) \subseteq PassedOver(S, rw, w, st)
  <2> SUFFICES ASSUME NEW i \in PassedOver(S, rw, w2, st) PROVE i \in PassedOver(S, rw, w, st)
    OBVIOUS
  <2>1. i \in Unseen(w, st) /\ i \in S /\ i \notin PageRows(S, rw, p) /\ EndOf(rw, S, i) <= d
    BY <1>0, <1>1, <1>3 DEF PassedOver, Unseen
  <2>2. EndOf(rw, S, i) \in Nat /\ rw[i] \in Nat \ {0}
    BY <1>0, <2>1, EndTypes DEF ItemRows
  <2>3. EndOf(rw, S, i) <= c
    BY <1>3, <2>1, <2>2 DEF PageRows
  <2> QED BY <1>3, <2>1, <2>3 DEF PassedOver
<1>5. Cardinality(PassedOver(S, rw, w2, st)) <= lo
  <2>1. PassedOver(S, rw, w, st) \in SUBSET P!ItemId
    BY <1>0 DEF PassedOver, Unseen
  <2>2. /\ Cardinality(PassedOver(S, rw, w2, st)) <= Cardinality(PassedOver(S, rw, w, st))
        /\ Cardinality(PassedOver(S, rw, w2, st)) \in Nat /\ Cardinality(PassedOver(S, rw, w, st)) \in Nat
    BY <1>4, <2>1, FewItems, FS_Subset
  <2> QED BY <1>0, <2>2
<1>6. /\ w2.pc # "page" /\ w2.pc # "done"
      /\ w2.pc = "answer" => Cardinality(S \ la) <= w2.total
  BY <1>1 DEF WalkOk
<1>7. w2.pc = "answer" /\ w2.total <= Cursor(w2) => Cardinality(S \ la) <= Cursor(w2)
  <2>1. Cardinality(S \ la) \in Nat
    BY <1>0, FewItems
  <2> QED BY <1>0, <1>1, <1>3, <1>6, <2>1
<1>8. Cardinality(S \ la) <= Cursor(w2) =>
         Cardinality(Unseen(w2, st)) <= lo + Cardinality(Extra(rw, S)) + Cardinality(la)
  BY <1>0, <1>2, <1>5, UnseenWhole
<1> QED BY <1>0, <1>2, <1>5, <1>6, <1>7, <1>8 DEF WalkOk

LEMMA ItemsCounted ==
    ASSUME NEW S, NEW rw, NEW w, NEW st, NEW lo, NEW la, WalkOk(S, rw, w, st, lo, la),
           w.pc = "count", NEW w2,
           w2 = [w EXCEPT !.pc = IF w.list = "counted" THEN "page" ELSE "answer",
                          !.total = Cardinality(S)]
    PROVE  WalkOk(S, rw, w2, st, lo, {})
<1> PICK n : n = Cardinality(S)
  OBVIOUS
<1>0. /\ S \in SUBSET P!ItemId /\ rw \in ItemRows /\ WalkTyped(w) /\ st \in SUBSET S /\ lo \in Nat
      /\ w.list \in P!Lists /\ n \in Nat /\ {} \in SUBSET P!ItemId
      /\ Cardinality(PassedOver(S, rw, w, st)) <= lo
  <2>1. S \in SUBSET P!ItemId
    BY DEF WalkOk
  <2> QED BY <2>1, FewItems DEF WalkOk, WalkTyped
<1>1. /\ w2.list = w.list /\ w2.page = w.page /\ w2.total = n /\ w2.seen = w.seen /\ w2.found = w.found
      /\ w2.pc = IF w.list = "counted" THEN "page" ELSE "answer"
  BY <1>0 DEF WalkTyped
<1>2. Finding(w2) <=> Finding(w)
  BY <1>1 DEF Finding
<1>3. WalkTyped(w2)
  BY <1>0, <1>1, <1>2 DEF WalkTyped
<1>4. Cursor(w2) = Cursor(w) /\ Unseen(w2, st) = Unseen(w, st)
  BY <1>1, <1>2 DEF Cursor, Unseen
<1>5. PassedOver(S, rw, w2, st) = PassedOver(S, rw, w, st)
  BY <1>4 DEF PassedOver
<1>6. S \ {} = S
  OBVIOUS
<1>7. n <= Cursor(w2) => Cardinality(Unseen(w2, st)) <= lo + Cardinality(Extra(rw, S)) + Cardinality({})
  BY <1>0, <1>3, <1>5, <1>6, UnseenWhole
<1>8. n <= n
  BY <1>0
<1> QED BY <1>0, <1>1, <1>3, <1>5, <1>6, <1>7, <1>8 DEF WalkOk

LEMMA LastPage ==
    ASSUME NEW n \in Nat, NEW p \in Nat, ~(p < P!PagesCount(n))
    PROVE  n <= p * PageSize
<1> PICK s, q : s = PageSize /\ q = (n + s - 1) \div s
  OBVIOUS
<1>1. s \in Nat \ {0} /\ n + s - 1 \in Nat
  BY QueriesConstants DEF P!PagingConstants
<1>2. q \in Nat /\ n + s - 1 < (q + 1) * s
  BY <1>1
<1>3. q <= p
  BY <1>2 DEF P!PagesCount
<1>4. q * s <= p * s
  BY <1>1, <1>2, <1>3
<1>5. (q + 1) * s = q * s + s /\ q * s \in Int /\ p * s \in Int
  BY <1>1, <1>2
<1> QED BY <1>1, <1>2, <1>4, <1>5

LEMMA ClientAnswered ==
    ASSUME NEW S, NEW rw, NEW w, NEW st, NEW lo, NEW la, WalkOk(S, rw, w, st, lo, la),
           w.pc = "answer", NEW views \in SUBSET w.found, st \cap w.found \subseteq views,
           NEW w2,
           w2 = [w EXCEPT !.pc = IF w.page < P!PagesCount(w.total) THEN P!FirstStep(w.list) ELSE "done",
                          !.page = IF w.page < P!PagesCount(w.total) THEN @ + 1 ELSE @,
                          !.found = {}, !.total = 0, !.seen = @ \cup views]
    PROVE  WalkOk(S, rw, w2, st, lo, la)
<1> DEFINE more == w.page < P!PagesCount(w.total)
<1>0. /\ S \in SUBSET P!ItemId /\ rw \in ItemRows /\ WalkTyped(w) /\ st \in SUBSET S /\ lo \in Nat
      /\ la \in SUBSET P!ItemId /\ w.list \in P!Lists /\ w.total \in Nat /\ w.page \in Nat \ {0}
      /\ w.found \in SUBSET P!ItemId /\ w.seen \in SUBSET P!ItemId
      /\ Cardinality(PassedOver(S, rw, w, st)) <= lo
  BY DEF WalkOk, WalkTyped
<1>1. /\ w2.list = w.list /\ w2.page = (IF more THEN w.page + 1 ELSE w.page) /\ w2.total = 0
      /\ w2.seen = w.seen \cup views /\ w2.found = {}
      /\ w2.pc = IF more THEN P!FirstStep(w.list) ELSE "done"
  BY <1>0 DEF WalkTyped
<1>2. more => Finding(w2)
  BY <1>1 DEF Finding, P!FirstStep
<1>3. ~more => w2.pc = "done" /\ ~Finding(w2)
  BY <1>1 DEF Finding
<1>4. WalkTyped(w2)
  <2>1. w2.pc \in {"page", "count", "answer", "done"}
    BY <1>1 DEF P!FirstStep
  <2>2. w2.page \in Nat \ {0} /\ w2.seen \in SUBSET P!ItemId
    BY <1>0, <1>1
  <2> QED BY <1>0, <1>1, <2>1, <2>2 DEF WalkTyped
<1>5. Cursor(w) = w.page * PageSize /\ Cursor(w2) = Cursor(w)
  <2>1. ~Finding(w)
    BY DEF Finding
  <2> QED BY <1>0, <1>1, <1>2, <1>3, <2>1, Products DEF Cursor
<1>6. Unseen(w2, st) = Unseen(w, st)
  BY <1>1 DEF Unseen
<1>7. PassedOver(S, rw, w2, st) = PassedOver(S, rw, w, st)
  BY <1>5, <1>6 DEF PassedOver
<1>8. ~(w2.pc = "page" /\ w2.list = "counted") /\ w2.pc # "answer"
  BY <1>1 DEF P!FirstStep
<1>9. w2.pc = "done" => w.total <= Cursor(w)
  <2>1. w2.pc = "done" => ~more
    BY <1>1 DEF P!FirstStep
  <2> QED BY <1>0, <1>5, <2>1, LastPage
<1>10. w.total <= Cursor(w) => Cardinality(Unseen(w, st)) <= lo + Cardinality(Extra(rw, S)) + Cardinality(la)
  BY DEF WalkOk
<1> QED BY <1>0, <1>4, <1>6, <1>7, <1>8, <1>9, <1>10 DEF WalkOk

(***************************************************************************)
(* The steps of MCQueries                                                  *)
(***************************************************************************)
LEMMA PagesCountAlike == \A S : P!Cardinality(S) = Cardinality(S)
  BY DEF P!Cardinality, Cardinality

LEMMA RowsCounted ==
    ASSUME NEW X
    PROVE  P!RowsOf(X) = Cardinality(Rows(rows, X))
<1>1. P!JoinedRows(X) = Rows(rows, X)
  BY DEF P!JoinedRows, Rows
<1> QED BY <1>1, PagesCountAlike DEF P!RowsOf

LEMMA InPageRows ==
    ASSUME rows \in ItemRows, NEW p \in Nat \ {0}
    PROVE  P!InPage(p) = PageRows(P!Shown, rows, p)
<1> PICK S, c : S = P!Shown /\ c = (p - 1) * PageSize
  OBVIOUS
<1>0. S \in SUBSET P!ItemId /\ c \in Nat /\ PageSize \in Nat
  BY Products, QueriesConstants DEF P!Shown, P!PagingConstants
<1>1. ASSUME NEW i \in S
      PROVE  P!RowsOf({k \in S : k > i}) + rows[i] = EndOf(rows, S, i) /\ P!RowsOf({k \in S : k > i}) \in Nat
  <2> PICK above : above = {k \in S : k > i}
    OBVIOUS
  <2>1. above \in SUBSET P!ItemId /\ i \in P!ItemId /\ i \notin above
    <3>1. i \in P!ItemId /\ above \subseteq P!ItemId
      BY <1>0
    <3>2. ~(i > i)
      BY <3>1 DEF P!ItemId
    <3> QED BY <3>1, <3>2
  <2>2. {k \in S : k >= i} = above \cup {i}
    <3>1. \A k \in S : k >= i <=> k > i \/ k = i
      BY <1>0 DEF P!ItemId
    <3> QED BY <3>1
  <2>3. Cardinality(Rows(rows, above \cup {i})) = Cardinality(Rows(rows, above)) + rows[i]
    BY <2>1, OneMoreItem
  <2> QED BY <2>1, <2>2, <2>3, RowsCounted, FewRows DEF EndOf
<1>2. P!InPage(p) = {i \in S : /\ P!RowsOf({k \in S : k > i}) < c + PageSize
                               /\ P!RowsOf({k \in S : k > i}) + rows[i] > c}
  BY DEF P!InPage, P!Skip
<1>3. ASSUME NEW i \in S
      PROVE  (P!RowsOf({k \in S : k > i}) < c + PageSize /\ P!RowsOf({k \in S : k > i}) + rows[i] > c)
                 <=> (EndOf(rows, S, i) > c /\ EndOf(rows, S, i) - rows[i] < c + PageSize)
  <2> PICK before : before = P!RowsOf({k \in S : k > i})
    OBVIOUS
  <2>1. before \in Nat /\ before + rows[i] = EndOf(rows, S, i)
    BY <1>1
  <2>2. rows[i] \in Nat
    BY <1>0 DEF ItemRows
  <2> QED BY <1>0, <2>1, <2>2
<1> QED BY <1>2, <1>3 DEF PageRows

PagesInv == part = "pages" => WalkOk(P!Shown, rows, walk, stayed, lost, late)

LEMMA WalkBegins == ASSUME MCInit PROVE PagesInv
<1> SUFFICES ASSUME part = "pages" PROVE WalkOk(P!Shown, rows, walk, stayed, lost, late)
  BY DEF PagesInv
<1>1. P!Init /\ stayed = P!Shown /\ lost = 0 /\ late = {}
  BY DEF MCInit
<1> PICK list \in P!Lists :
      /\ rows \in [P!ItemId -> 1..(IF list = "joined" THEN MaxRows ELSE 1)]
      /\ walk = [list |-> list, pc |-> P!FirstStep(list), page |-> 1, found |-> {}, total |-> 0, seen |-> {}]
  BY <1>1 DEF P!Init
<1> PICK S, st, lo, la : S = P!Shown /\ st = stayed /\ lo = lost /\ la = late
  OBVIOUS
<1>2. S \in SUBSET P!ItemId /\ st \in SUBSET S /\ lo = 0 /\ la \in SUBSET P!ItemId
  BY <1>1 DEF P!Shown
<1>3. rows \in ItemRows
  <2>1. MaxRows \in Nat \ {0}
    BY QueriesConstants DEF P!PagingConstants
  <2>2. 1..(IF list = "joined" THEN MaxRows ELSE 1) \subseteq 1..MaxRows
    BY <2>1
  <2> QED BY <2>2 DEF ItemRows
<1>4. /\ walk.list = list /\ walk.pc = P!FirstStep(list) /\ walk.page = 1 /\ walk.found = {}
      /\ walk.total = 0 /\ walk.seen = {}
  OBVIOUS
<1>5. Finding(walk) /\ walk.pc \notin {"answer", "done"} /\ ~(walk.pc = "page" /\ walk.list = "counted")
  BY <1>4 DEF Finding, P!FirstStep
<1>6. WalkTyped(walk)
  <2>1. walk.pc \in {"page", "count", "answer", "done"}
    BY <1>4 DEF P!FirstStep
  <2> QED BY <1>4, <2>1 DEF WalkTyped
<1>7. PassedOver(S, rows, walk, st) = {}
  <2> SUFFICES ASSUME NEW i \in PassedOver(S, rows, walk, st) PROVE FALSE
    OBVIOUS
  <2>1. i \in S /\ EndOf(rows, S, i) <= Cursor(walk)
    BY <1>2 DEF PassedOver, Unseen
  <2>2. Cursor(walk) = 0
    <3>1. (1 - 1) * PageSize = 0
      BY QueriesConstants DEF P!PagingConstants
    <3> QED BY <1>4, <1>5, <3>1 DEF Cursor
  <2> PICK r : r = Rows(rows, {k \in S : k >= i})
    OBVIOUS
  <2>3. <<i, 1>> \in r
    <3>1. i \in {k \in S : k >= i} /\ 1 \in 1..rows[i]
      BY <1>2, <1>3, <2>1 DEF P!ItemId, ItemRows
    <3> QED BY <3>1, InRows
  <2>4. {k \in S : k >= i} \in SUBSET P!ItemId
    BY <1>2
  <2>5. IsFiniteSet(r) /\ Cardinality(r) \in Nat
    BY <1>3, <2>4, FewRows
  <2>6. Cardinality(r) # 0
    BY <2>3, <2>5, FS_EmptySet
  <2> QED BY <2>1, <2>2, <2>5, <2>6 DEF EndOf
<1>8. Cardinality(PassedOver(S, rows, walk, st)) <= lo
  <2>1. Cardinality({}) = 0
    BY FS_EmptySet
  <2> QED BY <1>2, <1>7, <2>1
<1> QED BY <1>2, <1>3, <1>5, <1>6, <1>8 DEF WalkOk

\* The table changes and the client waits.
LEMMA TableChanges ==
    ASSUME PagesInv, PagesStep, P!Change, walk' = walk, rows' \in ItemRows,
           \A i \in P!ItemId : rows[i] <= rows'[i]
    PROVE  PagesInv'
<1> PICK S, S2 : S = P!Shown /\ S2 = P!Shown'
  OBVIOUS
<1>1. part = "pages" /\ part' = part
  BY DEF PagesStep
<1>2. S2 \in SUBSET P!ItemId
  BY DEF P!Shown
<1>3. stayed' = stayed \cap S2
  BY DEF PagesStep
<1>4. lost' = lost + Cardinality(Rows(rows, S \ S2))
  <2>1. {i \in S : items'[i] # "shown"} = S \ S2
    BY DEF P!Shown
  <2>2. lost' = lost + P!RowsOf({i \in S : items'[i] # "shown"})
    BY DEF PagesStep
  <2> QED BY <2>1, <2>2, RowsCounted
<1>5. WalkOk(S, rows, walk, stayed, lost, late)
  BY <1>1 DEF PagesInv
<1>6. /\ late \subseteq late' /\ late' \in SUBSET P!ItemId
      /\ walk.pc = "page" /\ walk.list = "counted" => S2 \ S \subseteq late'
  <2>1. late' = IF walk.pc = "count" /\ walk'.pc # "count" THEN {}
                ELSE IF walk.list = "counted" /\ walk.pc = "page" THEN late \cup (S2 \ S)
                ELSE late
    BY DEF PagesStep
  <2>2. late \in SUBSET P!ItemId
    BY <1>5 DEF WalkOk
  <2> QED BY <1>2, <2>1, <2>2
<1>7. WalkOk(S2, rows', walk, stayed', lost', late')
  BY <1>2, <1>3, <1>4, <1>5, <1>6, ListChanges
<1> QED BY <1>1, <1>7 DEF PagesInv

\* The client's steps leave the table as it is.
LEMMA TableStays ==
    ASSUME PagesInv, PagesStep, UNCHANGED <<items, rows>>
    PROVE  /\ part = "pages" /\ part' = part /\ P!Shown' = P!Shown
           /\ stayed' = stayed /\ lost' = lost
           /\ late' = IF walk.pc = "count" /\ walk'.pc # "count" THEN {} ELSE late
           /\ WalkOk(P!Shown, rows, walk, stayed, lost, late)
<1>1. part = "pages" /\ part' = part /\ P!Shown' = P!Shown
  BY DEF PagesStep, P!Shown
<1>2. WalkOk(P!Shown, rows, walk, stayed, lost, late)
  BY <1>1 DEF PagesInv
<1>3. stayed' = stayed
  BY <1>1, <1>2 DEF PagesStep, WalkOk
<1>4. lost' = lost
  <2> PICK gone : gone = {i \in P!Shown : items'[i] # "shown"}
    OBVIOUS
  <2>1. gone = {}
    BY DEF P!Shown
  <2>2. Rows(rows, {}) = {}
    BY InRows
  <2>3. lost' = lost + P!RowsOf(gone)
    BY DEF PagesStep
  <2>4. P!RowsOf(gone) = 0
    BY <2>1, <2>2, RowsCounted, FS_EmptySet
  <2> QED BY <1>2, <2>3, <2>4 DEF WalkOk
<1>5. late' = IF walk.pc = "count" /\ walk'.pc # "count" THEN {} ELSE late
  <2>1. late' = IF walk.pc = "count" /\ walk'.pc # "count" THEN {}
                ELSE IF walk.list = "counted" /\ walk.pc = "page" THEN late \cup (P!Shown' \ P!Shown)
                ELSE late
    BY DEF PagesStep
  <2> QED BY <1>1, <2>1
<1> QED BY <1>1, <1>2, <1>3, <1>4, <1>5

LEMMA WalkGoesOn ==
    ASSUME PagesInv, PagesStep
    PROVE  PagesInv'
<1>0. WalkOk(P!Shown, rows, walk, stayed, lost, late) /\ rows \in ItemRows /\ WalkTyped(walk)
  BY DEF PagesInv, PagesStep, WalkOk
<1>1. CASE P!FindPage
  <2>1. walk.pc = "page" /\ UNCHANGED <<items, rows>>
    BY <1>1 DEF P!FindPage
  <2>2. P!InPage(walk.page) = PageRows(P!Shown, rows, walk.page)
    BY <1>0, InPageRows DEF WalkTyped
  <2> PICK w : w = walk'
    OBVIOUS
  <2>3. w = [walk EXCEPT !.pc = IF walk.list = "counted" THEN "answer" ELSE "count",
                         !.found = PageRows(P!Shown, rows, walk.page)]
    BY <1>1, <2>2 DEF P!FindPage
  <2>4. WalkOk(P!Shown, rows, w, stayed, lost, late)
    BY <1>0, <2>1, <2>3, PageFound
  <2>5. late' = late
    BY <2>1, TableStays
  <2> QED BY <2>1, <2>4, <2>5, TableStays DEF PagesInv
<1>2. CASE P!Count
  <2>1. walk.pc = "count" /\ UNCHANGED <<items, rows>>
    BY <1>2 DEF P!Count
  <2> PICK w : w = walk'
    OBVIOUS
  <2>2. w = [walk EXCEPT !.pc = IF walk.list = "counted" THEN "page" ELSE "answer",
                         !.total = Cardinality(P!Shown)]
    BY <1>2, PagesCountAlike DEF P!Count
  <2>3. WalkOk(P!Shown, rows, w, stayed, lost, {})
    BY <1>0, <2>1, <2>2, ItemsCounted
  <2>4. w.pc # "count"
    BY <1>0, <2>2 DEF WalkTyped
  <2>5. late' = {}
    BY <2>1, <2>4, TableStays
  <2> QED BY <2>1, <2>3, <2>5, TableStays DEF PagesInv
<1>3. CASE P!Answer
  <2>1. walk.pc = "answer" /\ UNCHANGED <<items, rows>>
    BY <1>3 DEF P!Answer
  <2> PICK w, views : w = walk' /\ views = P!Views
    OBVIOUS
  <2>2. views \in SUBSET walk.found /\ stayed \cap walk.found \subseteq views
    <3>1. \A i \in stayed : items[i] # "deleted"
      BY <1>0 DEF WalkOk, P!Shown
    <3> QED BY <3>1 DEF P!Views
  <2>3. w = [walk EXCEPT !.pc = IF walk.page < P!PagesCount(walk.total) THEN P!FirstStep(walk.list) ELSE "done",
                         !.page = IF walk.page < P!PagesCount(walk.total) THEN @ + 1 ELSE @,
                         !.found = {}, !.total = 0, !.seen = @ \cup views]
    BY <1>3 DEF P!Answer
  <2>4. WalkOk(P!Shown, rows, w, stayed, lost, late)
    BY <1>0, <2>1, <2>2, <2>3, ClientAnswered
  <2>5. late' = late
    BY <2>1, TableStays
  <2> QED BY <2>1, <2>4, <2>5, TableStays DEF PagesInv
<1>4. ASSUME P!Change, walk' = walk, rows' = rows PROVE PagesInv'
  <2>1. \A i \in P!ItemId : rows[i] <= rows'[i]
    BY <1>0, <1>4 DEF ItemRows
  <2> QED BY <1>0, <1>4, <2>1, TableChanges
<1>5. CASE P!Create
  BY <1>4, <1>5 DEF P!Create
<1>6. CASE \E ids \in SUBSET P!ItemId : P!SetHidden(ids, "shown", "hidden") \/ P!SetHidden(ids, "hidden", "shown")
  BY <1>4, <1>6 DEF P!SetHidden
<1>7. ASSUME NEW i \in P!ItemId, P!Delete(i) PROVE PagesInv'
  BY <1>4, <1>7 DEF P!Delete
<1>8. ASSUME NEW i \in P!ItemId, P!Join(i) PROVE PagesInv'
  <2> PICK rw : rw = rows'
    OBVIOUS
  <2>1. rows[i] < MaxRows /\ rw = [rows EXCEPT ![i] = @ + 1] /\ P!Change /\ walk' = walk
    BY <1>8 DEF P!Join
  <2>2. rw \in ItemRows /\ \A k \in P!ItemId : rows[k] <= rw[k]
    <3>1. MaxRows \in Nat
      BY QueriesConstants DEF P!PagingConstants
    <3>2. \A k \in P!ItemId : rows[k] \in 1..MaxRows
      BY <1>0 DEF ItemRows
    <3>3. \A k \in P!ItemId : rw[k] = IF k = i THEN rows[k] + 1 ELSE rows[k]
      BY <1>0, <2>1 DEF ItemRows
    <3>4. \A k \in P!ItemId : rw[k] \in 1..MaxRows /\ rows[k] <= rw[k]
      BY <2>1, <3>1, <3>2, <3>3
    <3> QED BY <1>0, <2>1, <3>4 DEF ItemRows
  <2> QED BY <2>1, <2>2, TableChanges
<1> QED BY <1>1, <1>2, <1>3, <1>5, <1>6, <1>7, <1>8 DEF PagesStep, P!Next

\* Whatever is created, hidden, shown, deleted or joined while a client turns the pages of a
\* list, he misses no more of the items that were in it all the while than the rows it lost,
\* the joined rows beyond one for each item, and the items that came between a count and its
\* page (LIMIT, OFFSET and getManyAndCount of the query repositories).
THEOREM PagesMissNothing == MCSpec => []WalkMissesNothing
<1>1. MCInit => PagesInv
  BY WalkBegins
<1>2. PagesInv /\ [MCNext]_<<part, likesVars, viewsVars, pagesVars, games>> => PagesInv'
  <2> SUFFICES ASSUME PagesInv, [MCNext]_<<part, likesVars, viewsVars, pagesVars, games>> PROVE PagesInv'
    OBVIOUS
  <2>1. CASE LikesStep
    BY <2>1 DEF LikesStep, PagesInv
  <2>2. CASE PagesStep
    BY <2>2, WalkGoesOn
  <2>3. CASE UNCHANGED <<part, likesVars, viewsVars, pagesVars, games>>
    BY <2>3 DEF PagesInv, pagesVars, P!Shown
  <2> QED BY <2>1, <2>2, <2>3 DEF MCNext
<1>3. PagesInv => WalkMissesNothing
  <2> SUFFICES ASSUME PagesInv, part = "pages", walk.pc = "done"
               PROVE  Cardinality(stayed \ walk.seen)
                          <= lost + (P!RowsOf(P!Shown) - Cardinality(P!Shown)) + Cardinality(late)
    BY DEF WalkMissesNothing
  <2> PICK S, n, e : S = P!Shown /\ n = Cardinality(S) /\ e = Cardinality(Extra(rows, S))
    OBVIOUS
  <2>1. WalkOk(S, rows, walk, stayed, lost, late)
    BY DEF PagesInv
  <2>2. S \in SUBSET P!ItemId /\ rows \in ItemRows /\ lost \in Nat /\ late \in SUBSET P!ItemId
    BY <2>1 DEF WalkOk
  <2>3. P!RowsOf(S) = n + e /\ n \in Nat /\ e \in Nat
    BY <2>2, RowsCounted, RowsAndItems, FewItems, FewRows
  <2>4. Unseen(walk, stayed) = stayed \ walk.seen
    BY <2>1 DEF WalkOk, WalkTyped, Unseen
  <2>5. Cardinality(stayed \ walk.seen) <= lost + e + Cardinality(late)
    BY <2>1, <2>4 DEF WalkOk
  <2>6. Cardinality(late) \in Nat /\ (n + e) - n = e
    BY <2>2, <2>3, FewItems
  <2> QED BY <2>3, <2>5, <2>6
<1> QED BY <1>1, <1>2, <1>3, PTL DEF MCSpec

=============================================================================
