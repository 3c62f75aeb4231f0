------------------------------- MODULE Likes -------------------------------
(***************************************************************************)
(* Likes of posts (src/src/feature/posts) and, by the same steps, of       *)
(* comments (src/src/feature/comments).  A like is found by its target and *)
(* its user before it is created: nothing in the database makes it unique. *)
(***************************************************************************)
EXTENDS Integers, FiniteSets, UserBans

CONSTANTS
    Targets,   \* posts, or comments: they may be deleted, but are not created here
    MaxLike,   \* bound on the ids of the likes
    Faulty,    \* requests whose statements may fail
    None       \* no user, no target; also the status None

ASSUME LikesConstants ==
    /\ MaxLike \in Nat \ {0}
    /\ Faulty \subseteq Requests /\ IsFiniteSet(Requests)
    /\ None \notin Users \cup Targets

VARIABLES
    targets,   \* ids of the targets that exist
    likes,     \* rows of "PostLikes", or "CommentLikes", by id
    lastLike   \* last id of the table

tables == <<users, targets, likes, lastLike>>
vars == <<tables, req>>

Status == {"None", "Like", "Dislike"}
LikeId == 1..MaxLike
\* The user of a like is NULL once he is deleted.
LikeRow == [target: Targets, user: Users \cup {None}, status: Status, isBanned: BOOLEAN]
NoLike == [target |-> None, user |-> None, status |-> "None", isBanned |-> FALSE]

Request ==
    [pc: {"idle"}]
    \cup [pc: {"createLike"}, target: Targets, user: Users, status: Status]
    \cup [pc: {"saveLike"}, id: LikeId, ent: LikeRow]
    \cup BanRequest(LikeId)

TypeOK ==
    /\ UsersTyped
    /\ targets \subseteq Targets
    /\ likes \in [LikeId -> LikeRow \cup {NoLike}]
    /\ lastLike \in 0..MaxLike
    /\ req \in [Requests -> Request]

Init ==
    /\ UsersInit
    /\ targets = Targets
    /\ likes = [l \in LikeId |-> NoLike]
    /\ lastLike = 0
    /\ req = [r \in Requests |-> Idle]

FindLikeWithStatus(t, u, status) ==  \* mutant: a like of another status is not found
    {l \in LikeId : likes[l].target = t /\ likes[l].user = u /\ likes[l].status = status}
\* Any row of the user on the target, whatever its status.
FindLike(t, u, status) == {l \in LikeId : likes[l].target = t /\ likes[l].user = u}

SetLikeStatus(r, t, u, status) ==
    LET found == FindLike(t, u, status) IN
    /\ At(r, "idle")
    /\ t \in targets /\ Exists(u)
    /\ IF found = {}
       THEN Await(r, [pc |-> "createLike", target |-> t, user |-> u, status |-> status])
       ELSE \E l \in found :
              Await(r, [pc |-> "saveLike", id |-> l, ent |-> [likes[l] EXCEPT !.status = status]])
    /\ UNCHANGED tables

\* Foreign keys: the row is refused when its target or its user has gone.
CanWrite(t, u) == t \in targets /\ Exists(u)

CreateLike(r) ==
    LET t == req[r].target
        u == req[r].user
    IN
    /\ At(r, "createLike")
    /\ Answer(r)
    /\ IF CanWrite(t, u)
       THEN /\ lastLike < MaxLike
            /\ lastLike' = lastLike + 1
            /\ likes' = [likes EXCEPT ![lastLike'] =
                            [target |-> t, user |-> u, status |-> req[r].status, isBanned |-> FALSE]]
       ELSE UNCHANGED <<likes, lastLike>>
    /\ UNCHANGED <<users, targets>>

\* save() reads the row and writes what differs, or inserts the entity if the row has gone.
\* What others change before its UPDATE may have come before it read the row, or after: the
\* flag is then overwritten, or left; a user who was deleted is refused, or left out.  (Also
\* a status is left out when the row has it already, which comes to an earlier save.)
SaveLike(r) ==
    LET ent == req[r].ent
        row == likes[req[r].id]
    IN
    /\ At(r, "saveLike") /\ ~Held(req[r].id)
    /\ \/ /\ row # NoLike
          /\ \E flag \in {row.isBanned, ent.isBanned} :
                likes' = [likes EXCEPT ![req[r].id] =
                             [row EXCEPT !.status = ent.status, !.isBanned = flag]]
       \/ /\ row = NoLike /\ CanWrite(ent.target, ent.user)
          /\ likes' = [likes EXCEPT ![req[r].id] = ent]
       \/ row.user # ent.user /\ UNCHANGED likes
    /\ Answer(r)
    /\ UNCHANGED <<users, targets, lastLike>>

\* The ban of a user flags his likes, of posts and of comments, in its transaction.
BanUnbanUser(r, u, isBanned) ==
    /\ FindUser(r, u, isBanned)
    /\ UNCHANGED tables

LikedBy(u) == {l \in LikeId : likes[l].user = u}

UpdateUser(r) == UpdateUserAnd(r, LikedBy(req[r].user)) /\ UNCHANGED tables

UpdateBan(r) ==  \* mutant: an unban leaves the flags
    [l \in LikeId |-> IF l \in req[r].rows \cap LikedBy(req[r].user) /\ req[r].isBanned
                      THEN [likes[l] EXCEPT !.isBanned = TRUE] ELSE likes[l]]
UpdateBanUnban(r) ==
    [l \in LikeId |-> IF l \in req[r].rows \cap LikedBy(req[r].user)
                      THEN [likes[l] EXCEPT !.isBanned = req[r].isBanned] ELSE likes[l]]

CommitBan(r) ==
    /\ CommitUser(r)
    /\ likes' = UpdateBanUnban(r)
    /\ UNCHANGED <<targets, lastLike>>

\* The likes of a deleted user stay, without him.
DeleteUser(u) ==
    /\ Exists(u) /\ ~UserHeld(u) /\ \A l \in LikedBy(u) : ~Held(l)
    /\ users' = [users EXCEPT ![u] = "deleted"]
    /\ likes' = [l \in LikeId |-> IF likes[l].user = u THEN [likes[l] EXCEPT !.user = None] ELSE likes[l]]
    /\ UNCHANGED <<targets, lastLike, req>>

\* The likes of a deleted target go with it.
DeleteTarget(t) ==
    /\ t \in targets
    /\ \A l \in LikeId : likes[l].target = t => ~Held(l)
    /\ targets' = targets \ {t}
    /\ likes' = [l \in LikeId |-> IF likes[l].target = t THEN NoLike ELSE likes[l]]
    /\ UNCHANGED <<users, lastLike, req>>

\* A statement fails; the transaction of a ban is rolled back.
Fail(r) ==
    /\ ~At(r, "idle") /\ r \in Faulty
    /\ Answer(r)
    /\ UNCHANGED tables

Begin(r) ==
    \/ \E t \in Targets, u \in Users, status \in Status : SetLikeStatus(r, t, u, status)
    \/ \E u \in Users, isBanned \in BOOLEAN : BanUnbanUser(r, u, isBanned)
RequestStep(r) ==
    Begin(r) \/ CreateLike(r) \/ SaveLike(r) \/ UpdateUser(r) \/ CommitBan(r) \/ Fail(r)

Next ==
    \/ \E r \in Requests : RequestStep(r)
    \/ \E u \in Users : DeleteUser(u)
    \/ \E t \in Targets : DeleteTarget(t)

Spec == Init /\ [][Next]_vars

LikesOf(t, u) == {l \in LikeId : likes[l].target = t /\ likes[l].user = u}
Creating(t, u) == {r \in Requests : req[r].pc = "createLike" /\ req[r].target = t /\ req[r].user = u}

\* However often a user sets his status, his likes of a target are never more than the
\* requests that were in flight at once: only requests that overlapped add a second row.
OneLikePerRequest ==
    \A t \in Targets, u \in Users :
        Cardinality(LikesOf(t, u)) + Cardinality(Creating(t, u)) <= Cardinality(Requests)

=============================================================================
