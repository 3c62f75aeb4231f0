------------------------------ MODULE Comments ------------------------------
(***************************************************************************)
(* Comments on posts (src/src/feature/comments, src/src/feature/posts),    *)
(* the bans by which a blogger silences a user (src/src/feature/bloggers), *)
(* and the ban and the deletion of their authors.  Blogs and posts are     *)
(* here only what comments hang on; module Blogs has their handlers.       *)
(***************************************************************************)
EXTENDS Integers, UserBans

CONSTANTS
    Blogs, Posts,        \* ids of rows that may be deleted, but are not created here
    MaxComment, MaxBan,  \* bounds on the ids of Comments and BloggerBannedUsers
    Faulty,              \* requests whose statements may fail
    None                 \* no user, no post, no blog

CommentConstants ==
    /\ MaxComment \in Nat \ {0} /\ MaxBan \in Nat \ {0}
    /\ Faulty \subseteq Requests
    /\ None \notin Users \cup Blogs \cup Posts

VARIABLES
    postBlog,     \* rows of "Posts": the blog of each post, None when it was deleted
    comments,     \* rows of "Comments", by id
    lastComment,  \* last id of "Comments"
    bans,         \* rows of "BloggerBannedUsers", by id
    lastBan       \* last id of "BloggerBannedUsers"

tables == <<users, postBlog, comments, lastComment, bans, lastBan>>
vars == <<tables, req>>

CommentId == 1..MaxComment
BanId == 1..MaxBan

CommentRow == [post: Posts, user: Users, isBanned: BOOLEAN]
NoComment == [post |-> None, user |-> None, isBanned |-> FALSE]
BanRow == [blog: Blogs, bannedUser: Users, isBanned: BOOLEAN]
NoBan == [blog |-> None, bannedUser |-> None, isBanned |-> FALSE]

\* A request in hand: what it does next, with the rows it has found and changed.
Request ==
    [pc: {"idle"}]
    \cup [pc: {"findBan"}, post: Posts, user: Users, blog: Blogs]
    \cup [pc: {"insertComment"}, post: Posts, user: Users]
    \cup [pc: {"saveComment"}, id: CommentId, ent: CommentRow]
    \cup [pc: {"deleteComment"}, id: CommentId]
    \cup [pc: {"insertBan"}, ent: BanRow]
    \cup [pc: {"saveBan"}, id: BanId, isBanned: BOOLEAN]
    \cup BanRequest(CommentId)

TypeOK ==
    /\ UsersTyped
    /\ postBlog \in [Posts -> Blogs \cup {None}]
    /\ comments \in [CommentId -> CommentRow \cup {NoComment}]
    /\ lastComment \in 0..MaxComment
    /\ bans \in [BanId -> BanRow \cup {NoBan}]
    /\ lastBan \in 0..MaxBan
    /\ req \in [Requests -> Request]

Init ==
    /\ UsersInit
    /\ postBlog \in [Posts -> Blogs]
    /\ comments = [c \in CommentId |-> NoComment]
    /\ lastComment = 0
    /\ bans = [i \in BanId |-> NoBan]
    /\ lastBan = 0
    /\ req = [r \in Requests |-> Idle]

(***************************************************************************)
(* The ban of a user by a blogger: the row of an earlier ban is found and  *)
(* saved, or a new one is inserted; to unban only clears its flag.         *)
(***************************************************************************)
FindBannedById(b, u) ==  \* mutant: the blog's id is compared with that of the row
    {i \in BanId : bans[i].bannedUser = u /\ bans[i].blog # b}
FindBannedUserByBlogIdAndUserId(b, u) ==
    {i \in BanId : bans[i].blog = b /\ bans[i].bannedUser = u}

BloggerBanUnbanUser(r, b, u, isBanned) ==
    LET rows == FindBannedUserByBlogIdAndUserId(b, u) IN
    /\ At(r, "idle") /\ Exists(u)
    /\ IF rows = {}
       THEN Await(r, [pc |-> "insertBan",
                      ent |-> [blog |-> b, bannedUser |-> u, isBanned |-> isBanned]])
       ELSE \E i \in rows : Await(r, [pc |-> "saveBan", id |-> i, isBanned |-> isBanned])
    /\ UNCHANGED tables

CreateBloggerBannedUsers(r) ==
    LET ent == req[r].ent IN
    /\ At(r, "insertBan")
    /\ Answer(r)
    /\ IF Exists(ent.bannedUser)
       THEN /\ lastBan < MaxBan
            /\ lastBan' = lastBan + 1
            /\ bans' = [bans EXCEPT ![lastBan'] = ent]
       ELSE UNCHANGED <<bans, lastBan>>
    /\ UNCHANGED <<users, postBlog, comments, lastComment>>

\* A row that has gone with its user cannot be inserted again: foreign key.
SaveBloggerBannedUser(r) ==
    LET i == req[r].id IN
    /\ At(r, "saveBan")
    /\ bans' = IF bans[i] = NoBan THEN bans ELSE [bans EXCEPT ![i].isBanned = req[r].isBanned]
    /\ Answer(r)
    /\ UNCHANGED <<users, postBlog, comments, lastComment, lastBan>>

(***************************************************************************)
(* Comments.                                                               *)
(***************************************************************************)
CreateCommentByPostId(r, p, u) ==
    /\ At(r, "idle") /\ postBlog[p] # None /\ Exists(u)
    /\ Await(r, [pc |-> "findBan", post |-> p, user |-> u, blog |-> postBlog[p]])
    /\ UNCHANGED tables

\* Any row of a ban will do, be the user still banned or not.
CheckBan(r) ==
    LET state == req[r] IN
    /\ At(r, "findBan")
    /\ IF FindBannedUserByBlogIdAndUserId(state.blog, state.user) # {} THEN Answer(r)
       ELSE Await(r, [pc |-> "insertComment", post |-> state.post, user |-> state.user])
    /\ UNCHANGED tables

\* Foreign keys of a comment.
CanInsert(p, u) == postBlog[p] # None /\ Exists(u)

InsertComment(r) ==
    LET p == req[r].post
        u == req[r].user
    IN
    /\ At(r, "insertComment")
    /\ Answer(r)
    /\ IF CanInsert(p, u)
       THEN /\ lastComment < MaxComment
            /\ lastComment' = lastComment + 1
            /\ comments' = [comments EXCEPT ![lastComment'] =
                                [post |-> p, user |-> u, isBanned |-> FALSE]]
       ELSE UNCHANGED <<comments, lastComment>>
    /\ UNCHANGED <<users, postBlog, bans, lastBan>>

UpdateAnyComment(r, c, u) ==  \* mutant: the entity is built from the request, never found
    /\ At(r, "idle") /\ c <= lastComment
    /\ \E p \in Posts : Await(r, [pc |-> "saveComment", id |-> c,
                                  ent |-> [post |-> p, user |-> u, isBanned |-> FALSE]])
    /\ UNCHANGED tables
UpdateCommentById(r, c, u) ==
    /\ At(r, "idle") /\ comments[c].user = u
    /\ Await(r, [pc |-> "saveComment", id |-> c, ent |-> comments[c]])
    /\ UNCHANGED tables

\* save() reads the row and writes what differs, or inserts the entity if the row has gone.
\* What others change before its UPDATE may have come before it read the row, or after: the
\* flag is then overwritten, or left, and a row that has gone is inserted, or not updated.
SaveComment(r) ==
    LET ent == req[r].ent IN
    /\ At(r, "saveComment") /\ ~Held(req[r].id)
    /\ \/ UNCHANGED comments
       \/ CanInsert(ent.post, ent.user) /\ comments' = [comments EXCEPT ![req[r].id] = ent]
    /\ Answer(r)
    /\ UNCHANGED <<users, postBlog, lastComment, bans, lastBan>>

DeleteCommentById(r, c, u) ==
    /\ At(r, "idle") /\ comments[c].user = u
    /\ Await(r, [pc |-> "deleteComment", id |-> c])
    /\ UNCHANGED tables

RemoveComment(r) ==
    /\ At(r, "deleteComment") /\ ~Held(req[r].id)
    /\ comments' = [comments EXCEPT ![req[r].id] = NoComment]
    /\ Answer(r)
    /\ UNCHANGED <<users, postBlog, lastComment, bans, lastBan>>

(***************************************************************************)
(* The ban of a user flags his comments in its transaction, as it does his *)
(* blogs (module Blogs).                                                   *)
(***************************************************************************)
BanUnbanUser(r, u, isBanned) ==
    /\ FindUser(r, u, isBanned)
    /\ UNCHANGED tables

WrittenBy(u) == {c \in CommentId : comments[c].user = u}

UpdateUser(r) == UpdateUserAnd(r, WrittenBy(req[r].user)) /\ UNCHANGED tables

UpdateOnlyOnBan(r) ==  \* mutant: the comments of an unbanned user stay hidden
    [c \in CommentId |-> IF c \in req[r].rows \cap WrittenBy(req[r].user) /\ req[r].isBanned
                         THEN [comments[c] EXCEPT !.isBanned = TRUE] ELSE comments[c]]
UpdateBanUnban(r) ==
    [c \in CommentId |-> IF c \in req[r].rows \cap WrittenBy(req[r].user)
                         THEN [comments[c] EXCEPT !.isBanned = req[r].isBanned] ELSE comments[c]]

CommitBan(r) ==
    /\ CommitUser(r)
    /\ comments' = UpdateBanUnban(r)
    /\ UNCHANGED <<postBlog, lastComment, bans, lastBan>>

\* The comments of a deleted user, and the bans of him, go with him.
DeleteUser(u) ==
    /\ Exists(u) /\ ~UserHeld(u) /\ \A c \in WrittenBy(u) : ~Held(c)
    /\ users' = [users EXCEPT ![u] = "deleted"]
    /\ comments' = [c \in CommentId |-> IF comments[c].user = u THEN NoComment ELSE comments[c]]
    /\ bans' = [i \in BanId |-> IF bans[i].bannedUser = u THEN NoBan ELSE bans[i]]
    /\ UNCHANGED <<postBlog, lastComment, lastBan, req>>

DeletePostOrphaning(p) ==  \* mutant: the foreign key sets NULL instead of cascading
    /\ postBlog[p] # None
    /\ postBlog' = [postBlog EXCEPT ![p] = None]
    /\ comments' = [c \in CommentId |->
            IF comments[c].post = p THEN [comments[c] EXCEPT !.post = None] ELSE comments[c]]
    /\ UNCHANGED <<users, lastComment, bans, lastBan, req>>
DeletePost(p) ==
    /\ postBlog[p] # None
    /\ \A c \in CommentId : comments[c].post = p => ~Held(c)
    /\ postBlog' = [postBlog EXCEPT ![p] = None]
    /\ comments' = [c \in CommentId |-> IF comments[c].post = p THEN NoComment ELSE comments[c]]
    /\ UNCHANGED <<users, lastComment, bans, lastBan, req>>

\* UpdatePostById of module Blogs: the post comes under another blog.
MovePost(p, b) ==
    /\ postBlog[p] \notin {None, b}
    /\ postBlog' = [postBlog EXCEPT ![p] = b]
    /\ UNCHANGED <<users, comments, lastComment, bans, lastBan, req>>

\* A statement fails; the transaction of a ban is rolled back.
Fail(r) ==
    /\ ~At(r, "idle") /\ r \in Faulty
    /\ Answer(r)
    /\ UNCHANGED tables

RequestStep(r) ==
    \/ \E b \in Blogs, u \in Users, isBanned \in BOOLEAN : BloggerBanUnbanUser(r, b, u, isBanned)
    \/ CreateBloggerBannedUsers(r) \/ SaveBloggerBannedUser(r)
    \/ \E p \in Posts, u \in Users : CreateCommentByPostId(r, p, u)
    \/ CheckBan(r) \/ InsertComment(r)
    \/ \E c \in CommentId, u \in Users : UpdateCommentById(r, c, u) \/ DeleteCommentById(r, c, u)
    \/ SaveComment(r) \/ RemoveComment(r)
    \/ \E u \in Users, isBanned \in BOOLEAN : BanUnbanUser(r, u, isBanned)
    \/ UpdateUser(r) \/ CommitBan(r)
    \/ Fail(r)

Next ==
    \/ \E r \in Requests : RequestStep(r)
    \/ \E u \in Users : DeleteUser(u)
    \/ \E p \in Posts : DeletePost(p)
    \/ \E p \in Posts, b \in Blogs : MovePost(p, b)

Spec == Init /\ [][Next]_vars

CommentsOf(u, p) == {c \in CommentId : comments[c].user = u /\ comments[c].post = p}
HoldsComment(r, c) == At(r, "saveComment") /\ req[r].id = c

\* A blogger's ban of the user from the blog of the post, lifted or not, has a row.
HasBan(u, p) == \E i \in BanId : bans[i].blog = postBlog[p] /\ bans[i].bannedUser = u

\* Requests of the user on the post that have passed the check, or are to make it for a
\* blog where the post used to be.
PastCheck(u, p) ==
    {r \in Requests : \/ /\ req[r].pc = "insertComment"
                         /\ req[r].user = u /\ req[r].post = p
                      \/ /\ req[r].pc = "findBan"
                         /\ req[r].user = u /\ req[r].post = p /\ req[r].blog # postBlog[p]}

=============================================================================
