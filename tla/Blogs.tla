------------------------------- MODULE Blogs -------------------------------
(***************************************************************************)
(* Blogs and their posts: creation, update and deletion by bloggers        *)
(* (src/src/feature/blogs, src/src/feature/bloggers), binding and banning  *)
(* of blogs by the administrator and the ban of their owners               *)
(* (src/src/feature/users).  A handler finds rows, then writes; rows may   *)
(* change, or go, at each await in between.                                *)
(***************************************************************************)
EXTENDS Integers, UserBans, Saves

CONSTANTS
    MaxBlog, MaxPost,  \* bounds on the ids of the Blogs and Posts tables
    Faulty,            \* requests whose statements may fail
    None,              \* SQL NULL for an owner
    NoRow              \* the owner of a blog that is not in the table

BlogConstants ==
    /\ MaxBlog \in Nat \ {0} /\ MaxPost \in Nat \ {0}
    /\ Faulty \subseteq Requests
    /\ None \notin Users /\ NoRow \notin Users \cup {None}

VARIABLES
    blogs,     \* rows of "Blogs", by id
    lastBlog,  \* last id the sequence of "Blogs" handed out
    posts,     \* rows of "Posts", by id
    lastPost   \* last id the sequence of "Posts" handed out

tables == <<users, blogs, lastBlog, posts, lastPost>>
vars == <<tables, req>>

BlogId == 1..MaxBlog
PostId == 1..MaxPost
Owner == Users \cup {None}

BlogRow == [owner: Owner, isBanned: BOOLEAN]
NoBlog == [owner |-> NoRow, isBanned |-> FALSE]
PostRow == [blog: BlogId, isBanned: BOOLEAN]
NoPost == [blog |-> 0, isBanned |-> FALSE]

\* A request in hand: what it does next, with the rows it has found and the columns it has
\* changed.
Request ==
    [pc: {"idle"}]
    \cup [pc: {"insertBlog"}, user: Users]
    \cup [pc: {"saveBlog"}, id: BlogId, ent: BlogRow, changed: SUBSET {"owner", "isBanned"},
          thenPosts: BOOLEAN]
    \cup [pc: {"deleteBlog", "insertPost"}, id: BlogId]
    \cup [pc: {"flagPosts"}, id: BlogId, isBanned: BOOLEAN]
    \cup [pc: {"findPost"}, id: BlogId, post: PostId]
    \cup [pc: {"savePost"}, id: PostId, ent: PostRow, changed: SUBSET {"blog", "isBanned"}]
    \cup [pc: {"deletePost"}, id: PostId]
    \cup BanRequest(BlogId)

TypeOK ==
    /\ UsersTyped
    /\ blogs \in [BlogId -> BlogRow \cup {NoBlog}]
    /\ lastBlog \in 0..MaxBlog
    /\ posts \in [PostId -> PostRow \cup {NoPost}]
    /\ lastPost \in 0..MaxPost
    /\ req \in [Requests -> Request]

Init ==
    /\ UsersInit
    /\ blogs = [b \in BlogId |-> NoBlog]
    /\ lastBlog = 0
    /\ posts = [p \in PostId |-> NoPost]
    /\ lastPost = 0
    /\ req = [r \in Requests |-> Idle]

OwnerExists(o) == o = None \/ Exists(o)

\* The checks of the handlers that act for the owner of a blog.
OwnBlog(b, u) == blogs[b].owner = u

(***************************************************************************)
(* Blogs                                                                   *)
(***************************************************************************)
CreateBlog(r, u) ==
    /\ At(r, "idle") /\ Exists(u)
    /\ Await(r, [pc |-> "insertBlog", user |-> u])
    /\ UNCHANGED tables

InsertBlog(r) ==
    /\ At(r, "insertBlog")
    /\ Answer(r)
    /\ IF Exists(req[r].user)
       THEN /\ lastBlog < MaxBlog
            /\ lastBlog' = lastBlog + 1
            /\ blogs' = [blogs EXCEPT ![lastBlog'] = [owner |-> req[r].user, isBanned |-> FALSE]]
       ELSE UNCHANGED <<blogs, lastBlog>>
    /\ UNCHANGED <<users, posts, lastPost>>

SaveBlog(r, b, ent, thenPosts) ==
    /\ Await(r, [pc |-> "saveBlog", id |-> b, ent |-> ent,
                 changed |-> Differing(blogs[b], ent), thenPosts |-> thenPosts])
    /\ UNCHANGED tables

UpdateExistingBlogById(r, b, u) ==
    /\ At(r, "idle") /\ OwnBlog(b, u)
    /\ SaveBlog(r, b, blogs[b], FALSE)

BindAnyBlog(r, b, u) ==  \* mutant: a blog that has an owner is bound all the same
    /\ At(r, "idle") /\ blogs[b] # NoBlog /\ Exists(u)
    /\ SaveBlog(r, b, [blogs[b] EXCEPT !.owner = u], FALSE)
BindBlogWithUser(r, b, u) ==
    /\ At(r, "idle") /\ blogs[b] # NoBlog /\ blogs[b].owner = None /\ Exists(u)
    /\ SaveBlog(r, b, [blogs[b] EXCEPT !.owner = u], FALSE)

\* The administrator bans or unbans a blog: first its row, then the rows of its posts.
UserBanUnbanBlog(r, b, isBanned) ==
    /\ At(r, "idle") /\ blogs[b] # NoBlog
    /\ SaveBlog(r, b, [blogs[b] EXCEPT !.isBanned = isBanned], TRUE)

SavedBlog(b, ent, changed) ==
    IF blogs[b] = NoBlog THEN {ent, NoBlog} ELSE Saved(blogs[b], ent, changed)

WriteBlog(r) ==
    LET state == req[r] IN
    /\ At(r, "saveBlog") /\ ~Held(state.id)
    /\ \E row \in SavedBlog(state.id, state.ent, state.changed) :
          IF row = NoBlog \/ OwnerExists(row.owner)
          THEN /\ blogs' = [blogs EXCEPT ![state.id] = row]
               /\ IF state.thenPosts
                  THEN Await(r, [pc |-> "flagPosts", id |-> state.id, isBanned |-> state.ent.isBanned])
                  ELSE Answer(r)
          ELSE UNCHANGED blogs /\ Answer(r)  \* foreign key
    /\ UNCHANGED <<users, lastBlog, posts, lastPost>>

PostsOf(b) == {p \in PostId : posts[p] # NoPost /\ posts[p].blog = b}

FlagPosts(r) ==
    /\ At(r, "flagPosts")
    /\ posts' = [p \in PostId |-> IF p \in PostsOf(req[r].id)
                                  THEN [posts[p] EXCEPT !.isBanned = req[r].isBanned]
                                  ELSE posts[p]]
    /\ Answer(r)
    /\ UNCHANGED <<users, blogs, lastBlog, lastPost>>

DeleteBlogById(r, b, u) ==
    /\ At(r, "idle") /\ OwnBlog(b, u)
    /\ Await(r, [pc |-> "deleteBlog", id |-> b])
    /\ UNCHANGED tables

\* The posts of a blog go with it.
RemoveBlog(r) ==
    LET b == req[r].id IN
    /\ At(r, "deleteBlog") /\ ~Held(b)
    /\ blogs' = [blogs EXCEPT ![b] = NoBlog]
    /\ posts' = [p \in PostId |-> IF p \in PostsOf(b) THEN NoPost ELSE posts[p]]
    /\ Answer(r)
    /\ UNCHANGED <<users, lastBlog, lastPost>>

(***************************************************************************)
(* Posts.  createPostByBlogId notes that the user is not the owner, and    *)
(* goes on to create the post; the post of another blog may be updated     *)
(* into one's own, or deleted, as only the blog of the path is checked.    *)
(***************************************************************************)
CreatePostByBlogId(r, b) ==
    /\ At(r, "idle") /\ blogs[b] # NoBlog
    /\ Await(r, [pc |-> "insertPost", id |-> b])
    /\ UNCHANGED tables

InsertPost(r) ==
    LET b == req[r].id IN
    /\ At(r, "insertPost")
    /\ Answer(r)
    /\ IF blogs[b] # NoBlog
       THEN /\ lastPost < MaxPost
            /\ lastPost' = lastPost + 1
            /\ posts' = [posts EXCEPT ![lastPost'] = [blog |-> b, isBanned |-> FALSE]]
       ELSE UNCHANGED <<posts, lastPost>>
    /\ UNCHANGED <<users, blogs, lastBlog>>

UpdatePostById(r, b, u, p) ==
    /\ At(r, "idle") /\ OwnBlog(b, u)
    /\ Await(r, [pc |-> "findPost", id |-> b, post |-> p])
    /\ UNCHANGED tables

UpdatedPostRebuilt(b, p) == [blog |-> b, isBanned |-> FALSE]  \* mutant: a new entity is saved
UpdatedPost(b, p) == [posts[p] EXCEPT !.blog = b]

FindPost(r) ==
    LET b == req[r].id
        p == req[r].post
    IN
    /\ At(r, "findPost")
    /\ IF posts[p] = NoPost THEN Answer(r)
       ELSE Await(r, [pc |-> "savePost", id |-> p, ent |-> UpdatedPost(b, p),
                       changed |-> Differing(posts[p], UpdatedPost(b, p))])
    /\ UNCHANGED tables

SavedPost(p, ent, changed) ==
    IF posts[p] = NoPost THEN {ent, NoPost} ELSE Saved(posts[p], ent, changed)

WritePost(r) ==
    LET state == req[r] IN
    /\ At(r, "savePost")
    /\ Answer(r)
    /\ \E row \in SavedPost(state.id, state.ent, state.changed) :
          IF row = NoPost \/ blogs[row.blog] # NoBlog
          THEN posts' = [posts EXCEPT ![state.id] = row]
          ELSE UNCHANGED posts  \* foreign key
    /\ UNCHANGED <<users, blogs, lastBlog, lastPost>>

DeletePostById(r, b, u, p) ==
    /\ At(r, "idle") /\ OwnBlog(b, u)
    /\ Await(r, [pc |-> "deletePost", id |-> p])
    /\ UNCHANGED tables

RemovePost(r) ==
    /\ At(r, "deletePost")
    /\ posts' = [posts EXCEPT ![req[r].id] = NoPost]
    /\ Answer(r)
    /\ UNCHANGED <<users, blogs, lastBlog, lastPost>>

(***************************************************************************)
(* Users.  The ban of a user flags his blogs in its transaction.           *)
(***************************************************************************)
BanUnbanUser(r, u, isBanned) ==
    /\ FindUser(r, u, isBanned)
    /\ UNCHANGED tables

BlogsOf(u) == {b \in BlogId : OwnBlog(b, u)}

UpdateUser(r) == UpdateUserAnd(r, BlogsOf(req[r].user)) /\ UNCHANGED tables

SetBanUnbaneBlogByOwnerId(r) ==
    [b \in BlogId |-> IF b \in req[r].rows \cap BlogsOf(req[r].user)
                      THEN [blogs[b] EXCEPT !.isBanned = req[r].isBanned] ELSE blogs[b]]

CommitBan(r) ==
    /\ CommitUser(r)
    /\ blogs' = SetBanUnbaneBlogByOwnerId(r)
    /\ UNCHANGED <<lastBlog, posts, lastPost>>

\* The blogs of a deleted user stay, without an owner.
DeleteUser(u) ==
    /\ Exists(u) /\ ~UserHeld(u) /\ \A b \in BlogsOf(u) : ~Held(b)
    /\ users' = [users EXCEPT ![u] = "deleted"]
    /\ blogs' = [b \in BlogId |-> IF OwnBlog(b, u) THEN [blogs[b] EXCEPT !.owner = None] ELSE blogs[b]]
    /\ UNCHANGED <<lastBlog, posts, lastPost, req>>

\* A statement fails: what was written before stays, unless in a transaction.
Fail(r) ==
    /\ ~At(r, "idle") /\ r \in Faulty
    /\ Answer(r)
    /\ UNCHANGED tables

RequestStep(r) ==
    \/ \E u \in Users : CreateBlog(r, u)
    \/ InsertBlog(r)
    \/ \E b \in BlogId, u \in Users : \/ UpdateExistingBlogById(r, b, u)
                                      \/ BindBlogWithUser(r, b, u)
                                      \/ DeleteBlogById(r, b, u)
    \/ \E b \in BlogId, isBanned \in BOOLEAN : UserBanUnbanBlog(r, b, isBanned)
    \/ WriteBlog(r) \/ FlagPosts(r) \/ RemoveBlog(r)
    \/ \E b \in BlogId : CreatePostByBlogId(r, b)
    \/ InsertPost(r)
    \/ \E b \in BlogId, u \in Users, p \in PostId : UpdatePostById(r, b, u, p) \/ DeletePostById(r, b, u, p)
    \/ FindPost(r) \/ WritePost(r) \/ RemovePost(r)
    \/ \E u \in Users, isBanned \in BOOLEAN : BanUnbanUser(r, u, isBanned)
    \/ UpdateUser(r) \/ CommitBan(r)
    \/ Fail(r)

Next ==
    \/ \E r \in Requests : RequestStep(r)
    \/ \E u \in Users : DeleteUser(u)

Spec == Init /\ [][Next]_vars

\* Requests with an entity of the blog, or of the post, in hand.
HoldsBlog(r, b) == At(r, "saveBlog") /\ req[r].id = b
HoldsPost(r, p) == At(r, "savePost") /\ req[r].id = p

=============================================================================
