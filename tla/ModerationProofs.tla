-------------------------- MODULE ModerationProofs --------------------------
(***************************************************************************)
(* What holds of blogs, posts and comments under moderation for any number *)
(* of users, rows and requests: the invariants and the two action          *)
(* properties of MCModeration.  The argument has the same shape for both   *)
(* halves.  Each handler is first reduced to a few facts on what it may do *)
(* to a row and to an entity in hand (Parts B and E): a row that is there  *)
(* after a step was there before, was in the hands of a request, or has a  *)
(* new id; an entity is taken in hand only as the row is.  From these      *)
(* facts alone the inductive invariants follow (Parts C and F), which say  *)
(* of the entities in hand what the properties say of the rows.            *)
(***************************************************************************)
EXTENDS MCModeration, TLAPS

(***************************************************************************)
(* Part A.  Blogs: types.                                                  *)
(***************************************************************************)
\* The fields a request keeps while it is on its way.
LEMMA BlogRequestFields ==
    ASSUME NEW s \in B!Request
    PROVE  /\ s.pc = "insertBlog" => s.user \in Users
           /\ s.pc = "saveBlog" => /\ s.id \in B!BlogId /\ s.ent \in B!BlogRow
                                    /\ s.changed \in SUBSET {"owner", "isBanned"}
           /\ s.pc \in {"deleteBlog", "insertPost"} => s.id \in B!BlogId
           /\ s.pc = "flagPosts" => s.id \in B!BlogId /\ s.isBanned \in BOOLEAN
           /\ s.pc = "findPost" => s.id \in B!BlogId /\ s.post \in B!PostId
           /\ s.pc = "savePost" => /\ s.id \in B!PostId /\ s.ent \in B!PostRow
                                    /\ s.changed \in SUBSET {"blog", "isBanned"}
           /\ s.pc = "deletePost" => s.id \in B!PostId
           /\ s.pc = "updateUser" => s.user \in Users /\ s.isBanned \in BOOLEAN
           /\ s.pc = "commitBan" => /\ s.user \in Users /\ s.isBanned \in BOOLEAN
                                     /\ s.draft \in {"none", "active", "banned"}
  BY DEF B!Request, B!BanRequest

\* What the constants promise.
LEMMA BlogFacts ==
    /\ MaxBlog \in Nat \ {0} /\ MaxPost \in Nat \ {0}
    /\ None \notin Users /\ NoRow \notin Users /\ NoRow # None
    /\ B!NoBlog.owner = NoRow /\ B!NoPost.blog = 0
    /\ \A e \in B!BlogRow : e # B!NoBlog /\ e.owner # NoRow
    /\ \A e \in B!PostRow : e # B!NoPost /\ e.blog # 0
  BY ModerationConstants
     DEF B!BlogConstants, B!NoBlog, B!BlogRow, B!PostRow, B!NoPost, B!Owner, B!BlogId

\* A request may be on its way to anything that has the fields of its label.
LEMMA BlogRequests ==
    /\ B!Idle \in B!Request
    /\ \A u \in Users : [pc |-> "insertBlog", user |-> u] \in B!Request
    /\ \A b \in B!BlogId, ent \in B!BlogRow, cols \in SUBSET {"owner", "isBanned"}, t \in BOOLEAN :
          [pc |-> "saveBlog", id |-> b, ent |-> ent, changed |-> cols, thenPosts |-> t] \in B!Request
    /\ \A b \in B!BlogId : /\ [pc |-> "deleteBlog", id |-> b] \in B!Request
                           /\ [pc |-> "insertPost", id |-> b] \in B!Request
    /\ \A b \in B!BlogId, f \in BOOLEAN :
          [pc |-> "flagPosts", id |-> b, isBanned |-> f] \in B!Request
    /\ \A b \in B!BlogId, p \in B!PostId :
          [pc |-> "findPost", id |-> b, post |-> p] \in B!Request
    /\ \A p \in B!PostId, ent \in B!PostRow, cols \in SUBSET {"blog", "isBanned"} :
          [pc |-> "savePost", id |-> p, ent |-> ent, changed |-> cols] \in B!Request
    /\ \A p \in B!PostId : [pc |-> "deletePost", id |-> p] \in B!Request
    /\ \A u \in Users, f \in BOOLEAN, w \in BOOLEAN :
          [pc |-> "updateUser", user |-> u, isBanned |-> f, changed |-> w] \in B!Request
    /\ \A u \in Users, f \in BOOLEAN, d \in {"none", "active", "banned"}, rows \in SUBSET B!BlogId :
          [pc |-> "commitBan", user |-> u, isBanned |-> f, draft |-> d, rows |-> rows] \in B!Request
  BY DEF B!Request, B!BanRequest, B!Idle

LEMMA AwaitTyped ==
    ASSUME B!TypeOK, NEW r \in Requests, NEW s \in B!Request, B!Await(r, s)
    PROVE  req' \in [Requests -> B!Request]
  BY DEF B!TypeOK, B!Await

LEMMA AnswerTyped ==
    ASSUME B!TypeOK, NEW r \in Requests, B!Answer(r)
    PROVE  req' \in [Requests -> B!Request]
  BY BlogRequests, AwaitTyped DEF B!Answer

\* What a save writes over a row is a row, of which each column is the row's or the entity's.
LEMMA SavedBlogTyped ==
    ASSUME B!TypeOK, NEW b \in B!BlogId, NEW ent \in B!BlogRow, NEW cols, NEW row \in B!SavedBlog(b, ent, cols)
    PROVE  \/ row = B!NoBlog
           \/ row = ent
           \/ /\ blogs[b] # B!NoBlog /\ row \in B!BlogRow
              /\ row.owner \in {blogs[b].owner, ent.owner}
<1>1. CASE blogs[b] = B!NoBlog
  BY <1>1 DEF B!SavedBlog
<1>2. CASE blogs[b] # B!NoBlog
  <2>1. blogs[b] \in B!BlogRow
    BY <1>2 DEF B!TypeOK
  <2>2. PICK written : row = B!Merge(blogs[b], ent, written)
    BY <1>2 DEF B!SavedBlog, B!Saved
  <2>3. DOMAIN blogs[b] = {"owner", "isBanned"}
    BY <2>1 DEF B!BlogRow
  <2>4. row = [c \in {"owner", "isBanned"} |-> IF c \in written THEN ent[c] ELSE blogs[b][c]]
    BY <2>2, <2>3 DEF B!Merge
  <2>5. /\ row.owner \in {blogs[b].owner, ent.owner}
        /\ row.isBanned \in {blogs[b].isBanned, ent.isBanned}
    BY <2>4
  <2>6. row = [owner |-> row.owner, isBanned |-> row.isBanned]
    BY <2>4
  <2> QED BY <1>2, <2>1, <2>5, <2>6 DEF B!BlogRow
<1> QED BY <1>1, <1>2

LEMMA SavedPostTyped ==
    ASSUME B!TypeOK, NEW p \in B!PostId, NEW ent \in B!PostRow, NEW cols, NEW row \in B!SavedPost(p, ent, cols)
    PROVE  \/ row = B!NoPost
           \/ row = ent
           \/ /\ posts[p] # B!NoPost /\ row \in B!PostRow
              /\ row.isBanned \in {posts[p].isBanned, ent.isBanned}
<1>1. CASE posts[p] = B!NoPost
  BY <1>1 DEF B!SavedPost
<1>2. CASE posts[p] # B!NoPost
  <2>1. posts[p] \in B!PostRow
    BY <1>2 DEF B!TypeOK
  <2>2. PICK written : row = B!Merge(posts[p], ent, written)
    BY <1>2 DEF B!SavedPost, B!Saved
  <2>3. DOMAIN posts[p] = {"blog", "isBanned"}
    BY <2>1 DEF B!PostRow
  <2>4. row = [c \in {"blog", "isBanned"} |-> IF c \in written THEN ent[c] ELSE posts[p][c]]
    BY <2>2, <2>3 DEF B!Merge
  <2>5. /\ row.blog \in {posts[p].blog, ent.blog}
        /\ row.isBanned \in {posts[p].isBanned, ent.isBanned}
    BY <2>4
  <2>6. row = [blog |-> row.blog, isBanned |-> row.isBanned]
    BY <2>4
  <2> QED BY <1>2, <2>1, <2>5, <2>6 DEF B!PostRow
<1> QED BY <1>1, <1>2

\* The columns in which an entity differs from the row it was found as.
LEMMA DifferingTyped ==
    /\ \A b \in B!BlogId : \A ent : blogs[b] \in B!BlogRow =>
          B!Differing(blogs[b], ent) \in SUBSET {"owner", "isBanned"}
    /\ \A p \in B!PostId : \A ent : posts[p] \in B!PostRow =>
          B!Differing(posts[p], ent) \in SUBSET {"blog", "isBanned"}
  BY DEF B!Differing, B!BlogRow, B!PostRow

LEMMA BlogDraftTyped ==
    ASSUME B!TypeOK, NEW r \in Requests, req[r].user \in Users, req[r].isBanned \in BOOLEAN
    PROVE  B!Draft(r) \in {"none", "active", "banned"}
  BY DEF B!Draft, B!Target, B!TypeOK, B!UsersTyped

LEMMA BlogStepTyped ==
    ASSUME B!TypeOK, NEW r \in Requests, B!RequestStep(r)
    PROVE  B!TypeOK'
<1> USE DEF B!tables, B!UsersTyped
<1>0. req[r] \in B!Request
  BY DEF B!TypeOK
<1>a. \A b \in B!BlogId : blogs[b] # B!NoBlog => blogs[b] \in B!BlogRow
  BY DEF B!TypeOK
<1>b. \A b \in B!BlogId, u \in Users : blogs[b].owner = u => blogs[b] \in B!BlogRow
  BY <1>a, BlogFacts
<1>c. \A p \in B!PostId : posts[p] # B!NoPost => posts[p] \in B!PostRow
  BY DEF B!TypeOK
<1>1. CASE \E u \in Users : B!CreateBlog(r, u)
  BY <1>1, BlogRequests, AwaitTyped DEF B!CreateBlog, B!TypeOK
<1>2. CASE B!InsertBlog(r)
  <2>1. req' \in [Requests -> B!Request]
    BY <1>2, AnswerTyped DEF B!InsertBlog
  <2>2. [owner |-> req[r].user, isBanned |-> FALSE] \in B!BlogRow
    BY <1>0, <1>2, BlogRequestFields DEF B!InsertBlog, B!At, B!BlogRow, B!Owner
  <2>3. lastBlog < MaxBlog => lastBlog + 1 \in B!BlogId /\ lastBlog + 1 \in 0..MaxBlog
    BY BlogFacts DEF B!TypeOK, B!BlogId
  <2>4. /\ lastBlog' \in 0..MaxBlog
        /\ blogs' \in [B!BlogId -> B!BlogRow \cup {B!NoBlog}]
    BY <1>2, <2>2, <2>3 DEF B!InsertBlog, B!TypeOK
  <2> QED BY <1>2, <2>1, <2>4 DEF B!InsertBlog, B!TypeOK
<1>3. ASSUME NEW b \in B!BlogId, NEW u \in Users, B!UpdateExistingBlogById(r, b, u)
      PROVE  B!TypeOK'
  BY <1>3, <1>b, BlogRequests, DifferingTyped, AwaitTyped
     DEF B!UpdateExistingBlogById, B!OwnBlog, B!SaveBlog, B!TypeOK
<1>4. ASSUME NEW b \in B!BlogId, NEW u \in Users, B!BindBlogWithUser(r, b, u)
      PROVE  B!TypeOK'
  <2>1. blogs[b] \in B!BlogRow /\ [blogs[b] EXCEPT !.owner = u] \in B!BlogRow
    BY <1>4, <1>a DEF B!BindBlogWithUser, B!BlogRow, B!Owner
  <2> QED BY <1>4, <2>1, BlogRequests, DifferingTyped, AwaitTyped
          DEF B!BindBlogWithUser, B!SaveBlog, B!TypeOK
<1>5. ASSUME NEW b \in B!BlogId, NEW u \in Users, B!DeleteBlogById(r, b, u)
      PROVE  B!TypeOK'
  BY <1>5, BlogRequests, AwaitTyped DEF B!DeleteBlogById, B!TypeOK
<1>6. ASSUME NEW b \in B!BlogId, NEW isBanned \in BOOLEAN, B!UserBanUnbanBlog(r, b, isBanned)
      PROVE  B!TypeOK'
  <2>1. blogs[b] \in B!BlogRow /\ [blogs[b] EXCEPT !.isBanned = isBanned] \in B!BlogRow
    BY <1>6, <1>a DEF B!UserBanUnbanBlog, B!BlogRow
  <2> QED BY <1>6, <2>1, BlogRequests, DifferingTyped, AwaitTyped
          DEF B!UserBanUnbanBlog, B!SaveBlog, B!TypeOK
<1>7. CASE B!WriteBlog(r)
  <2>1. /\ req[r].id \in B!BlogId /\ req[r].ent \in B!BlogRow
        /\ req[r].ent.isBanned \in BOOLEAN
    BY <1>0, <1>7, BlogRequestFields DEF B!WriteBlog, B!At, B!BlogRow
  <2>2. req' \in [Requests -> B!Request]
    BY <1>7, <2>1, BlogRequests, AwaitTyped, AnswerTyped DEF B!WriteBlog
  <2>3. \A row \in B!SavedBlog(req[r].id, req[r].ent, req[r].changed) :
           row \in B!BlogRow \cup {B!NoBlog}
    BY <2>1, SavedBlogTyped
  <2>4. blogs' \in [B!BlogId -> B!BlogRow \cup {B!NoBlog}]
    BY <1>7, <2>1, <2>3 DEF B!WriteBlog, B!TypeOK
  <2> QED BY <1>7, <2>2, <2>4 DEF B!WriteBlog, B!TypeOK
<1>8. CASE B!FlagPosts(r)
  <2>1. req[r].isBanned \in BOOLEAN
    BY <1>0, <1>8, BlogRequestFields DEF B!FlagPosts, B!At
  <2>2. \A p \in B!PostsOf(req[r].id) : [posts[p] EXCEPT !.isBanned = req[r].isBanned] \in B!PostRow
    BY <1>c, <2>1 DEF B!PostsOf, B!PostRow
  <2>3. posts' \in [B!PostId -> B!PostRow \cup {B!NoPost}]
    BY <1>8, <2>2 DEF B!FlagPosts, B!TypeOK
  <2> QED BY <1>8, <2>3, AnswerTyped DEF B!FlagPosts, B!TypeOK
<1>9. CASE B!RemoveBlog(r)
  BY <1>9, AnswerTyped DEF B!RemoveBlog, B!TypeOK
<1>10. ASSUME NEW b \in B!BlogId, B!CreatePostByBlogId(r, b)
       PROVE  B!TypeOK'
  BY <1>10, BlogRequests, AwaitTyped DEF B!CreatePostByBlogId, B!TypeOK
<1>11. CASE B!InsertPost(r)
  <2>1. req' \in [Requests -> B!Request]
    BY <1>11, AnswerTyped DEF B!InsertPost
  <2>2. [blog |-> req[r].id, isBanned |-> FALSE] \in B!PostRow
    BY <1>0, <1>11, BlogRequestFields DEF B!InsertPost, B!At, B!PostRow
  <2>3. lastPost < MaxPost => lastPost + 1 \in B!PostId /\ lastPost + 1 \in 0..MaxPost
    BY BlogFacts DEF B!TypeOK, B!PostId
  <2>4. /\ lastPost' \in 0..MaxPost
        /\ posts' \in [B!PostId -> B!PostRow \cup {B!NoPost}]
    BY <1>11, <2>2, <2>3 DEF B!InsertPost, B!TypeOK
  <2> QED BY <1>11, <2>1, <2>4 DEF B!InsertPost, B!TypeOK
<1>12. ASSUME NEW b \in B!BlogId, NEW u \in Users, NEW p \in B!PostId,
              B!UpdatePostById(r, b, u, p) \/ B!DeletePostById(r, b, u, p)
       PROVE  B!TypeOK'
  BY <1>12, BlogRequests, AwaitTyped DEF B!UpdatePostById, B!DeletePostById, B!TypeOK
<1>13. CASE B!FindPost(r)
  <2>1. req[r].id \in B!BlogId /\ req[r].post \in B!PostId
    BY <1>0, <1>13, BlogRequestFields DEF B!FindPost, B!At
  <2>2. posts[req[r].post] # B!NoPost =>
           posts[req[r].post] \in B!PostRow /\ B!UpdatedPost(req[r].id, req[r].post) \in B!PostRow
    BY <2>1, <1>c DEF B!UpdatedPost, B!PostRow
  <2>3. req' \in [Requests -> B!Request]
    BY <1>13, <2>1, <2>2, BlogRequests, DifferingTyped, AwaitTyped, AnswerTyped DEF B!FindPost
  <2> QED BY <1>13, <2>3 DEF B!FindPost, B!TypeOK
<1>14. CASE B!WritePost(r)
  <2>1. req[r].id \in B!PostId /\ req[r].ent \in B!PostRow
    BY <1>0, <1>14, BlogRequestFields DEF B!WritePost, B!At
  <2>2. \A row \in B!SavedPost(req[r].id, req[r].ent, req[r].changed) :
           row \in B!PostRow \cup {B!NoPost}
    BY <2>1, SavedPostTyped
  <2>3. posts' \in [B!PostId -> B!PostRow \cup {B!NoPost}]
    BY <1>14, <2>1, <2>2 DEF B!WritePost, B!TypeOK
  <2> QED BY <1>14, <2>3, AnswerTyped DEF B!WritePost, B!TypeOK
<1>15. CASE B!RemovePost(r)
  BY <1>15, AnswerTyped DEF B!RemovePost, B!TypeOK
<1>16. ASSUME NEW u \in Users, NEW isBanned \in BOOLEAN, B!BanUnbanUser(r, u, isBanned)
       PROVE  B!TypeOK'
  BY <1>16, BlogRequests, AwaitTyped DEF B!BanUnbanUser, B!FindUser, B!TypeOK
<1>19. CASE B!UpdateUser(r)
  <2>1. req[r].user \in Users /\ req[r].isBanned \in BOOLEAN
    BY <1>0, <1>19, BlogRequestFields DEF B!UpdateUser, B!UpdateUserAnd, B!At
  <2>2. B!Draft(r) \in {"none", "active", "banned"} /\ B!BlogsOf(req[r].user) \in SUBSET B!BlogId
    BY <2>1, BlogDraftTyped DEF B!BlogsOf
  <2> QED BY <1>19, <2>1, <2>2, BlogRequests, AwaitTyped DEF B!UpdateUser, B!UpdateUserAnd, B!TypeOK
<1>17. CASE B!CommitBan(r)
  <2>1. /\ req[r].user \in Users /\ req[r].isBanned \in BOOLEAN
        /\ req[r].draft \in {"none", "active", "banned"}
    BY <1>0, <1>17, BlogRequestFields DEF B!CommitBan, B!CommitUser, B!At
  <2>2. \A b \in B!BlogId : blogs[b].owner = req[r].user =>
              [blogs[b] EXCEPT !.isBanned = req[r].isBanned] \in B!BlogRow
    BY <1>b, <2>1 DEF B!BlogRow
  <2>3. blogs' \in [B!BlogId -> B!BlogRow \cup {B!NoBlog}]
    BY <1>17, <2>2 DEF B!CommitBan, B!SetBanUnbaneBlogByOwnerId, B!BlogsOf, B!OwnBlog, B!TypeOK
  <2>4. users' \in [Users -> {"active", "banned", "deleted"}]
    BY <1>17, <2>1 DEF B!CommitBan, B!CommitUser, B!TypeOK
  <2> QED BY <1>17, <2>3, <2>4, AnswerTyped DEF B!CommitBan, B!CommitUser, B!TypeOK
<1>18. CASE B!Fail(r)
  BY <1>18, AnswerTyped DEF B!Fail, B!TypeOK
<1> QED BY <1>1, <1>2, <1>3, <1>4, <1>5, <1>6, <1>7, <1>8, <1>9, <1>10, <1>11, <1>12, <1>13, <1>14,
           <1>15, <1>16, <1>17, <1>18, <1>19 DEF B!RequestStep

LEMMA BlogsDeleteUserTyped ==
    ASSUME B!TypeOK, NEW u \in Users, B!DeleteUser(u)
    PROVE  B!TypeOK'
<1>1. \A b \in B!BlogId : blogs[b].owner = u => [blogs[b] EXCEPT !.owner = None] \in B!BlogRow
  <2> TAKE b \in B!BlogId
  <2> HAVE blogs[b].owner = u
  <2>1. blogs[b] \in B!BlogRow
    BY BlogFacts DEF B!TypeOK
  <2> QED BY <2>1 DEF B!BlogRow, B!Owner
<1>2. blogs' \in [B!BlogId -> B!BlogRow \cup {B!NoBlog}]
  BY <1>1 DEF B!DeleteUser, B!OwnBlog, B!TypeOK
<1> QED BY <1>2 DEF B!DeleteUser, B!UsersTyped, B!TypeOK

(***************************************************************************)
(* Part B.  Blogs: what one step does to a row, and to a row in hand.      *)
(***************************************************************************)
\* A blog that is there after a step was there before and changed hands to no one, is what a
\* request had in hand, or is new.
BlogsMove ==
    /\ lastBlog' \in {lastBlog, lastBlog + 1}
    /\ \A b \in B!BlogId : blogs'[b] # B!NoBlog =>
          \/ blogs[b] # B!NoBlog /\ blogs'[b].owner \in {blogs[b].owner, None}
          \/ \E q \in Requests : B!HoldsBlog(q, b) /\ blogs'[b].owner = req[q].ent.owner
          \/ lastBlog' = lastBlog + 1 /\ b = lastBlog'
PostsMove ==
    /\ lastPost' \in {lastPost, lastPost + 1}
    /\ \A p \in B!PostId : posts'[p] # B!NoPost =>
          \/ posts[p] # B!NoPost /\ posts'[p].isBanned = posts[p].isBanned
          \/ \E q \in Requests : B!HoldsPost(q, p) /\ posts'[p].isBanned = req[q].ent.isBanned
          \/ lastPost' = lastPost + 1 /\ p = lastPost'

\* A row a request has in hand after a step it had before, or found as it is.
BlogsTaken ==
    \A q \in Requests, b \in B!BlogId : B!HoldsBlog(q, b)' =>
       \/ req'[q] = req[q]
       \/ /\ blogs' = blogs /\ blogs[b] # B!NoBlog
          /\ blogs[b].owner \in Users => req'[q].ent.owner = blogs[b].owner
PostsTaken ==
    \A q \in Requests, p \in B!PostId : B!HoldsPost(q, p)' =>
       \/ req'[q] = req[q]
       \/ /\ posts' = posts /\ posts[p] # B!NoPost
          /\ req'[q].ent.isBanned = posts[p].isBanned

LEMMA AwaitTakes ==
    ASSUME B!TypeOK, NEW r \in Requests, NEW s, B!Await(r, s)
    PROVE  /\ s.pc # "saveBlog" => BlogsTaken
           /\ s.pc # "savePost" => PostsTaken
           /\ /\ s.pc = "saveBlog" /\ blogs' = blogs /\ blogs[s.id] # B!NoBlog
              /\ blogs[s.id].owner \in Users => s.ent.owner = blogs[s.id].owner
              => BlogsTaken
           /\ /\ s.pc = "savePost" /\ posts' = posts /\ posts[s.id] # B!NoPost
              /\ s.ent.isBanned = posts[s.id].isBanned
              => PostsTaken
<1>1. req'[r] = s /\ \A q \in Requests : q # r => req'[q] = req[q]
  BY DEF B!TypeOK, B!Await
<1> QED BY <1>1 DEF BlogsTaken, PostsTaken, B!HoldsBlog, B!HoldsPost, B!At

LEMMA AnswerTakes ==
    ASSUME B!TypeOK, NEW r \in Requests, B!Answer(r)
    PROVE  BlogsTaken /\ PostsTaken
  BY AwaitTakes DEF B!Answer, B!Idle

LEMMA TablesStay ==
    ASSUME B!TypeOK, UNCHANGED B!tables
    PROVE  BlogsMove /\ PostsMove
  BY DEF B!tables, BlogsMove, PostsMove, B!TypeOK

\* A request takes a blog in hand as it is there, but perhaps for an owner that it lacks.
LEMMA SaveBlogMoves ==
    ASSUME B!TypeOK, NEW r \in Requests, NEW b \in B!BlogId, NEW ent, NEW t \in BOOLEAN,
           B!SaveBlog(r, b, ent, t), blogs[b] # B!NoBlog,
           blogs[b].owner \in Users => ent.owner = blogs[b].owner
    PROVE  BlogsMove /\ BlogsTaken /\ PostsTaken /\ PostsMove
<1> PICK s : s = [pc |-> "saveBlog", id |-> b, ent |-> ent,
                  changed |-> B!Differing(blogs[b], ent), thenPosts |-> t]
  OBVIOUS
<1>1. /\ s.pc = "saveBlog" /\ s.id = b /\ s.ent = ent
      /\ B!Await(r, s) /\ UNCHANGED B!tables
  BY DEF B!SaveBlog
<1> QED BY <1>1, TablesStay, AwaitTakes DEF B!tables

LEMMA BlogStepMoves ==
    ASSUME B!TypeOK, NEW r \in Requests, B!RequestStep(r)
    PROVE  /\ BlogsMove /\ BlogsTaken /\ PostsTaken
           /\ PostsMove \/ B!FlagPosts(r)
<1>0. req[r] \in B!Request
  BY DEF B!TypeOK
<1>a. \A b \in B!BlogId, u \in Users : blogs[b].owner = u => blogs[b] # B!NoBlog
  BY BlogFacts
<1>1. CASE \E u \in Users : B!CreateBlog(r, u)
  BY <1>1, TablesStay, AwaitTakes DEF B!CreateBlog
<1>2. CASE B!InsertBlog(r)
  <2>1. BlogsMove
    BY <1>2 DEF B!InsertBlog, BlogsMove, B!TypeOK
  <2> QED BY <1>2, <2>1, AnswerTakes DEF B!InsertBlog, PostsMove
<1>3. ASSUME NEW b \in B!BlogId, NEW u \in Users, B!UpdateExistingBlogById(r, b, u)
      PROVE  BlogsMove /\ BlogsTaken /\ PostsTaken /\ PostsMove
  BY <1>3, <1>a, SaveBlogMoves DEF B!UpdateExistingBlogById, B!OwnBlog
<1>4. ASSUME NEW b \in B!BlogId, NEW u \in Users, B!BindBlogWithUser(r, b, u)
      PROVE  BlogsMove /\ BlogsTaken /\ PostsTaken /\ PostsMove
  <2> PICK ent : ent = [blogs[b] EXCEPT !.owner = u]
    OBVIOUS
  <2>1. blogs[b] # B!NoBlog /\ blogs[b].owner \notin Users /\ B!SaveBlog(r, b, ent, FALSE)
    BY <1>4, BlogFacts DEF B!BindBlogWithUser
  <2> QED BY <2>1, SaveBlogMoves
<1>5. ASSUME NEW b \in B!BlogId, NEW u \in Users, B!DeleteBlogById(r, b, u)
      PROVE  BlogsMove /\ BlogsTaken /\ PostsTaken /\ PostsMove
  BY <1>5, TablesStay, AwaitTakes DEF B!DeleteBlogById
<1>6. ASSUME NEW b \in B!BlogId, NEW isBanned \in BOOLEAN, B!UserBanUnbanBlog(r, b, isBanned)
      PROVE  BlogsMove /\ BlogsTaken /\ PostsTaken /\ PostsMove
  <2> PICK ent : ent = [blogs[b] EXCEPT !.isBanned = isBanned]
    OBVIOUS
  <2>1. ent.owner = blogs[b].owner
    BY <1>6 DEF B!UserBanUnbanBlog, B!TypeOK, B!BlogRow
  <2>2. blogs[b] # B!NoBlog /\ B!SaveBlog(r, b, ent, TRUE)
    BY <1>6 DEF B!UserBanUnbanBlog
  <2> QED BY <2>1, <2>2, SaveBlogMoves
<1>7. CASE B!WriteBlog(r)
  <2>1. req[r].id \in B!BlogId /\ req[r].ent \in B!BlogRow /\ B!HoldsBlog(r, req[r].id)
    BY <1>0, <1>7, BlogRequestFields DEF B!WriteBlog, B!At, B!HoldsBlog
  <2>2. \/ blogs' = blogs
        \/ \E row \in B!SavedBlog(req[r].id, req[r].ent, req[r].changed) :
              blogs' = [blogs EXCEPT ![req[r].id] = row]
    BY <1>7 DEF B!WriteBlog
  <2>3. ASSUME NEW row \in B!SavedBlog(req[r].id, req[r].ent, req[r].changed),
               blogs' = [blogs EXCEPT ![req[r].id] = row], lastBlog' = lastBlog
        PROVE  BlogsMove
    BY <2>1, <2>3, SavedBlogTyped DEF BlogsMove, B!TypeOK
  <2>4. BlogsMove
    BY <1>7, <2>2, <2>3 DEF B!WriteBlog, BlogsMove, B!TypeOK
  <2>5. BlogsTaken /\ PostsTaken
    BY <1>7, AwaitTakes, AnswerTakes DEF B!WriteBlog
  <2> QED BY <1>7, <2>4, <2>5 DEF B!WriteBlog, PostsMove
<1>8. CASE B!FlagPosts(r)
  BY <1>8, AnswerTakes DEF B!FlagPosts, BlogsMove
<1>9. CASE B!RemoveBlog(r)
  <2>1. BlogsMove /\ PostsMove
    BY <1>9 DEF B!RemoveBlog, BlogsMove, PostsMove, B!TypeOK
  <2> QED BY <1>9, <2>1, AnswerTakes DEF B!RemoveBlog
<1>10. ASSUME NEW b \in B!BlogId, B!CreatePostByBlogId(r, b)
       PROVE  BlogsMove /\ BlogsTaken /\ PostsTaken /\ PostsMove
  BY <1>10, TablesStay, AwaitTakes DEF B!CreatePostByBlogId
<1>11. CASE B!InsertPost(r)
  <2>1. PostsMove
    BY <1>11 DEF B!InsertPost, PostsMove, B!TypeOK
  <2> QED BY <1>11, <2>1, AnswerTakes DEF B!InsertPost, BlogsMove
<1>12. ASSUME NEW b \in B!BlogId, NEW u \in Users, NEW p \in B!PostId,
              B!UpdatePostById(r, b, u, p) \/ B!DeletePostById(r, b, u, p)
       PROVE  BlogsMove /\ BlogsTaken /\ PostsTaken /\ PostsMove
  BY <1>12, TablesStay, AwaitTakes DEF B!UpdatePostById, B!DeletePostById
<1>13. CASE B!FindPost(r)
  <2>1. req[r].post \in B!PostId
    BY <1>0, <1>13, BlogRequestFields DEF B!FindPost, B!At
  <2>2. posts[req[r].post] # B!NoPost =>
           B!UpdatedPost(req[r].id, req[r].post).isBanned = posts[req[r].post].isBanned
    BY <2>1 DEF B!UpdatedPost, B!TypeOK, B!PostRow
  <2>3. BlogsTaken /\ PostsTaken
    BY <1>13, <2>2, AwaitTakes, AnswerTakes DEF B!FindPost, B!tables
  <2> QED BY <1>13, <2>3, TablesStay DEF B!FindPost
<1>14. CASE B!WritePost(r)
  <2>1. req[r].id \in B!PostId /\ req[r].ent \in B!PostRow /\ B!HoldsPost(r, req[r].id)
    BY <1>0, <1>14, BlogRequestFields DEF B!WritePost, B!At, B!HoldsPost
  <2>2. \/ posts' = posts
        \/ \E row \in B!SavedPost(req[r].id, req[r].ent, req[r].changed) :
              posts' = [posts EXCEPT ![req[r].id] = row]
    BY <1>14 DEF B!WritePost
  <2>3. ASSUME NEW row \in B!SavedPost(req[r].id, req[r].ent, req[r].changed),
               posts' = [posts EXCEPT ![req[r].id] = row], lastPost' = lastPost
        PROVE  PostsMove
    BY <2>1, <2>3, SavedPostTyped DEF PostsMove, B!TypeOK
  <2>4. PostsMove
    BY <1>14, <2>2, <2>3 DEF B!WritePost, PostsMove, B!TypeOK
  <2> QED BY <1>14, <2>4, AnswerTakes DEF B!WritePost, BlogsMove
<1>15. CASE B!RemovePost(r)
  <2>1. PostsMove
    BY <1>15 DEF B!RemovePost, PostsMove, B!TypeOK
  <2> QED BY <1>15, <2>1, AnswerTakes DEF B!RemovePost, BlogsMove
<1>16. ASSUME NEW u \in Users, NEW isBanned \in BOOLEAN, B!BanUnbanUser(r, u, isBanned)
       PROVE  BlogsMove /\ BlogsTaken /\ PostsTaken /\ PostsMove
  BY <1>16, TablesStay, AwaitTakes DEF B!BanUnbanUser, B!FindUser
<1>19. CASE B!UpdateUser(r)
  BY <1>19, TablesStay, AwaitTakes DEF B!UpdateUser, B!UpdateUserAnd
<1>17. CASE B!CommitBan(r)
  <2>1. \A b \in B!BlogId : blogs[b].owner = req[r].user =>
           /\ blogs[b] # B!NoBlog
           /\ [blogs[b] EXCEPT !.isBanned = req[r].isBanned].owner = blogs[b].owner
    BY <1>0, <1>a, <1>17, BlogRequestFields DEF B!CommitBan, B!CommitUser, B!At, B!TypeOK, B!BlogRow
  <2>2. BlogsMove
    BY <1>17, <2>1
       DEF B!CommitBan, B!SetBanUnbaneBlogByOwnerId, B!BlogsOf, B!OwnBlog, BlogsMove, B!TypeOK
  <2> QED BY <1>17, <2>2, AnswerTakes DEF B!CommitBan, B!CommitUser, PostsMove
<1>18. CASE B!Fail(r)
  BY <1>18, TablesStay, AnswerTakes DEF B!Fail
<1> QED BY <1>1, <1>2, <1>3, <1>4, <1>5, <1>6, <1>7, <1>8, <1>9, <1>10, <1>11, <1>12, <1>13, <1>14,
           <1>15, <1>16, <1>17, <1>18, <1>19 DEF B!RequestStep

LEMMA BlogsDeleteUserMoves ==
    ASSUME B!TypeOK, NEW u \in Users, B!DeleteUser(u)
    PROVE  BlogsMove /\ BlogsTaken /\ PostsTaken /\ PostsMove
<1>1. \A b \in B!BlogId : blogs[b].owner = u =>
         /\ blogs[b] # B!NoBlog
         /\ [blogs[b] EXCEPT !.owner = None].owner = None
  BY BlogFacts DEF B!TypeOK, B!BlogRow
<1>2. BlogsMove
  BY <1>1 DEF B!DeleteUser, B!OwnBlog, BlogsMove, B!TypeOK
<1> QED BY <1>2 DEF B!DeleteUser, BlogsTaken, PostsTaken, PostsMove

(***************************************************************************)
(* Part C.  Blogs: the invariant.                                          *)
(***************************************************************************)
\* A post that a ban hides is flagged, and so is every entity of it in hand.
HidingIsWhole ==
    \A b \in B!BlogId : \A p \in hidden[b] :
       /\ p \in B!PostId
       /\ posts[p] # B!NoPost /\ posts[p].blog = b /\ posts[p].isBanned = TRUE
       /\ \A q \in Requests : B!HoldsPost(q, p) => req[q].ent.isBanned = TRUE

\* A request that has a blog in hand and is no rival of its owner writes no other owner.
RivalsAreAll ==
    \A b \in B!BlogId, q \in Requests :
       /\ B!HoldsBlog(q, b) /\ q \notin rivals[b]
       /\ req[q].ent.owner \in Users /\ blogs[b].owner \in Users
       => req[q].ent.owner = blogs[b].owner

\* No row has an id that is still to come, and no row that is gone is there or in hand.
BlogIdsFresh ==
    /\ \A b \in B!BlogId : b > lastBlog => BlogGone(b)
    /\ \A p \in B!PostId : p > lastPost => PostGone(p)
BlogsStayGone ==
    /\ \A b \in B!BlogId : <<"blog", b>> \in gone => b <= lastBlog /\ BlogGone(b)
    /\ \A p \in B!PostId : <<"post", p>> \in gone => p <= lastPost /\ PostGone(p)

BlogInv ==
    /\ B!TypeOK
    /\ hidden \in [B!BlogId -> SUBSET B!PostId] /\ rivals \in [B!BlogId -> SUBSET Requests]
    /\ HidingIsWhole /\ RivalsAreAll /\ BlogIdsFresh /\ BlogsStayGone

\* One step towards OwnerKept.
OwnerStep ==
    \A b \in B!BlogId : blogs[b].owner \in Users /\ GotOwner(b) => \E r \in rivals[b] : B!HoldsBlog(r, b)

NewRivals == rivals' = [b \in B!BlogId |->
                {r \in Requests : B!HoldsBlog(r, b)' /\ (GotOwner(b) \/ r \in rivals[b])}]

LEMMA RivalsStep ==
    ASSUME BlogInv, BlogsMove, BlogsTaken, NewRivals
    PROVE  OwnerStep /\ RivalsAreAll' /\ rivals' \in [B!BlogId -> SUBSET Requests]
<1>1. ASSUME NEW b \in B!BlogId, blogs[b].owner \in Users, GotOwner(b)
      PROVE  \E r \in rivals[b] : B!HoldsBlog(r, b)
  <2>1. blogs'[b] # B!NoBlog /\ blogs'[b].owner \notin {blogs[b].owner, None}
    BY <1>1, BlogFacts DEF GotOwner
  <2>2. ~(lastBlog' = lastBlog + 1 /\ b = lastBlog')
    BY <1>1, BlogFacts DEF BlogInv, BlogIdsFresh, BlogGone, B!TypeOK
  <2>3. PICK q \in Requests : B!HoldsBlog(q, b) /\ blogs'[b].owner = req[q].ent.owner
    BY <2>1, <2>2 DEF BlogsMove
  <2> QED BY <1>1, <2>1, <2>3 DEF BlogInv, RivalsAreAll, GotOwner
<1>2. ASSUME NEW b \in B!BlogId, NEW q \in Requests,
             B!HoldsBlog(q, b)', q \notin rivals'[b],
             req'[q].ent.owner \in Users, blogs'[b].owner \in Users
      PROVE  req'[q].ent.owner = blogs'[b].owner
  <2>1. blogs'[b].owner = blogs[b].owner /\ q \notin rivals[b]
    BY <1>2 DEF NewRivals, GotOwner
  <2>2. CASE req'[q] = req[q]
    BY <1>2, <2>1, <2>2 DEF BlogInv, RivalsAreAll, B!HoldsBlog, B!At
  <2> QED BY <1>2, <2>1, <2>2 DEF BlogsTaken
<1>3. rivals' \in [B!BlogId -> SUBSET Requests]
  BY DEF NewRivals
<1> QED BY <1>1, <1>2, <1>3 DEF OwnerStep, RivalsAreAll

\* A post that is there after a step was there before, was in hand, or is new.
PostsStay ==
    /\ lastPost' \in {lastPost, lastPost + 1}
    /\ \A p \in B!PostId : posts'[p] # B!NoPost =>
          \/ posts[p] # B!NoPost
          \/ \E q \in Requests : B!HoldsPost(q, p)
          \/ lastPost' = lastPost + 1 /\ p = lastPost'

NewlyGone == gone' = gone \cup {<<"blog", b>> : b \in {b \in 1..lastBlog' : BlogGone(b)'}}
                          \cup {<<"post", p>> : p \in {p \in 1..lastPost' : PostGone(p)'}}

LEMMA GoneStep ==
    ASSUME BlogInv, B!TypeOK', BlogsMove, BlogsTaken, PostsStay, PostsTaken, NewlyGone
    PROVE  BlogIdsFresh' /\ BlogsStayGone'
<1>1. ASSUME NEW b \in B!BlogId, BlogGone(b), ~(lastBlog' = lastBlog + 1 /\ b = lastBlog')
      PROVE  BlogGone(b)'
  BY <1>1 DEF BlogGone, BlogsMove, BlogsTaken, B!HoldsBlog, B!At
<1>2. ASSUME NEW p \in B!PostId, PostGone(p), ~(lastPost' = lastPost + 1 /\ p = lastPost')
      PROVE  PostGone(p)'
  BY <1>2 DEF PostGone, PostsStay, PostsTaken, B!HoldsPost, B!At
<1>3. /\ lastBlog \in Nat /\ lastBlog' \in {lastBlog, lastBlog + 1}
      /\ lastPost \in Nat /\ lastPost' \in {lastPost, lastPost + 1}
      /\ \A b \in B!BlogId : b \in Nat
      /\ \A p \in B!PostId : p \in Nat
  BY BlogFacts DEF BlogInv, B!TypeOK, BlogsMove, PostsStay, B!BlogId, B!PostId
<1>4. BlogIdsFresh'
  BY <1>1, <1>2, <1>3 DEF BlogInv, BlogIdsFresh, B!BlogId, B!PostId
<1>5. ASSUME NEW b \in B!BlogId, <<"blog", b>> \in gone'
      PROVE  b <= lastBlog' /\ BlogGone(b)'
  <2>1. CASE <<"blog", b>> \in gone
    BY <1>1, <1>3, <2>1 DEF BlogInv, BlogsStayGone
  <2>2. CASE <<"blog", b>> \notin gone
    BY <1>5, <2>2, <1>3 DEF NewlyGone
  <2> QED BY <2>1, <2>2
<1>6. ASSUME NEW p \in B!PostId, <<"post", p>> \in gone'
      PROVE  p <= lastPost' /\ PostGone(p)'
  <2>1. CASE <<"post", p>> \in gone
    BY <1>2, <1>3, <2>1 DEF BlogInv, BlogsStayGone
  <2>2. CASE <<"post", p>> \notin gone
    BY <1>6, <2>2, <1>3 DEF NewlyGone
  <2> QED BY <2>1, <2>2
<1>7. BlogsStayGone'
  BY <1>5, <1>6 DEF BlogsStayGone, B!BlogId, B!PostId
<1> QED BY <1>4, <1>7

\* The posts that are still hidden when a step moves posts but flags none.
LEMMA HiddenStep ==
    ASSUME BlogInv, PostsMove, PostsTaken, hidden' = [b \in B!BlogId |-> StillThere(b, hidden[b])]
    PROVE  HidingIsWhole' /\ hidden' \in [B!BlogId -> SUBSET B!PostId]
<1>1. ASSUME NEW b \in B!BlogId, NEW p \in hidden'[b]
      PROVE  /\ p \in B!PostId /\ posts'[p] # B!NoPost /\ posts'[p].blog = b
             /\ posts'[p].isBanned = TRUE
             /\ \A q \in Requests : B!HoldsPost(q, p)' => req'[q].ent.isBanned = TRUE
  <2>1. p \in hidden[b] /\ posts'[p] # B!NoPost /\ posts'[p].blog = b
    BY <1>1 DEF StillThere
  <2>2. /\ p \in B!PostId /\ posts[p] # B!NoPost /\ posts[p].isBanned = TRUE
        /\ \A q \in Requests : B!HoldsPost(q, p) => req[q].ent.isBanned = TRUE
    BY <2>1 DEF BlogInv, HidingIsWhole
  <2>3. ~(lastPost' = lastPost + 1 /\ p = lastPost')
    BY <2>2 DEF BlogInv, BlogIdsFresh, PostGone, B!TypeOK
  <2>4. posts'[p].isBanned = TRUE
    BY <2>1, <2>2, <2>3 DEF PostsMove
  <2>5. ASSUME NEW q \in Requests, B!HoldsPost(q, p)'
        PROVE  req'[q].ent.isBanned = TRUE
    BY <2>2, <2>5 DEF PostsTaken, B!HoldsPost, B!At
  <2> QED BY <2>1, <2>2, <2>4, <2>5
<1>2. hidden' \in [B!BlogId -> SUBSET B!PostId]
  BY DEF BlogInv, StillThere
<1> QED BY <1>1, <1>2 DEF HidingIsWhole, B!BlogId, B!PostId

\* The ban of a blog hides its posts, but for those that a request has in hand.
LEMMA FlagPostsHides ==
    ASSUME BlogInv, NEW r \in Requests, B!FlagPosts(r),
           hidden' = [b \in B!BlogId |-> StillThere(b, Hide(r)[b])]
    PROVE  HidingIsWhole' /\ hidden' \in [B!BlogId -> SUBSET B!PostId]
<1> PICK i, flag : i = req[r].id /\ flag = req[r].isBanned
  OBVIOUS
<1>1. i \in B!BlogId /\ flag \in BOOLEAN /\ B!At(r, "flagPosts")
  BY BlogRequestFields DEF BlogInv, B!TypeOK, B!FlagPosts, B!At
<1>2. \A q \in Requests : \A p : B!HoldsPost(q, p)' => B!HoldsPost(q, p) /\ req'[q] = req[q]
  BY DEF BlogInv, B!TypeOK, B!FlagPosts, B!Answer, B!Await, B!Idle, B!HoldsPost, B!At
<1>3. /\ \A p \in B!PostsOf(i) : posts'[p].isBanned = flag
      /\ \A p \in B!PostId : p \notin B!PostsOf(i) => posts'[p] = posts[p]
  BY DEF BlogInv, B!TypeOK, B!FlagPosts, B!PostsOf, B!PostRow
<1>4. Hide(r)[i] = IF flag THEN {p \in B!PostsOf(i) : \A q \in Requests : ~B!HoldsPost(q, p)} ELSE {}
  BY <1>1 DEF Hide, BlogInv
<1>5. \A b \in B!BlogId : b # i => Hide(r)[b] = hidden[b]
  BY <1>1 DEF Hide, BlogInv
<1>6. ASSUME NEW b \in B!BlogId, NEW p \in hidden'[b]
      PROVE  /\ p \in B!PostId /\ posts'[p] # B!NoPost /\ posts'[p].blog = b
             /\ posts'[p].isBanned = TRUE
             /\ \A q \in Requests : B!HoldsPost(q, p)' => req'[q].ent.isBanned = TRUE
  <2>1. p \in Hide(r)[b] /\ posts'[p] # B!NoPost /\ posts'[p].blog = b
    BY <1>6 DEF StillThere
  <2>2. CASE b = i
    <3>1. flag = TRUE /\ p \in B!PostsOf(i) /\ \A q \in Requests : ~B!HoldsPost(q, p)
      BY <1>1, <1>4, <2>1, <2>2
    <3> QED BY <1>2, <1>3, <2>1, <3>1 DEF B!PostsOf
  <2>3. CASE b # i
    <3>1. p \in hidden[b]
      BY <1>5, <2>1, <2>3
    <3>2. /\ p \in B!PostId /\ p \notin B!PostsOf(i) /\ posts[p].isBanned = TRUE
          /\ \A q \in Requests : B!HoldsPost(q, p) => req[q].ent.isBanned = TRUE
      BY <2>3, <3>1 DEF BlogInv, HidingIsWhole, B!PostsOf
    <3> QED BY <1>2, <1>3, <2>1, <3>2
  <2> QED BY <2>2, <2>3
<1>7. hidden' \in [B!BlogId -> SUBSET B!PostId]
  <2>1. \A b \in B!BlogId : Hide(r)[b] \subseteq B!PostId
    BY <1>4, <1>5 DEF BlogInv, B!PostsOf
  <2> QED BY <2>1 DEF StillThere
<1> QED BY <1>6, <1>7 DEF HidingIsWhole, B!BlogId, B!PostId

\* Every step of the blogs keeps the invariant, and is one that OwnerKept allows.
LEMMA BlogStepKeeps ==
    ASSUME BlogInv, BlogStep
    PROVE  BlogInv' /\ OwnerStep
<1>1. NewlyGone
  BY DEF BlogStep, NewlyGone
<1>2. ASSUME B!TypeOK', BlogsMove, BlogsTaken, PostsMove, PostsTaken, BlogHistory(hidden)
      PROVE  BlogInv' /\ OwnerStep
  <2>1. PostsStay
    BY <1>2 DEF PostsMove, PostsStay
  <2> QED BY <1>1, <1>2, <2>1, RivalsStep, GoneStep, HiddenStep DEF BlogHistory, NewRivals, BlogInv
<1>3. ASSUME NEW r \in Requests, B!FlagPosts(r), BlogHistory(Hide(r))
      PROVE  BlogInv' /\ OwnerStep
  <2>1. B!RequestStep(r)
    BY <1>3 DEF B!RequestStep
  <2>2. B!TypeOK' /\ BlogsMove /\ BlogsTaken /\ PostsTaken
    BY <2>1, BlogStepTyped, BlogStepMoves DEF BlogInv
  <2>3. PostsStay
    BY <1>3 DEF B!FlagPosts, PostsStay, B!PostsOf
  <2> QED BY <1>1, <1>3, <2>2, <2>3, RivalsStep, GoneStep, FlagPostsHides
          DEF BlogHistory, NewRivals, BlogInv
<1>4. ASSUME NEW r \in Requests, ~B!FlagPosts(r), B!RequestStep(r), BlogHistory(hidden)
      PROVE  BlogInv' /\ OwnerStep
  BY <1>2, <1>4, BlogStepTyped, BlogStepMoves DEF BlogInv
<1>5. ASSUME NEW u \in Users, B!DeleteUser(u), BlogHistory(hidden)
      PROVE  BlogInv' /\ OwnerStep
  BY <1>2, <1>5, BlogsDeleteUserTyped, BlogsDeleteUserMoves DEF BlogInv
<1>6. ASSUME NEW r \in Requests, B!Fail(r), BlogHistory(hidden)
      PROVE  BlogInv' /\ OwnerStep
  <2>1. B!TypeOK'
    BY <1>6, AnswerTyped DEF BlogInv, B!Fail, B!tables, B!UsersTyped, B!TypeOK
  <2> QED BY <1>2, <1>6, <2>1, TablesStay, AnswerTakes DEF B!Fail, BlogInv
<1> QED BY <1>3, <1>4, <1>5, <1>6 DEF BlogStep, B!FlagPosts

(***************************************************************************)
(* Part D.  Comments: types.                                               *)
(***************************************************************************)
LEMMA CommentRequestFields ==
    ASSUME NEW s \in C!Request
    PROVE  /\ s.pc = "findBan" => s.post \in CommentedPosts /\ s.user \in Users /\ s.blog \in CommentedBlogs
           /\ s.pc = "insertComment" => s.post \in CommentedPosts /\ s.user \in Users
           /\ s.pc = "saveComment" => s.id \in C!CommentId /\ s.ent \in C!CommentRow
           /\ s.pc = "deleteComment" => s.id \in C!CommentId
           /\ s.pc = "insertBan" => s.ent \in C!BanRow
           /\ s.pc = "saveBan" => s.id \in C!BanId /\ s.isBanned \in BOOLEAN
           /\ s.pc = "updateUser" => s.user \in Users /\ s.isBanned \in BOOLEAN
           /\ s.pc = "commitBan" => /\ s.user \in Users /\ s.isBanned \in BOOLEAN
                                     /\ s.draft \in {"none", "active", "banned"}
  BY DEF C!Request, C!BanRequest

LEMMA CommentFacts ==
    /\ MaxComment \in Nat \ {0} /\ MaxBan \in Nat \ {0}
    /\ None \notin Users /\ None \notin CommentedBlogs /\ None \notin CommentedPosts
    /\ C!NoComment.user = None /\ C!NoBan.bannedUser = None
    /\ \A e \in C!CommentRow : e # C!NoComment
    /\ \A e \in C!BanRow : e # C!NoBan
  BY ModerationConstants
     DEF C!CommentConstants, C!NoComment, C!CommentRow, C!BanRow, C!NoBan

LEMMA CommentRequests ==
    /\ C!Idle \in C!Request
    /\ \A p \in CommentedPosts, u \in Users, b \in CommentedBlogs :
          [pc |-> "findBan", post |-> p, user |-> u, blog |-> b] \in C!Request
    /\ \A p \in CommentedPosts, u \in Users :
          [pc |-> "insertComment", post |-> p, user |-> u] \in C!Request
    /\ \A c \in C!CommentId, ent \in C!CommentRow :
          [pc |-> "saveComment", id |-> c, ent |-> ent] \in C!Request
    /\ \A c \in C!CommentId : [pc |-> "deleteComment", id |-> c] \in C!Request
    /\ \A ent \in C!BanRow : [pc |-> "insertBan", ent |-> ent] \in C!Request
    /\ \A i \in C!BanId, f \in BOOLEAN :
          [pc |-> "saveBan", id |-> i, isBanned |-> f] \in C!Request
    /\ \A u \in Users, f \in BOOLEAN, w \in BOOLEAN :
          [pc |-> "updateUser", user |-> u, isBanned |-> f, changed |-> w] \in C!Request
    /\ \A u \in Users, f \in BOOLEAN, d \in {"none", "active", "banned"}, rows \in SUBSET C!CommentId :
          [pc |-> "commitBan", user |-> u, isBanned |-> f, draft |-> d, rows |-> rows] \in C!Request
  BY DEF C!Request, C!BanRequest, C!Idle

LEMMA CommentAwaitTyped ==
    ASSUME C!TypeOK, NEW r \in Requests, NEW s \in C!Request, C!Await(r, s)
    PROVE  req' \in [Requests -> C!Request]
  BY DEF C!TypeOK, C!Await

LEMMA CommentAnswerTyped ==
    ASSUME C!TypeOK, NEW r \in Requests, C!Answer(r)
    PROVE  req' \in [Requests -> C!Request]
  BY CommentRequests, CommentAwaitTyped DEF C!Answer

LEMMA CommentDraftTyped ==
    ASSUME C!TypeOK, NEW r \in Requests, req[r].user \in Users, req[r].isBanned \in BOOLEAN
    PROVE  C!Draft(r) \in {"none", "active", "banned"}
  BY DEF C!Draft, C!Target, C!TypeOK, C!UsersTyped

LEMMA CommentStepTyped ==
    ASSUME C!TypeOK, NEW r \in Requests, C!RequestStep(r)
    PROVE  C!TypeOK'
<1> USE DEF C!tables, C!UsersTyped
<1>0. req[r] \in C!Request
  BY DEF C!TypeOK
<1>a. \A c \in C!CommentId, u \in Users : comments[c].user = u => comments[c] \in C!CommentRow
  BY CommentFacts DEF C!TypeOK
<1>1. ASSUME NEW b \in CommentedBlogs, NEW u \in Users, NEW isBanned \in BOOLEAN,
             C!BloggerBanUnbanUser(r, b, u, isBanned)
      PROVE  C!TypeOK'
  <2>1. [blog |-> b, bannedUser |-> u, isBanned |-> isBanned] \in C!BanRow
    BY DEF C!BanRow
  <2>2. C!FindBannedUserByBlogIdAndUserId(b, u) \subseteq C!BanId
    BY DEF C!FindBannedUserByBlogIdAndUserId
  <2>3. req' \in [Requests -> C!Request]
    BY <1>1, <2>1, <2>2, CommentRequests, CommentAwaitTyped DEF C!BloggerBanUnbanUser
  <2> QED BY <1>1, <2>3 DEF C!BloggerBanUnbanUser, C!TypeOK
<1>2. CASE C!CreateBloggerBannedUsers(r)
  <2>1. req[r].ent \in C!BanRow
    BY <1>0, <1>2, CommentRequestFields DEF C!CreateBloggerBannedUsers, C!At
  <2>2. lastBan < MaxBan => lastBan + 1 \in C!BanId /\ lastBan + 1 \in 0..MaxBan
    BY CommentFacts DEF C!TypeOK, C!BanId
  <2>3. lastBan' \in 0..MaxBan /\ bans' \in [C!BanId -> C!BanRow \cup {C!NoBan}]
    BY <1>2, <2>1, <2>2 DEF C!CreateBloggerBannedUsers, C!TypeOK
  <2> QED BY <1>2, <2>3, CommentAnswerTyped DEF C!CreateBloggerBannedUsers, C!TypeOK
<1>3. CASE C!SaveBloggerBannedUser(r)
  <2> PICK i, flag : i = req[r].id /\ flag = req[r].isBanned
    OBVIOUS
  <2>1. i \in C!BanId /\ flag \in BOOLEAN
    BY <1>0, <1>3, CommentRequestFields DEF C!SaveBloggerBannedUser, C!At
  <2>2. bans' = IF bans[i] = C!NoBan THEN bans
                ELSE [bans EXCEPT ![i] = [bans[i] EXCEPT !.isBanned = flag]]
    BY <1>3 DEF C!SaveBloggerBannedUser
  <2>3. bans[i] # C!NoBan => [bans[i] EXCEPT !.isBanned = flag] \in C!BanRow
    BY <2>1 DEF C!TypeOK, C!BanRow
  <2>4. bans' \in [C!BanId -> C!BanRow \cup {C!NoBan}]
    BY <2>1, <2>2, <2>3 DEF C!TypeOK
  <2> QED BY <1>3, <2>4, CommentAnswerTyped DEF C!SaveBloggerBannedUser, C!TypeOK
<1>4. ASSUME NEW p \in CommentedPosts, NEW u \in Users, C!CreateCommentByPostId(r, p, u)
      PROVE  C!TypeOK'
  <2>1. postBlog[p] \in CommentedBlogs
    BY <1>4 DEF C!CreateCommentByPostId, C!TypeOK
  <2> QED BY <1>4, <2>1, CommentRequests, CommentAwaitTyped DEF C!CreateCommentByPostId, C!TypeOK
<1>5. CASE C!CheckBan(r)
  <2>1. req[r].post \in CommentedPosts /\ req[r].user \in Users
    BY <1>0, <1>5, CommentRequestFields DEF C!CheckBan, C!At
  <2>2. req' \in [Requests -> C!Request]
    BY <1>5, <2>1, CommentRequests, CommentAwaitTyped, CommentAnswerTyped DEF C!CheckBan
  <2> QED BY <1>5, <2>2 DEF C!CheckBan, C!TypeOK
<1>6. CASE C!InsertComment(r)
  <2>1. [post |-> req[r].post, user |-> req[r].user, isBanned |-> FALSE] \in C!CommentRow
    BY <1>0, <1>6, CommentRequestFields DEF C!InsertComment, C!At, C!CommentRow
  <2>2. lastComment < MaxComment => lastComment + 1 \in C!CommentId /\ lastComment + 1 \in 0..MaxComment
    BY CommentFacts DEF C!TypeOK, C!CommentId
  <2>3. /\ lastComment' \in 0..MaxComment
        /\ comments' \in [C!CommentId -> C!CommentRow \cup {C!NoComment}]
    BY <1>6, <2>1, <2>2 DEF C!InsertComment, C!TypeOK
  <2> QED BY <1>6, <2>3, CommentAnswerTyped DEF C!InsertComment, C!TypeOK
<1>7. ASSUME NEW c \in C!CommentId, NEW u \in Users,
             C!UpdateCommentById(r, c, u) \/ C!DeleteCommentById(r, c, u)
      PROVE  C!TypeOK'
  <2>1. req' \in [Requests -> C!Request]
    BY <1>7, <1>a, CommentRequests, CommentAwaitTyped DEF C!UpdateCommentById, C!DeleteCommentById
  <2> QED BY <1>7, <2>1 DEF C!UpdateCommentById, C!DeleteCommentById, C!TypeOK
<1>8. CASE C!SaveComment(r)
  <2>1. req[r].ent \in C!CommentRow
    BY <1>0, <1>8, CommentRequestFields DEF C!SaveComment, C!At
  <2>2. comments' \in [C!CommentId -> C!CommentRow \cup {C!NoComment}]
    BY <1>8, <2>1 DEF C!SaveComment, C!TypeOK
  <2> QED BY <1>8, <2>2, CommentAnswerTyped DEF C!SaveComment, C!TypeOK
<1>9. CASE C!RemoveComment(r)
  BY <1>9, CommentAnswerTyped DEF C!RemoveComment, C!TypeOK
<1>10. ASSUME NEW u \in Users, NEW isBanned \in BOOLEAN, C!BanUnbanUser(r, u, isBanned)
       PROVE  C!TypeOK'
  BY <1>10, CommentRequests, CommentAwaitTyped DEF C!BanUnbanUser, C!FindUser, C!TypeOK
<1>13. CASE C!UpdateUser(r)
  <2>1. req[r].user \in Users /\ req[r].isBanned \in BOOLEAN
    BY <1>0, <1>13, CommentRequestFields DEF C!UpdateUser, C!UpdateUserAnd, C!At
  <2>2. C!Draft(r) \in {"none", "active", "banned"} /\ C!WrittenBy(req[r].user) \in SUBSET C!CommentId
    BY <2>1, CommentDraftTyped DEF C!WrittenBy
  <2> QED BY <1>13, <2>1, <2>2, CommentRequests, CommentAwaitTyped
          DEF C!UpdateUser, C!UpdateUserAnd, C!TypeOK
<1>11. CASE C!CommitBan(r)
  <2>1. /\ req[r].user \in Users /\ req[r].isBanned \in BOOLEAN
        /\ req[r].draft \in {"none", "active", "banned"}
    BY <1>0, <1>11, CommentRequestFields DEF C!CommitBan, C!CommitUser, C!At
  <2>2. \A c \in C!CommentId : comments[c].user = req[r].user =>
           [comments[c] EXCEPT !.isBanned = req[r].isBanned] \in C!CommentRow
    BY <1>a, <2>1 DEF C!CommentRow
  <2>3. comments' \in [C!CommentId -> C!CommentRow \cup {C!NoComment}]
    BY <1>11, <2>2 DEF C!CommitBan, C!UpdateBanUnban, C!WrittenBy, C!TypeOK
  <2>4. users' \in [Users -> {"active", "banned", "deleted"}]
    BY <1>11, <2>1 DEF C!CommitBan, C!CommitUser, C!TypeOK
  <2> QED BY <1>11, <2>3, <2>4, CommentAnswerTyped DEF C!CommitBan, C!CommitUser, C!TypeOK
<1>12. CASE C!Fail(r)
  BY <1>12, CommentAnswerTyped DEF C!Fail, C!TypeOK
<1> QED BY <1>1, <1>2, <1>3, <1>4, <1>5, <1>6, <1>7, <1>8, <1>9, <1>10, <1>11, <1>12, <1>13
        DEF C!RequestStep

\* A user or a post is deleted, or a post moved.
CommentsOutside ==
    \/ \E u \in Users : C!DeleteUser(u)
    \/ \E p \in CommentedPosts : C!DeletePost(p)
    \/ \E p \in CommentedPosts, b \in CommentedBlogs : C!MovePost(p, b)

LEMMA CommentsOutsideTyped ==
    ASSUME C!TypeOK, CommentsOutside
    PROVE  C!TypeOK'
<1>1. ASSUME NEW u \in Users, C!DeleteUser(u)
      PROVE  C!TypeOK'
  BY <1>1 DEF C!DeleteUser, C!UsersTyped, C!TypeOK
<1>2. ASSUME NEW p \in CommentedPosts, C!DeletePost(p)
      PROVE  C!TypeOK'
  BY <1>2 DEF C!DeletePost, C!UsersTyped, C!TypeOK
<1>3. ASSUME NEW p \in CommentedPosts, NEW b \in CommentedBlogs, C!MovePost(p, b)
      PROVE  C!TypeOK'
  BY <1>3 DEF C!MovePost, C!UsersTyped, C!TypeOK
<1> QED BY <1>1, <1>2, <1>3 DEF CommentsOutside

(***************************************************************************)
(* Part E.  Comments: what one step does to a comment, to one in hand and  *)
(* to its author.                                                          *)
(***************************************************************************)
\* A comment that is there after a step was there before, was in hand, or is new.
CommentsStay ==
    /\ lastComment' \in {lastComment, lastComment + 1}
    /\ \A c \in C!CommentId : comments'[c] # C!NoComment =>
          \/ /\ comments[c] # C!NoComment
             /\ comments'[c].user = comments[c].user /\ comments'[c].post = comments[c].post
          \/ \E q \in Requests : C!HoldsComment(q, c) /\ comments'[c] = req[q].ent
          \/ /\ lastComment' = lastComment + 1 /\ c = lastComment'
             /\ \E q \in Requests : /\ C!At(q, "insertComment")
                                    /\ comments'[c].user = req[q].user /\ comments'[c].post = req[q].post

\* But for the ban of a user, no step changes the flag of a comment or of a user who stays.
FlagsMove ==
    /\ \A c \in C!CommentId : comments'[c] # C!NoComment =>
          \/ comments'[c] = comments[c]
          \/ \E q \in Requests : /\ C!HoldsComment(q, c) /\ comments'[c] = req[q].ent
                                 /\ C!Exists(req[q].ent.user)
          \/ /\ lastComment' = lastComment + 1 /\ c = lastComment'
             /\ comments'[c].isBanned = FALSE /\ C!Exists(comments'[c].user)
    /\ \A u \in Users : \/ users'[u] = users[u]
                        \/ users'[u] = "deleted" /\ \A c \in C!CommentId : comments'[c].user # u

\* A comment a request has in hand it had before, or found as it is.
CommentsTaken ==
    \A q \in Requests, c \in C!CommentId : C!HoldsComment(q, c)' =>
       \/ req'[q] = req[q]
       \/ /\ comments' = comments /\ users' = users /\ comments[c] # C!NoComment
          /\ req'[q].ent = comments[c]

\* While there is a ban and the post stays in its blog, no request gets past the check.
ChecksHold ==
    \A u \in Users, p \in CommentedPosts :
       C!HasBan(u, p) /\ postBlog'[p] = postBlog[p] => C!PastCheck(u, p)' \subseteq C!PastCheck(u, p)

LEMMA CommentAwaitTakes ==
    ASSUME C!TypeOK, NEW r \in Requests, NEW s, C!Await(r, s)
    PROVE  /\ s.pc # "saveComment" => CommentsTaken
           /\ s.pc \notin {"findBan", "insertComment"} => ChecksHold
           /\ /\ s.pc = "saveComment" /\ UNCHANGED <<comments, users>>
              /\ comments[s.id] # C!NoComment /\ s.ent = comments[s.id]
              => CommentsTaken
<1>1. req'[r] = s /\ \A q \in Requests : q # r => req'[q] = req[q]
  BY DEF C!TypeOK, C!Await
<1>2. s.pc # "saveComment" => CommentsTaken
  BY <1>1 DEF CommentsTaken, C!HoldsComment, C!At
<1>3. ASSUME s.pc = "saveComment", UNCHANGED <<comments, users>>,
             comments[s.id] # C!NoComment, s.ent = comments[s.id]
      PROVE  CommentsTaken
  BY <1>1, <1>3 DEF CommentsTaken, C!HoldsComment, C!At
<1>4. s.pc \notin {"findBan", "insertComment"} => ChecksHold
  BY <1>1 DEF ChecksHold, C!PastCheck
<1> QED BY <1>2, <1>3, <1>4

LEMMA CommentAnswerTakes ==
    ASSUME C!TypeOK, NEW r \in Requests, C!Answer(r)
    PROVE  CommentsTaken /\ ChecksHold
  BY CommentAwaitTakes DEF C!Answer, C!Idle

LEMMA CommentTablesStay ==
    ASSUME C!TypeOK, UNCHANGED <<users, comments, lastComment>>
    PROVE  CommentsStay /\ FlagsMove
  BY DEF CommentsStay, FlagsMove, C!TypeOK

LEMMA CheckBanHolds ==
    ASSUME C!TypeOK, NEW r \in Requests, C!CheckBan(r)
    PROVE  ChecksHold
<1>1. CASE C!Answer(r)
  BY <1>1, CommentAnswerTakes
<1>2. ASSUME C!FindBannedUserByBlogIdAndUserId(req[r].blog, req[r].user) = {},
             C!Await(r, [pc |-> "insertComment", post |-> req[r].post, user |-> req[r].user])
      PROVE  ChecksHold
  <2>1. /\ req'[r] = [pc |-> "insertComment", post |-> req[r].post, user |-> req[r].user]
        /\ \A q \in Requests : q # r => req'[q] = req[q]
        /\ postBlog' = postBlog /\ req[r].pc = "findBan"
    BY <1>2 DEF C!TypeOK, C!Await, C!CheckBan, C!tables, C!At
  <2>2. ASSUME NEW u \in Users, NEW p \in CommentedPosts, C!HasBan(u, p), r \in C!PastCheck(u, p)'
        PROVE  r \in C!PastCheck(u, p)
    <3>1. req[r].user = u /\ req[r].post = p
      BY <2>1, <2>2 DEF C!PastCheck
    <3>2. req[r].blog # postBlog[p]
      BY <1>2, <2>2, <3>1 DEF C!HasBan, C!FindBannedUserByBlogIdAndUserId
    <3> QED BY <2>1, <3>1, <3>2 DEF C!PastCheck
  <2>3. ASSUME NEW u \in Users, NEW p \in CommentedPosts, NEW q \in Requests, q # r,
               q \in C!PastCheck(u, p)'
        PROVE  q \in C!PastCheck(u, p)
    BY <2>1, <2>3 DEF C!PastCheck
  <2>4. \A u \in Users, p \in CommentedPosts : C!PastCheck(u, p)' \subseteq Requests
    BY DEF C!PastCheck
  <2> QED BY <2>2, <2>3, <2>4 DEF ChecksHold
<1> QED BY <1>1, <1>2 DEF C!CheckBan

LEMMA CommentStepMoves ==
    ASSUME C!TypeOK, NEW r \in Requests, C!RequestStep(r)
    PROVE  /\ CommentsStay /\ CommentsTaken /\ ChecksHold
           /\ FlagsMove \/ C!CommitBan(r)
<1> USE DEF C!tables
<1>0. req[r] \in C!Request
  BY DEF C!TypeOK
<1>1. ASSUME NEW b \in CommentedBlogs, NEW u \in Users, NEW isBanned \in BOOLEAN,
             C!BloggerBanUnbanUser(r, b, u, isBanned)
      PROVE  CommentsStay /\ CommentsTaken /\ ChecksHold /\ FlagsMove
  <2>1. PICK s : s.pc \in {"insertBan", "saveBan"} /\ C!Await(r, s)
    <3>1. ASSUME NEW i, C!Await(r, [pc |-> "saveBan", id |-> i, isBanned |-> isBanned])
          PROVE  \E s : s.pc \in {"insertBan", "saveBan"} /\ C!Await(r, s)
      <4> WITNESS [pc |-> "saveBan", id |-> i, isBanned |-> isBanned]
      <4> QED BY <3>1
    <3>2. ASSUME NEW ent, C!Await(r, [pc |-> "insertBan", ent |-> ent])
          PROVE  \E s : s.pc \in {"insertBan", "saveBan"} /\ C!Await(r, s)
      <4> WITNESS [pc |-> "insertBan", ent |-> ent]
      <4> QED BY <3>2
    <3> QED BY <1>1, <3>1, <3>2 DEF C!BloggerBanUnbanUser
  <2>2. CommentsTaken /\ ChecksHold
    BY <2>1, CommentAwaitTakes
  <2> QED BY <1>1, <2>2, CommentTablesStay DEF C!BloggerBanUnbanUser
<1>2. CASE C!CreateBloggerBannedUsers(r) \/ C!SaveBloggerBannedUser(r)
  BY <1>2, CommentTablesStay, CommentAnswerTakes
     DEF C!CreateBloggerBannedUsers, C!SaveBloggerBannedUser
<1>4. ASSUME NEW p \in CommentedPosts, NEW u \in Users, C!CreateCommentByPostId(r, p, u)
      PROVE  CommentsStay /\ CommentsTaken /\ ChecksHold /\ FlagsMove
  <2>1. CommentsTaken
    BY <1>4, CommentAwaitTakes DEF C!CreateCommentByPostId
  <2>2. ChecksHold
    <3>1. /\ req'[r] = [pc |-> "findBan", post |-> p, user |-> u, blog |-> postBlog[p]]
          /\ \A q \in Requests : q # r => req'[q] = req[q]
          /\ postBlog' = postBlog
      BY <1>4 DEF C!TypeOK, C!Await, C!CreateCommentByPostId
    <3> QED BY <3>1 DEF ChecksHold, C!PastCheck
  <2> QED BY <1>4, <2>1, <2>2, CommentTablesStay DEF C!CreateCommentByPostId
<1>5. CASE C!CheckBan(r)
  <2>1. CommentsTaken
    BY <1>5, CommentAwaitTakes, CommentAnswerTakes DEF C!CheckBan
  <2> QED BY <1>5, <2>1, CheckBanHolds, CommentTablesStay DEF C!CheckBan
<1>6. CASE C!InsertComment(r)
  <2> PICK e : e = [post |-> req[r].post, user |-> req[r].user, isBanned |-> FALSE]
    OBVIOUS
  <2>1. e.user = req[r].user /\ e.post = req[r].post /\ e.isBanned = FALSE /\ C!At(r, "insertComment")
    BY <1>6 DEF C!InsertComment
  <2>2. \/ UNCHANGED <<users, comments, lastComment>>
        \/ /\ lastComment' = lastComment + 1 /\ users' = users /\ C!Exists(e.user)
           /\ comments' = [comments EXCEPT ![lastComment'] = e]
    BY <1>6, <2>1 DEF C!InsertComment, C!CanInsert
  <2>3. CommentsStay /\ FlagsMove
    BY <2>1, <2>2, CommentTablesStay DEF CommentsStay, FlagsMove, C!TypeOK
  <2> QED BY <1>6, <2>3, CommentAnswerTakes DEF C!InsertComment
<1>7. ASSUME NEW c \in C!CommentId, NEW u \in Users,
             C!UpdateCommentById(r, c, u) \/ C!DeleteCommentById(r, c, u)
      PROVE  CommentsStay /\ CommentsTaken /\ ChecksHold /\ FlagsMove
  <2>1. CommentsTaken /\ ChecksHold
    BY <1>7, CommentFacts, CommentAwaitTakes DEF C!UpdateCommentById, C!DeleteCommentById
  <2> QED BY <1>7, <2>1, CommentTablesStay DEF C!UpdateCommentById, C!DeleteCommentById
<1>8. CASE C!SaveComment(r)
  <2>1. req[r].id \in C!CommentId /\ C!HoldsComment(r, req[r].id)
    BY <1>0, <1>8, CommentRequestFields DEF C!SaveComment, C!At, C!HoldsComment
  <2>2. CommentsStay /\ FlagsMove
    BY <1>8, <2>1 DEF C!SaveComment, C!CanInsert, CommentsStay, FlagsMove, C!TypeOK, C!HoldsComment
  <2> QED BY <1>8, <2>2, CommentAnswerTakes DEF C!SaveComment
<1>9. CASE C!RemoveComment(r)
  <2>1. CommentsStay /\ FlagsMove
    BY <1>9 DEF C!RemoveComment, CommentsStay, FlagsMove, C!TypeOK
  <2> QED BY <1>9, <2>1, CommentAnswerTakes DEF C!RemoveComment
<1>10. ASSUME NEW u \in Users, NEW isBanned \in BOOLEAN, C!BanUnbanUser(r, u, isBanned)
       PROVE  CommentsStay /\ CommentsTaken /\ ChecksHold /\ FlagsMove
  BY <1>10, CommentTablesStay, CommentAwaitTakes DEF C!BanUnbanUser, C!FindUser
<1>13. CASE C!UpdateUser(r)
  BY <1>13, CommentTablesStay, CommentAwaitTakes DEF C!UpdateUser, C!UpdateUserAnd
<1>11. CASE C!CommitBan(r)
  <2>1. \A c \in C!CommentId : comments[c].user = req[r].user =>
           /\ comments[c] # C!NoComment
           /\ [comments[c] EXCEPT !.isBanned = req[r].isBanned].user = comments[c].user
           /\ [comments[c] EXCEPT !.isBanned = req[r].isBanned].post = comments[c].post
    BY <1>0, <1>11, CommentFacts, CommentRequestFields
       DEF C!CommitBan, C!CommitUser, C!At, C!TypeOK, C!CommentRow
  <2>2. CommentsStay
    BY <1>11, <2>1 DEF C!CommitBan, C!UpdateBanUnban, C!WrittenBy, CommentsStay, C!TypeOK
  <2> QED BY <1>11, <2>2, CommentAnswerTakes DEF C!CommitBan, C!CommitUser
<1>12. CASE C!Fail(r)
  BY <1>12, CommentTablesStay, CommentAnswerTakes DEF C!Fail
<1> QED BY <1>1, <1>2, <1>4, <1>5, <1>6, <1>7, <1>8, <1>9, <1>10, <1>11, <1>12, <1>13
        DEF C!RequestStep

LEMMA CommentsOutsideMoves ==
    ASSUME C!TypeOK, CommentsOutside
    PROVE  CommentsStay /\ FlagsMove /\ CommentsTaken /\ ChecksHold
<1>1. req' = req
  BY DEF CommentsOutside, C!DeleteUser, C!DeletePost, C!MovePost
<1>2. CommentsTaken /\ ChecksHold
  BY <1>1 DEF CommentsTaken, ChecksHold, C!PastCheck
<1>3. ASSUME NEW u \in Users, C!DeleteUser(u)
      PROVE  CommentsStay /\ FlagsMove
  <2>1. \A c \in C!CommentId : comments'[c].user # u
    BY <1>3, CommentFacts DEF C!DeleteUser, C!TypeOK
  <2> QED BY <1>3, <2>1 DEF C!DeleteUser, CommentsStay, FlagsMove, C!TypeOK
<1>4. ASSUME NEW p \in CommentedPosts, C!DeletePost(p)
      PROVE  CommentsStay /\ FlagsMove
  BY <1>4 DEF C!DeletePost, CommentsStay, FlagsMove, C!TypeOK
<1>5. ASSUME NEW p \in CommentedPosts, NEW b \in CommentedBlogs, C!MovePost(p, b)
      PROVE  CommentsStay /\ FlagsMove
  BY <1>5, CommentTablesStay DEF C!MovePost
<1> QED BY <1>2, <1>3, <1>4, <1>5 DEF CommentsOutside

(***************************************************************************)
(* Part F.  Comments: the invariant.                                       *)
(***************************************************************************)
\* A comment and all that is in hand of it have one author.
OneAuthor ==
    \A c \in C!CommentId, q \in Requests : C!HoldsComment(q, c) =>
       /\ comments[c] # C!NoComment => req[q].ent.user = comments[c].user
       /\ \A o \in Requests : C!HoldsComment(o, c) => req[o].ent.user = req[q].ent.user

\* A comment that is not loose is flagged as its author is, and so is what is in hand of it
\* while he exists.
FlaggedWithAuthor ==
    \A c \in C!CommentId \ loose :
       /\ comments[c] # C!NoComment => comments[c].isBanned = (users[comments[c].user] = "banned")
       /\ \A q \in Requests : C!HoldsComment(q, c) /\ C!Exists(req[q].ent.user) =>
             req[q].ent.isBanned = (users[req[q].ent.user] = "banned")

CommentIdsFresh == \A c \in C!CommentId : c > lastComment => CommentGone(c)
CommentsStayGone ==
    \A c \in C!CommentId : <<"comment", c>> \in gone => c <= lastComment /\ CommentGone(c)

\* No request of a user who is barred from a post is past the check.
BarsHold ==
    \A u \in Users, p \in CommentedPosts :
       <<u, p>> \in barred => C!HasBan(u, p) /\ C!PastCheck(u, p) = {}

CommentInv ==
    /\ C!TypeOK
    /\ OneAuthor /\ FlaggedWithAuthor /\ CommentIdsFresh /\ CommentsStayGone /\ BarsHold

\* One step towards BarredStaySilent.
SilentStep ==
    \A u \in Users, p \in CommentedPosts :
       <<u, p>> \in barred => C!CommentsOf(u, p)' \subseteq 1..lastComment

NewlyBarred ==
    barred' = {up \in Users \X CommentedPosts :
                  /\ C!HasBan(up[1], up[2])'
                  /\ \/ C!PastCheck(up[1], up[2])' = {}
                     \/ up \in barred /\ postBlog'[up[2]] = postBlog[up[2]]}
CommentsNewlyGone ==
    gone' = gone \cup {<<"comment", c>> : c \in {c \in 1..lastComment' : CommentGone(c)'}}

LEMMA HeldCommentTyped ==
    ASSUME C!TypeOK, NEW q \in Requests, NEW c, C!HoldsComment(q, c)
    PROVE  c \in C!CommentId /\ req[q].ent \in C!CommentRow /\ req[q].ent.user \in Users
<1>1. req[q] \in C!Request /\ req[q].pc = "saveComment" /\ req[q].id = c
  BY DEF C!TypeOK, C!HoldsComment, C!At
<1> QED BY <1>1, CommentRequestFields DEF C!CommentRow

LEMMA PresentCommentTyped ==
    ASSUME C!TypeOK, NEW c \in C!CommentId, comments[c] # C!NoComment
    PROVE  comments[c] \in C!CommentRow /\ comments[c].user \in Users /\ comments[c].isBanned \in BOOLEAN
  BY DEF C!TypeOK, C!CommentRow

LEMMA BarsStep ==
    ASSUME CommentInv, CommentsStay, ChecksHold, NewlyBarred
    PROVE  SilentStep /\ BarsHold'
<1>1. ASSUME NEW u \in Users, NEW p \in CommentedPosts, <<u, p>> \in barred,
             NEW c \in C!CommentsOf(u, p)'
      PROVE  c \in 1..lastComment
  <2>1. c \in C!CommentId /\ comments'[c].user = u /\ comments'[c].post = p
    BY <1>1 DEF C!CommentsOf
  <2>2. comments'[c] # C!NoComment
    BY <2>1, CommentFacts
  <2>3. ASSUME NEW q \in Requests, C!At(q, "insertComment"),
               comments'[c].user = req[q].user, comments'[c].post = req[q].post
        PROVE  FALSE
    <3>1. q \in C!PastCheck(u, p)
      BY <2>1, <2>3 DEF C!PastCheck, C!At
    <3> QED BY <1>1, <3>1 DEF CommentInv, BarsHold
  <2>4. ~CommentGone(c)
    BY <2>1, <2>2, <2>3 DEF CommentsStay, CommentGone
  <2> QED BY <2>1, <2>4 DEF CommentInv, CommentIdsFresh, C!TypeOK, C!CommentId
<1>2. ASSUME NEW u \in Users, NEW p \in CommentedPosts, <<u, p>> \in barred'
      PROVE  C!HasBan(u, p)' /\ C!PastCheck(u, p)' = {}
  <2>1. /\ C!HasBan(u, p)'
        /\ \/ C!PastCheck(u, p)' = {}
           \/ <<u, p>> \in barred /\ postBlog'[p] = postBlog[p]
    BY <1>2 DEF NewlyBarred
  <2>2. ASSUME <<u, p>> \in barred, postBlog'[p] = postBlog[p]
        PROVE  C!PastCheck(u, p)' = {}
    BY <2>2 DEF CommentInv, BarsHold, ChecksHold
  <2> QED BY <2>1, <2>2
<1> QED BY <1>1, <1>2 DEF SilentStep, BarsHold

LEMMA CommentsGoneStep ==
    ASSUME CommentInv, CommentsStay, CommentsTaken, CommentsNewlyGone
    PROVE  CommentIdsFresh' /\ CommentsStayGone'
<1>1. ASSUME NEW c \in C!CommentId, CommentGone(c), ~(lastComment' = lastComment + 1 /\ c = lastComment')
      PROVE  CommentGone(c)'
  BY <1>1 DEF CommentGone, CommentsStay, CommentsTaken, C!HoldsComment, C!At
<1>2. /\ lastComment \in Nat /\ lastComment' \in {lastComment, lastComment + 1}
      /\ \A c \in C!CommentId : c \in Nat
  BY CommentFacts DEF CommentInv, C!TypeOK, CommentsStay, C!CommentId
<1>3. CommentIdsFresh'
  BY <1>1, <1>2 DEF CommentInv, CommentIdsFresh, C!CommentId
<1>4. ASSUME NEW c \in C!CommentId, <<"comment", c>> \in gone'
      PROVE  c <= lastComment' /\ CommentGone(c)'
  <2>1. CASE <<"comment", c>> \in gone
    BY <1>1, <1>2, <2>1 DEF CommentInv, CommentsStayGone
  <2>2. CASE <<"comment", c>> \notin gone
    BY <1>2, <1>4, <2>2 DEF CommentsNewlyGone
  <2> QED BY <2>1, <2>2
<1> QED BY <1>3, <1>4 DEF CommentsStayGone, C!CommentId

LEMMA OneAuthorStep ==
    ASSUME CommentInv, CommentsStay, CommentsTaken
    PROVE  OneAuthor'
<1>1. ASSUME NEW c \in C!CommentId, NEW q \in Requests, C!HoldsComment(q, c)'
      PROVE  \/ C!HoldsComment(q, c) /\ req'[q] = req[q]
             \/ /\ comments' = comments /\ comments[c] # C!NoComment
                /\ req'[q].ent.user = comments[c].user
  BY <1>1 DEF CommentsTaken, C!HoldsComment, C!At
<1>2. ASSUME NEW c \in C!CommentId, NEW q \in Requests, C!HoldsComment(q, c)', comments'[c] # C!NoComment
      PROVE  req'[q].ent.user = comments'[c].user
  <2>1. CASE C!HoldsComment(q, c) /\ req'[q] = req[q]
    <3>1. ~CommentGone(c)
      BY <2>1 DEF CommentGone
    <3>2. ~(lastComment' = lastComment + 1 /\ c = lastComment')
      BY <3>1 DEF CommentInv, CommentIdsFresh, C!TypeOK
    <3>3. \/ comments[c] # C!NoComment /\ comments'[c].user = comments[c].user
          \/ \E o \in Requests : C!HoldsComment(o, c) /\ comments'[c] = req[o].ent
      BY <1>2, <3>2 DEF CommentsStay
    <3> QED BY <2>1, <3>3 DEF CommentInv, OneAuthor
  <2> QED BY <1>1, <1>2, <2>1
<1>3. ASSUME NEW c \in C!CommentId, NEW q \in Requests, NEW o \in Requests,
             C!HoldsComment(q, c)', C!HoldsComment(o, c)'
      PROVE  req'[o].ent.user = req'[q].ent.user
  <2>1. CASE C!HoldsComment(q, c) /\ req'[q] = req[q] /\ C!HoldsComment(o, c) /\ req'[o] = req[o]
    BY <2>1 DEF CommentInv, OneAuthor
  <2>2. CASE comments' = comments /\ comments[c] # C!NoComment
    BY <1>2, <1>3, <2>2
  <2> QED BY <1>1, <1>3, <2>1, <2>2
<1> QED BY <1>2, <1>3 DEF OneAuthor

\* What is there after a step, or in hand, and is not loose then was not to become so.
LEMMA LooseStays ==
    ASSUME NEW L, Loosen(L), NEW c, c \notin loose',
           comments'[c] # C!NoComment \/ \E q \in Requests : C!HoldsComment(q, c)'
    PROVE  c \notin L
BY DEF Loosen, CommentGone

\* Of what is written while its author is banned, nothing stays out of loose.
LEMMA FlagsStep ==
    ASSUME CommentInv, C!TypeOK', FlagsMove, CommentsTaken, NEW L, Loosen(L), loose \subseteq L,
           lastComment' = lastComment + 1 /\ users[comments'[lastComment'].user] = "banned"
              => lastComment' \in L
    PROVE  FlaggedWithAuthor'
<1>1. ASSUME NEW c \in C!CommentId \ loose', comments'[c] # C!NoComment
      PROVE  comments'[c].isBanned = (users'[comments'[c].user] = "banned")
  <2> PICK u : u = comments'[c].user
    OBVIOUS
  <2>1. u \in Users /\ c \in C!CommentId \ loose /\ c \notin L
    BY <1>1, LooseStays DEF C!TypeOK, C!CommentRow
  <2>2. users'[u] = users[u]
    BY <2>1 DEF FlagsMove
  <2>3. CASE comments'[c] = comments[c]
    BY <1>1, <2>1, <2>2, <2>3 DEF CommentInv, FlaggedWithAuthor
  <2>4. ASSUME NEW q \in Requests, C!HoldsComment(q, c), comments'[c] = req[q].ent,
               C!Exists(req[q].ent.user)
        PROVE  comments'[c].isBanned = (users'[u] = "banned")
    BY <2>1, <2>2, <2>4 DEF CommentInv, FlaggedWithAuthor
  <2>5. ASSUME lastComment' = lastComment + 1, c = lastComment',
               comments'[c].isBanned = FALSE, C!Exists(comments'[c].user)
        PROVE  comments'[c].isBanned = (users'[u] = "banned")
    BY <1>1, <2>1, <2>2, <2>5
  <2> QED BY <1>1, <2>3, <2>4, <2>5 DEF FlagsMove
<1>2. ASSUME NEW c \in C!CommentId \ loose', NEW q \in Requests,
             C!HoldsComment(q, c)', users'[req'[q].ent.user] # "deleted"
      PROVE  req'[q].ent.isBanned = (users'[req'[q].ent.user] = "banned")
  <2>0. c \notin loose
    BY <1>2, LooseStays
  <2>1. CASE req'[q] = req[q]
    <3>1. C!HoldsComment(q, c) /\ req[q].ent.user \in Users
      BY <1>2, <2>1, HeldCommentTyped DEF CommentInv, C!HoldsComment, C!At
    <3>2. users'[req[q].ent.user] = users[req[q].ent.user]
      BY <1>2, <2>1, <3>1 DEF FlagsMove, C!Exists
    <3> QED BY <1>2, <2>0, <2>1, <3>1, <3>2 DEF CommentInv, FlaggedWithAuthor, C!Exists
  <2>2. CASE comments' = comments /\ users' = users /\ comments[c] # C!NoComment /\ req'[q].ent = comments[c]
    BY <1>2, <2>0, <2>2 DEF CommentInv, FlaggedWithAuthor
  <2> QED BY <1>2, <2>1, <2>2 DEF CommentsTaken
<1> QED BY <1>1, <1>2 DEF FlaggedWithAuthor, C!CommentId, C!Exists

\* The ban of a user flags the comments that it found and that no request has in hand; the
\* others are loose.
LEMMA CommitBanFlags ==
    ASSUME CommentInv, NEW r \in Requests, CommitBan(r)
    PROVE  FlaggedWithAuthor'
<1> PICK u, flag, over, rows : /\ u = req[r].user /\ flag = req[r].isBanned
                               /\ over = ((users'[u] = "banned") # flag)
                               /\ rows = req[r].rows \cap C!WrittenBy(u)
  OBVIOUS
<1>1. u \in Users /\ flag \in BOOLEAN /\ C!CommitBan(r)
  BY CommentRequestFields DEF CommentInv, C!TypeOK, CommitBan, C!CommitBan, C!CommitUser, C!At
<1> PICK L : /\ over = TRUE => L = loose \cup C!WrittenBy(u) \cup HeldCommentsOf(u)
             /\ over = FALSE => L = ((loose \cup C!WrittenBy(u)) \ rows) \cup HeldCommentsOf(u)
  OBVIOUS
<1>2. Loosen(L)
  BY DEF CommitBan
<1>3. \A v \in Users : v # u => users'[v] = users[v]
  BY <1>1 DEF C!CommitBan, C!CommitUser, CommentInv, C!TypeOK, C!UsersTyped
<1>4. \A c \in C!CommentId :
         /\ comments[c].user # u => comments'[c] = comments[c]
         /\ c \in rows => comments'[c] = [comments[c] EXCEPT !.isBanned = flag]
  BY <1>1 DEF C!CommitBan, C!UpdateBanUnban, C!WrittenBy, CommentInv, C!TypeOK
<1>5. \A q \in Requests : \A c : C!HoldsComment(q, c)' => C!HoldsComment(q, c) /\ req'[q] = req[q]
  BY <1>1 DEF CommentInv, C!TypeOK, C!CommitBan, C!CommitUser, C!Answer, C!Await, C!Idle, C!HoldsComment, C!At
<1>6. ASSUME NEW c \in C!CommentId \ L, NEW q \in Requests, C!HoldsComment(q, c)
      PROVE  req[q].ent.user # u
  BY <1>6 DEF HeldCommentsOf
<1>7. ASSUME NEW c \in C!CommentId \ L, comments[c].user = u
      PROVE  /\ \A q \in Requests : ~C!HoldsComment(q, c)
             /\ comments'[c].user = u /\ comments'[c].isBanned = (users'[u] = "banned")
  <2>1. comments[c] # C!NoComment
    BY <1>1, <1>7, CommentFacts
  <2>2. \A q \in Requests : ~C!HoldsComment(q, c)
    BY <1>6, <1>7, <2>1 DEF CommentInv, OneAuthor
  <2>3. over = FALSE /\ c \in rows
    BY <1>7 DEF C!WrittenBy
  <2>4. flag = (users'[u] = "banned")
    BY <1>1, <2>3
  <2>5. comments'[c].user = u /\ comments'[c].isBanned = flag
    BY <1>4, <1>7, <2>1, <2>3, PresentCommentTyped DEF CommentInv, C!CommentRow
  <2> QED BY <2>2, <2>4, <2>5
<1>8. ASSUME NEW c \in C!CommentId \ L, comments[c].user # u
      PROVE  c \notin loose /\ comments'[c] = comments[c]
  BY <1>4, <1>8 DEF C!WrittenBy
<1>9. ASSUME NEW c \in C!CommentId \ loose', comments'[c] # C!NoComment
      PROVE  comments'[c].isBanned = (users'[comments'[c].user] = "banned")
  <2>0. c \notin L
    BY <1>2, <1>9, LooseStays
  <2>1. CASE comments[c].user = u
    BY <1>7, <2>0, <2>1
  <2>2. CASE comments[c].user # u
    <3>1. c \notin loose /\ comments'[c] = comments[c] /\ comments[c] # C!NoComment
      BY <1>8, <1>9, <2>0, <2>2
    <3>2. users'[comments[c].user] = users[comments[c].user]
      BY <1>3, <2>2, <3>1, PresentCommentTyped DEF CommentInv
    <3> QED BY <3>1, <3>2 DEF CommentInv, FlaggedWithAuthor
  <2> QED BY <2>1, <2>2
<1>10. ASSUME NEW c \in C!CommentId \ loose', NEW q \in Requests,
              C!HoldsComment(q, c)', users'[req'[q].ent.user] # "deleted"
       PROVE  req'[q].ent.isBanned = (users'[req'[q].ent.user] = "banned")
  <2>0. c \notin L
    BY <1>2, <1>10, LooseStays
  <2>1. C!HoldsComment(q, c) /\ req'[q] = req[q] /\ req[q].ent.user \in Users
    BY <1>5, <1>10, HeldCommentTyped DEF CommentInv
  <2>2. req[q].ent.user # u /\ c \notin loose
    BY <1>6, <1>7, <1>8, <2>0, <2>1
  <2>3. users'[req[q].ent.user] = users[req[q].ent.user]
    BY <1>3, <2>1, <2>2
  <2> QED BY <1>10, <2>1, <2>2, <2>3 DEF CommentInv, FlaggedWithAuthor, C!Exists
<1> QED BY <1>9, <1>10 DEF FlaggedWithAuthor, C!CommentId, C!Exists

\* Every step of the comments keeps the invariant, and is one that BarredStaySilent allows.
LEMMA CommentStepKeeps ==
    ASSUME CommentInv, CommentStep
    PROVE  CommentInv' /\ SilentStep
<1>1. NewlyBarred /\ CommentsNewlyGone
  BY DEF CommentStep, NewlyBarred, CommentsNewlyGone
<1>2. ASSUME C!TypeOK', CommentsStay, CommentsTaken, ChecksHold, FlaggedWithAuthor'
      PROVE  CommentInv' /\ SilentStep
  BY <1>1, <1>2, BarsStep, CommentsGoneStep, OneAuthorStep DEF CommentInv
<1>3. ASSUME NEW r \in Requests, CommitBan(r)
      PROVE  CommentInv' /\ SilentStep
  <2>1. C!RequestStep(r)
    BY <1>3 DEF CommitBan, C!RequestStep
  <2> QED BY <1>2, <1>3, <2>1, CommitBanFlags, CommentStepTyped, CommentStepMoves DEF CommentInv
<1>4. ASSUME NEW r \in Requests, InsertComment(r)
      PROVE  CommentInv' /\ SilentStep
  <2>1. C!RequestStep(r) /\ ~C!CommitBan(r)
    BY <1>4 DEF InsertComment, C!RequestStep, C!InsertComment, C!CommitBan, C!CommitUser, C!At
  <2>2. C!TypeOK' /\ CommentsStay /\ CommentsTaken /\ ChecksHold /\ FlagsMove
    BY <2>1, CommentStepTyped, CommentStepMoves DEF CommentInv
  <2> PICK L : L = IF users[req[r].user] = "banned" /\ lastComment' # lastComment
                   THEN loose \cup {lastComment'} ELSE loose
    OBVIOUS
  <2>3. Loosen(L) /\ loose \subseteq L
    BY <1>4 DEF InsertComment
  <2>4. ASSUME lastComment' = lastComment + 1, users[comments'[lastComment'].user] = "banned"
        PROVE  lastComment' \in L
    <3> PICK e : e = [post |-> req[r].post, user |-> req[r].user, isBanned |-> FALSE]
      OBVIOUS
    <3>1. e.user = req[r].user /\ lastComment' # lastComment
      BY <2>4 DEF CommentInv, C!TypeOK
    <3>2. lastComment' \in C!CommentId /\ comments' = [comments EXCEPT ![lastComment'] = e]
      BY <1>4, <2>4, <3>1, CommentFacts DEF InsertComment, C!InsertComment, CommentInv, C!TypeOK, C!CommentId
    <3>3. comments'[lastComment'].user = req[r].user
      BY <3>1, <3>2 DEF CommentInv, C!TypeOK
    <3> QED BY <2>4, <3>1, <3>3
  <2> QED BY <1>2, <2>2, <2>3, <2>4, FlagsStep
<1>5. ASSUME CommentsStay, CommentsTaken, ChecksHold, FlagsMove, C!TypeOK', Loosen(loose), lastComment' = lastComment
      PROVE  CommentInv' /\ SilentStep
  <2>1. lastComment' # lastComment + 1
    BY <1>5 DEF CommentInv, C!TypeOK
  <2> QED BY <1>2, <1>5, <2>1, FlagsStep
<1>6. ASSUME NEW r \in Requests, req[r].pc \notin {"commitBan", "insertComment"},
             C!RequestStep(r), Loosen(loose)
      PROVE  CommentInv' /\ SilentStep
  <2>1. ~C!CommitBan(r) /\ lastComment' = lastComment
    BY <1>6 DEF C!CommitBan, C!CommitUser, C!At, C!RequestStep, C!BloggerBanUnbanUser, C!CreateBloggerBannedUsers,
             C!SaveBloggerBannedUser, C!CreateCommentByPostId, C!CheckBan, C!InsertComment,
             C!UpdateCommentById, C!DeleteCommentById, C!SaveComment, C!RemoveComment,
             C!BanUnbanUser, C!UpdateUser, C!Fail, C!tables
  <2> QED BY <1>5, <1>6, <2>1, CommentStepTyped, CommentStepMoves DEF CommentInv
<1>7. ASSUME NEW r \in Requests, C!Fail(r), Loosen(loose)
      PROVE  CommentInv' /\ SilentStep
  <2>1. C!RequestStep(r) /\ UNCHANGED <<users, comments, lastComment>>
    BY <1>7 DEF C!RequestStep, C!Fail, C!tables
  <2>2. CommentsStay /\ FlagsMove
    BY <2>1, CommentTablesStay DEF CommentInv
  <2> QED BY <1>5, <1>7, <2>1, <2>2, CommentStepTyped, CommentStepMoves DEF CommentInv
<1>8. ASSUME CommentsOutside, Loosen(loose)
      PROVE  CommentInv' /\ SilentStep
  <2>1. lastComment' = lastComment
    BY <1>8 DEF CommentsOutside, C!DeleteUser, C!DeletePost, C!MovePost
  <2> QED BY <1>5, <1>8, <2>1, CommentsOutsideTyped, CommentsOutsideMoves DEF CommentInv
<1> QED BY <1>3, <1>4, <1>6, <1>7, <1>8 DEF CommentStep, CommentsOutside

(***************************************************************************)
(* Part G.  The two parts together.                                        *)
(***************************************************************************)
\* The tables of the part that a behaviour leaves alone are as at the start.
NoBlogsYet ==
    /\ hidden = [b \in B!BlogId |-> {}]
    /\ \A b \in B!BlogId : <<"blog", b>> \notin gone
    /\ \A p \in B!PostId : <<"post", p>> \notin gone
NoCommentsYet ==
    /\ comments = [c \in C!CommentId |-> C!NoComment]
    /\ \A c \in C!CommentId : <<"comment", c>> \notin gone

IInv ==
    \/ part = "blogs" /\ BlogInv /\ NoCommentsYet
    \/ part = "comments" /\ CommentInv /\ NoBlogsYet

mcVars == <<part, users, req, gone, blogTables, commentTables>>

LEMMA BlogInvInit ==
    ASSUME Init
    PROVE  BlogInv
<1>1. /\ B!TypeOK
      /\ \A b \in B!BlogId : blogs[b] = B!NoBlog
      /\ \A p \in B!PostId : posts[p] = B!NoPost
      /\ \A r \in Requests : req[r].pc = "idle"
  BY BlogFacts DEF Init, B!Init, B!UsersInit, B!TypeOK, B!UsersTyped, B!Request, B!Idle
<1>2. BlogIdsFresh
  BY <1>1 DEF BlogIdsFresh, BlogGone, PostGone, B!HoldsBlog, B!HoldsPost, B!At
<1>3. HidingIsWhole /\ RivalsAreAll /\ BlogsStayGone
  BY <1>1 DEF Init, HidingIsWhole, RivalsAreAll, BlogsStayGone, B!HoldsBlog, B!At
<1>4. hidden \in [B!BlogId -> SUBSET B!PostId] /\ rivals \in [B!BlogId -> SUBSET Requests]
  BY DEF Init
<1> QED BY <1>1, <1>2, <1>3, <1>4 DEF BlogInv

LEMMA CommentInvInit ==
    ASSUME Init
    PROVE  CommentInv
<1>1. /\ C!TypeOK
      /\ \A c \in C!CommentId : comments[c] = C!NoComment
      /\ \A r \in Requests : req[r].pc = "idle"
  BY CommentFacts DEF Init, C!Init, C!UsersInit, C!TypeOK, C!UsersTyped, C!Request, C!Idle
<1>2. CommentIdsFresh
  BY <1>1 DEF CommentIdsFresh, CommentGone, C!HoldsComment, C!At
<1>3. OneAuthor /\ FlaggedWithAuthor /\ CommentsStayGone /\ BarsHold
  BY <1>1 DEF Init, OneAuthor, FlaggedWithAuthor, CommentsStayGone, BarsHold, C!HoldsComment, C!At
<1> QED BY <1>1, <1>2, <1>3 DEF CommentInv

LEMMA InvInit == Init => IInv
<1> SUFFICES ASSUME Init PROVE IInv
  OBVIOUS
<1>1. NoBlogsYet /\ NoCommentsYet
  BY DEF Init, B!Init, C!Init, NoBlogsYet, NoCommentsYet
<1> QED BY <1>1, BlogInvInit, CommentInvInit DEF Init, IInv

LEMMA StutterKeeps == IInv /\ UNCHANGED mcVars => IInv'
<1> SUFFICES ASSUME IInv, UNCHANGED mcVars PROVE IInv'
  OBVIOUS
<1> USE DEF mcVars, blogTables, commentTables
<1>1. BlogInv => BlogInv'
  BY DEF BlogInv, B!TypeOK, B!UsersTyped, HidingIsWhole, RivalsAreAll, BlogIdsFresh, BlogsStayGone,
         BlogGone, PostGone, B!HoldsBlog, B!HoldsPost, B!At
<1>2. CommentInv => CommentInv'
  BY DEF CommentInv, C!TypeOK, C!UsersTyped, OneAuthor, FlaggedWithAuthor, CommentIdsFresh, CommentsStayGone,
         BarsHold, CommentGone, C!HoldsComment, C!HasBan, C!PastCheck, C!Exists, C!At
<1>3. (NoBlogsYet => NoBlogsYet') /\ (NoCommentsYet => NoCommentsYet')
  BY DEF NoBlogsYet, NoCommentsYet
<1> QED BY <1>1, <1>2, <1>3 DEF IInv

LEMMA StepKeeps == IInv /\ [Next]_mcVars => IInv'
<1>1. ASSUME IInv, BlogStep
      PROVE  IInv'
  <2>1. part = "blogs" /\ part' = part /\ UNCHANGED commentTables
    BY <1>1 DEF BlogStep
  <2>2. BlogInv /\ NoCommentsYet
    BY <1>1, <2>1 DEF IInv
  <2>3. NoCommentsYet'
    BY <1>1, <2>1, <2>2 DEF BlogStep, NoCommentsYet, commentTables
  <2> QED BY <1>1, <2>1, <2>2, <2>3, BlogStepKeeps DEF IInv
<1>2. ASSUME IInv, CommentStep
      PROVE  IInv'
  <2>1. part = "comments" /\ part' = part /\ UNCHANGED blogTables
    BY <1>2 DEF CommentStep
  <2>2. CommentInv /\ NoBlogsYet
    BY <1>2, <2>1 DEF IInv
  <2>3. NoBlogsYet'
    BY <1>2, <2>1, <2>2 DEF CommentStep, NoBlogsYet, blogTables
  <2> QED BY <1>2, <2>1, <2>2, <2>3, CommentStepKeeps DEF IInv
<1> QED BY <1>1, <1>2, StutterKeeps DEF Next

LEMMA Invariance == Spec => []IInv
<1>1. Init => IInv
  BY InvInit
<1>2. IInv /\ [Next]_mcVars => IInv'
  BY StepKeeps
<1> QED BY <1>1, <1>2, PTL DEF Spec, mcVars

(***************************************************************************)
(* The theorems.                                                           *)
(***************************************************************************)
\* The tables and what every request has in hand keep their types: no handler saves an
\* entity of another table, or one that it has not found.
THEOREM TypeCorrect == Spec => []TypeOK
<1>1. IInv => TypeOK
  BY DEF IInv, BlogInv, CommentInv, TypeOK
<1> QED BY <1>1, Invariance, PTL

\* However many blogs, posts and requests there are, a ban of a blog by the administrator
\* that ran to its end hides the posts for good.
THEOREM HiddenForGood == Spec => []HiddenPostsStayHidden
<1>1. ASSUME IInv PROVE HiddenPostsStayHidden
  <2>1. CASE BlogInv
    BY <2>1 DEF BlogInv, HidingIsWhole, HiddenPostsStayHidden
  <2>2. CASE NoBlogsYet
    BY <2>2 DEF NoBlogsYet, HiddenPostsStayHidden
  <2> QED BY <1>1, <2>1, <2>2 DEF IInv
<1> QED BY <1>1, Invariance, PTL

\* Comments disappear and come back with their author, but for those that were written, or in
\* hand, while a ban was in force or about to commit, and for commands that overlapped.
THEOREM FlaggedWithTheAuthor == Spec => []HiddenWithAuthor
<1>1. ASSUME IInv PROVE HiddenWithAuthor
  <2>1. CASE CommentInv
    BY <2>1 DEF CommentInv, FlaggedWithAuthor, HiddenWithAuthor
  <2>2. CASE NoCommentsYet
    BY <2>2 DEF NoCommentsYet, HiddenWithAuthor
  <2> QED BY <1>1, <2>1, <2>2 DEF IInv
<1> QED BY <1>1, Invariance, PTL

\* No blog, post or comment comes back once it was deleted while no request had it in hand.
THEOREM NothingComesBack == Spec => []DeletedStaysDeleted
<1>1. ASSUME IInv PROVE DeletedStaysDeleted
  <2>1. ASSUME BlogInv, NoCommentsYet
        PROVE  DeletedStaysDeleted
    BY <2>1 DEF BlogInv, BlogsStayGone, BlogGone, PostGone, NoCommentsYet, DeletedStaysDeleted
  <2>2. ASSUME CommentInv, NoBlogsYet
        PROVE  DeletedStaysDeleted
    BY <2>2 DEF CommentInv, CommentsStayGone, CommentGone, NoBlogsYet, DeletedStaysDeleted
  <2> QED BY <1>1, <2>1, <2>2 DEF IInv
<1> QED BY <1>1, Invariance, PTL

\* A blog passes from one user to another only by a request that had found it before its
\* present owner got it.
THEOREM OwnersKeepBlogs == Spec => OwnerKept
<1>1. ASSUME IInv, [Next]_mcVars
      PROVE  [OwnerStep]_<<blogs, rivals, req>>
  <2>1. ASSUME BlogStep
        PROVE  OwnerStep
    BY <1>1, <2>1, BlogStepKeeps DEF IInv, BlogStep
  <2>2. ASSUME CommentStep \/ UNCHANGED mcVars
        PROVE  OwnerStep
    BY <2>2 DEF CommentStep, mcVars, blogTables, OwnerStep, GotOwner
  <2> QED BY <1>1, <2>1, <2>2 DEF Next
<1>2. [OwnerStep]_<<blogs, rivals, req>> =>
         [\A b \in B!BlogId :
             /\ blogs[b].owner \in Users
             /\ GotOwner(b)
             => \E r \in rivals[b] : B!HoldsBlog(r, b)]_<<blogs, rivals, req>>
  BY DEF OwnerStep
<1> QED BY <1>1, <1>2, Invariance, PTL DEF Spec, OwnerKept, mcVars

\* A user who is barred from a post adds no comment to it, however many requests of his and
\* of the blogger are under way.
THEOREM BarredAreSilent == Spec => BarredStaySilent
<1>1. ASSUME IInv, [Next]_mcVars
      PROVE  [SilentStep]_<<comments, lastComment, barred>>
  <2>1. ASSUME CommentStep
        PROVE  SilentStep
    BY <1>1, <2>1, CommentStepKeeps DEF IInv, CommentStep
  <2>2. ASSUME BlogStep \/ UNCHANGED mcVars
        PROVE  UNCHANGED <<comments, lastComment, barred>>
    BY <2>2 DEF BlogStep, mcVars, commentTables
  <2> QED BY <1>1, <2>1, <2>2 DEF Next
<1>2. [SilentStep]_<<comments, lastComment, barred>> =>
         [\A u \in Users, p \in CommentedPosts :
             <<u, p>> \in barred => C!CommentsOf(u, p)' \subseteq 1..lastComment
         ]_<<comments, lastComment, barred>>
  BY DEF SilentStep
<1> QED BY <1>1, <1>2, Invariance, PTL DEF Spec, BarredStaySilent, mcVars

=============================================================================
