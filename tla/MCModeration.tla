---------------------------- MODULE MCModeration ----------------------------
(***************************************************************************)
(* Blogs and Comments for TLC.  They meet only in the ban of a user, whose *)
(* transaction flags his blogs and his comments: each behaviour explores   *)
(* one of the two (part) and leaves the tables of the other alone.         *)
(* History variables remember which requests overlapped.                   *)
(***************************************************************************)
EXTENDS Integers, TLC

CONSTANTS Users, Requests, Faulty, None, NoRow, MaxBlog, MaxPost,
          CommentedBlogs, CommentedPosts, MaxComment, MaxBan

VARIABLES part, users, req, blogs, lastBlog, posts, lastPost,
          postBlog, comments, lastComment, bans, lastBan,
          hidden,  \* per blog: its posts that a ban of the blog by the administrator has hidden
          rivals,  \* per blog: requests that held it already when it got its owner
          gone,    \* rows deleted while no request had them in hand
          barred,  \* users and posts: there was a blogger's ban, and no request past its check
          loose    \* comments written, or in hand, across a ban of their author

B == INSTANCE Blogs
C == INSTANCE Comments WITH Blogs <- CommentedBlogs, Posts <- CommentedPosts

ASSUME ModerationConstants == B!BlogConstants /\ C!CommentConstants

blogTables == <<blogs, lastBlog, posts, lastPost, hidden, rivals>>
commentTables == <<postBlog, comments, lastComment, bans, lastBan, barred, loose>>

Init ==
    /\ part \in {"blogs", "comments"}
    /\ B!Init
    /\ C!Init
    /\ gone = {}
    /\ barred = {}
    /\ hidden = [b \in B!BlogId |-> {}]
    /\ rivals = [b \in B!BlogId |-> {}]
    /\ loose = {}

(***************************************************************************)
(* Blogs                                                                   *)
(***************************************************************************)
\* A post that leaves the blog is no longer one the ban has hidden there.
StillThere(b, ps) == {p \in ps : posts'[p] # B!NoPost /\ posts'[p].blog = b}

\* A post in the hands of a request that had found it shown may be shown again.
Hide(r) ==
    IF B!At(r, "flagPosts")
    THEN [hidden EXCEPT ![req[r].id] =
            IF req[r].isBanned
            THEN {p \in B!PostsOf(req[r].id) : \A q \in Requests : ~B!HoldsPost(q, p)}
            ELSE {}]
    ELSE hidden

BlogGone(b) == blogs[b] = B!NoBlog /\ \A r \in Requests : ~B!HoldsBlog(r, b)
PostGone(p) == posts[p] = B!NoPost /\ \A r \in Requests : ~B!HoldsPost(r, p)

GotOwner(b) == blogs'[b].owner \in Users /\ blogs'[b].owner # blogs[b].owner

BlogHistory(now) ==
    /\ hidden' = [b \in B!BlogId |-> StillThere(b, now[b])]
    /\ rivals' = [b \in B!BlogId |->
            {r \in Requests : B!HoldsBlog(r, b)' /\ (GotOwner(b) \/ r \in rivals[b])}]

BlogStep ==
    /\ part = "blogs"
    /\ \/ \E r \in Requests : \/ B!FlagPosts(r) /\ BlogHistory(Hide(r))
                              \/ ~B!At(r, "flagPosts") /\ B!RequestStep(r) /\ BlogHistory(hidden)
                              \/ B!At(r, "flagPosts") /\ B!Fail(r) /\ BlogHistory(hidden)
       \/ \E u \in Users : B!DeleteUser(u) /\ BlogHistory(hidden)
    /\ gone' = gone \cup {<<"blog", b>> : b \in {b \in 1..lastBlog' : BlogGone(b)'}}
                    \cup {<<"post", p>> : p \in {p \in 1..lastPost' : PostGone(p)'}}
    /\ UNCHANGED <<part, commentTables>>

\* A ban of a blog that ran to its end hides its posts for good: whatever bloggers do to
\* them, and to the blog, no such post is shown while it stays in the blog and the
\* administrator does not unban it.
HiddenPostsStayHidden ==
    \A b \in B!BlogId : \A p \in hidden[b] : posts[p].isBanned

\* A blog passes from one user to another only when two bindings overlapped: the request
\* that takes it had found it before its present owner got it.
OwnerKept ==
    [][\A b \in B!BlogId :
        /\ blogs[b].owner \in Users
        /\ GotOwner(b)
        => \E r \in rivals[b] : B!HoldsBlog(r, b)]_<<blogs, rivals, req>>

(***************************************************************************)
(* Comments                                                                *)
(***************************************************************************)
HeldCommentsOf(u) ==
    {c \in C!CommentId : \E r \in Requests : C!HoldsComment(r, c) /\ req[r].ent.user = u}
CommentGone(c) == comments[c] = C!NoComment /\ \A r \in Requests : ~C!HoldsComment(r, c)

\* Nothing is remembered of a comment that is gone for good.
Loosen(written) == loose' = {c \in written : ~CommentGone(c)'}

\* A comment written between the UPDATE and the commit is not flagged.  And a command that
\* does not write isBanned, as save() found it to be what it asks for, may be overtaken by
\* one that does: the flags of all comments are not what the user's row says then.
CommitBan(r) ==
    LET u == req[r].user
        overtaken == (users'[u] = "banned") # req[r].isBanned
        flagged == IF overtaken THEN {} ELSE req[r].rows \cap C!WrittenBy(u)
    IN
    /\ C!CommitBan(r)
    /\ Loosen(((loose \cup C!WrittenBy(u)) \ flagged) \cup HeldCommentsOf(u))

\* A banned user whose access token has not expired yet comments: the comment is shown.
InsertComment(r) ==
    /\ C!InsertComment(r)
    /\ Loosen(IF users[req[r].user] = "banned" /\ lastComment' # lastComment
              THEN loose \cup {lastComment'} ELSE loose)

CommentStep ==
    /\ part = "comments"
    /\ \/ \E r \in Requests :
            \/ CommitBan(r)
            \/ InsertComment(r)
            \/ /\ req[r].pc \notin {"commitBan", "insertComment"} /\ C!RequestStep(r)
               /\ Loosen(loose)
            \/ /\ req[r].pc \in {"commitBan", "insertComment"} /\ C!Fail(r)
               /\ Loosen(loose)
       \/ /\ \/ \E u \in Users : C!DeleteUser(u)
             \/ \E p \in CommentedPosts : C!DeletePost(p)
             \/ \E p \in CommentedPosts, b \in CommentedBlogs : C!MovePost(p, b)
          /\ Loosen(loose)
    /\ barred' = {up \in Users \X CommentedPosts :
                    /\ C!HasBan(up[1], up[2])'
                    /\ \/ C!PastCheck(up[1], up[2])' = {}
                       \/ up \in barred /\ postBlog'[up[2]] = postBlog[up[2]]}
    /\ gone' = gone \cup {<<"comment", c>> : c \in {c \in 1..lastComment' : CommentGone(c)'}}
    /\ UNCHANGED <<part, blogTables>>

\* A blogger's ban holds from the moment its row is there: a user who is barred from a post
\* adds no new comment to it, whatever else is under way (nor does he once the ban is
\* lifted, as that leaves the row).
BarredStaySilent ==
    [][\A u \in Users, p \in CommentedPosts :
        <<u, p>> \in barred => C!CommentsOf(u, p)' \subseteq 1..lastComment]_<<comments, lastComment, barred>>

\* Comments disappear and come back with their author: a comment is hidden exactly while
\* its author is banned, unless he wrote it while banned, or while his ban or unban was about
\* to commit; a request had it in hand across the ban; or a ban and an unban of him overlapped
\* so that the later one found nothing to write of him.
HiddenWithAuthor ==
    \A c \in C!CommentId \ loose :
        comments[c] # C!NoComment => comments[c].isBanned = (users[comments[c].user] = "banned")

Next == BlogStep \/ CommentStep

Spec == Init /\ [][Next]_<<part, users, req, gone, blogTables, commentTables>>

TypeOK == IF part = "blogs" THEN B!TypeOK ELSE C!TypeOK

\* No blog, post or comment comes back once it was deleted, on its own or with what it hung
\* on, unless a request had found it before and saves it whole after.
DeletedStaysDeleted ==
    /\ \A b \in B!BlogId : <<"blog", b>> \in gone => blogs[b] = B!NoBlog
    /\ \A p \in B!PostId : <<"post", p>> \in gone => posts[p] = B!NoPost
    /\ \A c \in C!CommentId : <<"comment", c>> \in gone => comments[c] = C!NoComment

Symmetry == Permutations(Requests) \cup Permutations(Users) \cup Permutations(CommentedBlogs)

=============================================================================
