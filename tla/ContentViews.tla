---------------------------- MODULE ContentViews ----------------------------
(***************************************************************************)
(* What the query repositories (src/src/feature/{posts,blogs,comments,     *)
(* bloggers,users}/db/*-query.repository.ts) make of the tables: lists and *)
(* single views of blogs, posts and comments, with counts and newest       *)
(* likes.  A read changes nothing; a page is taken here to hold the whole  *)
(* list (module Paging has the pages).                                     *)
(***************************************************************************)
EXTENDS Integers, FiniteSets

CONSTANTS
    Users, Blogs, Posts, Comments,
    MaxLike,     \* bound on the ids of the likes; a later like has a greater id
    MaxSubscriber,  \* bound on the ids of the subscriptions
    NewestLimit, \* how many newest likes a query gives: LIMIT 3
    None         \* nobody; no row

ViewsConstants ==
    /\ MaxLike \in Nat /\ MaxSubscriber \in Nat /\ NewestLimit \in Nat \ {0}
    /\ None \notin Users \cup Blogs \cup Posts \cup Comments

VARIABLES
    blogs,    \* rows of "Blogs": owner, NULL for none, and ban flag
    posts,    \* rows of "Posts": blog and ban flag
    comments, \* rows of "Comments": post, user and ban flag
    likes,    \* rows of "PostLikes" and "CommentLikes", by id
    subscribers  \* rows of "BlogSubscribers", by id

tables == <<blogs, posts, comments, likes, subscribers>>

Status == {"None", "Like", "Dislike"}
LikeId == 1..MaxLike
BlogRow == [owner: Users \cup {None}, isBanned: BOOLEAN]
PostRow == [blog: Blogs, isBanned: BOOLEAN]
CommentRow == [post: Posts, user: Users, isBanned: BOOLEAN]
LikeRow == [target: Posts \cup Comments, user: Users \cup {None}, status: Status, isBanned: BOOLEAN]
NoLike == [target |-> None, user |-> None, status |-> "None", isBanned |-> FALSE]
SubscriberId == 1..MaxSubscriber
SubscriberRow == [blog: Blogs, subscriber: Users, status: {"Subscribed", "Unsubscribed"}]
NoSubscriber == [blog |-> None, subscriber |-> None, status |-> "Unsubscribed"]

TypeOK ==
    /\ blogs \in [Blogs -> BlogRow]
    /\ posts \in [Posts -> PostRow]
    /\ comments \in [Comments -> CommentRow]
    /\ likes \in [LikeId -> LikeRow \cup {NoLike}]
    /\ subscribers \in [SubscriberId -> SubscriberRow \cup {NoSubscriber}]

(***************************************************************************)
(* The subqueries on likes, over the ids of the items of a page.           *)
(***************************************************************************)
CountLikeDislike(i, status) ==
    Cardinality({l \in LikeId : likes[l].target = i /\ likes[l].status = status /\ ~likes[l].isBanned})

\* The statuses of the viewer's rows: more than one when two of his requests overlapped.
\* An anonymous viewer has none: nothing equals NULL.
MyStatus(i, viewer) ==
    {likes[l].status : l \in {k \in LikeId : /\ likes[k].target = i
                                             /\ viewer # None /\ likes[k].user = viewer}}

Liking(ids) ==
    {l \in LikeId : likes[l].target \in ids /\ likes[l].status = "Like" /\ ~likes[l].isBanned}

\* The limit holds for the page, not for each of its posts.
NewestLikes(ids) ==
    {l \in Liking(ids) : Cardinality({k \in Liking(ids) : k > l}) < NewestLimit}

LikesInfo(i, viewer) ==
    [likesCount |-> CountLikeDislike(i, "Like"),
     dislikesCount |-> CountLikeDislike(i, "Dislike"),
     myStatus |-> IF MyStatus(i, viewer) = {} THEN {"None"} ELSE MyStatus(i, viewer)]

(***************************************************************************)
(* Answers: views of the items, or an error.                               *)
(***************************************************************************)
Ok(views) == [code |-> "ok", views |-> views]
NotFound == [code |-> "notFound", views |-> <<>>]
Forbidden == [code |-> "forbidden", views |-> <<>>]
Crash == [code |-> "crash", views |-> <<>>]

\* The conversion calls toString on the user of every newest like, NULL when he was deleted.
PostViews(ids, viewer) ==
    IF \E l \in NewestLikes(ids) : likes[l].user = None THEN Crash
    ELSE Ok([p \in ids |-> [info |-> LikesInfo(p, viewer),
                            newest |-> {l \in NewestLikes(ids) : likes[l].target = p}]])

CommentViews(ids, viewer) == Ok([c \in ids |-> [info |-> LikesInfo(c, viewer), newest |-> {}]])

(***************************************************************************)
(* Posts.                                                                  *)
(***************************************************************************)
AllPosts == Posts  \* mutant: the list forgets the ban flag
ShownPosts == {p \in Posts : ~posts[p].isBanned}
PostsOf(b) == {p \in Posts : posts[p].blog = b}

GetPosts(viewer) == PostViews(ShownPosts, viewer)

GetPostById(p, viewer) ==
    IF posts[p].isBanned THEN NotFound ELSE PostViews({p}, viewer)

FindPostsByBlogId(b, viewer) ==
    IF blogs[b].isBanned THEN NotFound
    ELSE PostViews({p \in PostsOf(b) : ~posts[p].isBanned}, viewer)

\* The repository of bloggers has statements on likes of its own.
BloggerLikesInfo(i, viewer) ==
    LET rows == {l \in LikeId : likes[l].target = i}
        count(status) == Cardinality({l \in rows : likes[l].status = status /\ ~likes[l].isBanned})
        mine == {l \in rows : viewer # None /\ likes[l].user = viewer}
    IN [likesCount |-> count("Like"),
        dislikesCount |-> count("Dislike"),
        myStatus |-> IF mine = {} THEN {"None"} ELSE {likes[l].status : l \in mine}]

BloggerNewestLikes(ids) ==
    LET liking == {l \in LikeId : likes[l].status = "Like" /\ likes[l].target \in ids /\ ~likes[l].isBanned}
    IN {l \in liking : Cardinality({k \in liking : k >= l}) <= NewestLimit}

BloggerPostViews(ids, viewer) ==
    LET newest == BloggerNewestLikes(ids) IN
    IF None \in {likes[l].user : l \in newest} THEN Crash
    ELSE Ok([p \in ids |-> [info |-> BloggerLikesInfo(p, viewer),
                            newest |-> {l \in newest : likes[l].target = p}]])

\* A blogger sees what bans hide, in blogs of his own; a new post of his at once.
BloggerGetPostById(p, viewer) == BloggerPostViews({p}, viewer)

BloggerFindPostsByBlogId(b, user) ==
    IF blogs[b].owner # user THEN Forbidden ELSE BloggerPostViews(PostsOf(b), user)

(***************************************************************************)
(* Comments.                                                               *)
(***************************************************************************)
GetCommentViewById(c, viewer) ==
    IF comments[c].isBanned THEN NotFound ELSE CommentViews({c}, viewer)

FindCommentsByPostId(p, viewer) ==
    CommentViews({c \in Comments : comments[c].post = p /\ ~comments[c].isBanned}, viewer)

AllCommentsForAllPostsInsideBlogs(user) ==
    CommentViews({c \in Comments : blogs[posts[comments[c].post].blog].owner = user}, user)

(***************************************************************************)
(* Blogs.                                                                  *)
(***************************************************************************)
BlogView(joined, viewer) ==
    LET mine == {s \in joined : subscribers[s].subscriber = viewer} IN
    [subscribersCount |-> Cardinality({s \in joined : subscribers[s].status = "Subscribed"}),
     currentUserSubscriptionStatus |->
         IF mine = {} THEN {"None"} ELSE {subscribers[s].status : s \in mine}]

SubscribersOf(b) == {s \in SubscriberId : subscribers[s].blog = b}

GetBlogs(viewer) ==
    Ok([b \in {b \in Blogs : ~blogs[b].isBanned} |-> BlogView(SubscribersOf(b), viewer)])

GetBlogById(b, viewer) ==
    IF blogs[b].isBanned THEN NotFound ELSE Ok([only \in {b} |-> BlogView(SubscribersOf(b), viewer)])

\* The blogger's list does not join the subscribers; the view of the blog he just created does.
BloggerGetBlogs(user) ==
    Ok([b \in {b \in Blogs : blogs[b].owner = user} |-> BlogView({}, user)])

BloggerGetBlogById(b, viewer) == Ok([only \in {b} |-> BlogView(SubscribersOf(b), viewer)])

\* The administrator's list calls toString on the owner of every blog.
GetAllUsersBlogs ==
    IF \E b \in Blogs : blogs[b].owner = None THEN Crash ELSE Ok(Blogs)

(***************************************************************************)
(* Lists and single views agree.                                           *)
(***************************************************************************)
\* A list that is answered has exactly the items that are found on their own, with the same
\* counts and statuses, and no newest like that the item's own view lacks.
Agrees(list, single(_), ids) ==
    list.code = "ok" =>
        /\ DOMAIN list.views = {i \in ids : single(i).code # "notFound"}
        /\ \A i \in DOMAIN list.views : single(i).code = "ok" =>
              LET view == single(i).views[i] IN
              /\ list.views[i].info = view.info
              /\ list.views[i].newest \subseteq view.newest

\* A list fails only when an item in it fails on its own.
FailsWithAnItem(list, single(_), ids) ==
    list.code = "crash" => \E i \in ids : single(i).code = "crash"

\* The newest likes of a post by itself are as many as it counts, up to the limit.
NewestAreCounted(p, viewer) ==
    LET single == GetPostById(p, viewer) IN
    single.code = "ok" =>
        LET count == single.views[p].info.likesCount IN
        Cardinality(single.views[p].newest) = IF count < NewestLimit THEN count ELSE NewestLimit

\* The queries of lists and of single items, written apart in five repositories, tell the
\* same of the same tables, to every viewer: posts, the posts of a blog, comments, blogs; a
\* blogger sees of a post what the public sees of it, and his own lists lack nothing that
\* the public sees of his blogs, but for their subscribers.
ListsAgreeWithDetails ==
    /\ \A viewer \in Users \cup {None} :
        LET post(p) == GetPostById(p, viewer)
            ownPost(p) == BloggerGetPostById(p, viewer)
            comment(c) == GetCommentViewById(c, viewer)
            blog(b) == GetBlogById(b, viewer)
            ownBlog(b) == BloggerGetBlogById(b, viewer)
            commentsOf(p) == {c \in Comments : comments[c].post = p}
        IN
        /\ Agrees(GetPosts(viewer), post, Posts)
        /\ FailsWithAnItem(GetPosts(viewer), post, Posts)
        /\ \A p \in Posts : /\ NewestAreCounted(p, viewer)
                           /\ post(p).code # "notFound" => ownPost(p) = post(p)
        /\ DOMAIN GetBlogs(viewer).views = {b \in Blogs : blog(b).code = "ok"}
        /\ \A b \in DOMAIN GetBlogs(viewer).views :
              GetBlogs(viewer).views[b] = blog(b).views[b] /\ blog(b) = ownBlog(b)
        /\ \A b \in Blogs :
            /\ Agrees(FindPostsByBlogId(b, viewer), post, PostsOf(b))
            /\ FailsWithAnItem(FindPostsByBlogId(b, viewer), post, PostsOf(b))
            /\ b \in DOMAIN BloggerGetBlogs(viewer).views <=> BloggerFindPostsByBlogId(b, viewer).code # "forbidden"
            /\ Agrees(BloggerFindPostsByBlogId(b, viewer), ownPost, PostsOf(b))
            /\ FailsWithAnItem(BloggerFindPostsByBlogId(b, viewer), ownPost, PostsOf(b))
        /\ \A p \in Posts :
            /\ Agrees(FindCommentsByPostId(p, viewer), comment, commentsOf(p))
            /\ viewer # None /\ blogs[posts[p].blog].owner = viewer =>
                  DOMAIN FindCommentsByPostId(p, viewer).views
                     \subseteq DOMAIN AllCommentsForAllPostsInsideBlogs(viewer).views
    /\ GetAllUsersBlogs.code = "ok" => DOMAIN GetBlogs(None).views \subseteq GetAllUsersBlogs.views

=============================================================================
