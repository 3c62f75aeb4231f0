----------------------------- MODULE MCQueries -----------------------------
(***************************************************************************)
(* Likes, ContentViews, Paging and GameStatistics for TLC.  They share no  *)
(* state here: each behaviour explores one of them (part), of those that a *)
(* run asks for; the tables of Likes stay empty in the others, and their   *)
(* variables hold None in it.                                              *)
(***************************************************************************)
EXTENDS Likes, TLC

CONSTANTS Parts,  \* what a run explores
          Viewers, Posts, Blogs, Comments, MaxViewedLike, MaxSubscriber, NewestLimit,
          MaxItem, MaxRows, PageSize, MaxChange,
          Players, Games, QuestionsPerGame

VARIABLES part,
          said,    \* the status a user last set, of each target; or that two requests overlapped
          loose,   \* likes set while banned or while a ban was about to commit, or in hand across a ban
          blogs, posts, comments, viewedLikes, subscribers,
          items, rows, lastItem, changes, walk,
          stayed,  \* items that the list has shown throughout the walk
          lost,    \* rows that the list has lost since the walk began
          late,    \* items that it has got after they were counted and before their page was read
          games

V == INSTANCE ContentViews WITH Users <- Viewers, likes <- viewedLikes,
                                  MaxLike <- MaxViewedLike
P == INSTANCE Paging
G == INSTANCE GameStatistics WITH Users <- Players

ASSUME QueriesConstants ==
    /\ Parts \subseteq {"likes", "views", "pages", "games"}
    /\ None \notin Status \cup {"contested"}
    /\ V!ViewsConstants /\ P!PagingConstants /\ G!StatisticsConstants

likesVars == <<vars, said, loose>>
viewsVars == <<blogs, posts, comments, viewedLikes, subscribers>>
pagesVars == <<items, rows, lastItem, changes, walk, stayed, lost, late>>

(***************************************************************************)
(* Initial tables of the reads: those the writing modules can leave.       *)
(***************************************************************************)
LikeOf(targetsOf, usersOf, statuses, flags) ==
    {V!NoLike} \cup [target: targetsOf, user: usersOf, status: statuses, isBanned: flags]

\* Subscribers are looked at with any blogs, and with no likes.
SubscribersInit ==
    subscribers \in [V!SubscriberId -> V!SubscriberRow \cup {V!NoSubscriber}]

\* One like is any, one is any of a post; two later ones of one post exceed the limit of
\* newest likes.
ViewsInit ==
    /\ blogs \in [Blogs -> V!BlogRow]
    /\ posts \in [Posts -> V!PostRow]
    /\ \E p \in Posts, u \in Viewers :
            comments = [c \in Comments |-> [post |-> p, user |-> u, isBanned |-> posts[p].isBanned]]
    /\ \E first \in LikeOf(Posts \cup Comments, Viewers \cup {None}, {"Like", "Dislike"}, BOOLEAN),
          second \in LikeOf(Posts, Viewers, {"None", "Like"}, {FALSE}) :
       \E c \in Comments : \E fan \in {comments[c].user} : \E last \in LikeOf(Posts, {fan}, {"Like"}, {FALSE}) :
            viewedLikes = [l \in 1..MaxViewedLike |->
                IF l = 1 THEN first ELSE IF l = 2 THEN second ELSE last]
    /\ IF \A l \in 1..MaxViewedLike : viewedLikes[l] = V!NoLike
       THEN SubscribersInit
       ELSE subscribers = [s \in V!SubscriberId |-> V!NoSubscriber]

\* A player's answers come in order, and only the last brings two points, when all are given.
Answers ==
    {answers \in [G!Numbers -> G!Points] :
        /\ \A n \in G!Numbers : n > 1 /\ answers[n - 1] = None => answers[n] = None
        /\ \A n \in G!Numbers : answers[n] = 2 => n = QuestionsPerGame}

GameRows ==
    {[firstPlayer |-> u, secondPlayer |-> None, status |-> "PendingSecondPlayer",
      progress |-> [v \in Players |-> None]] : u \in Players}
    \cup
    {[firstPlayer |-> uv[1], secondPlayer |-> uv[2],
      status |-> IF first[QuestionsPerGame] = None \/ second[QuestionsPerGame] = None
                 THEN "Active" ELSE "Finished",
      progress |-> [v \in Players |-> IF v = uv[1] THEN first ELSE IF v = uv[2] THEN second ELSE None]] :
        uv \in {uv \in Players \X Players : uv[1] # uv[2]}, first \in Answers, second \in Answers}

\* One unfinished game of a player at most.
GamesInit ==
    /\ games \in [Games -> GameRows]
    /\ \A g, h \in Games :
        g # h /\ games[g].status # "Finished" /\ games[h].status # "Finished"
            => (G!PlayersOf(g) \cap G!PlayersOf(h)) = {}

MCInit ==
    /\ part \in Parts
    /\ Init
    /\ said = [tu \in Targets \X Users |-> None] /\ loose = {}
    /\ IF part = "views" THEN ViewsInit
       ELSE blogs = None /\ posts = None /\ comments = None /\ viewedLikes = None /\ subscribers = None
    /\ IF part = "pages" THEN P!Init /\ stayed = P!Shown /\ lost = 0 /\ late = {}
       ELSE /\ items = None /\ rows = None /\ lastItem = None /\ changes = None
            /\ walk = None /\ stayed = None /\ lost = None /\ late = None
    /\ IF part = "games" THEN GamesInit ELSE games = None

(***************************************************************************)
(* Likes                                                                   *)
(***************************************************************************)
\* Requests that know what a user has said of a target, and will store what he says now.
Setting(t, u) ==
    Creating(t, u)
    \cup {r \in Requests : At(r, "saveLike") /\ req[r].ent.target = t /\ req[r].ent.user = u}

HeldLikesOf(u) ==
    {l \in LikeId : \E r \in Requests : At(r, "saveLike") /\ req[r].id = l /\ req[r].ent.user = u}

\* The like is stored, if the database takes it.
SaidIn(like) ==
    LET tu == <<like.target, like.user>>
    IN  IF said[tu] = "contested" THEN said ELSE [said EXCEPT ![tu] = like.status]

\* A banned user whose access token has not expired yet likes: the like counts.
LoosenedByLike(r) ==
    IF users[req[r].user] = "banned" THEN loose \cup ((lastLike + 1)..lastLike') ELSE loose

\* A like set between the UPDATE and the commit is not flagged.  And a command that does not
\* write isBanned, as save() found it to be what it asks for, may be overtaken by one that
\* does: the flags of all likes are not what the user's row says then.
LoosenedByBan(r) ==
    LET u == req[r].user
        overtaken == (users'[u] = "banned") # req[r].isBanned
        flagged == IF overtaken THEN {} ELSE req[r].rows \cap LikedBy(u)
    IN ((loose \cup LikedBy(u)) \ flagged) \cup HeldLikesOf(u)

\* The rest of what is remembered: of overlaps, and nothing of likes that are gone.
Remember(told, flagged) ==
    /\ said' = [tu \in Targets \X Users |->
                   IF ~CanWrite(tu[1], tu[2])' THEN None
                   ELSE IF Cardinality(Setting(tu[1], tu[2])') > 1 THEN "contested" ELSE told[tu]]
    /\ loose' = {l \in flagged : likes'[l].user \in Users}

LikesStep ==
    /\ part = "likes"
    /\ \/ \E r \in Requests :
            \/ CreateLike(r) /\ Remember(SaidIn(req[r]), LoosenedByLike(r))
            \/ SaveLike(r) /\ Remember(SaidIn(req[r].ent), loose)
            \/ CommitBan(r) /\ Remember(said, LoosenedByBan(r))
       \/ /\ \/ \E r \in Requests : Begin(r) \/ UpdateUser(r) \/ Fail(r)
             \/ \E u \in Users : DeleteUser(u)
             \/ \E t \in Targets : DeleteTarget(t)
          /\ Remember(said, loose)
    /\ UNCHANGED <<part, viewsVars, pagesVars, games>>

\* Finding a like and then creating or saving it comes to an upsert, although nothing makes
\* a like unique and a ban and a save write the same row: of a target there is one like of
\* a user, with the status he last asked for, and none before; unless two of his requests
\* for it overlapped.
LikesAreUpserts ==
    part = "likes" =>
        \A t \in Targets, u \in Users : said[<<t, u>>] # "contested" =>
            /\ {likes[l].status : l \in LikesOf(t, u)} = {said[<<t, u>>]} \ {None}
            /\ Cardinality(LikesOf(t, u)) <= 1

\* A like counts exactly while its user is not banned, unless he set it while banned, or
\* while his ban or unban was about to commit; a request had it in hand across the ban; or a
\* ban and an unban of him overlapped so that the later one found nothing to write of him.
LikesFollowTheBan ==
    part = "likes" =>
        \A l \in LikeId \ loose :
            likes[l].user \in Users => likes[l].isBanned = (users[likes[l].user] = "banned")

(***************************************************************************)
(* Pages                                                                   *)
(***************************************************************************)
PagesStep ==
    /\ part = "pages" /\ P!Next
    /\ stayed' = stayed \cap P!Shown'
    /\ lost' = lost + P!RowsOf({i \in P!Shown : items'[i] # "shown"})
    /\ late' = IF walk.pc = "count" /\ walk'.pc # "count" THEN {}
               ELSE IF walk.list = "counted" /\ walk.pc = "page" THEN late \cup (P!Shown' \ P!Shown)
               ELSE late
    /\ UNCHANGED <<part, likesVars, viewsVars, games>>

MCNext == LikesStep \/ PagesStep

MCSpec == MCInit /\ [][MCNext]_<<part, likesVars, viewsVars, pagesVars, games>>

\* Every list tells of every item what the item's own view tells.
ListsAgreeWithDetails == part = "views" => V!ListsAgreeWithDetails

\* A client who has walked to the last page has been sent every item that was in the list
\* all the while, but for as many as the list lost rows meanwhile, as the joined rows in it
\* exceed its items, and as came between the last count and its page: without removals and
\* joins, a list that is counted after its page misses nothing, whatever is created or
\* shown on the way.
WalkMissesNothing ==
    part = "pages" /\ walk.pc = "done" =>
        LET surplus == P!RowsOf(P!Shown) - Cardinality(P!Shown)
        IN Cardinality(stayed \ walk.seen) <= lost + surplus + Cardinality(late)

\* All reads of the game give a player the same points, games, wins and losses.
StatisticsAgree == part = "games" => G!StatisticsAgree

Symmetry ==
    Permutations(Requests) \cup Permutations(Targets) \cup Permutations(Viewers)

=============================================================================
