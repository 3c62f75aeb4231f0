SPECIFICATION MCSpec
CONSTANTS
    Parts = {"likes", "views", "pages", "games"}
    None = None
    Users = {fay}
    Targets = {t1, t2}
    Requests = {r1, r2}
    Faulty = {r1, r2}
    MaxLike = 3
    Viewers = {ann, bob}
    Posts = {p1, p2}
    Blogs = {b1}
    Comments = {c1}
    MaxViewedLike = 4
    MaxSubscriber = 2
    NewestLimit = 3
    MaxItem = 4
    MaxRows = 2
    PageSize = 2
    MaxChange = 2
    Players = {cid, dot, eve}
    Games = {1, 2}
    QuestionsPerGame = 1
SYMMETRY Symmetry
INVARIANTS OneLikePerRequest LikesAreUpserts 
           ListsAgreeWithDetails WalkMissesNothing StatisticsAgree
CHECK_DEADLOCK FALSE
