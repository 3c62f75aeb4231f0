SPECIFICATION Spec
CONSTANTS
    None = None
    NoRow = NoRow
    Users = {ann, bob}
    Requests = {r1, r2}
    Faulty = {r1, r2}
    MaxBlog = 2
    MaxPost = 1
    CommentedBlogs = {b1, b2}
    CommentedPosts = {p1}
    MaxComment = 2
    MaxBan = 1
SYMMETRY Symmetry
INVARIANTS TypeOK HiddenPostsStayHidden  DeletedStaysDeleted
PROPERTIES OwnerKept BarredStaySilent
CHECK_DEADLOCK FALSE
