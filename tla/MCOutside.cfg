SPECIFICATION Spec
CONSTANTS
    None = None
    Requests = {r1, r2}
    Faulty = {r1, r2}
    Users = {ann, bob}
    Chats = {c1, c2}
    MaxAccount = 2
    MaxCode = 2
    Subscribers = {sue, tom}
    Blogs = {b1}
    MaxSub = 3
    PostImage = PostImage
    BlogImage = BlogImage
    Formats = {png, jpeg}
    MaxImage = 3
    MaxPhoto = 4
    Answers = {yes, no}
    MaxQuestion = 2
SYMMETRY Symmetry
INVARIANTS NothingUndone UploadShows
PROPERTIES QuietAfterUnsubscribe
CHECK_DEADLOCK FALSE
