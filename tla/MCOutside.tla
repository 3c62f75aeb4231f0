----------------------------- MODULE MCOutside -----------------------------
(***************************************************************************)
(* TelegramAccounts, Subscriptions, Images and Questions for TLC.  Each    *)
(* behaviour explores one of them (part); the variables of the others hold *)
(* None.  History variables remember what finished requests were asked to  *)
(* do and which requests overlapped.                                       *)
(***************************************************************************)
EXTENDS Integers, FiniteSets, TLC

CONSTANTS None, Requests, Faulty, Users, Chats, MaxAccount, MaxCode,
          Subscribers, Blogs, MaxSub, PostImage, BlogImage, Formats, MaxImage, MaxPhoto,
          Answers, MaxQuestion

Sizes == [o \in {PostImage, BlogImage} |->
            IF o = PostImage THEN <<"original", "middle", "small">> ELSE <<"main">>]

VARIABLES part, req,
          users, accounts, lastAccount, lastCode,
          account, subs, lastSub, outbox,
          objects, photos, lastPhoto, lastImage,
          questions, lastQuestion, dealt,
          asked,       \* what finished requests left: the last of each kind, None once it was overlapped
          overlapped,  \* requests whose row another has changed since they found it; subscriptions,
               \* and owners of images, that two requests changed at once
          quiet,       \* unsubscribed users, with the blog
          uploaded     \* per owner of images: the last image uploaded to the end, None from the next upload on

T == INSTANCE TelegramAccounts
S == INSTANCE Subscriptions WITH Users <- Subscribers
I == INSTANCE Images WITH Owners <- {PostImage, BlogImage}
Q == INSTANCE Questions

ASSUME OutsideConstants ==
    /\ T!TelegramConstants /\ S!SubscriptionsConstants
    /\ I!ImagesConstants /\ Q!QuestionsConstants

telegramVars == <<users, accounts, lastAccount, lastCode>>
subscriptionVars == <<account, subs, lastSub, outbox, quiet>>
imageVars == <<objects, photos, lastPhoto, lastImage, uploaded>>
questionVars == <<questions, lastQuestion, dealt>>

Init ==
    /\ part \in {"telegram", "subscriptions", "images", "questions"}
    /\ overlapped = {}
    /\ IF part = "telegram"
       THEN T!Init /\ asked = [u \in Users |-> [code |-> None, chat |-> None, isBanned |-> None]]
       ELSE users = None /\ accounts = None /\ lastAccount = None /\ lastCode = None
    /\ IF part = "subscriptions" THEN S!Init /\ quiet = {} /\ asked = None
       ELSE account = None /\ subs = None /\ lastSub = None /\ outbox = None /\ quiet = None
    /\ IF part = "images"
       THEN I!Init /\ uploaded = [o \in {PostImage, BlogImage} |-> None] /\ asked = None
       ELSE objects = None /\ photos = None /\ lastPhoto = None /\ lastImage = None /\ uploaded = None
    /\ IF part = "questions"
       THEN Q!Init /\ asked = [q \in Q!QuestionId |-> [correctAnswers |-> None, published |-> None]]
       ELSE questions = None /\ lastQuestion = None /\ dealt = None

(***************************************************************************)
(* Telegram accounts                                                       *)
(***************************************************************************)
\* Another request has changed the row that r has in hand, or has found the user, or his
\* account, and will save it.
TelegramOverlap(r, u) ==
    \/ r \in overlapped
    \/ \E q \in Requests \ {r} :
          T!HoldsUser(q, u) \/ \E a \in T!AccountId : T!HoldsAccount(q, a) /\ users'[u].account = a

Unless(overlap, value) == IF overlap THEN None ELSE value

BeginsLink(r, u) ==
    LET state == req'[r] IN
    \/ state.pc = "insertAccount" /\ state.user = u
    \/ state.pc = "saveCode" /\ users[u].account = state.id

\* The row in hand of a Telegram request, or of one for a question, changes in this step.
UserChanges(r) == \E u \in Users : T!HoldsUser(r, u) /\ users'[u] # users[u]
AccountChanges(r) == \E a \in T!AccountId : T!HoldsAccount(r, a) /\ accounts'[a] # accounts[a]
QuestionChanges(r) == \E q \in Q!QuestionId : Q!HoldsQuestion(r, q) /\ questions'[q] # questions[q]

\* A request that answers holds no row any more.
OverlappedBy(changed) == {r \in overlapped \cup changed : req'[r].pc # "idle"}

\* What request r asked for user u, once it has saved it.
AskedOf(r, u) ==
    LET state == req[r]
        now == asked[u]
        overlap == TelegramOverlap(r, u)
    IN
    CASE state.pc = "saveUser" /\ state.user = u ->
            [now EXCEPT !.code = Unless(overlap, state.code), !.chat = None]
      [] state.pc = "saveCode" /\ state.id = users[u].account ->
            [now EXCEPT !.code = Unless(overlap, state.ent.code)]
      [] state.pc = "saveChat" /\ state.id = users[u].account ->
            [now EXCEPT !.chat = Unless(overlap, state.ent.telegramId)]
      [] state.pc = "commitBan" /\ state.user = u ->
            [now EXCEPT !.isBanned = Unless(overlap, state.ent.isBanned)]
      [] OTHER -> now

TelegramStep ==
    /\ part = "telegram"
    /\ \E r \in Requests :
        \/ /\ T!Begin(r)
           /\ asked' = [u \in Users |-> IF BeginsLink(r, u) THEN [asked[u] EXCEPT !.code = None]
                                        ELSE asked[u]]
        \/ T!Save(r) /\ asked' = [u \in Users |-> AskedOf(r, u)]
        \/ T!Fail(r) /\ UNCHANGED asked
    /\ overlapped' = OverlappedBy({r \in Requests : UserChanges(r) \/ AccountChanges(r)})
    /\ UNCHANGED <<part, subscriptionVars, imageVars, questionVars>>

\* Whatever the database may still say: None stands for anything.
Keeps(wanted, found) == wanted \in {None, found}

TelegramKept(u) ==
    LET a == users[u].account IN
    /\ Keeps(asked[u].isBanned, users[u].isBanned)
    /\ asked[u].code # None \/ asked[u].chat # None =>
          a # None /\ Keeps(asked[u].code, accounts[a].code) /\ Keeps(asked[u].chat, accounts[a].telegramId)

(***************************************************************************)
(* Questions                                                               *)
(***************************************************************************)
QuestionOverlap(r, q) == r \in overlapped \/ \E p \in Requests \ {r} : Q!HoldsQuestion(p, q)

AskedOfQuestion(r) ==
    LET state == req[r]
        overlap == QuestionOverlap(r, state.id)
    IN
    CASE state.pc = "update" -> [asked EXCEPT ![state.id].correctAnswers = Unless(overlap, state.ent.correctAnswers)]
      [] state.pc = "publish" -> [asked EXCEPT ![state.id].published = Unless(overlap, state.ent.published)]
      [] OTHER -> asked

QuestionStep ==
    /\ part = "questions"
    /\ \/ \E r \in Requests : \/ Q!Begin(r) /\ UNCHANGED asked
                              \/ Q!Save(r) /\ asked' = AskedOfQuestion(r)
                              \/ Q!Fail(r) /\ UNCHANGED asked
       \/ \E q \in Q!QuestionId :
            /\ Q!QuestionDelete(q)
            /\ asked' = [asked EXCEPT ![q] = [correctAnswers |-> None, published |-> None]]
    /\ overlapped' = OverlappedBy({r \in Requests : QuestionChanges(r)})
    /\ UNCHANGED <<part, telegramVars, subscriptionVars, imageVars>>

QuestionKept(q) ==
    /\ Keeps(asked[q].correctAnswers, questions[q].correctAnswers)
    /\ Keeps(asked[q].published, questions[q].published)

\* A finished request is not undone by one that began after it, though each saves a whole
\* entity to change a part, and what it finds changed already it may leave out: the code of
\* the last link is the one that finds the account, a confirmed chat stays, a ban stays, a
\* question keeps its answers and its publication, until a request asks for another value
\* or two requests overlapped.
NothingUndone ==
    /\ part = "telegram" => \A u \in Users : TelegramKept(u)
    /\ part = "questions" => \A q \in Q!QuestionId : QuestionKept(q)

(***************************************************************************)
(* Subscriptions                                                           *)
(***************************************************************************)
Pairs == Blogs \X Subscribers
OverlappedNow == {bu \in Pairs : Cardinality(S!Changing(bu[1], bu[2])') > 1}

\* The request r unsubscribes, alone, and no listener has read the row before.
Quieted(r) ==
    {bu \in Pairs :
        /\ req[r].pc = "saveSub" /\ req[r].ent = [blog |-> bu[1], user |-> bu[2], status |-> "Unsubscribed"]
        /\ bu \notin overlapped
        /\ S!Informing(bu[1]) = {}}

Subscribing ==
    {bu \in Pairs : \E r \in Requests :
        req'[r].pc = "saveSub" /\ req'[r].ent = [blog |-> bu[1], user |-> bu[2], status |-> "Subscribed"]}

SubscriptionStep ==
    /\ part = "subscriptions"
    /\ \/ /\ \/ \E r \in Requests : S!Begin(r) \/ S!Listen(r) \/ S!Fail(r)
             \/ \E m \in Pairs : S!Delivered(m) \/ S!Refused(m)
             \/ \E u \in Subscribers : S!AccountChanges(u)
          /\ quiet' = quiet \ Subscribing
       \/ \E r \in Requests : S!SaveSubscriber(r) /\ quiet' = (quiet \cup Quieted(r)) \ Subscribing
    /\ overlapped' = overlapped \cup OverlappedNow
    /\ UNCHANGED <<part, telegramVars, imageVars, questionVars, asked>>

\* A user who has unsubscribed gets no message of a post that is announced later, until he
\* subscribes again; unless two of his requests overlapped and left him a second row.
QuietAfterUnsubscribe ==
    [][part = "subscriptions" => (outbox' \cap quiet) \subseteq outbox]_<<part, outbox, quiet>>

(***************************************************************************)
(* Images                                                                  *)
(***************************************************************************)
ImageStep ==
    /\ part = "images"
    /\ \E r \in Requests :
        \/ I!Begin(r) /\ uploaded' = [uploaded EXCEPT ![req'[r].owner] = None]
        \/ /\ I!Proceed(r)
           /\ uploaded' = IF I!At(r, "idle")' THEN [uploaded EXCEPT ![req[r].owner] = req[r].image]
                          ELSE uploaded
        \/ I!Fail(r) /\ UNCHANGED uploaded
    /\ overlapped' = overlapped \cup {o \in {PostImage, BlogImage} : Cardinality(I!Uploading(o)') > 1}
    /\ UNCHANGED <<part, telegramVars, subscriptionVars, questionVars, asked>>

\* An upload that ran to its end is shown in every size, by one row each that names an
\* object with the image and has its measures, whichever uploads failed midway before it;
\* unless two uploads of the owner overlapped.
UploadShows ==
    part = "images" =>
        \A o \in {PostImage, BlogImage} \ overlapped :
            uploaded[o] # None =>
                I!Shows(IF o = PostImage THEN I!PostImageView(o).main ELSE I!BlogImageView(o).main,
                        I!SizeOf(o), uploaded[o])

Next == TelegramStep \/ QuestionStep \/ SubscriptionStep \/ ImageStep

Spec == Init /\ [][Next]_<<part, req, telegramVars, subscriptionVars, imageVars, questionVars, asked, overlapped>>

Symmetry == Permutations(Requests) \cup Permutations(Users) \cup Permutations(Subscribers)

=============================================================================
