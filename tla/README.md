# A verification project for the blog platform and its quiz game

The program is a NestJS server over PostgreSQL (TypeORM 0.3). It serves a blog platform (users, blogs,
posts, comments, likes, moderation, subscriptions) and a quiz game that two players play against each
other. Each HTTP request and each run of the cron job is a chain of `await`s over a connection pool, so
any two of them interleave at every statement. Only connecting to a game, answering and the cron job use
row locks (`SELECT ... FOR UPDATE`), only these and the ban of a user run in transactions, and almost
every write is TypeORM's `save(entity)`, which reads the row, compares it with an entity read earlier and
then updates or *inserts* it. That is what makes the program hard to test, as its end-to-end tests are
all sequential, and it is what the modules here are about.

Contents: [inventory](#inventory) · [plan](#plan) · [how the code is modelled](#how-the-code-is-modelled)
· [modules](#modules) · [runs](#runs) · [fairness](#fairness) · [proofs](#proofs) · [what the models show
about the code](#what-the-models-show-about-the-code) · [limits](#limits)

Paths are relative to `src/src/feature` unless they begin with `src/`.

## Inventory

### Pair quiz game (`pair-quiz-game`) - modelled
- State: `PairQuizGame` (two players, status), `PairQuizGameProgress` (per game, player and
  question: answer status, time, score, bonus).
- Operations: connect (join the pending game under its row lock and deal five questions to both
  players, or create a game), answer the lowest unanswered question (and perhaps end the game),
  `finishOpenGamesCron` every second (close the open questions of the slower player nine seconds
  after the last answer, award the bonus, end the game). Reads: the current game, a game by its id,
  the history, a player's statistics, the top of all players.
- Interaction: requests and cron runs meet on the row locks of games; several reads inside a
  transaction go through another connection and do not see what the transaction has written.
- Hard: races of two connects, of two answers of a player, of answers with the cron job and of
  overlapping cron runs; stale reads; rows of other games that come into the cron job's hands; one
  aggregation written twice, in JavaScript and in SQL.
- Correct when: a game is opened, paired and finished once, each with its own questions; answers
  come in order and are final; the score says what was answered; one bonus, to the right player;
  a game that one player has completed ends; all reads give a player the same points and wins.

### Transaction helper (`src/src/decorators/transaction.decorator.ts`) - modelled
Begin, commit when the result carries no error, roll back otherwise, rethrow. Part of every operation of
the game and of the ban of a user.

### Authentication and security devices (`auth`, `security-devices`) - modelled
- State: `SecurityDevices` (owner, `lastActiveDate`), the refresh tokens clients hold.
- Operations: login (insert a row without dates, sign tokens, save the row), refresh (verify,
  sign, save), logout, delete the other sessions, delete one session by id.
- Interaction: a ban deletes the sessions in a transaction; the deletion of a user cascades.
- Hard: everything between the check of a token and the save of its row: the row may be renewed by
  another refresh, or deleted, and then it is inserted again.
- Correct when: a session accepts a token its user holds, belongs to one user, cannot be touched by
  others, never makes the token check fail on a NULL date, and ends with a ban.

### Users (`users`) - modelled
- State: `Users` (credentials, confirmation and recovery codes, ban, Telegram account). Operations:
  registration, confirmation, resending, password recovery, creation, deletion, ban and unban; an
  unban or ban also sets the flags of the user's blogs, comments and likes.
- Hard: saves of an entity read earlier (a recovery undoes a ban, a resend undoes a confirmation), a ban
  that leaves out of its UPDATE what it found done, content created before the transaction of a ban
  commits, registration without a unique index, recovery codes that can be used again.
- Correct when: a ban lasts until an unban, a code in force is one its owner was sent, a password and
  a confirmation come from such a code, the flags of content agree with the ban.

### Blogs, posts, comments, likes (`blogs`, `posts`, `comments`, `likes`, `bloggers`) - modelled
- State: one row per object with its ban flag, `BloggerBannedUser`, `PostLikes`, `CommentLikes`.
- Operations: create, update, delete; bind a blog to a user; ban and unban of a blog (its row, then its
  posts), of a user in a blog; like statuses. Reads: lists with pages and single views, for the
  public, for bloggers and for the administrator.
- Interaction: foreign keys cascade or set NULL; the ban of a user flags three tables in its
  transaction; lists filter by flags that other handlers set.
- Hard: find-or-create without a constraint (likes, blogger bans), two statements without a
  transaction (ban of a blog and of its posts), entities saved after their rows were hidden, moved or deleted,
  content created while its author is banned, the same list written in five repositories, pages
  that shift while a client turns them.
- Correct when: banned content stays hidden until an unban, and is shown after it; deleted rows stay
  deleted; barred users stay silent; a blog keeps its owner; likes do not multiply; lists and single
  views tell the same; a walk through the pages misses nothing that was there all the while.

### Subscriptions and Telegram (`blogs/blog-subscriber.service.ts`, `users/telegram-user-accounts`) - modelled
- State: `BlogSubscribers`, `TelegramUserAccounts`, messages in flight. A new post emits an event; its
  listener goes through the subscribers. Messages from Telegram are handled without being awaited.
- Hard: duplicates by find-or-create; a subscriber without an account stops the loop, and the rejection
  ends the process; the account is saved before the user that refers to it.
- Correct when: who unsubscribes is left alone; the last link and the confirmed chat are those stored.

### Images (`blogs`, `posts`, S3 adapter) - modelled
An object in S3 and a row that names it, one after the other, for three sizes of a post's image and two
kinds of a blog's. Correct when a finished upload is what is shown, whatever failed midway before it.

### Questions (`questions`) - modelled
Create, update, publish, delete, each a read and a save of the entity that was read; a game that was dealt
a question keeps it. Correct when no finished request is undone by one that began after it.

### Connection pool (`src/src/app.module.ts`) - modelled
At most ten connections, no timeout; transactions that hold one take a second for a read. Correct when no
connection is lost, and every request is served unless such transactions hold the whole pool.

### Not modelled
- The throttler: four lines around the library's storage, which does the counting.
- Validation, pipes, guards' decoding of tokens, mapping of results to HTTP, swagger, settings and the
  wiring of modules: no state of their own.
- The Mongoose schemas, raw SQL repositories and commented-out versions that the TypeORM ones have
  replaced: the running program calls none of them. Migrations.
- Of the lists of posts: that the join with the newest likes repeats a post for each of them (and for each
  like of the viewer's), as views are taken by post here; and the images in a list, which the public list
  picks by `image.id === postRaw.id` (`posts-query.repository.ts:291`) where all others compare `image.postId`.
- Of the lists: search terms, other columns to sort by and the texts of the views; the page of the top
  list (its order is a sort by the columns that `GameStatistics` computes).
- Average scores. A player's own is `Math.round((sum / count) * 100) / 100` of floats, that of the top list
  SQL's `ROUND` of a numeric: they differ at some halves (41 points in 40 games are 1.02 and 1.03). There
  are no floats here, and the first such table has forty games.
- Whether an e-mail arrives; the endpoint that empties the database for tests.

## Plan

Written: the game (`PairQuizGame` with its abstract specification `GameLifecycle`, `GameStatistics`), the
sessions and accounts (`DeviceSessions`, `UserAccounts`), content (`Blogs`, `Comments`, `Likes`,
`ContentViews`, `Paging`), what reaches outside (`TelegramAccounts`, `Subscriptions`, `Images`,
`Questions`) and `ConnectionPool`; each with its run, and with theorems for all of its safety properties but
one (see [proofs](#proofs)). The abstract specifications are `GameLifecycle`, which `PairQuizGame` refines, and
three that are stated as invariants over what was asked, because what is promised has an exemption for overlaps
that a refinement mapping would have to carry along: a like is an upsert (`LikesAreUpserts`), a
finished request is not undone (`NothingUndone`), a finished upload is what is shown (`UploadShows`). Of what
is listed as not modelled, the joins that repeat a post and the page of the top list would come next.

## How the code is modelled

**Steps.** A handler is a process with a program counter; one action stands for the code between two
awaits. A statement that may wait for another transaction has a step of its own whose guard is the lock.
Early returns and errors that change nothing end the process, or are the absence of a step when they come
before anything was read that matters later.

**The database.** READ COMMITTED, as PostgreSQL is configured by default. Committed rows are the
variables (`game`, `progress`, `users`, `device`); what a transaction has written is in its process'
record until it commits, so a read issued outside the transaction sees committed rows only. `SELECT ...
FOR UPDATE` takes a snapshot of the rows to lock, waits for each, and re-evaluates its WHERE clause on
the latest version (`LockRow`, `StillMatches`). Rows are locked in any order, so a deadlock of two
transactions is possible in the model as in the database; PostgreSQL ends one, which is `Fail` for a
process in `Faulty`. Ids come from sequences and are never used twice.

**`save(entity)`.** Two steps, as TypeORM does it: a SELECT that finds out which columns differ (or that
the row is gone), then an UPDATE of those columns, or an INSERT. An UPDATE of a row deleted in between
changes nothing. The game, the sessions and the accounts have both steps. The modules of content and of
what is outside take them as one, and let it have any of the results of two (`Saves`): the columns that the
handler changed are written; a column that others have changed since the handler read the row is set back
to what was found, or left, as they did so before save() read it or after; a row that has gone is inserted,
or not updated. What stays apart everywhere is the read of the entity by the handler and its save.

**Reads that only guard.** Consecutive reads of a handler that end in an early return, and whose results
are not used later, are one step with the last of them; rows whose content is used are read by the action
that takes them in hand.

**The ban of a user** is, in the tables of content, three steps (`UserBans`). `FindUser` reads him, outside the
transaction, with what save() will find to differ (`changed`). `UpdateUserAnd` writes his row and takes
hold of the rows that the table's UPDATE finds: what it has written is in the request's record and is
locked, so other writers of these rows wait. `CommitUser` applies both. A row inserted between the last two
is not flagged: it is not among the rows found, and its foreign key does not wait for the transaction
(an UPDATE of `isBanned` leaves the key of `Users` alone). A ban of a user found banned
writes date and reason only, an unban of a user found active writes nothing of him, so that what another
command commits in between stays. `UserAccounts` has the same ban with the two halves of save() as steps,
and `DeviceSessions` with those of the sessions.

**Abstracted.** Names, texts, questions and passwords; a question of a game is its number, an answer is
Correct or Incorrect. Time is a counter: the milliseconds of answers in the game, the seconds of a
token's `iat` in the sessions. Five questions become the constant `Last`, nine seconds `Window`.

## Modules

**`PairQuizGame`.** `game` and `progress` are the tables, `locks` the row locks, `clock` the time, and
`tx[p]` what process `p` (a request of `Workers` or a cron run of `Crons`) has in hand: entities
(`ents`), its uncommitted game row (`draft` of game `mine`) and progress rows (`rows`), the columns a
save will write, and what is left of the cron job's list. The actions, by handler:

| Code | Actions |
|---|---|
| `create-pair-quiz-game.usecase.ts` | `Connect` `FindGamePending` `LockRow` `CreateNewGame` `JoinGame` `AddQuestionsForGame` |
| `answer-pair-quiz-game.usecase.ts` | `Answer` `LockRow` `GameNotFound` `AnswerQuestion` `QuestionNotFound` `SaveLoad` `SaveUpdate` `ReviewGame` `AddBonusPoint` |
| `pair-quiz-game.service.ts`, cron | `FinishOpenGamesCron` `NextGame` `LockRow` `FailedToComplete` `CompleteGame` `CollectProgress` `CloseRow` `SaveLoad` `SaveUpdate` `RowsClosed` `AddBonusPoint` `EndOfLoop` |
| `transaction.decorator.ts` | `Commit` `Rollback` `Fail` |

Two things that look odd are translated as they are: the cron job's `findByGameId(game.id)` receives
`undefined` (the query's column is aliased `gameId`), so it works on the rows of all games
(`CollectProgress`), and `findOneBy({ id: null })` returns any row of the table (`FindById`).

**`GameLifecycle`** is what a client may rely on: a game is opened by one player, paired once, both
players being dealt the same questions in that very step, and finished once. `PairQuizGame` implements it
with `dealt <- Present(progress)`, the set of rows that exist.

**`DeviceSessions`.** `device` and `users` are the tables, `issued` the refresh tokens that were sent,
`req[r]` a request and `ban[a]` a ban command.

| Code | Actions |
|---|---|
| `auth.service.ts` login | `Login` `CreateSecurityDevice` `CreateTokens` `FindSession` `LoadDevice` `UpdateDevice` / `InsertDevice` `Respond` |
| `jwt-refresh.strategy.ts` | `PresentToken` `VerifyToken` (first steps of refresh, logout and both deletions) |
| `auth.service.ts` refresh | `FindUser` `CreateTokens` `FindSession` `LoadDevice` `UpdateDevice` / `InsertDevice` `Respond` |
| logout, `security-device.controller.ts` | `FindTarget` (deletion by id) `DeleteSessions` |
| `ban-unban-user.usercase.ts` | `BanUnbanUser` `LoadUser` `UpdateUser` `DeleteAllDevices` `CommitBan` `FailBan` |
| `delete-user.usecase.ts` | `DeleteUser` |

**`UserAccounts`.** `users` is the table again, with the columns the account operations change (a login
and an address are one name, a code and its expiration one number); `mailed` is the set of e-mails sent,
and `req[r]` a request with the entity it has in hand. Every operation finds a user, changes the entity
and saves it: `LoadUser` and `SaveUser` are the two halves of the save.

| Code | Actions |
|---|---|
| `users.service.ts` registration | `Register` `FindByEmail` `CreateUser` `SendMail` |
| confirmation, new password | `ConfirmRegistration`, `NewPassword`, then `LoadUser` `SaveUser` |
| resending, recovery | `ResendConfirmationCode`, `PasswordRecovery`, then `LoadUser` `SaveUser` `SendMail` |
| `create-user.usecase.ts`, `delete-user.usecase.ts` | `CreateUserByAdmin`, `DeleteUser` |
| `ban-unban-user.usercase.ts`, `transaction.decorator.ts` | `BanUnbanUser` `LoadUser` `WriteBan` `CommitBan`, `Fail` |

Both `DeviceSessions` and `UserAccounts` model the ban, each with the part of the user row and of the
transaction that concerns it: there the sessions it deletes, here the saves that race with it. The columns
a save writes are those that differ at its SELECT (`ColumnsToWrite`); the date of a ban, which always
differs, stands for itself (`BanDate`), so a ban of a banned user writes, and locks, his row without `isBanned`.

**`UserBans`** has the steps of the ban described above for one table of content, and **`Saves`** what a
save() in one step may leave; `Blogs`, `Comments` and `Likes` extend the first, `Blogs`,
`TelegramAccounts` and `Questions` the second.

**`GameStatistics`** has the reads of the game over a table of games with their progress.
`UserGameStatistics` is computed by the program from scores per game, `GetUsersTop` by the database from
the join of scores with those of the same game; `ConvertToView`, `FindGameById`, `MyCurrentGame` and
`GetAllMyGames` are the views, with the errors they end in. Averages are left out (see the inventory).

**`Blogs`.** `users` (active, banned, deleted), `blogs` and `posts` are tables, `req[r]` a request.

| Code | Actions |
|---|---|
| `blogs/use-case`: creation, update, deletion | `CreateBlog` `InsertBlog`; `UpdateExistingBlogById` `WriteBlog`; `DeleteBlogById` `RemoveBlog` |
| posts of a blogger | `CreatePostByBlogId` `InsertPost`; `UpdatePostById` `FindPost` `WritePost`; `DeletePostById` `RemovePost` |
| `bind-blog-with-user.usecase.ts` | `BindBlogWithUser` `WriteBlog` |
| `user-ban-unban-blog.usecase.ts` | `UserBanUnbanBlog` `WriteBlog` `FlagPosts` |
| `ban-unban-user.usercase.ts`, `delete-user.usecase.ts` | `BanUnbanUser` `UpdateUser` `CommitBan`; `DeleteUser` |

**`Comments`.** Comments, with the posts they hang on (`postBlog`) and the bans of users by bloggers.

| Code | Actions |
|---|---|
| `blogger-ban-unban-user.usecase.ts` | `BloggerBanUnbanUser` `CreateBloggerBannedUsers` / `SaveBloggerBannedUser` |
| `create-comment-by-post-id.usecase.ts` | `CreateCommentByPostId` `CheckBan` `InsertComment` |
| update and deletion | `UpdateCommentById` `SaveComment`; `DeleteCommentById` `RemoveComment` |
| the author's ban and deletion, his post's | `BanUnbanUser` `UpdateUser` `CommitBan`; `DeleteUser`, `DeletePost`, `MovePost` |

**`Likes`.** Posts and comments are liked by the same steps over two tables of one shape, so one module
stands for both: `SetLikeStatus`, then `CreateLike` or `SaveLike`; `BanUnbanUser` `UpdateUser` `CommitBan`;
`DeleteUser` leaves likes without a user, `DeleteTarget` cascades.

**`ContentViews`** has the queries on this content as operators over its tables: filters by ban flags,
counts of likes, the viewer's own status, newest likes, subscribers, and the errors that a missing user
or owner causes in a conversion. The repository of bloggers has its own statements on likes
(`BloggerLikesInfo`, `BloggerNewestLikes`), translated apart, as they are what could disagree. A list is
taken whole here; **`Paging`** has the pages: a client asks
for one after the other (`FindPage`, `Count`, `Answer`) while items are created, shown, hidden, deleted
and joined. It has the three shapes that the repositories' lists come in: ids of a page and then their
views (posts, comments, games), rows joined with photos and subscribers (blogs), a count before the page
(users).

**`TelegramAccounts`**, **`Subscriptions`**, **`Images`**, **`Questions`**:

| Code | Actions |
|---|---|
| link to the bot | `GenerateAuthBotLink`, then `InsertAccount` `SaveUser`, or `SaveAccount` |
| message from Telegram | `UpdatingMessagesFromTelegram` `SaveAccount` |
| ban, with the account found with the user | `BanUnbanUser` `CommitBan` |
| subscribe, unsubscribe | `SubscribeUserToBlog` / `UnsubscribeUserToBlog`, `SaveSubscriber` |
| listener of new posts | `PostCreated` `InformSubscribers` `Inform`; the messages: `Delivered`, `Refused`; `Restart` of the process |
| upload of an image | `UploadImage`, then for each size `PutObject` `FindPhoto` `SavePhoto` |
| questions | `CreateQuestion` `InsertQuestion`; `QuestionUpdate` / `QuestionPublishUnpublish` `SaveQuestion`; `QuestionDelete`; dealing: `RandomQuestions` `AddQuestionsForGame` |

`PostImageView` and `BlogImageView` of `Images` are what an upload answers and every view of the owner shows: the
rows found, with the object that the url of each names.

**`ConnectionPool`.** The pool is the pg library's, modelled from its use: `Take` gives a free connection
or queues, `Give` hands it on to the head of the queue. Handlers are what they take from it: a statement
(`Query`), or a transaction that may lock a row (`Lock`, `LockFails`) and then has statements of injected
repositories inside (`InnerQuery`), of which one stands for all.

`MCMatchmaking`, `MCGame`, `MCSessions`, `MCBans` and `MCAccounts` instantiate the first modules for TLC.
`MCGame` starts from games that are already paired (states `MCMatchmaking` reaches), so that its runs can
afford the play; `MCBans` and `MCAccounts` add history variables that remember which races have happened
(`raced`, `ban`, `torn`) and which codes were presented.

`MCModeration`, `MCQueries` and `MCOutside` put several modules together, and each behaviour explores one
of them (`part`): they share no variable, or, as `Blogs` and `Comments`, only meet in the ban of a user,
whose flags each applies to its own table, so the product of their states would show nothing that the sum
does not. History variables say what the properties are about: posts a ban has hidden and requests that
held a blog before its owner got it (`hidden`, `rivals`), rows gone while nobody held them (`gone`),
barred users (`barred`), comments and likes whose flag is uncertain (`loose`), the status a user last
set (`said`), what was in a list throughout a walk (`stayed`, `lost`, `late`), what finished requests were asked to do (`asked`, `uploaded`, `quiet`)
and who overlapped (`overlapped`). A row is `loose` when it was written by a banned user, was in a request's hands
when a ban or unban of its user committed, was written between the UPDATE and the commit of one, or when one
committed that had found nothing to write of him and had been overtaken; a commit that flags it with what the
user's row says makes it certain again. A request is `overlapped` in Telegram and questions
when another has changed the row it has in hand, as save() may then leave out what it was asked for. The
assumptions on the constants of an instanced module are assumptions of the MC module.

Operators marked *mutant* in the system modules are plausible bugs (a lost lock, a dropped recheck, a
wrong owner) and belong to no specification: each breaks the property it is listed with, which shows that
the property depends on the code.

## Runs

| Run | Instance | Question | Distinct states |
|---|---|---|---|
| `matchmaking` | 3 users, 3 requests, 3 games, 0 or 2 questions, everything may fail | do racing connects keep `RefinesLifecycle`? | 106,595 |
| `one_game` | 2 players, 2 requests, 2 cron runs, 2 questions, one request and one cron run may fail | `AnswersInOrder` `ScoreMatchesAnswer` `FinishedGameIsAnswered` `BonusToFastest` `AnswersAreFinal` | 901,530 |
| `game_ends` | the same with one cron run, `Window` 2, four instants, fairness | `GameEnds`: one player's last answer leads to the end of the game | 92,274 |
| `two_games` | one player in two games, 2 requests, 1 cron run that may fail | `OneBonusPerGame` `NoDoubleAnswer` `GameWritesAreIsolated` where games get mixed up | 901,338 |
| `second_game` | a finished game in the table, then a game | `FirstToFinishIsCharged`, **violated** (see below) | - |
| `sessions` | 2 users, 2 sessions, 2 requests, 3 seconds, everything may fail | `SessionsStayUsable` `IssuedTokenHasDate` `SessionKeepsOwner` `OthersUntouched` | 1,670,648 |
| `bans` | 1 user, 2 sessions, 2 requests, 1 ban command that may fail | `BanEndsSessions`: does a ban end the sessions of the user? | 3,427,830 |
| `accounts` | 1 user, 3 codes, 2 requests that may fail | `CodesReachOwner` `PasswordFromOwner` `BanLasts` `ConfirmedByOwner` | 5,470,741 |
| `moderation` | 2 users, 2 requests that may fail, 2 blogs and 1 post, or 2 commented blogs, 1 post and 2 comments, 1 blogger ban | do bans and deletions last: `HiddenPostsStayHidden` `HiddenWithAuthor` `DeletedStaysDeleted` `OwnerKept` `BarredStaySilent`? | 2,072,468 |
| `queries` | a user's likes of 2 targets, 3 rows, 2 requests that may fail; all tables of 2 posts, a comment, 4 likes, 2 subscriptions; walks over 4 items with 2 changes; all tables of 2 games of 3 players | is find-or-create an upsert (`LikesAreUpserts` `OneLikePerRequest`), do likes follow bans (`LikesFollowTheBan`)? what do reads tell: `ListsAgreeWithDetails` `WalkMissesNothing` `StatisticsAgree` | 1,907,852 |
| `outside` | 2 requests that may fail: 2 users and 2 chats; 2 subscribers of a blog; a post and a blog with 3 uploads; 2 questions | `NothingUndone` `UploadShows` `QuietAfterUnsubscribe` | 2,210,326 |
| `pool` | 3 requests, 2 connections, fairness | `PoolAccounted`, `NoOtherJam`; `ServedUnlessExhausted` | 14,986 |

The runs leave two questions to the proofs, which are about all actions together: that connects write
games from their latest committed row (`Isolation`), and that a session which survives a ban stays usable
(`Usable`).

The bounds. Two processes are enough for every race of two handlers. Three connects are needed for the
interesting one (two wait for the lock of the game a third has created). Two questions tell the first,
the last and "the next" apart. Two cron runs overlap with each other and with requests. A clock of two
instants distinguishes earlier from later and from equal; `game_ends` needs four to let an answer age.
Two sessions tell a user's own from the other one, and let a deleted row's id be confused with a new one.
Three codes give a registration and two resends, or three recoveries, that race; the operations of an
account touch one row, so `accounts` has one (with two, TLC does not finish in the time of a run). In the
other runs two requests are every race of two handlers, and a third row, or deletion, happens without a
request. Two blogs let a post move and a binding go wrong; one blogger's ban is enough as its row is what
silences, lifted or not; a second comment is one written after a ban. In `queries` three rows of likes
for two requests exceed the bound and show a duplicate; one user is enough to like as no handler touches
the likes of two, and the proofs are for any number. There four viewed likes with at most three newest exceed the
limit, which spans the page; pages of two over four items give a second and a third page to shift;
two games of three players give one a game with each of the others, or two with one. In `outside` three uploads are one that failed midway,
one that overlaps and one after, and the third subscription is the duplicate of one of two. Three
requests on two connections are the smallest pool that transactions exhaust while a bystander waits. The
bounds on ids and clock are why the system can stop: `CHECK_DEADLOCK FALSE` in every configuration, as
requests also need not arrive. Symmetry is used where no liveness is checked; users, requests, sessions
and games are interchangeable there.

`CronKeepsUp` is an assumption on the environment, only made in `game_ends`: the clock does not pass the
moment an answer would leave the nine-second window before the cron job has seen it. Without it
`GameEnds` is false in the code as well: a server that is down for nine seconds forgets the game.

## Fairness

Two runs use it. `game_ends`: weak fairness of a request that is running and of the cron job: the event
loop resumes a handler whose statement has returned, and the scheduler fires every second. Strong
fairness of `LockRow`: PostgreSQL queues the waiters of a row lock, so one that waits is not overtaken
for ever. Nothing makes a player answer or a request arrive: the property begins with the last answer of
one player, and the other may be silent.

`pool`: weak fairness of a request that has its connection, as a statement ends and its handler resumes,
and strong fairness of `Lock` for the same reason as above. No request need arrive and no lock need fail
(`LockFails` has no fairness), so nothing but the code resolves a jam.

## Proofs

All proofs hold for any numbers of users, games, questions, sessions, accounts, codes, blogs, posts, comments,
requests, cron runs, ban commands, likes, subscriptions, uploads, items of a list, sizes of a page and
connections, and any set of requests that may fail. They assume `GameConstants`, `NullIsNoRow`,
`SessionConstants`, `AccountConstants`, `ModerationConstants`, `LikesConstants`, `QueriesConstants`,
`OutsideConstants` and `PoolConstants` (the sets are disjoint, NULL is neither an id nor a status, there is
at least one question, one instant, one like, one item and one connection, requests are finitely many where
they are counted); hypotheses beyond these are named with the theorem.

`PairQuizGameProofs`: `TypeCorrect`, `Isolation` (`GameWritesAreIsolated`) and `Refinement`
(`RefinesLifecycle`). None of them is inductive. The invariant `IInv` adds `Local(p, tx[p])`, what holds
at each program point of a process: the games it has found are locked by it and still have the status of
its WHERE clause (`Held`), a draft starts from the committed row (`DraftIsFresh`), rows in hand exist in
the table (`Known`) except those of a join, which are exactly the questions dealt (`DealtInDraft`). The
argument is local: a step of `p` leaves another process' part alone because of the locks (lemma `Frame`),
so each action shows it only for the record it leaves behind (`QuietStep`). Only `Commit` changes tables,
hence the refinement is its case; all other steps stutter.

`AnswersAlone` (`NoDoubleAnswer`) is not a matter of one lock, as a player may be in several active games
and his request takes a question of any of them. What holds is that of two of his requests the later one
waits for, or has, every game of the earlier that is still active (`Nested`): a game once active stays
his until it ends, so it is in the later snapshot, and both drop it when it has ended. Two requests past
their locks would both hold the earlier one's game.

`GamePlayProofs`, first part: `AnswersFollowQuestions` (`AnswersInOrder`), `ScoresMatch`
(`ScoreMatchesAnswer`) and `AnswersStay` (`AnswersAreFinal`), for any numbers of users, games, questions,
requests and cron runs, under the hypothesis that at most one game is open at a time (`OneOpenGame`; any
number may have ended). The hypothesis is needed: `findByGameId(undefined)` gives the cron job the rows of
all games, and it saves rows of a game it has not locked. It is stated of the behaviour and not assumed
of the constants, so `Spec /\ []OneOpenGame` has the behaviours in which games are played one after
another, connects and pairings included. The invariant `PInv` is about the rows as a transaction sees them (`View`): it
may only commit rows that keep the answers committed and answer no question before an earlier one
(`GoodView`), the entity it is saving differs from the row in its next answer at most (`GoodSave`), and
the columns it found changed are those that still differ, since nobody commits while it holds the game
(`CommitAlone`).

`GamePlayProofs`, second part: `GameIsAnswered` (`FinishedGameIsAnswered`) and `BonusIsFair`
(`BonusToFastest`), for `OneGameSpec` with any number of questions, requests, cron runs and failures,
under `OneGame`: the table holds one game of two different players. With a game before it
`BonusToFastest` is false (`second_game`), and `FinishedGameIsAnswered` is false too when a cron run
still holds, from an earlier game, the name of a player who has not answered in this one. The invariant `TurnInv`
rests on three facts. A request never ends a game (`NeverOver`): it counts the answers without the one it has
just saved, which is the last of its player. The cron job holds only players who have given their
last answer, so with `AnswersInOrder` all of theirs, and closes all others' before the bonus
(`AllAnswered`). And the row it rewards, found among its entities by question number and player, is
the one `BonusToFastest` names for its view (`LastAnswersKnown`), which saving the bonus does not change.

`GamePlayProofs`, third part: `BonusesCounted` (`OneBonusPerGame`), for any finite number of games, open at once
or not, of the same players or not. Here the cron job saves rows that it has not locked, so points may be lost
and come back, and no count of the points in the table is kept by every step. What is kept is that
somebody has paid: there is a function from ended games to points such that each point in the table, or in a
row that a process has in hand and will save, is the point of some game (`PaidUp`). A process that
awards a point holds the lock of its game, which has not paid before and ends in the same commit. The function
is not a variable of the model: each step shows that there is one again.

`DeviceSessionsProofs`: `TypeCorrect`, `Usable` (`SessionsStayUsable`), `DateKnown`
(`IssuedTokenHasDate`), `Owner` (`SessionKeepsOwner`) and `Untouched` (`OthersUntouched`). The invariant
relates requests to rows: every token, request and row that names a session claims it for a user, claims
exist only for ids handed out, and there is one claimant (`Claimed`, `OneOwner`); the date of a row is
that of a token sent or about to be (`Sourced`); a request that found its row unchanged or has saved it
leaves a date behind (`Dated`). Deletions keep all of it because rows only stay or go (lemma `Frame`);
the two cases with work are the INSERT of a login and the save. `BansEndSessions` (`BanEndsSessions`) adds
that a banned user whose ban raced with nothing has no sessions, and that all his requests can do is
present a token that finds none (`BInv`); a login is refused, as the user is read as banned.

`UserAccountsProofs`: `TypeCorrect`, `CodesMailed` (`CodesReachOwner`), `PasswordsOwned`
(`PasswordFromOwner`), and over the history of `MCAccounts` `ConfirmationEarned` (`ConfirmedByOwner`) and
`BansLast` (`BanLasts`). As a request saves the columns in which its copy differs from the row, any
mixture of columns of copies of different age can arise. So the invariant says of every copy in hand what
it says of the rows: one login per user (`OneLogin`), a code in one place until it is mailed
(`CodesFresh`), codes and passwords mailed to that login or about to be (`Sourced`), one origin, by
registration or by the administrator (`OneOrigin`), and agreement on `isBanned` except in the copies that
raced with a ban (`BInv`). A ban that leaves `isBanned` out of its UPDATE writes nothing of it, so what it has to
say is only that, while nothing races with it, the row is as it asks (`Agrees`); when it commits after another
command has changed the row, the uncertainty there was (`raced`) stays.

`ModerationProofs`: `TypeCorrect`, `HiddenForGood` (`HiddenPostsStayHidden`), `OwnersKeepBlogs` (`OwnerKept`),
`BarredAreSilent` (`BarredStaySilent`), `FlaggedWithTheAuthor` (`HiddenWithAuthor`) and `NothingComesBack`
(`DeletedStaysDeleted`), for both parts of `MCModeration`. A `save()` writes what it found before and inserts a row
that has gone, so each property fails if nothing is known of the entities in hand. The invariants say of these
what the properties say of the rows: of a hidden post only flagged entities are in hand (`HidingIsWhole`); a
request that has a blog in hand writes the present owner unless it is among `rivals` (`RivalsAreAll`); a row
that is gone is in no one's hand and has no id still to come (`BlogsStayGone`, `BlogIdsFresh`, and the same of
comments); what is in hand of a comment has the comment's author (`OneAuthor`, without which a ban would flag
the row and leave the entity) and, unless it is `loose`, his flag (`FlaggedWithAuthor`); and a request of a barred user is not past
the check (`BarsHold`), which the check itself keeps up as long as the post stays in its blog. Twenty-odd
handlers reduce to the few facts of `BlogsMove`, `PostsMove`, `CommentsStay` and `FlagsMove` (rows) and
`BlogsTaken`, `PostsTaken` and `CommentsTaken` (entities taken in hand as the row is); the rest of the proof uses
these only, but for `FlagPosts` and `CommitBan`, which flag many rows at once and have lemmas of their own
(`FlagPostsHides`, `CommitBanFlags`). As a save may leave a row's owner or flag as others have made it, the facts
speak of the one column each property is about: after a step the owner of a blog, or the flag of a post, is
the row's own, that of an entity in hand, or a new row's.

`QueriesProofs`, likes: `TypeCorrect` and `LikesBounded` (`OneLikePerRequest`). A bound on the rows of a user on a
target is not inductive, as a request that found none will add one whatever the others have added. What
is kept counts rows and such requests together: a request joins the latter only when there is no row, so
that they alone are counted then, and they are no more than all requests. The rest of the invariant is
that ids above `lastLike` are free (`Fresh`) and that a save writes to a row of the user and target it
was found with, or is refused by a foreign key (`SavesOwnRow`), so that no save brings a row to somebody
else; and that a user whose row a ban has written is there until it commits (`UsersHeld`), as the lock keeps a
deletion waiting. `LikesUpsert` (`LikesAreUpserts`) adds that of a target for which nothing overlapped one request at most is
under way (`Sole`), that there is one row with what was said last (`OneRow`), and that a request about to
create one has found nothing said (`FirstSays`). `LikesFlagged` (`LikesFollowTheBan`) says of the likes in hand
what it says of the rows (`HandFlag`), of those that a foreign key would not refuse. Between the UPDATE of a ban and
its commit rows and user are still as they were; the commit changes both, and what it does not flag of the
user's likes is `loose`.

`QueriesProofs`, reads: `ViewsTellTheSame` (`ListsAgreeWithDetails`). The lemma behind it, `ViewsAgree`, is about any tables
and not only those of the run. A like is among the newest of a page if fewer than `NewestLimit` of the
page are later; numbering likes by how many are later is a bijection onto `0..n-1`, so exactly the limit of
them, or all, are taken. The bloggers' own statements are shown to give what the public ones give, each
for its own filter.

`QueriesProofs`, pages: `PagesMissNothing` (`WalkMissesNothing`). The invariant counts the items not yet sent whose rows
end before the client's offset (`PassedOver`) against the rows the list has lost. The ends of two items are never
the same, so when `n` rows go, each of the ends moves by at most `n` and at most `n` of them cross the
offset (`EndsShift`, `FewEndThere`). When a client stops because his page times the size has reached the
count of items, those beyond it are as many as the joined rows exceed the items, and as came after the
count (`FewBeyond`). The attempt also corrected the property: it once counted the *rows* of the items
missed, which is false beyond the bounds of the run, as an item that was passed over can get a joined row
afterwards.

`OutsideProofs`: `FinishedRequestsStay` (`NothingUndone`), `UploadsShow` (`UploadShows`) and `UnsubscribedStayQuiet`
(`QuietAfterUnsubscribe`). In all four tables a row is found, changed in part and saved as an entity, and but for
questions no key keeps a second row out. So the invariants say of each row in hand, as far as the request is
not about to change it, what the property says of the row in the table: `AnswersKept`, `PublicationKept` of
questions; `CodesKept`, `ChatsKept`, `BansKept` of accounts, where a link that has inserted its account but not
attached it needs that nobody else has the account (`LinksAreNew`). As save() leaves out what was found as it is asked to
be, they also say that such a column is still so while no other request has changed the row (`QuestionsStand`,
`RowsStand`); without this a finished request may have stored nothing. Subscriptions and images say it of those that
no two requests changed at once: there is one row at most (`OneSubscription`, `OnePhoto`), a quiet user's row says
so in the table, in hand and in what a listener has read (`QuietIsQuiet`), and an upload under way has
stored its image in all sizes before the present one (`UploadProceeds`), so that it is in all of them at
the end (`UploadStays`), whatever rows an earlier upload that failed has left.

`ConnectionPoolProofs`: `PoolTyped` and `NoConnectionLost` (`PoolAccounted`). The count of connections
(`Counted`), the queue as a list without repetition of those who wait (`QueuedOnce`) and an empty queue
while one is free (`NobodyWaitsInVain`) need one another: handing a connection on changes the states of
two requests and the queue, and keeps the sum because the head of the queue waits, and appears in it
once. The bound of `free` in the type invariant already needs the count. `OnlyExhaustionJams`
(`NoOtherJam`) is the safety half of the liveness property: with `LockIsUsed` (who has locked the row is inside
a transaction), if nobody can go on then no inner statement runs, every connection is held by a waiting
transaction, and the count makes them the whole pool. With fewer transactions than connections that is
impossible, so that only transactions can stop the program.

Model-checked only: `GameEnds` and `ServedUnlessExhausted` (liveness under fairness is out of the
prover's reach), and `StatisticsAgree`, whose sums are folds over games and answers: that two of
them agree needs induction over the data, which is out of its reach as well. So is `FirstToFinishIsCharged`, which
does not hold.

## What the models show about the code

- *The bonus after the first game.* `pair-quiz-game.service.ts:104` reads the progress of all games.
  Once another game has been played `countAnswers` is too large, no row is "the last answer", and the
  player who finished first is not charged the point the end-to-end test says he gets. Run
  `second_game` shows it in the smallest instance; the test does not see it because it plays one game
  in an emptied database. For the same reason `ScoreMatchesAnswer`, `FinishedGameIsAnswered`,
  `BonusToFastest` and `AnswersAreFinal` are checked for a table with one game: the cron job of one game
  closes, and may overwrite, the answers of another that is open at the same time. While games are
  played one after another the first and the last hold (`ScoresMatch`, `AnswersStay`).
- *Two connects of one player* may put him into two games, or pair him with himself; the unique index
  refuses the latter unless there are no published questions (`n > 0` in `GameLifecycle!Pair`).
- *An answer never ends a game by itself* in practice: the progress is read on another connection
  that does not see the answer just saved. The cron job ends the game.
- *A session can come back*: a refresh that overlaps a logout or a deletion inserts the row again.
  It stays with its user and accepts the token just sent, which is what the theorems say.
- *A ban is not the end of a session whose login or refresh overlaps it*; such a session goes on, as
  the refresh does not look at `isBanned`. Without an overlap the ban ends all of them (`raced`).
- *A stale save undoes a ban* (or an unban): a request that read the user before the ban committed and
  saves him after it writes `isBanned` back. `BanLasts` holds with exactly that exemption. A later ban or
  unban makes it certain again if the row is as it says when it has committed, and nothing raced with it. That is
  not every one: *a ban of a user who is banned already writes only its date and reason*, so an unban that
  commits between its SELECT and its UPDATE, or overlaps it, survives it; the user is active, with a date and a
  reason. In the same way a save overwrites a
  newer password, code or confirmation with an older one, but only with values the owner was entitled
  to (`CodesReachOwner`, `PasswordFromOwner`, `ConfirmedByOwner`).
- *A deleted user can come back*: a request that had read him inserts him again.
- *Recovery codes work more than once*, and the administrator may create a login that exists.
- *An unban of a user lifts the administrator's ban of his blogs*: `SetBanUnbaneBlogByOwnerId` writes the flag of
  all his blogs, and not that of their posts. These stay hidden, which is what `HiddenPostsStayHidden`
  says, in a blog that is shown again. In the same way a ban of a user leaves his posts to be seen.
- *Posts are not held to the blog of the path*: `createPostByBlogId` notes that the user is not the owner and
  inserts the post all the same; update and deletion check the blog and then take any post.
- *A blogger's unban restores nothing*: the creation of a comment looks for a row of a ban and not at its flag.
- *Overlapping requests of one user* leave two likes, two subscriptions or two bans, for ever; each of them is
  counted. There are never more likes than requests in flight at once (`OneLikePerRequest`), and without an
  overlap there is one (`LikesAreUpserts`, `QuietAfterUnsubscribe`).
- *A like or a comment can outlive the ban of its user*: saved across the ban, it has the flag it was found with;
  one created with an access token that has not expired is unflagged; and so is one created between the
  ban's UPDATE of its table and its COMMIT (`ban-unban-user.usercase.ts:62` to `:78`), when nobody can see
  yet that the user is banned. The next ban or unban that flags it puts it right.
- *A ban that finds the user banned, and an unban that overlaps it*, may leave an active user whose content is
  flagged: the ban does not write `isBanned` and flags his rows all the same, after the unban has cleared them. An
  unban that finds the user active, overlapped by a ban, leaves a banned user whose content is shown.
- *The averages of the two statistics differ* at some halves: see the inventory.
- *The limit of three newest likes* is on the page: a post in a list may show fewer than by itself. A like of a
  deleted user makes the list, and the post, an error; so does a blog without an owner in the
  administrator's list, and a history of games without any. A blogger's own list counts no subscribers.
- *A page can skip an item* when rows before it are removed, when joined photos and subscribers are cut by
  `LIMIT` as if they were blogs, and when the count came before the page.
- *`/start` without a code* links the chat to some account, as the condition on an undefined code is dropped.
- *A failing message or a subscriber without an account* rejects where nobody catches, which ends the process.
- *The pool can be exhausted*: ten transactions that each wait for a second connection wait for ever, and
  everybody else behind them. Fewer transactions than connections cannot.
- *A login that fails half way* leaves a row without dates. No token refers to it, so the token check
  never reads it, but the list of sessions does.

## Limits

Outside the model, besides the components listed above: the expiry of refresh tokens (a token that
expires is a token not presented), access tokens (valid until they expire whatever happens to the
session), responses that are lost, the expiry of codes (an expired code is refused, which changes
nothing), whether an e-mail arrives, a crash between the save of a code and its e-mail, the order in
which Node.js resumes handlers (any order is allowed). Except in `ConnectionPool` a wait for a connection
is a delay. A crash of the server is the failure of all transactions under way, which `Fail` covers one
by one.
