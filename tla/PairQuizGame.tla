---------------------------- MODULE PairQuizGame ----------------------------
(***************************************************************************)
(* The pair quiz game of src/src/feature/pair-quiz-game: players connect   *)
(* to a game, answer its questions, and a cron job closes games.  Every    *)
(* HTTP request and every cron run is a process whose steps are the awaits *)
(* of its handler.  Each runs one PostgreSQL transaction (READ COMMITTED): *)
(* tx[p] holds what is local to the handler and what its transaction has   *)
(* written but not committed, locks holds the row locks its SELECT ... FOR *)
(* UPDATE took.  Reads the code issues outside the transaction (through an *)
(* injected repository) see the committed tables only.                     *)
(***************************************************************************)
EXTENDS Integers, FiniteSets

CONSTANTS
    Users,          \* user ids
    Workers,        \* HTTP requests that may be in flight at once
    Crons,          \* runs of finishOpenGamesCron that may overlap
    GameIds,        \* ids of the game table (bounds the number of games)
    Last,           \* questions asked per game: the 5 of randomQuestions(5)
    QuestionCounts, \* how many published questions randomQuestions may return
    Outcomes,       \* what addAnswer may decide
    Window,         \* the 9000 ms of findOpenGamesToComplete, in clock ticks
    MaxClock,       \* bound on the clock
    Faulty,         \* processes whose statements may fail
    CronKeepsUp,    \* whether the cron job runs before an answer ages out
    None            \* SQL NULL for a user id, and "no process"

Procs == Workers \cup Crons

ASSUME GameConstants ==
    /\ Last \in Nat \ {0} /\ QuestionCounts \subseteq 0..Last
    /\ Outcomes \subseteq {"Correct", "Incorrect"}
    /\ Window \in Nat /\ MaxClock \in Nat \ {0}
    /\ Workers \cap Crons = {} /\ Faulty \subseteq Procs
    /\ CronKeepsUp \in BOOLEAN
    /\ None \notin Users \cup GameIds \cup Procs

VARIABLES
    game,      \* committed rows of "PairQuizGame"
    progress,  \* committed rows of "PairQuizGameProgress"
    clock,     \* the instants Date can tell apart
    locks,     \* row locks on "PairQuizGame" taken by FOR UPDATE
    tx         \* handler state and uncommitted writes, per process

vars == <<game, progress, clock, locks, tx>>

(***************************************************************************)
(* Tables.  A progress row is identified by game, user and questionNumber; *)
(* question n of a game is one question id, the same for both players, so  *)
(* the unique index (game, user, question) is unique keys.                 *)
(***************************************************************************)
Key == GameIds \X Users \X (1..Last)
ASSUME NullIsNoRow == None \notin Key
GameOf(k) == k[1]
UserOf(k) == k[2]
NumberOf(k) == k[3]

Answered == {"Correct", "Incorrect"}

PairQuizGameRow == [firstPlayerId: Users \cup {None},
                    secondPlayerId: Users \cup {None},
                    status: {"absent", "PendingSecondPlayer", "Active", "Finished"}]
NoGame == [firstPlayerId |-> None, secondPlayerId |-> None, status |-> "absent"]

ProgressRow == [answerStatus: {"absent", "unanswered"} \cup Answered,
                addedAt: 0..MaxClock,     \* 0 is NULL
                score: Nat, bonus_score: Nat]
NoRow == [answerStatus |-> "absent", addedAt |-> 0, score |-> 0, bonus_score |-> 0]
NewRow == [NoRow EXCEPT !.answerStatus = "unanswered"]
Columns == {"answerStatus", "addedAt", "score", "bonus_score"}

NoRows == [k \in Key |-> NoRow]
Present(rows) == {k \in Key : rows[k].answerStatus # "absent"}

IsPlayer(g, u) == u \in {game[g].firstPlayerId, game[g].secondPlayerId}

(***************************************************************************)
(* A process between requests.  scan: rows a FOR UPDATE still has to lock; *)
(* found: those locked that still satisfy its WHERE; mine, draft: the game *)
(* row in hand and its uncommitted form; ents: progress entities in        *)
(* memory; at, cols: the entity being saved and its changed columns; rows: *)
(* uncommitted progress rows; queue: what is left of the cron's openGames. *)
(***************************************************************************)
PC == {"idle", "findPending", "lockPending", "addQuestions", "lockMine",
       "saveAnswer", "writeAnswer", "review", "commit", "nextGame", "collect",
       "closeRows", "saveClosed", "writeClosed", "addBonus", "saveBonus", "writeBonus"}

Tx == [pc: PC, user: Users \cup {None}, scan: SUBSET GameIds, found: SUBSET GameIds,
       mine: GameIds \cup {None}, draft: PairQuizGameRow, ents: [Key -> ProgressRow],
       at: Key \cup {None}, cols: SUBSET Columns, rows: [Key -> ProgressRow],
       queue: SUBSET Key]

Idle == [pc |-> "idle", user |-> None, scan |-> {}, found |-> {}, mine |-> None,
         draft |-> NoGame, ents |-> NoRows, at |-> None, cols |-> {}, rows |-> NoRows,
         queue |-> {}]

TypeOK ==
    /\ game \in [GameIds -> PairQuizGameRow]
    /\ progress \in [Key -> ProgressRow]
    /\ clock \in 1..MaxClock
    /\ locks \in [GameIds -> Procs \cup {None}]
    /\ tx \in [Procs -> Tx]

Init ==
    /\ game = [g \in GameIds |-> NoGame]
    /\ progress = NoRows
    /\ clock = 1
    /\ locks = [g \in GameIds |-> None]
    /\ tx = [p \in Procs |-> Idle]

Step(p, r) == tx' = [tx EXCEPT ![p] = r]
Unlock(p) == locks' = [g \in GameIds |-> IF locks[g] = p THEN None ELSE locks[g]]

\* The cron job between two transactions, with the rows Q left to go through.
Waiting(Q) == [Idle EXCEPT !.pc = "nextGame", !.queue = Q]

\* What process p goes on with once its transaction is over.
Resume(p) == IF p \in Crons THEN Waiting(tx[p].queue) ELSE Idle

\* A row as the statements of p's own transaction see it.
Seen(p, k) == IF tx[p].rows[k].answerStatus # "absent" THEN tx[p].rows[k] ELSE progress[k]

Commit(p) ==
    /\ tx[p].pc = "commit"
    /\ game' = IF tx[p].draft.status = "absent" THEN game
               ELSE [game EXCEPT ![tx[p].mine] = tx[p].draft]
    /\ progress' = [k \in Key |-> Seen(p, k)]
    /\ Step(p, Resume(p))
    /\ Unlock(p)
    /\ UNCHANGED clock

Rollback(p, r) ==
    /\ Step(p, r)
    /\ Unlock(p)
    /\ UNCHANGED <<game, progress, clock>>

\* A statement fails (connection lost, deadlock victim): the handler rolls back and
\* reports it; in the cron job the exception also ends the loop.
Fail(p) ==
    /\ p \in Faulty
    /\ tx[p].pc \notin {"idle", "nextGame"}
    /\ Rollback(p, Idle)

(***************************************************************************)
(* SELECT ... FOR UPDATE.  The statement's snapshot fixes the rows to lock *)
(* (scan); each is locked when no other transaction holds it, and is kept  *)
(* only if its latest committed version still satisfies the WHERE clause.  *)
(***************************************************************************)
StillMatchesUnchecked(p, g) == TRUE  \* mutant: the WHERE clause is not rechecked after the wait

StillMatches(p, g) ==
    \/ tx[p].pc = "lockPending" /\ game[g].status = "PendingSecondPlayer"
    \/ tx[p].pc = "lockMine" /\ game[g].status = "Active" /\ IsPlayer(g, tx[p].user)

LockRowOfAnybody(p) ==  \* mutant: SELECT without FOR UPDATE
    /\ tx[p].pc \in {"lockPending", "lockMine"}
    /\ \E g \in tx[p].scan :
          /\ locks' = [locks EXCEPT ![g] = p]
          /\ Step(p, [tx[p] EXCEPT !.scan = @ \ {g},
                                   !.found = IF StillMatches(p, g) THEN @ \cup {g} ELSE @])
    /\ UNCHANGED <<game, progress, clock>>

LockRow(p) ==
    /\ tx[p].pc \in {"lockPending", "lockMine"}
    /\ \E g \in tx[p].scan :
          /\ locks[g] = None
          /\ locks' = [locks EXCEPT ![g] = p]
          /\ Step(p, [tx[p] EXCEPT !.scan = @ \ {g},
                                   !.found = IF StillMatches(p, g) THEN @ \cup {g} ELSE @])
    /\ UNCHANGED <<game, progress, clock>>

Locked(p, pc) == tx[p].pc = pc /\ tx[p].scan = {}

ActiveGames(u) == {g \in GameIds : game[g].status = "Active" /\ IsPlayer(g, u)}

(***************************************************************************)
(* manager.save(entity) of a progress row: TypeORM loads the row, keeps    *)
(* the columns in which the entity differs, and updates those.  The update *)
(* waits while another transaction has written the row.                    *)
(***************************************************************************)
SaveLoad(p, from, to) ==
    LET k == tx[p].at IN
    /\ tx[p].pc = from
    /\ Step(p, [tx[p] EXCEPT !.pc = to,
                             !.cols = {c \in Columns : tx[p].ents[k][c] # Seen(p, k)[c]}])
    /\ UNCHANGED <<game, progress, clock, locks>>

Merge(old, new, cols) ==
    [answerStatus |-> IF "answerStatus" \in cols THEN new.answerStatus ELSE old.answerStatus,
     addedAt      |-> IF "addedAt" \in cols THEN new.addedAt ELSE old.addedAt,
     score        |-> IF "score" \in cols THEN new.score ELSE old.score,
     bonus_score  |-> IF "bonus_score" \in cols THEN new.bonus_score ELSE old.bonus_score]

SaveUpdate(p, from, to) ==
    LET k == tx[p].at IN
    /\ tx[p].pc = from
    /\ \A q \in Procs \ {p} : tx[q].rows[k].answerStatus = "absent"
    /\ Step(p, [tx[p] EXCEPT
                  !.pc = to,
                  !.rows[k] = IF tx[p].cols = {} THEN @
                              ELSE Merge(Seen(p, k), tx[p].ents[k], tx[p].cols)])
    /\ UNCHANGED <<game, progress, clock, locks>>

\* finishGame() and the save of the game row, which the transaction holds locked.
FinishGame(g) == [game[g] EXCEPT !.status = "Finished"]

(***************************************************************************)
(* POST connection: CreatePairQuizGameUseCase.execute                      *)
(***************************************************************************)
HasOpenGame(u) == \E g \in GameIds : game[g].status \notin {"absent", "Finished"} /\ IsPlayer(g, u)

\* findOpenGameByUserId, before the transaction begins; 403 changes nothing.
Connect(w, u) ==
    /\ tx[w].pc = "idle"
    /\ ~HasOpenGame(u)
    /\ Step(w, [Idle EXCEPT !.pc = "findPending", !.user = u])
    /\ UNCHANGED <<game, progress, clock, locks>>

FindGamePending(w) ==
    /\ tx[w].pc = "findPending"
    /\ Step(w, [tx[w] EXCEPT !.pc = "lockPending",
                  !.scan = {g \in GameIds : game[g].status = "PendingSecondPlayer"}])
    /\ UNCHANGED <<game, progress, clock, locks>>

NewGame(u) == [firstPlayerId |-> u, secondPlayerId |-> None, status |-> "PendingSecondPlayer"]

\* No pending game was found: insert one.  The sequence never hands out an id twice.
CreateNewGame(w) ==
    /\ Locked(w, "lockPending") /\ tx[w].found = {}
    /\ \E g \in GameIds :
          /\ game[g].status = "absent"
          /\ \A q \in Procs : tx[q].mine # g
          /\ Step(w, [tx[w] EXCEPT !.pc = "commit", !.mine = g,
                        !.draft = NewGame(tx[w].user)])
    /\ UNCHANGED <<game, progress, clock, locks>>

JoinGame(w) ==
    /\ Locked(w, "lockPending")
    /\ \E g \in tx[w].found :
          Step(w, [tx[w] EXCEPT !.pc = "addQuestions", !.mine = g,
                     !.draft = [game[g] EXCEPT !.secondPlayerId = tx[w].user,
                                               !.status = "Active"]])
    /\ UNCHANGED <<game, progress, clock, locks>>

\* The rows of addQuestionsForGame: n questions for each player.
QuestionRows(g, players, n) ==
    [k \in Key |-> IF GameOf(k) = g /\ UserOf(k) \in players /\ NumberOf(k) <= n
                   THEN NewRow ELSE NoRow]

\* A player paired with himself would get every row twice: the unique index refuses it.
ViolatesUniqueIndex(d, n) == n > 0 /\ d.firstPlayerId = d.secondPlayerId

AddQuestionsForGame(w) ==
    LET d == tx[w].draft IN
    /\ tx[w].pc = "addQuestions"
    /\ \E n \in QuestionCounts :
          IF ViolatesUniqueIndex(d, n) THEN Rollback(w, Idle)
          ELSE /\ Step(w, [tx[w] EXCEPT !.pc = "commit",
                     !.rows = QuestionRows(tx[w].mine, {d.firstPlayerId, d.secondPlayerId}, n)])
               /\ UNCHANGED <<game, progress, clock, locks>>

(***************************************************************************)
(* POST my-current/answers: AnswerPairQuizGameUseCase.execute              *)
(***************************************************************************)
\* findMyCurrentGame's snapshot; without an active game 403 changes nothing.
Answer(w, u) ==
    /\ tx[w].pc = "idle"
    /\ ActiveGames(u) # {}
    /\ Step(w, [Idle EXCEPT !.pc = "lockMine", !.user = u, !.scan = ActiveGames(u)])
    /\ UNCHANGED <<game, progress, clock, locks>>

GameNotFound(w) ==
    /\ Locked(w, "lockMine") /\ tx[w].found = {}
    /\ Rollback(w, Idle)

\* findUnansweredQuestionByUserId looks in every unfinished game of the user, on a
\* connection of its own, and takes the lowest question number.
Unanswered(u) == {k \in Key : /\ UserOf(k) = u
                              /\ progress[k].answerStatus = "unanswered"
                              /\ game[GameOf(k)].status # "Finished"}
NextQuestionsUnordered(u) == Unanswered(u)  \* mutant: no orderBy on the question number
NextQuestions(u) == {k \in Unanswered(u) : \A j \in Unanswered(u) : NumberOf(k) <= NumberOf(j)}

AddAnswerPenalty(row, outcome) ==  \* mutant: a wrong answer costs a point
    [answerStatus |-> outcome, addedAt |-> clock, bonus_score |-> row.bonus_score,
     score |-> IF outcome = "Correct" THEN row.score + 1 ELSE row.score - 1]

AddAnswerScored(row, outcome) ==  \* mutant: the point does not depend on the answer
    [answerStatus |-> outcome, addedAt |-> clock, bonus_score |-> row.bonus_score,
     score |-> row.score + 1]

AddAnswer(row, outcome) ==
    [answerStatus |-> outcome,
     addedAt |-> clock,
     score |-> IF outcome = "Correct" THEN row.score + 1 ELSE row.score,
     bonus_score |-> row.bonus_score]

AnswerQuestion(w) ==
    /\ Locked(w, "lockMine") /\ w \in Workers
    /\ \E g \in tx[w].found, k \in NextQuestions(tx[w].user), outcome \in Outcomes :
          Step(w, [tx[w] EXCEPT !.pc = "saveAnswer", !.mine = g, !.at = k,
                     !.ents = [NoRows EXCEPT ![k] = AddAnswer(progress[k], outcome)]])
    /\ UNCHANGED <<game, progress, clock, locks>>

QuestionNotFound(w) ==
    /\ Locked(w, "lockMine") /\ w \in Workers
    /\ tx[w].found # {} /\ Unanswered(tx[w].user) = {}
    /\ Rollback(w, Idle)

\* findByGameId on another connection: the answer just saved is not in it.
GameProgress(g) == [k \in Key |-> IF GameOf(k) = g THEN progress[k] ELSE NoRow]
CountAnswers(rows) == Cardinality(Present(rows)) \div 2
GameOver(rows) == Cardinality({k \in Present(rows) : /\ NumberOf(k) = CountAnswers(rows)
                                                     /\ rows[k].answerStatus \in Answered}) = 2

ReviewGame(w) ==
    LET seen == GameProgress(tx[w].mine) IN
    /\ tx[w].pc = "review"
    /\ Step(w, IF GameOver(seen)
               THEN [tx[w] EXCEPT !.pc = "addBonus", !.ents = seen,
                                  !.draft = FinishGame(tx[w].mine)]
               ELSE [tx[w] EXCEPT !.pc = "commit"])
    /\ UNCHANGED <<game, progress, clock, locks>>

(***************************************************************************)
(* addBonusPoint, for the entities in hand.  The player whose answer to    *)
(* question countAnswers came first (NULL before any date) gets the point, *)
(* the second player when neither is earlier, provided a row of his has a  *)
(* score.  Without such a row its id is null, and findOneBy({ id: null })  *)
(* returns any row of the table.                                           *)
(***************************************************************************)
IsFirst(p, k) == UserOf(k) = game[tx[p].mine].firstPlayerId
LastAnswers(p, first) ==
    LET rows == tx[p].ents IN
    {k \in Present(rows) : NumberOf(k) = CountAnswers(rows) /\ IsFirst(p, k) = first}
LastAnswer(p, first) == IF LastAnswers(p, first) = {} THEN {None} ELSE LastAnswers(p, first)
AddedAt(p, k) == IF k = None THEN 0 ELSE tx[p].ents[k].addedAt

FinishedLast(p, a, b) == AddedAt(p, a) > AddedAt(p, b)  \* mutant: dates compared the other way
FinishedFirst(p, a, b) == AddedAt(p, a) < AddedAt(p, b)
HasScore(p, first) == \E k \in Present(tx[p].ents) :
                         IsFirst(p, k) = first /\ tx[p].ents[k].score > 0
FindById(p, k) == IF k = None THEN {j \in Key : Seen(p, j).answerStatus # "absent"} ELSE {k}

AddBonusPoint(p) ==
    /\ tx[p].pc = "addBonus"
    /\ \E a \in LastAnswer(p, TRUE), b \in LastAnswer(p, FALSE) :
          LET first == FinishedFirst(p, a, b) IN
          IF HasScore(p, first)
          THEN \E k \in FindById(p, IF first THEN a ELSE b) :
                  Step(p, [tx[p] EXCEPT !.pc = "saveBonus", !.at = k,
                             !.ents = [NoRows EXCEPT ![k] =
                                          [Seen(p, k) EXCEPT !.bonus_score = @ + 1]]])
          ELSE Step(p, [tx[p] EXCEPT !.pc = "commit"])
    /\ UNCHANGED <<game, progress, clock, locks>>

(***************************************************************************)
(* finishOpenGamesCron, every second                                       *)
(***************************************************************************)
OpenGamesTooLate ==  \* mutant: the age is compared the other way
    {k \in Key : /\ NumberOf(k) = Last
                 /\ progress[k].answerStatus # "absent"
                 /\ game[GameOf(k)].status # "Finished"
                 /\ progress[k].addedAt # 0
                 /\ progress[k].addedAt < clock - Window}

\* The rows findOpenGamesToComplete returns: an unfinished game's last question,
\* answered less than Window ago.  Only their userId reaches the loop below: the
\* column is selected as gameId, the loop reads game.id.
OpenGamesToComplete ==
    {k \in Key : /\ NumberOf(k) = Last
                 /\ progress[k].answerStatus # "absent"
                 /\ game[GameOf(k)].status # "Finished"
                 /\ progress[k].addedAt # 0
                 /\ progress[k].addedAt > clock - Window}

FinishOpenGamesCron(c) ==
    /\ tx[c].pc = "idle"
    /\ OpenGamesToComplete # {}
    /\ Step(c, Waiting(OpenGamesToComplete))
    /\ UNCHANGED <<game, progress, clock, locks>>

\* One turn of the loop: begin a transaction and look for the user's active game;
\* none is the logged error, and the loop goes on.
NextGame(c) ==
    /\ tx[c].pc = "nextGame"
    /\ \E k \in tx[c].queue :
          LET rest == tx[c].queue \ {k}
              active == ActiveGames(UserOf(k))
          IN Step(c, IF active = {} THEN [tx[c] EXCEPT !.queue = rest]
                     ELSE [tx[c] EXCEPT !.pc = "lockMine", !.user = UserOf(k),
                                        !.scan = active, !.queue = rest])
    /\ UNCHANGED <<game, progress, clock, locks>>

EndOfLoop(c) ==
    /\ tx[c].pc = "nextGame" /\ tx[c].queue = {}
    /\ Step(c, Idle)
    /\ UNCHANGED <<game, progress, clock, locks>>

FailedToComplete(c) ==
    /\ Locked(c, "lockMine") /\ tx[c].found = {}
    /\ Rollback(c, Resume(c))

CompleteGame(c) ==
    /\ Locked(c, "lockMine") /\ c \in Crons
    /\ \E g \in tx[c].found :
          Step(c, [tx[c] EXCEPT !.pc = "collect", !.mine = g, !.draft = FinishGame(g)])
    /\ UNCHANGED <<game, progress, clock, locks>>

\* findByGameId(undefined): TypeORM drops the condition and every row is returned.
CollectProgress(c) ==
    /\ tx[c].pc = "collect"
    /\ Step(c, [tx[c] EXCEPT !.pc = "closeRows", !.ents = progress])
    /\ UNCHANGED <<game, progress, clock, locks>>

OpenOwn(c) ==  \* mutant: the questions of the player who has finished
    {k \in Key : UserOf(k) = tx[c].user /\ tx[c].ents[k].answerStatus = "unanswered"}
OpenAll(c) ==  \* mutant: questions already answered as well
    {k \in Key : UserOf(k) # tx[c].user /\ tx[c].ents[k].answerStatus \in {"unanswered", "Correct"}}
Open(c) == {k \in Key : UserOf(k) # tx[c].user /\ tx[c].ents[k].answerStatus = "unanswered"}

\* The loop leaves the score of the rows it closes alone.
Closed(row) == [row EXCEPT !.answerStatus = "Incorrect", !.addedAt = clock]

CloseRow(c) ==
    /\ tx[c].pc = "closeRows"
    /\ \E k \in Open(c) :
          /\ \A j \in Open(c) : NumberOf(k) <= NumberOf(j)
          /\ Step(c, [tx[c] EXCEPT !.pc = "saveClosed", !.at = k,
                        !.ents = [tx[c].ents EXCEPT ![k] = Closed(tx[c].ents[k])]])
    /\ UNCHANGED <<game, progress, clock, locks>>

RowsClosed(c) ==
    /\ tx[c].pc = "closeRows" /\ Open(c) = {}
    /\ Step(c, [tx[c] EXCEPT !.pc = "addBonus"])
    /\ UNCHANGED <<game, progress, clock, locks>>

(***************************************************************************)
(* Time.  With CronKeepsUp neither an answer being saved nor one waiting   *)
(* for the cron job gets older than Window.                                *)
(***************************************************************************)
StaysInWindow(row) == row.addedAt = 0 \/ row.addedAt > clock + 1 - Window

Tick ==
    /\ clock < MaxClock
    /\ CronKeepsUp =>
          /\ \A k \in OpenGamesToComplete : StaysInWindow(progress[k])
          /\ \A w \in Workers, k \in Key : StaysInWindow(tx[w].ents[k])
    /\ clock' = clock + 1
    /\ UNCHANGED <<game, progress, locks, tx>>

SaveStep(p) ==
    \/ SaveLoad(p, "saveAnswer", "writeAnswer")
    \/ SaveUpdate(p, "writeAnswer", "review")
    \/ SaveLoad(p, "saveClosed", "writeClosed")
    \/ SaveUpdate(p, "writeClosed", "closeRows")
    \/ SaveLoad(p, "saveBonus", "writeBonus")
    \/ SaveUpdate(p, "writeBonus", "commit")

\* The steps of a request that is already running.
WorkerStep(w) ==
    \/ FindGamePending(w) \/ LockRow(w) \/ CreateNewGame(w) \/ JoinGame(w)
    \/ AddQuestionsForGame(w) \/ GameNotFound(w) \/ AnswerQuestion(w) \/ QuestionNotFound(w)
    \/ ReviewGame(w) \/ AddBonusPoint(w) \/ SaveStep(w) \/ Commit(w)

CronStep(c) ==
    \/ FinishOpenGamesCron(c) \/ NextGame(c) \/ EndOfLoop(c) \/ LockRow(c)
    \/ FailedToComplete(c) \/ CompleteGame(c) \/ CollectProgress(c) \/ CloseRow(c)
    \/ RowsClosed(c) \/ AddBonusPoint(c) \/ SaveStep(c) \/ Commit(c)

Next ==
    \/ \E w \in Workers, u \in Users : Connect(w, u) \/ Answer(w, u)
    \/ \E w \in Workers : WorkerStep(w)
    \/ \E c \in Crons : CronStep(c)
    \/ \E p \in Procs : Fail(p)
    \/ Tick

Spec == Init /\ [][Next]_vars

(***************************************************************************)
(* What the game promises                                                  *)
(***************************************************************************)
Lifecycle == INSTANCE GameLifecycle WITH dealt <- Present(progress)

\* Whatever the interleaving of connection requests, answers and cron runs, a game is
\* opened once, paired once (both players receiving the same questions in the same
\* commit) and finished once; no row of it changes hands.
RefinesLifecycle == Lifecycle!Spec

\* An uncommitted change of a game row starts from the committed row: a new game takes an
\* id nobody else uses; pairing and finishing hold the row's lock, and no commit since
\* has moved the row out of the status that was read.
DraftIsFresh(p, r) ==
    \/ r.draft.status = "absent"
    \/ /\ r.draft.status = "PendingSecondPlayer" /\ r.pc = "commit"
       /\ r.mine \in GameIds /\ game[r.mine] = NoGame
       /\ \A q \in Procs \ {p} : tx[q].mine # r.mine
       /\ \E u \in Users : r.draft = NewGame(u)
       /\ Present(r.rows) = {}
    \/ /\ r.draft.status = "Active" /\ r.pc \in {"addQuestions", "commit"}
       /\ r.mine \in GameIds /\ locks[r.mine] = p
       /\ game[r.mine].status = "PendingSecondPlayer"
       /\ \E u \in Users : r.draft = [game[r.mine] EXCEPT !.secondPlayerId = u,
                                                          !.status = "Active"]
    \/ /\ r.draft.status = "Finished"
       /\ r.mine \in GameIds /\ locks[r.mine] = p
       /\ game[r.mine].status = "Active"
       /\ r.draft = FinishGame(r.mine)
GameWritesAreIsolated == \A p \in Procs : DraftIsFresh(p, tx[p])

\* Two requests of a player never answer the same question at the same time, even when
\* he is in two active games and both requests find that question in either.
NoDoubleAnswer ==
    \A v, w \in Workers :
        v # w /\ {tx[v].pc, tx[w].pc} \subseteq {"saveAnswer", "writeAnswer"}
        => tx[v].at # tx[w].at

Opponents(k, j) == GameOf(k) = GameOf(j) /\ UserOf(k) # UserOf(j)

\* A player's answers are given in the order of the questions: two answers sent at once
\* never skip a question or leave an earlier one open.
AnswersInOrder ==
    \A k, j \in Present(progress) :
        /\ GameOf(k) = GameOf(j) /\ UserOf(k) = UserOf(j) /\ NumberOf(j) < NumberOf(k)
        /\ progress[k].answerStatus \in Answered
        => progress[j].answerStatus \in Answered

\* An answer that was recorded is never replaced: neither by a second request for the
\* same question nor by the cron job that closes the opponent's open questions.
AnswersAreFinal ==
    [][\A k \in Key : progress[k].answerStatus \in Answered =>
          /\ progress'[k].answerStatus = progress[k].answerStatus
          /\ progress'[k].addedAt = progress[k].addedAt
          /\ progress'[k].score = progress[k].score]_vars

\* A row's score is one for a correct answer and zero otherwise, although answer status
\* and score are saved by handlers that read the row at different times.
ScoreMatchesAnswer ==
    \A k \in Present(progress) :
        progress[k].score = IF progress[k].answerStatus = "Correct" THEN 1 ELSE 0

\* When a game is over nobody has a question left to answer.
FinishedGameIsAnswered ==
    \A k \in Present(progress) :
        game[GameOf(k)].status = "Finished" => progress[k].answerStatus \in Answered

\* The bonus: in a finished game exactly one point goes to the last answer of the player
\* who was first to give it (the second player when neither was earlier), provided that
\* player scored at all; no other row has a bonus, however many cron runs overlap.
LastOf(g, u) == <<g, u, Last>>
Fastest(g) ==
    LET a == game[g].firstPlayerId
        b == game[g].secondPlayerId
    IN IF progress[LastOf(g, a)].addedAt < progress[LastOf(g, b)].addedAt THEN a ELSE b
Bonus(k) ==
    LET u == Fastest(GameOf(k)) IN
    IF /\ game[GameOf(k)].status = "Finished"
       /\ k = LastOf(GameOf(k), u)
       /\ \E j \in Present(progress) :
             GameOf(j) = GameOf(k) /\ UserOf(j) = u /\ progress[j].score > 0
    THEN 1 ELSE 0
BonusToFastest == \A k \in Present(progress) : progress[k].bonus_score = Bonus(k)

\* The claim of the end-to-end test ('The game is completed, the first player was charged
\* 6 points'): a player who answers everything correctly, before his opponent's last
\* answer, ends a finished game with the bonus point.
FirstToFinishIsCharged ==
    \A k, j \in Present(progress) :
        /\ Opponents(k, j) /\ NumberOf(k) = Last /\ NumberOf(j) = Last
        /\ game[GameOf(k)].status = "Finished"
        /\ progress[k].answerStatus = "Correct"
        /\ progress[k].addedAt < progress[j].addedAt
        => progress[k].bonus_score = 1

=============================================================================
