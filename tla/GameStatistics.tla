--------------------------- MODULE GameStatistics ---------------------------
(***************************************************************************)
(* The reads of the pair quiz game (src/src/feature/pair-quiz-game/db):    *)
(* views of games, a player's own statistics and the top of all players,   *)
(* over the games as module PairQuizGame leaves them.                      *)
(***************************************************************************)
EXTENDS Integers, FiniteSets, FiniteSetsExt

CONSTANTS
    Users, Games,
    QuestionsPerGame,
    None  \* no second player yet; no answer yet; no game

StatisticsConstants ==
    /\ QuestionsPerGame \in Nat \ {0}
    /\ None \notin Users \cup Games \cup Int

VARIABLE games  \* rows of "PairQuizGame", each with its rows of "PairQuizGameProgress"

Numbers == 1..QuestionsPerGame
\* What an answer brought, bonus included: one for a right one, and at most one more.
Points == {None} \cup 0..2

GameRow ==
    [firstPlayer: Users, secondPlayer: Users \cup {None},
     status: {"PendingSecondPlayer", "Active", "Finished"},
     progress: [Users -> [Numbers -> Points] \cup {None}]]

TypeOK == games \in [Games -> GameRow]

Dealt(g, u) == games[g].progress[u] # None
PlayersOf(g) == {games[g].firstPlayer, games[g].secondPlayer} \ {None}
PointsOf(g, u, n) == IF games[g].progress[u][n] = None THEN 0 ELSE games[g].progress[u][n]

\* SUM(score + bonus_score) of a user's rows in a game.
Score(g, u) == MapThenSumSet(LAMBDA n : PointsOf(g, u, n), Numbers)

(***************************************************************************)
(* Views of games.                                                         *)
(***************************************************************************)
\* Rows of the first player give the questions; each row counts for the player it names.
ConvertToView(g) ==
    LET answered(u) == {n \in Numbers : Dealt(g, u) /\ games[g].progress[u][n] # None}
        score(u) == IF Dealt(g, u) THEN Score(g, u) ELSE 0
        first == games[g].firstPlayer
        second == games[g].secondPlayer
    IN [id |-> g, status |-> games[g].status,
        questions |-> IF Dealt(g, first) THEN Numbers ELSE {},
        firstPlayerProgress |-> [player |-> first, answers |-> answered(first), score |-> score(first)],
        secondPlayerProgress |->
            IF second = None THEN None
            ELSE [player |-> second, answers |-> answered(second), score |-> score(second)]]

FindGameById(g, u) ==
    IF u \notin PlayersOf(g) THEN [code |-> "forbidden", view |-> None]
    ELSE [code |-> "ok", view |-> ConvertToView(g)]

\* One of the user's unfinished games.
MyCurrentGame(u) ==
    {ConvertToView(g) : g \in {g \in Games : u \in PlayersOf(g) /\ games[g].status # "Finished"}}

\* The views are read by the ids of the page: of none, IN () is an error of the database.
GetAllMyGames(u) ==
    LET mine == {g \in Games : u \in PlayersOf(g)} IN
    IF mine = {} THEN [code |-> "crash", views |-> {}]
    ELSE [code |-> "ok", views |-> {ConvertToView(g) : g \in mine}]

(***************************************************************************)
(* Statistics.  Average scores are left out: the program rounds a quotient *)
(* of floats and the database one of numerics, which is not always the     *)
(* same (41 points in 40 games are 1.02 and 1.03).                         *)
(***************************************************************************)
UserGames(u) == {g \in Games : Dealt(g, u)}
\* Scores joined to the user's in one game: the other players'.  A game is dealt to both at
\* once, so the left joins find one.
Others(g, u) == {v \in Users : v # u /\ Dealt(g, v)}

Outcome(g, u, v) ==
    CASE Score(g, u) > Score(g, v) -> "win"
      [] Score(g, u) < Score(g, v) -> "loss"
      [] OTHER -> "draw"
CountGames(u, outcome) ==
    Cardinality({gv \in UserGames(u) \X Users :
        gv[2] \in Others(gv[1], u) /\ Outcome(gv[1], u, gv[2]) = outcome})

SumScore(u) == MapThenSumSet(LAMBDA g : Score(g, u), UserGames(u))

NoStatistics ==
    [sumScore |-> 0, gamesCount |-> 0, winsCount |-> 0, lossesCount |-> 0, drawsCount |-> 0]

UserGameStatistics(u) ==
    IF UserGames(u) = {} THEN NoStatistics
    ELSE [sumScore |-> SumScore(u),
          gamesCount |-> Cardinality(UserGames(u)),
          winsCount |-> CountGames(u, "win"),
          lossesCount |-> CountGames(u, "loss"),
          drawsCount |-> CountGames(u, "draw")]

TopPlayers == {u \in Users : UserGames(u) # {}}

\* The join of the users' scores with those of the same game.
TopJoinAll(g, u) == {v \in Users : Dealt(g, v)}  \* mutant: a player is joined with himself
TopJoin(g, u) == {v \in Users : Dealt(g, v) /\ v # u}

TopRow(u) ==
    LET joined == {gv \in UserGames(u) \X Users : gv[2] \in TopJoin(gv[1], u)}
        count(outcome) == Cardinality({gv \in joined : Outcome(gv[1], u, gv[2]) = outcome})
    IN [sumScore |-> MapThenSumSet(LAMBDA gv : Score(gv[1], u), joined),
        gamesCount |-> Cardinality(joined),
        winsCount |-> count("win"), lossesCount |-> count("loss"), drawsCount |-> count("draw")]

GetUsersTop == [u \in TopPlayers |-> TopRow(u)]

(***************************************************************************)
(* The reads agree.                                                        *)
(***************************************************************************)
ScoreIn(view, u) ==
    IF view.firstPlayerProgress.player = u THEN view.firstPlayerProgress.score
    ELSE view.secondPlayerProgress.score

\* The top, computed by the database over joined rows, says of each player what his own
\* statistics, computed by the program, say, averages apart; his points are those in the
\* views of his games, which are the games he may look at; and every win is another player's
\* loss.
StatisticsAgree ==
    LET wins == MapThenSumSet(LAMBDA u : UserGameStatistics(u).winsCount, Users)
        losses == MapThenSumSet(LAMBDA u : UserGameStatistics(u).lossesCount, Users)
    IN
    /\ wins = losses
    /\ \A u \in TopPlayers : GetUsersTop[u] = UserGameStatistics(u)
    /\ \A u \in Users :
        /\ u \notin TopPlayers => UserGameStatistics(u) = NoStatistics
        /\ MapThenSumSet(LAMBDA view : ScoreIn(view, u), GetAllMyGames(u).views) = UserGameStatistics(u).sumScore
        /\ \A g \in Games : FindGameById(g, u).code = "ok" <=> ConvertToView(g) \in GetAllMyGames(u).views
        /\ MyCurrentGame(u) \subseteq GetAllMyGames(u).views
        /\ u \in TopPlayers => GetAllMyGames(u).code = "ok"

=============================================================================
