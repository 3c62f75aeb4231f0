------------------------------- MODULE MCGame -------------------------------
(***************************************************************************)
(* Games being played: the requests and cron runs of PairQuizGame over a   *)
(* database that already holds games, as a run of connection requests      *)
(* leaves it (the states MCMatchmaking reaches).                           *)
(***************************************************************************)
EXTENDS PairQuizGame

CONSTANTS ann, bob, cid, g1, g2

Paired(u, v) == [firstPlayerId |-> u, secondPlayerId |-> v, status |-> "Active"]

Deal(games) ==
    [k \in Key |->
        IF \E g \in GameIds : /\ GameOf(k) = g
                              /\ UserOf(k) \in {games[g].firstPlayerId, games[g].secondPlayerId}
        THEN NewRow ELSE NoRow]

Tables(games, rows) ==
    /\ game = games
    /\ progress = rows
    /\ clock = 1
    /\ locks = [g \in GameIds |-> None]
    /\ tx = [p \in Procs |-> Idle]

\* Every game but the connection requests.
PlayNext ==
    \/ \E w \in Workers, u \in Users : Answer(w, u)
    \/ \E w \in Workers : WorkerStep(w)
    \/ \E c \in Crons : CronStep(c)
    \/ \E p \in Procs : Fail(p)
    \/ Tick

\* One game, dealt in full.
OneGameInit == LET games == [g \in GameIds |-> Paired(ann, bob)]
               IN Tables(games, Deal(games))
OneGameSpec == OneGameInit /\ [][PlayNext]_vars

\* ann in two games at once: two connection requests of hers both found no open game.
TwoGames == [g \in GameIds |-> IF g = g1 THEN Paired(ann, bob) ELSE Paired(cid, ann)]
TwoGamesInit == Tables(TwoGames, Deal(TwoGames))
TwoGamesSpec == TwoGamesInit /\ [][PlayNext]_vars

\* A game is played after another one has ended.
SecondGameInit ==
    LET games == [g \in GameIds |-> Paired(ann, bob)]
        done == [NewRow EXCEPT !.answerStatus = "Incorrect", !.addedAt = 1]
    IN Tables([games EXCEPT ![g1].status = "Finished"],
              [k \in Key |-> IF GameOf(k) = g1 THEN done ELSE Deal(games)[k]])
SecondGameSpec == SecondGameInit /\ [][PlayNext]_vars

(***************************************************************************)
(* Fairness: the event loop resumes a handler whose statement has returned *)
(* (WF), the scheduler fires the cron job every second (WF on its first    *)
(* step), and PostgreSQL grants a row lock in the order of the requests,   *)
(* so a waiting transaction is not overtaken forever (SF).  Nothing makes  *)
(* a player answer.                                                        *)
(***************************************************************************)
Fairness ==
    /\ \A w \in Workers : WF_vars(WorkerStep(w)) /\ SF_vars(LockRow(w))
    /\ \A c \in Crons : WF_vars(CronStep(c)) /\ SF_vars(LockRow(c))
OneGameFairSpec == OneGameSpec /\ Fairness

\* Once a player has answered the last question the game ends: his opponent cannot hold
\* it open by not answering, nor can requests that keep taking the game's row lock.
GameEnds ==
    \A k \in Key : NumberOf(k) = Last =>
        (progress[k].answerStatus \in Answered ~> game[GameOf(k)].status = "Finished")

\* The bonus points in the table, each with its row and its number in that row.
BonusPoints == UNION {{k} \X (1..progress[k].bonus_score) : k \in Key}

\* Games end at most once each, whoever ends them: the table never holds more bonus
\* points than finished games, even where they are given to the wrong rows.
OneBonusPerGame ==
    Cardinality(BonusPoints) <= Cardinality({g \in GameIds : game[g].status = "Finished"})

=============================================================================
