---------------------------- MODULE GameLifecycle ----------------------------
(***************************************************************************)
(* What the pair quiz game promises about a game, whatever the requests    *)
(* and cron runs that serve it do to each other: it is opened by one       *)
(* player, paired once, with the same questions dealt to both players at   *)
(* that moment and never again, and it ends once.                          *)
(***************************************************************************)
EXTENDS Integers

CONSTANTS Users, GameIds, Last, None

VARIABLES
    game,   \* per game: its players and its status
    dealt   \* the <<game, user, question number>> asked so far

vars == <<game, dealt>>

NoGame == [firstPlayerId |-> None, secondPlayerId |-> None, status |-> "absent"]

Init == game = [g \in GameIds |-> NoGame] /\ dealt = {}

Open(g, u) ==
    /\ game[g] = NoGame
    /\ game' = [game EXCEPT ![g] = [firstPlayerId |-> u, secondPlayerId |-> None,
                                    status |-> "PendingSecondPlayer"]]
    /\ UNCHANGED dealt

\* Questions 1 to n of game g, for each of the players.
Questions(g, players, n) ==
    {k \in GameIds \X Users \X (1..Last) : k[1] = g /\ k[2] \in players /\ k[3] <= n}

\* n questions for each of two different players; a player may face himself only in
\* a game without questions.
Pair(g, u, n) ==
    LET first == game[g].firstPlayerId IN
    /\ game[g].status = "PendingSecondPlayer"
    /\ n > 0 => u # first
    /\ game' = [game EXCEPT ![g] = [game[g] EXCEPT !.secondPlayerId = u, !.status = "Active"]]
    /\ dealt' = dealt \cup Questions(g, {first, u}, n)

Finish(g) ==
    /\ game[g].status = "Active"
    /\ game' = [game EXCEPT ![g] = [game[g] EXCEPT !.status = "Finished"]]
    /\ UNCHANGED dealt

Next == \E g \in GameIds :
           \/ \E u \in Users : Open(g, u)
           \/ \E u \in Users, n \in 0..Last : Pair(g, u, n)
           \/ Finish(g)

Spec == Init /\ [][Next]_vars

==============================================================================
