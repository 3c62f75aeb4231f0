---------------------------- MODULE MCMatchmaking ----------------------------
(***************************************************************************)
(* Players looking for a game: connection requests only, interleaved at    *)
(* every await, over an empty database.                                    *)
(***************************************************************************)
EXTENDS PairQuizGame, TLC

ConnectStep(w) ==
    \/ \E u \in Users : Connect(w, u)
    \/ FindGamePending(w) \/ LockRow(w) \/ CreateNewGame(w) \/ JoinGame(w)
    \/ AddQuestionsForGame(w) \/ Commit(w) \/ Fail(w)

MatchmakingSpec == Init /\ [][\E w \in Workers : ConnectStep(w)]_vars

Symmetry == Permutations(Users) \cup Permutations(Workers) \cup Permutations(GameIds)

==============================================================================
