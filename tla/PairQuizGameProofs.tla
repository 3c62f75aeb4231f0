------------------------- MODULE PairQuizGameProofs -------------------------
(***************************************************************************)
(* Proofs about PairQuizGame for any number of users, games, questions,    *)
(* requests and overlapping cron runs: type correctness, the isolation of  *)
(* uncommitted game rows, the refinement of GameLifecycle, and that two    *)
(* requests of a player never answer one question at the same time.        *)
(*                                                                         *)
(* The inductive invariant is local: what has to be known of a process     *)
(* (its record r) given the committed tables and the locks.  A step that   *)
(* only changes a process' own record keeps everybody else's Local, so     *)
(* each such action only has to show it for the record it leaves behind    *)
(* (lemma QuietStep).                                                      *)
(* The last theorem adds how the games two requests of a player wait for   *)
(* are related: of two of them the earlier one holds a lock the later      *)
(* needs (Nested).                                                         *)
(***************************************************************************)
EXTENDS PairQuizGame, TLAPS

Held(p, g, s) == g \in GameIds /\ locks[g] = p /\ game[g].status = s

\* Rows that exist in memory or in an uncommitted write exist in the table.
Known(rows) == \A k \in Key : rows[k].answerStatus # "absent" => progress[k].answerStatus # "absent"

Saving == {"saveAnswer", "writeAnswer", "saveClosed", "writeClosed", "saveBonus", "writeBonus"}

Finishing == {"collect", "closeRows", "saveClosed", "writeClosed", "addBonus"}

DealtInDraft(r) ==
    \/ r.pc = "addQuestions" /\ Present(r.rows) = {}
    \/ /\ r.pc = "commit"
       /\ \E n \in 0..Last :
             /\ n > 0 => r.draft.firstPlayerId # r.draft.secondPlayerId
             /\ r.rows = QuestionRows(r.mine, {r.draft.firstPlayerId, r.draft.secondPlayerId}, n)

Local(p, r) ==
    /\ r.pc \in {"findPending", "lockPending", "lockMine"} => r.user \in Users
    /\ r.pc = "findPending" => r.found = {}
    /\ r.pc = "nextGame" => r = Waiting(r.queue)
    /\ r.pc = "lockPending" => \A g \in r.found : Held(p, g, "PendingSecondPlayer")
    /\ r.pc = "lockMine" => \A g \in r.found : Held(p, g, "Active")
    /\ r.pc \in {"saveAnswer", "writeAnswer", "review"} => Held(p, r.mine, "Active")
    /\ r.pc \in Saving => r.at \in Key /\ progress[r.at].answerStatus # "absent"
    /\ r.pc = "addQuestions" => r.draft.status = "Active"
    /\ r.pc \in Finishing => r.draft.status = "Finished"
    /\ r.pc \in {"findPending", "lockPending", "lockMine"} =>
          Present(r.rows) = {} /\ r.draft.status = "absent"
    /\ r.mine \in GameIds => r.draft.status = "PendingSecondPlayer" \/ game[r.mine].status # "absent"
    /\ Known(r.ents)
    /\ r.draft.status = "Active" => DealtInDraft(r)
    /\ r.draft.status # "Active" => Known(r.rows)
    /\ DraftIsFresh(p, r)

AbsentIsNoGame == \A g \in GameIds : game[g].status = "absent" => game[g] = NoGame

IInv == TypeOK /\ AbsentIsNoGame /\ \A p \in Procs : Local(p, tx[p])

(***************************************************************************)
(* Records                                                                 *)
(***************************************************************************)
\* The initial values have their types.
LEMMA InitialValues ==
    /\ NoRow \in ProgressRow /\ NewRow \in ProgressRow
    /\ NoRows \in [Key -> ProgressRow]
    /\ NoGame \in PairQuizGameRow
    /\ Idle \in Tx
<1>1. NoRow \in ProgressRow /\ NewRow \in ProgressRow
  BY GameConstants DEF NoRow, NewRow, ProgressRow, Answered
<1>2. NoRows \in [Key -> ProgressRow]
  BY <1>1 DEF NoRows
<1>3. NoGame \in PairQuizGameRow
  BY DEF NoGame, PairQuizGameRow
<1> QED
  BY <1>1, <1>2, <1>3 DEF Idle, Tx, PC

\* A process that holds no locks and has written nothing satisfies its part of the
\* invariant, whatever the tables and the locks are.
LEMMA RestingIsLocal ==
    ASSUME NEW p, NEW Q, NEW r \in {Idle, Waiting(Q)}
    PROVE  Local(p, r) /\ r.mine = None
<1>1. Known(NoRows) /\ Present(NoRows) = {}
  BY DEF Known, NoRows, NoRow, Present
<1>2. CASE r = Idle
  BY <1>1, <1>2, GameConstants DEF Local, DraftIsFresh, NoGame, Saving, Finishing, Idle
<1>3. CASE r = Waiting(Q)
  BY <1>1, <1>3, GameConstants DEF Local, DraftIsFresh, NoGame, Saving, Finishing, Idle, Waiting
<1> QED
  BY <1>2, <1>3

LEMMA RestingStaysLocal ==
    ASSUME NEW p, NEW Q, NEW r \in {Idle, Waiting(Q)}, tx'[p] = r
    PROVE  Local(p, tx[p])'
<1>1. Known(NoRows)' /\ Present(NoRows)' = {}
  BY DEF Known, NoRows, NoRow, Present
<1>2. CASE r = Idle
  BY <1>1, <1>2, GameConstants DEF Local, DraftIsFresh, NoGame, Saving, Finishing, Idle
<1>3. CASE r = Waiting(Q)
  BY <1>1, <1>3, GameConstants DEF Local, DraftIsFresh, NoGame, Saving, Finishing, Idle, Waiting
<1> QED
  BY <1>2, <1>3

(***************************************************************************)
(* What other processes may do without disturbing q                        *)
(***************************************************************************)
\* Process q, whose record ends as s, keeps its part of the invariant when its locks stay,
\* the games it has locked or is about to insert stay as they are, no row or game
\* disappears and nobody claims the id q is inserting.
LEMMA Frame ==
    ASSUME NEW q \in Procs, NEW s, Local(q, s), tx'[q] = s,
           \A g \in GameIds : locks[g] = q /\ game[g].status # "absent"
                               => locks'[g] = q /\ game'[g] = game[g],
           \A g \in GameIds : game[g].status # "absent" => game'[g].status # "absent",
           \A k \in Key : progress[k].answerStatus # "absent" => progress'[k].answerStatus # "absent",
           s.draft.status = "PendingSecondPlayer" =>
              /\ game'[s.mine] = game[s.mine]
              /\ \A o \in Procs \ {q} : tx'[o].mine # s.mine
    PROVE  Local(q, tx[q])'
<1>1. DraftIsFresh(q, tx[q])'
  <2>1. DraftIsFresh(q, s)
    BY DEF Local
  <2>2. CASE s.draft.status = "absent"
    BY <2>2 DEF DraftIsFresh
  <2>3. CASE s.draft.status = "PendingSecondPlayer"
    BY <2>1, <2>3 DEF DraftIsFresh, Present
  <2>4. CASE s.draft.status = "Active"
    BY <2>1, <2>4 DEF DraftIsFresh
  <2>5. CASE s.draft.status = "Finished"
    BY <2>1, <2>5 DEF DraftIsFresh, FinishGame
  <2> QED
    BY <2>1, <2>2, <2>3, <2>4, <2>5 DEF DraftIsFresh
<1>2. (tx'[q].draft.status = "Active" => DealtInDraft(tx[q])')
  BY DEF Local, DealtInDraft, QuestionRows, Present
<1>3. (Known(s.ents) => Known(tx[q].ents)') /\ (Known(s.rows) => Known(tx[q].rows)')
  BY DEF Known
<1>4. \A g, st : st # "absent" /\ Held(q, g, st) => Held(q, g, st)'
  BY DEF Held
<1>5. Present(tx[q].rows)' = Present(s.rows)
  BY DEF Present
<1>6. (tx[q].pc \in Saving)' => tx'[q].at \in Key /\ progress'[tx'[q].at].answerStatus # "absent"
  BY DEF Local, Saving
<1> QED
  BY <1>1, <1>2, <1>3, <1>4, <1>5, <1>6 DEF Local

\* Nobody else has claimed the id another transaction is about to insert.
LEMMA ClaimsAreUnique ==
    ASSUME IInv, NEW q \in Procs, tx[q].draft.status = "PendingSecondPlayer"
    PROVE  /\ tx[q].mine \in GameIds /\ game[tx[q].mine] = NoGame
           /\ \A o \in Procs \ {q} : tx[o].mine # tx[q].mine
  BY DEF IInv, Local, DraftIsFresh

(***************************************************************************)
(* Steps that change nothing but the record of one process                 *)
(***************************************************************************)
\* r does not claim the id another transaction is about to insert.
NoClaim(p, r) ==
    \/ r.mine \in {None, tx[p].mine}
    \/ game[r.mine].status # "absent"
    \/ \A q \in Procs : tx[q].mine # r.mine

Quiet(p, r) == Step(p, r) /\ UNCHANGED <<game, progress, clock, locks>>

LEMMA QuietStep ==
    ASSUME IInv, NEW p \in Procs, NEW r \in Tx, Quiet(p, r), Local(p, r), NoClaim(p, r)
    PROVE  IInv'
<1> USE DEF Quiet, Step
<1>1. TypeOK' /\ AbsentIsNoGame'
  BY DEF IInv, TypeOK, AbsentIsNoGame
<1>2. tx'[p] = r /\ \A q \in Procs \ {p} : tx'[q] = tx[q]
  BY DEF IInv, TypeOK
<1>3. ASSUME NEW q \in Procs \ {p}, tx[q].draft.status = "PendingSecondPlayer"
      PROVE  \A o \in Procs \ {q} : tx'[o].mine # tx[q].mine
  <2>1. r.mine # tx[q].mine
    BY <1>3, ClaimsAreUnique, GameConstants DEF NoClaim, NoGame
  <2> QED
    BY <1>2, <1>3, <2>1, ClaimsAreUnique
<1>4. Local(p, tx[p])'
  <2>1. \A o \in Procs \ {p} : r.draft.status = "PendingSecondPlayer" => tx'[o].mine # r.mine
    BY <1>2 DEF Local, DraftIsFresh
  <2> QED
    BY <1>2, <2>1, Frame
<1>5. ASSUME NEW q \in Procs \ {p} PROVE Local(q, tx[q])'
  <2>1. Local(q, tx[q])
    BY DEF IInv
  <2> QED
    BY <1>2, <1>3, <2>1, Frame
<1> QED
  BY <1>1, <1>4, <1>5 DEF IInv

(***************************************************************************)
(* Rollback: only this process' locks and writes go                        *)
(***************************************************************************)
LEMMA RollbackStep ==
    ASSUME IInv, NEW p \in Procs, NEW Q \in SUBSET Key, NEW r \in {Idle, Waiting(Q)}, Rollback(p, r)
    PROVE  IInv'
<1> USE DEF Rollback, Unlock, Step
<1>1. TypeOK' /\ AbsentIsNoGame'
  <2>1. r \in Tx
    BY InitialValues DEF Waiting, Tx, PC
  <2> QED
    BY <2>1 DEF IInv, TypeOK, AbsentIsNoGame
<1>2. tx'[p] = r /\ r.mine = None /\ \A q \in Procs \ {p} : tx'[q] = tx[q]
  BY RestingIsLocal DEF IInv, TypeOK
<1>3. Local(p, tx[p])'
  BY <1>2, RestingStaysLocal
<1>4. ASSUME NEW q \in Procs \ {p} PROVE Local(q, tx[q])'
  <2>1. Local(q, tx[q])
    BY DEF IInv
  <2>2. \A g \in GameIds : locks[g] = q => locks'[g] = q
    BY DEF IInv, TypeOK
  <2>3. tx[q].draft.status = "PendingSecondPlayer" =>
           \A o \in Procs \ {q} : tx'[o].mine # tx[q].mine
    BY <1>2, ClaimsAreUnique, GameConstants
  <2> QED
    BY <1>2, <2>1, <2>2, <2>3, Frame
<1> QED
  BY <1>1, <1>3, <1>4 DEF IInv

LEMMA FailKeeps ==
    ASSUME IInv, NEW p \in Procs, Fail(p)
    PROVE  IInv'
  BY RollbackStep DEF Fail

\* After a transaction a process is idle or, in the cron job, between transactions.
LEMMA ResumeRests ==
    ASSUME IInv, NEW p \in Procs
    PROVE  \E Q \in SUBSET Key : Resume(p) \in {Idle, Waiting(Q)}
<1>1. tx[p].queue \in SUBSET Key
  BY DEF IInv, TypeOK, Tx
<1> QED
  BY <1>1 DEF Resume

(***************************************************************************)
(* SELECT ... FOR UPDATE                                                   *)
(***************************************************************************)
LEMMA LockRowKeeps ==
    ASSUME IInv, NEW p \in Procs, LockRow(p)
    PROVE  IInv'
<1>1. PICK g \in tx[p].scan :
         /\ locks[g] = None
         /\ locks' = [locks EXCEPT ![g] = p]
         /\ Step(p, [tx[p] EXCEPT !.scan = @ \ {g},
                                  !.found = IF StillMatches(p, g) THEN @ \cup {g} ELSE @])
  BY DEF LockRow
<1> DEFINE r == [tx[p] EXCEPT !.scan = tx[p].scan \ {g},
                   !.found = IF StillMatches(p, g) THEN tx[p].found \cup {g} ELSE tx[p].found]
<1>2. tx[p] \in Tx /\ Local(p, tx[p]) /\ g \in GameIds /\ tx[p].found \subseteq GameIds
  BY DEF IInv, TypeOK, Tx
<1>3. r \in Tx
  BY <1>2 DEF Tx
<1>4. tx' = [tx EXCEPT ![p] = r] /\ UNCHANGED <<game, progress, clock>>
  BY <1>1 DEF LockRow, Step
<1>5. tx'[p] = r /\ \A q \in Procs \ {p} : tx'[q] = tx[q]
  BY <1>4 DEF IInv, TypeOK
<1>6. TypeOK' /\ AbsentIsNoGame'
  BY <1>1, <1>2, <1>3, <1>4 DEF IInv, TypeOK, AbsentIsNoGame
<1>7. \A q \in Procs : \A h \in GameIds : locks[h] = q => locks'[h] = q
  BY <1>1, <1>2, GameConstants DEF IInv, TypeOK
<1>8. \A q \in Procs : tx'[q].mine = tx[q].mine /\ tx'[q].draft = tx[q].draft
  BY <1>2, <1>5 DEF Tx
<1>9. ASSUME NEW q \in Procs, tx[q].draft.status = "PendingSecondPlayer"
      PROVE  \A o \in Procs \ {q} : tx'[o].mine # tx[q].mine
  BY <1>8, <1>9, ClaimsAreUnique
<1>10. ASSUME NEW q \in Procs \ {p} PROVE Local(q, tx[q])'
  <2>1. Local(q, tx[q])
    BY DEF IInv
  <2> QED
    BY <1>4, <1>5, <1>7, <1>9, <2>1, Frame
<1>11. Local(p, tx[p])'
  <2>1. /\ r.pc = tx[p].pc /\ r.user = tx[p].user /\ r.rows = tx[p].rows /\ r.mine = tx[p].mine
        /\ r.draft = tx[p].draft /\ r.ents = tx[p].ents /\ r.at = tx[p].at
        /\ r.pc \in {"lockPending", "lockMine"}
    BY <1>1, <1>2 DEF Tx, LockRow
  <2>2. \A h \in r.found : h \in tx[p].found \/ (h = g /\ StillMatches(p, g))
    BY <1>2 DEF Tx
  <2>3. r.pc = "lockPending" => \A h \in r.found : Held(p, h, "PendingSecondPlayer")'
    BY <1>1, <1>2, <1>4, <1>7, <2>1, <2>2 DEF Local, Held, StillMatches, IInv, TypeOK
  <2>4. r.pc = "lockMine" => \A h \in r.found : Held(p, h, "Active")'
    BY <1>1, <1>2, <1>4, <1>7, <2>1, <2>2 DEF Local, Held, StillMatches, IInv, TypeOK
  <2>5. tx[p].draft.status = "absent"
    BY <1>2, <2>1 DEF Local
  <2> HIDE DEF r
  <2>6. DraftIsFresh(p, tx[p])' /\ Known(tx[p].ents)' /\ Known(tx[p].rows)'
    BY <1>2, <1>4, <1>5, <2>1, <2>5 DEF DraftIsFresh, Known, Local
  <2> QED
    BY <1>2, <1>4, <1>5, <2>1, <2>3, <2>4, <2>5, <2>6 DEF Local, Present, Saving
<1> QED
  BY <1>6, <1>10, <1>11 DEF IInv

(***************************************************************************)
(* Connection requests                                                     *)
(***************************************************************************)
LEMMA ConnectKeeps ==
    ASSUME IInv, NEW w \in Workers, NEW u \in Users, Connect(w, u)
    PROVE  IInv'
<1> DEFINE r == [Idle EXCEPT !.pc = "findPending", !.user = u]
<1>1. w \in Procs /\ r \in Tx
  BY InitialValues DEF Procs, Tx, PC
<1>2. Local(w, r)
  BY GameConstants DEF Local, DraftIsFresh, Idle, Known, NoRows, NoRow, NoGame, Present, Saving, Finishing
<1>3. NoClaim(w, r) /\ Quiet(w, r)
  BY DEF NoClaim, Idle, Connect, Quiet
<1> QED
  BY <1>1, <1>2, <1>3, QuietStep

LEMMA FindGamePendingKeeps ==
    ASSUME IInv, NEW w \in Workers, FindGamePending(w)
    PROVE  IInv'
<1> DEFINE r == [tx[w] EXCEPT !.pc = "lockPending",
                   !.scan = {g \in GameIds : game[g].status = "PendingSecondPlayer"}]
<1>1. w \in Procs /\ tx[w] \in Tx /\ Local(w, tx[w]) /\ tx[w].pc = "findPending"
  BY DEF Procs, IInv, TypeOK, FindGamePending
<1>2. r \in Tx
  BY <1>1 DEF Tx, PC
<1>3. Local(w, r)
  BY <1>1, <1>2 DEF Finishing, Local, DraftIsFresh, DealtInDraft, Saving, Tx
<1>4. NoClaim(w, r) /\ Quiet(w, r)
  BY <1>1 DEF NoClaim, FindGamePending, Quiet, Tx
<1> QED
  BY <1>1, <1>2, <1>3, <1>4, QuietStep

LEMMA CreateNewGameKeeps ==
    ASSUME IInv, NEW w \in Workers, CreateNewGame(w)
    PROVE  IInv'
<1>1. w \in Procs /\ tx[w] \in Tx /\ Local(w, tx[w]) /\ tx[w].pc = "lockPending"
  BY DEF Procs, IInv, TypeOK, CreateNewGame, Locked
<1> DEFINE d == NewGame(tx[w].user)
<1>2. PICK g \in GameIds :
         /\ game[g].status = "absent"
         /\ \A q \in Procs : tx[q].mine # g
         /\ Step(w, [tx[w] EXCEPT !.pc = "commit", !.mine = g, !.draft = d])
  BY DEF CreateNewGame
<1> DEFINE r == [tx[w] EXCEPT !.pc = "commit", !.mine = g, !.draft = d]
<1>3. tx[w].user \in Users /\ d \in PairQuizGameRow
  BY <1>1 DEF Local, PairQuizGameRow, NewGame
<1>4. r \in Tx
  BY <1>1, <1>3 DEF Tx, PC
<1>5. /\ r.pc = "commit" /\ r.mine = g /\ r.draft = d /\ r.rows = tx[w].rows /\ r.ents = tx[w].ents
      /\ Present(r.rows) = {}
  BY <1>1 DEF Tx, Local
<1>6. DraftIsFresh(w, r)
  <2>1. game[g] = NoGame
    BY <1>2 DEF IInv, AbsentIsNoGame
  <2>2. r.draft.status = "PendingSecondPlayer"
    BY <1>5 DEF NewGame
  <2> HIDE DEF r
  <2> QED
    BY <1>2, <1>3, <1>5, <2>1, <2>2 DEF DraftIsFresh
<1>7. Local(w, r)
  BY <1>1, <1>5, <1>6 DEF Finishing, Local, Saving, Known, Present, NewGame
<1>8. NoClaim(w, r) /\ Quiet(w, r)
  BY <1>2, <1>5 DEF NoClaim, CreateNewGame, Quiet
<1> QED
  BY <1>1, <1>4, <1>7, <1>8, QuietStep

LEMMA JoinGameKeeps ==
    ASSUME IInv, NEW w \in Workers, JoinGame(w)
    PROVE  IInv'
<1>1. w \in Procs /\ tx[w] \in Tx /\ Local(w, tx[w]) /\ tx[w].pc = "lockPending"
  BY DEF Procs, IInv, TypeOK, JoinGame, Locked
<1>2. PICK g \in tx[w].found :
         Step(w, [tx[w] EXCEPT !.pc = "addQuestions", !.mine = g,
                    !.draft = [game[g] EXCEPT !.secondPlayerId = tx[w].user, !.status = "Active"]])
  BY DEF JoinGame
<1> DEFINE d == [game[g] EXCEPT !.secondPlayerId = tx[w].user, !.status = "Active"]
<1> DEFINE r == [tx[w] EXCEPT !.pc = "addQuestions", !.mine = g, !.draft = d]
<1>3. tx[w].user \in Users /\ Held(w, g, "PendingSecondPlayer")
  BY <1>1 DEF Local
<1>4. game[g] \in PairQuizGameRow /\ d \in PairQuizGameRow /\ d.status = "Active"
  BY <1>3 DEF Held, IInv, TypeOK, PairQuizGameRow
<1>5. r \in Tx
  BY <1>1, <1>3, <1>4 DEF Tx, PC, Held
<1>6. /\ r.pc = "addQuestions" /\ r.mine = g /\ r.draft = d /\ r.rows = tx[w].rows
      /\ r.ents = tx[w].ents /\ Present(r.rows) = {}
  BY <1>1 DEF Tx, Local
<1>7. DraftIsFresh(w, r)
  BY <1>3, <1>4, <1>6 DEF DraftIsFresh, Held
<1>8. Local(w, r)
  BY <1>1, <1>3, <1>4, <1>6, <1>7 DEF Finishing, Local, Saving, DealtInDraft, Held
<1>9. NoClaim(w, r) /\ Quiet(w, r)
  BY <1>2, <1>3, <1>6 DEF NoClaim, JoinGame, Quiet, Held
<1> QED
  BY <1>1, <1>5, <1>8, <1>9, QuietStep

LEMMA AddQuestionsForGameKeeps ==
    ASSUME IInv, NEW w \in Workers, AddQuestionsForGame(w)
    PROVE  IInv'
<1>1. w \in Procs /\ tx[w] \in Tx /\ Local(w, tx[w]) /\ tx[w].pc = "addQuestions"
  BY DEF Procs, IInv, TypeOK, AddQuestionsForGame
<1> DEFINE d == tx[w].draft
<1> DEFINE rows(n) == QuestionRows(tx[w].mine, {d.firstPlayerId, d.secondPlayerId}, n)
<1>2. PICK n \in QuestionCounts :
         IF ViolatesUniqueIndex(d, n) THEN Rollback(w, Idle)
         ELSE Quiet(w, [tx[w] EXCEPT !.pc = "commit", !.rows = rows(n)])
  BY DEF AddQuestionsForGame, Quiet
<1>3. CASE ViolatesUniqueIndex(d, n)
  BY <1>1, <1>2, <1>3, RollbackStep
<1>4. CASE ~ViolatesUniqueIndex(d, n)
  <2> DEFINE r == [tx[w] EXCEPT !.pc = "commit", !.rows = rows(n)]
  <2>1. rows(n) \in [Key -> ProgressRow]
    BY InitialValues DEF QuestionRows
  <2>2. r \in Tx
    BY <1>1, <2>1 DEF Tx, PC
  <2>3. /\ r.pc = "commit" /\ r.mine = tx[w].mine /\ r.draft = d /\ r.ents = tx[w].ents
        /\ r.rows = rows(n)
    BY <1>1 DEF Tx
  <2>4. DraftIsFresh(w, r) /\ d.status \in {"absent", "Active", "Finished"}
    BY <1>1, <2>3 DEF Local, DraftIsFresh
  <2>5. d.status = "Active"
    BY <1>1 DEF Local
  <2>6. DealtInDraft(r)
    BY <1>4, <2>3, GameConstants DEF DealtInDraft, ViolatesUniqueIndex
  <2>7. Local(w, r)
    BY <1>1, <2>3, <2>4, <2>5, <2>6 DEF Finishing, Local, Saving
  <2> QED
    BY <1>1, <1>2, <1>4, <2>2, <2>3, <2>7, QuietStep DEF NoClaim
<1> QED
  BY <1>3, <1>4

(***************************************************************************)
(* Answers                                                                 *)
(***************************************************************************)
LEMMA AnswerKeeps ==
    ASSUME IInv, NEW w \in Workers, NEW u \in Users, Answer(w, u)
    PROVE  IInv'
<1> DEFINE r == [Idle EXCEPT !.pc = "lockMine", !.user = u, !.scan = ActiveGames(u)]
<1>1. w \in Procs /\ r \in Tx
  BY InitialValues DEF Procs, Tx, PC, ActiveGames
<1>2. Local(w, r)
  BY GameConstants DEF Local, DraftIsFresh, Idle, Known, NoRows, NoRow, NoGame, Present, Saving, Finishing
<1>3. NoClaim(w, r) /\ Quiet(w, r)
  BY DEF NoClaim, Idle, Answer, Quiet
<1> QED
  BY <1>1, <1>2, <1>3, QuietStep

LEMMA NotFoundKeeps ==
    ASSUME IInv, NEW w \in Workers, GameNotFound(w) \/ QuestionNotFound(w)
    PROVE  IInv'
  BY RollbackStep DEF GameNotFound, QuestionNotFound, Procs

LEMMA AnswerQuestionKeeps ==
    ASSUME IInv, NEW w \in Workers, AnswerQuestion(w)
    PROVE  IInv'
<1>1. w \in Procs /\ tx[w] \in Tx /\ Local(w, tx[w]) /\ tx[w].pc = "lockMine"
  BY DEF Procs, IInv, TypeOK, AnswerQuestion, Locked
<1>2. PICK g \in tx[w].found, k \in NextQuestions(tx[w].user), outcome \in Outcomes :
         Step(w, [tx[w] EXCEPT !.pc = "saveAnswer", !.mine = g, !.at = k,
                    !.ents = [NoRows EXCEPT ![k] = AddAnswer(progress[k], outcome)]])
  BY DEF AnswerQuestion
<1> DEFINE e == [NoRows EXCEPT ![k] = AddAnswer(progress[k], outcome)]
<1> DEFINE r == [tx[w] EXCEPT !.pc = "saveAnswer", !.mine = g, !.at = k, !.ents = e]
<1>3. k \in Key /\ progress[k].answerStatus = "unanswered" /\ progress[k] \in ProgressRow
  BY DEF NextQuestions, Unanswered, IInv, TypeOK
<1>4. Held(w, g, "Active") /\ g \in GameIds
  BY <1>1 DEF Local, Held
<1>5. AddAnswer(progress[k], outcome) \in ProgressRow
  BY <1>3, GameConstants DEF AddAnswer, ProgressRow, Answered, IInv, TypeOK
<1>6. e \in [Key -> ProgressRow]
  BY <1>3, <1>5, InitialValues
<1>7. r \in Tx
  BY <1>1, <1>3, <1>4, <1>6 DEF Tx, PC
<1>8. Known(e)
  BY <1>3 DEF Known, NoRows, NoRow
<1> HIDE DEF e
<1>9. /\ r.pc = "saveAnswer" /\ r.mine = g /\ r.at = k /\ r.ents = e
      /\ r.rows = tx[w].rows /\ r.draft = tx[w].draft /\ r.draft.status = "absent"
  BY <1>1 DEF Tx, Local
<1>10. Local(w, r)
  BY <1>1, <1>3, <1>4, <1>8, <1>9 DEF Finishing, Local, Saving, Held, DraftIsFresh
<1>11. NoClaim(w, r) /\ Quiet(w, r)
  BY <1>2, <1>4, <1>9 DEF NoClaim, AnswerQuestion, Quiet, Held, e
<1> QED
  BY <1>1, <1>7, <1>10, <1>11, QuietStep

LEMMA ReviewGameKeeps ==
    ASSUME IInv, NEW w \in Workers, ReviewGame(w)
    PROVE  IInv'
<1>1. w \in Procs /\ tx[w] \in Tx /\ Local(w, tx[w]) /\ tx[w].pc = "review"
  BY DEF Procs, IInv, TypeOK, ReviewGame
<1> DEFINE seen == GameProgress(tx[w].mine)
<1> DEFINE a == [tx[w] EXCEPT !.pc = "addBonus", !.ents = seen, !.draft = FinishGame(tx[w].mine)]
<1> DEFINE b == [tx[w] EXCEPT !.pc = "commit"]
<1>2. Quiet(w, a) \/ Quiet(w, b)
  BY DEF ReviewGame, Quiet
<1>3. Held(w, tx[w].mine, "Active") /\ tx[w].draft.status # "Active"
  BY <1>1 DEF Local, DraftIsFresh
<1>4. CASE Quiet(w, a)
  <2>1. seen \in [Key -> ProgressRow] /\ Known(seen)
    BY InitialValues DEF GameProgress, IInv, TypeOK, Known, NoRow
  <2>2. FinishGame(tx[w].mine) \in PairQuizGameRow /\ FinishGame(tx[w].mine).status = "Finished"
    BY <1>3 DEF FinishGame, Held, IInv, TypeOK, PairQuizGameRow
  <2> HIDE DEF seen
  <2>3. a \in Tx
    BY <1>1, <2>1, <2>2 DEF Tx, PC
  <2>4. /\ a.pc = "addBonus" /\ a.mine = tx[w].mine /\ a.ents = seen /\ a.rows = tx[w].rows
        /\ a.draft = FinishGame(tx[w].mine)
    BY <1>1 DEF Tx
  <2>5. Local(w, a)
    BY <1>1, <1>3, <2>1, <2>2, <2>4 DEF Local, Saving, Held, DraftIsFresh
  <2> QED
    BY <1>1, <1>4, <2>3, <2>4, <2>5, QuietStep DEF NoClaim
<1>5. CASE Quiet(w, b)
  <2>1. b \in Tx
    BY <1>1 DEF Tx, PC
  <2>2. /\ b.pc = "commit" /\ b.mine = tx[w].mine /\ b.ents = tx[w].ents /\ b.rows = tx[w].rows
        /\ b.draft = tx[w].draft
    BY <1>1 DEF Tx
  <2>3. Local(w, b)
    BY <1>1, <1>3, <2>2 DEF Finishing, Local, Saving, DraftIsFresh
  <2> QED
    BY <1>1, <1>5, <2>1, <2>2, <2>3, QuietStep DEF NoClaim
<1> QED
  BY <1>2, <1>4, <1>5

(***************************************************************************)
(* Saving a progress row                                                   *)
(***************************************************************************)
\* The three pairs of program counters around a save, and what follows it.
LoadPC == {<<"saveAnswer", "writeAnswer">>, <<"saveClosed", "writeClosed">>,
           <<"saveBonus", "writeBonus">>}
UpdatePC == {<<"writeAnswer", "review">>, <<"writeClosed", "closeRows">>,
             <<"writeBonus", "commit">>}

LEMMA SaveLoadKeeps ==
    ASSUME IInv, NEW p \in Procs, NEW from, NEW to, <<from, to>> \in LoadPC, SaveLoad(p, from, to)
    PROVE  IInv'
<1> DEFINE cols == {c \in Columns : tx[p].ents[tx[p].at][c] # Seen(p, tx[p].at)[c]}
<1> DEFINE r == [tx[p] EXCEPT !.pc = to, !.cols = cols]
<1>1. tx[p] \in Tx /\ Local(p, tx[p]) /\ tx[p].pc = from
  BY DEF IInv, TypeOK, SaveLoad
<1>2. /\ from \in Saving /\ to \in Saving /\ to \in PC
      /\ to = "writeAnswer" => from = "saveAnswer"
      /\ from # "commit" /\ from # "addQuestions"
  BY DEF LoadPC, Saving, PC
<1>3. Quiet(p, r)
  BY DEF SaveLoad, Quiet
<1>4. cols \subseteq Columns
  OBVIOUS
<1> HIDE DEF cols
<1>5. r \in Tx
  BY <1>1, <1>2, <1>4 DEF Tx
<1>6. /\ r.pc = to /\ r.mine = tx[p].mine /\ r.at = tx[p].at /\ r.ents = tx[p].ents
      /\ r.rows = tx[p].rows /\ r.draft = tx[p].draft
  BY <1>1 DEF Tx
<1>7. r.draft.status \in {"absent", "Finished"} /\ DraftIsFresh(p, r)
  BY <1>1, <1>2, <1>6 DEF Local, DraftIsFresh
<1>8. Local(p, r)
  <2>1. to \notin {"findPending", "nextGame", "lockPending", "lockMine", "addQuestions", "addBonus"}
    BY DEF LoadPC
  <2>2. to = "writeAnswer" => Held(p, r.mine, "Active")
    BY <1>1, <1>2, <1>6 DEF Local
  <2>3. to \in {"saveAnswer", "writeAnswer", "review"} => to = "writeAnswer"
    BY DEF LoadPC
  <2>4. to \in Finishing => from \in Finishing
    BY DEF LoadPC, Finishing
  <2>5. to \in Finishing => r.draft.status = "Finished"
    BY <1>1, <1>6, <2>4 DEF Local
  <2> HIDE DEF r
  <2> QED
    BY <1>1, <1>2, <1>6, <1>7, <2>1, <2>2, <2>3, <2>5 DEF Local
<1> QED
  BY <1>3, <1>5, <1>6, <1>8, QuietStep DEF NoClaim

\* The row a save leaves behind is a row.
LEMMA MergeType ==
    ASSUME NEW old \in ProgressRow, NEW new \in ProgressRow, NEW cols
    PROVE  Merge(old, new, cols) \in ProgressRow
  BY DEF Merge, ProgressRow

LEMMA SaveUpdateKeeps ==
    ASSUME IInv, NEW p \in Procs, NEW from, NEW to, <<from, to>> \in UpdatePC,
           SaveUpdate(p, from, to)
    PROVE  IInv'
<1> DEFINE k == tx[p].at
<1> DEFINE row == IF tx[p].cols = {} THEN tx[p].rows[k]
                  ELSE Merge(Seen(p, k), tx[p].ents[k], tx[p].cols)
<1> DEFINE rows == [tx[p].rows EXCEPT ![k] = row]
<1> DEFINE r == [tx[p] EXCEPT !.pc = to, !.rows = rows]
<1>1. tx[p] \in Tx /\ Local(p, tx[p]) /\ tx[p].pc = from /\ tx[p].rows \in [Key -> ProgressRow]
  BY DEF IInv, TypeOK, SaveUpdate, Tx
<1>2. from \in Saving /\ to \in PC /\ (to = "review" => from = "writeAnswer")
  BY DEF UpdatePC, Saving, PC
<1>3. k \in Key /\ progress[k].answerStatus # "absent"
  BY <1>1, <1>2 DEF Local
<1>4. row \in ProgressRow
  BY <1>1, <1>3, MergeType DEF Seen, IInv, TypeOK, Tx
<1>5. Step(p, r) /\ UNCHANGED <<game, progress, clock, locks>>
  BY <1>1 DEF SaveUpdate, Tx, Step
<1> HIDE DEF row
<1>6. rows \in [Key -> ProgressRow] /\ \A j \in Key : j # k => rows[j] = tx[p].rows[j]
  BY <1>1, <1>3, <1>4
<1> HIDE DEF rows
<1>7. r \in Tx
  BY <1>1, <1>2, <1>6 DEF Tx
<1>8. /\ r.pc = to /\ r.mine = tx[p].mine /\ r.ents = tx[p].ents
      /\ r.rows = rows /\ r.draft = tx[p].draft
  BY <1>1 DEF Tx
<1>9. tx[p].draft.status \in {"absent", "Finished"}
  BY <1>1, <1>2 DEF Local, DraftIsFresh, Saving
<1>10. DraftIsFresh(p, r)
  BY <1>1, <1>8, <1>9 DEF Local, DraftIsFresh
<1>11. Known(rows)
  BY <1>1, <1>3, <1>6, <1>9 DEF Known, Local
<1>12. Local(p, r)
  <2>1. to \notin {"findPending", "nextGame", "lockPending", "lockMine", "addQuestions", "addBonus",
                   "saveAnswer", "writeAnswer"} \cup Saving
    BY DEF UpdatePC, Saving
  <2>2. to = "review" => Held(p, r.mine, "Active")
    BY <1>1, <1>2, <1>8 DEF Local
  <2>3. to \in Finishing => from \in Finishing
    BY DEF UpdatePC, Finishing
  <2>4. to \in Finishing => r.draft.status = "Finished"
    BY <1>1, <1>8, <2>3 DEF Local
  <2> HIDE DEF r
  <2> QED
    BY <1>1, <1>8, <1>9, <1>10, <1>11, <2>1, <2>2, <2>4 DEF Local
<1> QED
  BY <1>5, <1>7, <1>8, <1>12, QuietStep DEF NoClaim, Quiet

LEMMA SaveStepKeeps ==
    ASSUME IInv, NEW p \in Procs, SaveStep(p)
    PROVE  IInv'
  BY SaveLoadKeeps, SaveUpdateKeeps DEF SaveStep, LoadPC, UpdatePC

(***************************************************************************)
(* The bonus                                                               *)
(***************************************************************************)
\* The row that gets the point exists.
LEMMA AddBonusPointSteps ==
    ASSUME IInv, NEW p \in Procs, AddBonusPoint(p)
    PROVE  \/ Quiet(p, [tx[p] EXCEPT !.pc = "commit"])
           \/ \E k \in Key :
                /\ progress[k].answerStatus # "absent"
                /\ Quiet(p, [tx[p] EXCEPT !.pc = "saveBonus", !.at = k,
                               !.ents = [NoRows EXCEPT ![k] =
                                            [Seen(p, k) EXCEPT !.bonus_score = @ + 1]]])
<1>1. tx[p] \in Tx /\ Local(p, tx[p]) /\ tx[p].pc = "addBonus" /\ tx[p].draft.status = "Finished"
  BY DEF Finishing, IInv, TypeOK, AddBonusPoint, Local
<1> DEFINE e(k) == [NoRows EXCEPT ![k] = [Seen(p, k) EXCEPT !.bonus_score = @ + 1]]
<1> DEFINE s(k) == [tx[p] EXCEPT !.pc = "saveBonus", !.at = k, !.ents = e(k)]
<1> DEFINE c == [tx[p] EXCEPT !.pc = "commit"]
<1>2. PICK a \in LastAnswer(p, TRUE), b \in LastAnswer(p, FALSE) :
         \/ Step(p, c)
         \/ \E k \in FindById(p, IF FinishedFirst(p, a, b) THEN a ELSE b) : Step(p, s(k))
  BY DEF AddBonusPoint
<1>3. \A f \in BOOLEAN : \A k \in LastAnswer(p, f) :
         k = None \/ (k \in Key /\ tx[p].ents[k].answerStatus # "absent")
  BY DEF LastAnswer, LastAnswers, Present
<1>4. \A k \in Key : Seen(p, k).answerStatus # "absent" \/ tx[p].ents[k].answerStatus # "absent"
                        => progress[k].answerStatus # "absent"
  BY <1>1 DEF Seen, Local, Known
<1>5. \A k \in FindById(p, IF FinishedFirst(p, a, b) THEN a ELSE b) :
         k \in Key /\ progress[k].answerStatus # "absent"
  BY <1>2, <1>3, <1>4 DEF FindById
<1> QED
  BY <1>2, <1>5 DEF AddBonusPoint, Quiet

LEMMA AddBonusPointKeeps ==
    ASSUME IInv, NEW p \in Procs, AddBonusPoint(p)
    PROVE  IInv'
<1>1. tx[p] \in Tx /\ Local(p, tx[p]) /\ tx[p].pc = "addBonus" /\ tx[p].draft.status = "Finished"
  BY DEF Finishing, IInv, TypeOK, AddBonusPoint, Local
<1> DEFINE e(k) == [NoRows EXCEPT ![k] = [Seen(p, k) EXCEPT !.bonus_score = @ + 1]]
<1> DEFINE s(k) == [tx[p] EXCEPT !.pc = "saveBonus", !.at = k, !.ents = e(k)]
<1> DEFINE c == [tx[p] EXCEPT !.pc = "commit"]
<1>2. \/ Quiet(p, c)
      \/ \E k \in Key : progress[k].answerStatus # "absent" /\ Quiet(p, s(k))
  BY AddBonusPointSteps
<1>3. CASE Quiet(p, c)
  <2>1. c \in Tx
    BY <1>1 DEF Tx, PC
  <2>2. /\ c.pc = "commit" /\ c.mine = tx[p].mine /\ c.ents = tx[p].ents /\ c.rows = tx[p].rows
        /\ c.draft = tx[p].draft
    BY <1>1 DEF Tx
  <2>3. Local(p, c)
    BY <1>1, <2>2 DEF Local, Saving, DraftIsFresh
  <2> QED
    BY <1>3, <2>1, <2>2, <2>3, QuietStep DEF NoClaim
<1>4. CASE \E k \in Key : progress[k].answerStatus # "absent" /\ Quiet(p, s(k))
  <2>1. PICK k \in Key : progress[k].answerStatus # "absent" /\ Quiet(p, s(k))
    BY <1>4
  <2>2. Seen(p, k) \in ProgressRow
    BY <1>1 DEF Seen, Tx, IInv, TypeOK
  <2>3. [Seen(p, k) EXCEPT !.bonus_score = @ + 1] \in ProgressRow
    BY <2>2 DEF ProgressRow
  <2>4. e(k) \in [Key -> ProgressRow]
    BY <2>3, InitialValues
  <2>5. Known(e(k))
    BY <2>1 DEF Known, NoRows, NoRow
  <2> DEFINE ek == e(k)
  <2> DEFINE r == [tx[p] EXCEPT !.pc = "saveBonus", !.at = k, !.ents = ek]
  <2>6. Quiet(p, r) /\ ek \in [Key -> ProgressRow] /\ Known(ek)
    BY <2>1, <2>4, <2>5
  <2> HIDE DEF ek
  <2>7. r \in Tx
    BY <1>1, <2>6 DEF Tx, PC
  <2>8. /\ r.pc = "saveBonus" /\ r.at = k /\ r.mine = tx[p].mine /\ r.ents = ek
        /\ r.rows = tx[p].rows /\ r.draft = tx[p].draft
    BY <1>1 DEF Tx
  <2>9. Local(p, r)
    BY <1>1, <2>1, <2>6, <2>8 DEF Local, Saving, DraftIsFresh
  <2> QED
    BY <2>6, <2>7, <2>8, <2>9, QuietStep DEF NoClaim
<1> QED
  BY <1>2, <1>3, <1>4

(***************************************************************************)
(* The cron job                                                            *)
(***************************************************************************)
\* Steps of the loop between two transactions.
LEMMA LoopKeeps ==
    ASSUME IInv, NEW c \in Crons, FinishOpenGamesCron(c) \/ NextGame(c) \/ EndOfLoop(c)
    PROVE  IInv'
<1>1. c \in Procs /\ tx[c] \in Tx /\ Local(c, tx[c])
  BY DEF Procs, IInv, TypeOK
<1>2. ASSUME NEW Q \in SUBSET Key, NEW r \in {Idle, Waiting(Q)}, Quiet(c, r) PROVE IInv'
  <2>1. r \in Tx
    BY InitialValues DEF Waiting, Tx, PC
  <2>2. Local(c, r) /\ NoClaim(c, r)
    BY RestingIsLocal DEF NoClaim
  <2> QED
    BY <1>1, <1>2, <2>1, <2>2, QuietStep
<1>3. CASE FinishOpenGamesCron(c)
  <2>1. OpenGamesToComplete \in SUBSET Key
    BY DEF OpenGamesToComplete
  <2> QED
    BY <1>2, <1>3, <2>1 DEF FinishOpenGamesCron, Quiet
<1>4. CASE EndOfLoop(c)
  BY <1>2, <1>4 DEF EndOfLoop, Quiet
<1>5. CASE NextGame(c)
  <2> DEFINE rest(k) == tx[c].queue \ {k}
  <2>1. tx[c] = Waiting(tx[c].queue) /\ tx[c].queue \in SUBSET Key
    BY <1>1, <1>5 DEF NextGame, Local, Tx
  <2>2. PICK k \in tx[c].queue :
           Quiet(c, IF ActiveGames(UserOf(k)) = {} THEN [tx[c] EXCEPT !.queue = rest(k)]
                    ELSE [tx[c] EXCEPT !.pc = "lockMine", !.user = UserOf(k),
                            !.scan = ActiveGames(UserOf(k)), !.queue = rest(k)])
    BY <1>5 DEF NextGame, Quiet
  <2>3. CASE ActiveGames(UserOf(k)) = {}
    <3>1. [tx[c] EXCEPT !.queue = rest(k)] = Waiting(rest(k))
      BY <2>1 DEF Waiting, Idle
    <3> QED
      BY <1>2, <2>1, <2>2, <2>3, <3>1
  <2>4. CASE ActiveGames(UserOf(k)) # {}
    <3> DEFINE r == [tx[c] EXCEPT !.pc = "lockMine", !.user = UserOf(k),
                       !.scan = ActiveGames(UserOf(k)), !.queue = rest(k)]
    <3>1. UserOf(k) \in Users
      BY <2>1 DEF Key, UserOf
    <3>2. ActiveGames(UserOf(k)) \in SUBSET GameIds
      BY DEF ActiveGames
    <3>3. r \in Tx
      BY <1>1, <2>1, <3>1, <3>2 DEF Tx, PC
    <3>4. /\ r.pc = "lockMine" /\ r.user \in Users /\ r.found = {} /\ r.mine = None
          /\ r.draft = NoGame /\ r.ents = NoRows /\ r.rows = NoRows
      BY <2>1, <3>1 DEF Waiting, Idle
    <3> HIDE DEF r
    <3>5. Local(c, r)
      BY <3>4, GameConstants
      DEF Local, DraftIsFresh, Known, NoRows, NoRow, NoGame, Present, Saving, Finishing
    <3>6. Quiet(c, r) /\ NoClaim(c, r)
      BY <2>2, <2>4, <3>4 DEF r, NoClaim
    <3> QED
      BY <1>1, <3>3, <3>5, <3>6, QuietStep
  <2> QED
    BY <2>3, <2>4
<1> QED
  BY <1>3, <1>4, <1>5

LEMMA FailedToCompleteKeeps ==
    ASSUME IInv, NEW c \in Crons, FailedToComplete(c)
    PROVE  IInv'
  BY RollbackStep, ResumeRests DEF FailedToComplete, Procs

LEMMA CompleteGameKeeps ==
    ASSUME IInv, NEW c \in Crons, CompleteGame(c)
    PROVE  IInv'
<1>1. c \in Procs /\ tx[c] \in Tx /\ Local(c, tx[c]) /\ tx[c].pc = "lockMine"
  BY DEF Procs, IInv, TypeOK, CompleteGame, Locked
<1>2. PICK g \in tx[c].found :
         Quiet(c, [tx[c] EXCEPT !.pc = "collect", !.mine = g, !.draft = FinishGame(g)])
  BY DEF CompleteGame, Quiet
<1> DEFINE r == [tx[c] EXCEPT !.pc = "collect", !.mine = g, !.draft = FinishGame(g)]
<1>3. Held(c, g, "Active")
  BY <1>1 DEF Local
<1>4. FinishGame(g) \in PairQuizGameRow /\ FinishGame(g).status = "Finished"
  BY <1>3 DEF FinishGame, Held, IInv, TypeOK, PairQuizGameRow
<1>5. r \in Tx
  BY <1>1, <1>3, <1>4 DEF Tx, PC, Held
<1>6. /\ r.pc = "collect" /\ r.mine = g /\ r.draft = FinishGame(g) /\ r.ents = tx[c].ents
      /\ r.rows = tx[c].rows /\ Present(r.rows) = {}
  BY <1>1 DEF Tx, Local
<1>7. DraftIsFresh(c, r)
  BY <1>3, <1>4, <1>6 DEF DraftIsFresh, Held
<1> HIDE DEF r
<1>8. Local(c, r)
  BY <1>1, <1>3, <1>4, <1>6, <1>7 DEF Local, Saving, Held, Known, Present
<1>9. NoClaim(c, r) /\ Quiet(c, r)
  BY <1>2, <1>3, <1>6 DEF NoClaim, Held, r
<1> QED
  BY <1>1, <1>5, <1>8, <1>9, QuietStep

\* Steps that go on finishing the game, with entities that the table knows.
LEMMA FinishingKeeps ==
    ASSUME IInv, NEW c \in Procs, tx[c].pc \in Finishing, NEW to \in Finishing,
           NEW k \in Key \cup {None}, NEW e \in [Key -> ProgressRow], Known(e),
           to \in {"saveClosed", "writeClosed"} => k \in Key /\ progress[k].answerStatus # "absent",
           Quiet(c, [tx[c] EXCEPT !.pc = to, !.at = k, !.ents = e])
    PROVE  IInv'
<1> DEFINE r == [tx[c] EXCEPT !.pc = to, !.at = k, !.ents = e]
<1>1. tx[c] \in Tx /\ Local(c, tx[c]) /\ tx[c].draft.status = "Finished"
  BY DEF IInv, TypeOK, Local
<1>2. r \in Tx
  BY <1>1 DEF Tx, PC, Finishing
<1>3. /\ r.pc = to /\ r.at = k /\ r.mine = tx[c].mine /\ r.draft = tx[c].draft /\ r.ents = e
      /\ r.rows = tx[c].rows
  BY <1>1 DEF Tx
<1>4. DraftIsFresh(c, r)
  BY <1>1, <1>3 DEF Local, DraftIsFresh
<1>5. Quiet(c, r) /\ NoClaim(c, r)
  BY <1>3 DEF NoClaim
<1> HIDE DEF r
<1>6. Local(c, r)
  BY <1>1, <1>3, <1>4 DEF Local, Saving, Finishing
<1> QED
  BY <1>2, <1>5, <1>6, QuietStep

LEMMA CollectProgressKeeps ==
    ASSUME IInv, NEW c \in Crons, CollectProgress(c)
    PROVE  IInv'
<1>1. c \in Procs /\ tx[c] \in Tx /\ tx[c].pc \in Finishing
  BY DEF Procs, IInv, TypeOK, CollectProgress, Finishing
<1>2. progress \in [Key -> ProgressRow] /\ Known(progress)
  BY DEF IInv, TypeOK, Known
<1>3. /\ tx[c].at \in Key \cup {None}
      /\ Quiet(c, [tx[c] EXCEPT !.pc = "closeRows", !.at = tx[c].at, !.ents = progress])
  BY <1>1 DEF CollectProgress, Quiet, Tx
<1> QED
  BY <1>1, <1>2, <1>3, FinishingKeeps DEF Finishing

LEMMA CloseRowKeeps ==
    ASSUME IInv, NEW c \in Crons, CloseRow(c)
    PROVE  IInv'
<1>1. c \in Procs /\ tx[c] \in Tx /\ Local(c, tx[c]) /\ tx[c].pc \in Finishing
  BY DEF Procs, IInv, TypeOK, CloseRow, Finishing
<1>2. PICK k \in Open(c) :
         Quiet(c, [tx[c] EXCEPT !.pc = "saveClosed", !.at = k,
                     !.ents = [tx[c].ents EXCEPT ![k] = Closed(tx[c].ents[k])]])
  BY DEF CloseRow, Quiet
<1> DEFINE e == [tx[c].ents EXCEPT ![k] = Closed(tx[c].ents[k])]
<1>3. k \in Key /\ tx[c].ents[k].answerStatus = "unanswered" /\ tx[c].ents \in [Key -> ProgressRow]
  BY <1>1 DEF Open, Tx
<1>4. Closed(tx[c].ents[k]) \in ProgressRow
  <2>1. clock \in 0..MaxClock
    BY GameConstants DEF IInv, TypeOK
  <2>2. tx[c].ents[k] \in ProgressRow
    BY <1>3
  <2> QED
    BY <2>1, <2>2 DEF Closed, ProgressRow, Answered
<1>5. progress[k].answerStatus # "absent" /\ Known(e)
  BY <1>1, <1>3 DEF Local, Known
<1>6. e \in [Key -> ProgressRow]
  BY <1>3, <1>4
<1> HIDE DEF e
<1>7. Quiet(c, [tx[c] EXCEPT !.pc = "saveClosed", !.at = k, !.ents = e])
  BY <1>2 DEF e
<1> QED
  BY <1>1, <1>3, <1>5, <1>6, <1>7, FinishingKeeps DEF Finishing

LEMMA RowsClosedKeeps ==
    ASSUME IInv, NEW c \in Crons, RowsClosed(c)
    PROVE  IInv'
<1>1. c \in Procs /\ tx[c] \in Tx /\ Local(c, tx[c]) /\ tx[c].pc \in Finishing
  BY DEF Procs, IInv, TypeOK, RowsClosed, Finishing
<1>2. /\ tx[c].at \in Key \cup {None} /\ tx[c].ents \in [Key -> ProgressRow] /\ Known(tx[c].ents)
      /\ Quiet(c, [tx[c] EXCEPT !.pc = "addBonus", !.at = tx[c].at, !.ents = tx[c].ents])
  BY <1>1 DEF RowsClosed, Quiet, Tx, Local
<1> QED
  BY <1>1, <1>2, FinishingKeeps DEF Finishing

(***************************************************************************)
(* Time and commits                                                        *)
(***************************************************************************)
LEMMA TickKeeps ==
    ASSUME IInv, Tick
    PROVE  IInv'
<1>1. UNCHANGED <<game, progress, locks, tx>> /\ clock' \in 1..MaxClock
  BY GameConstants DEF Tick, IInv, TypeOK
<1>2. TypeOK' /\ AbsentIsNoGame'
  BY <1>1 DEF IInv, TypeOK, AbsentIsNoGame
<1>3. ASSUME NEW q \in Procs PROVE Local(q, tx[q])'
  <2>1. Local(q, tx[q])
    BY DEF IInv
  <2> QED
    BY <1>1, <2>1, Frame, ClaimsAreUnique
<1> QED
  BY <1>2, <1>3 DEF IInv

\* What a commit does to the tables.
LEMMA CommitWrites ==
    ASSUME IInv, NEW p \in Procs, Commit(p)
    PROVE  /\ tx[p] \in Tx /\ Local(p, tx[p]) /\ tx[p].pc = "commit"
           /\ tx[p].draft.status = "absent" => game' = game
           /\ tx[p].draft.status # "absent" =>
                 tx[p].mine \in GameIds /\ game' = [game EXCEPT ![tx[p].mine] = tx[p].draft]
           /\ progress' = [k \in Key |-> Seen(p, k)]
           /\ \A k \in Key : progress[k].answerStatus # "absent" => progress'[k].answerStatus # "absent"
           /\ tx[p].draft.status # "Active" => Present(progress)' = Present(progress)
<1>1. tx[p] \in Tx /\ Local(p, tx[p]) /\ tx[p].pc = "commit"
  BY DEF IInv, TypeOK, Commit
<1>2. tx[p].draft.status # "absent" => tx[p].mine \in GameIds
  BY <1>1 DEF Local, DraftIsFresh
<1>3. progress' = [k \in Key |-> Seen(p, k)]
  BY DEF Commit
<1>4. \A k \in Key : progress[k].answerStatus # "absent" => progress'[k].answerStatus # "absent"
  BY <1>3 DEF Seen
<1>5. ASSUME tx[p].draft.status # "Active" PROVE Present(progress)' = Present(progress)
  <2>1. Known(tx[p].rows)
    BY <1>1, <1>5 DEF Local
  <2> QED
    BY <1>3, <1>4, <2>1 DEF Present, Known, Seen
<1> QED
  BY <1>1, <1>2, <1>3, <1>4, <1>5 DEF Commit

LEMMA CommitKeeps ==
    ASSUME IInv, NEW p \in Procs, Commit(p)
    PROVE  IInv'
<1>1. PICK Q \in SUBSET Key : Resume(p) \in {Idle, Waiting(Q)}
  BY ResumeRests
<1>2. /\ tx' = [tx EXCEPT ![p] = Resume(p)] /\ clock' = clock
      /\ locks' = [g \in GameIds |-> IF locks[g] = p THEN None ELSE locks[g]]
  BY DEF Commit, Step, Unlock
<1>3. Resume(p) \in Tx /\ Resume(p).mine = None
  BY <1>1, InitialValues, RestingIsLocal DEF Waiting, Tx, PC
<1>4. tx'[p] = Resume(p) /\ \A q \in Procs \ {p} : tx'[q] = tx[q]
  BY <1>2 DEF IInv, TypeOK
<1>5. TypeOK'
  <2>1. game' \in [GameIds -> PairQuizGameRow]
    BY CommitWrites DEF IInv, TypeOK, Tx
  <2>2. progress' \in [Key -> ProgressRow]
    BY CommitWrites DEF IInv, TypeOK, Tx, Seen
  <2> QED
    BY <1>2, <1>3, <2>1, <2>2 DEF IInv, TypeOK
<1>6. AbsentIsNoGame'
  BY CommitWrites DEF IInv, TypeOK, AbsentIsNoGame
<1>7. Local(p, tx[p])'
  BY <1>1, <1>4, RestingStaysLocal
<1>8. ASSUME NEW q \in Procs \ {p} PROVE Local(q, tx[q])'
  <2>1. Local(q, tx[q])
    BY DEF IInv
  <2>2. \A g \in GameIds : game[g].status # "absent" => game'[g].status # "absent"
    BY CommitWrites DEF IInv, TypeOK
  <2>3. ASSUME NEW g \in GameIds, locks[g] = q, game[g].status # "absent"
        PROVE  locks'[g] = q /\ game'[g] = game[g]
    <3>1. tx[p].draft.status # "absent" => tx[p].mine # g
      <4>1. DraftIsFresh(p, tx[p])
        BY CommitWrites DEF Local
      <4>2. \/ tx[p].draft.status = "absent"
            \/ game[tx[p].mine] = NoGame
            \/ locks[tx[p].mine] = p
        BY <4>1 DEF DraftIsFresh
      <4> QED
        BY <2>3, <4>2 DEF NoGame
    <3> QED
      BY <1>2, <2>3, <3>1, CommitWrites DEF IInv, TypeOK
  <2>4. ASSUME tx[q].draft.status = "PendingSecondPlayer"
        PROVE  /\ game'[tx[q].mine] = game[tx[q].mine]
               /\ \A o \in Procs \ {q} : tx'[o].mine # tx[q].mine
    BY <1>3, <1>4, <2>4, ClaimsAreUnique, CommitWrites, GameConstants DEF IInv, TypeOK
  <2> QED
    BY <1>4, <2>1, <2>2, <2>3, <2>4, CommitWrites, Frame
<1> QED
  BY <1>5, <1>6, <1>7, <1>8 DEF IInv

(***************************************************************************)
(* The invariant                                                           *)
(***************************************************************************)
LEMMA InitKeeps == Init => IInv
<1> SUFFICES ASSUME Init PROVE IInv
  OBVIOUS
<1>1. TypeOK
  BY InitialValues, GameConstants DEF Init, TypeOK
<1>2. AbsentIsNoGame
  BY DEF Init, AbsentIsNoGame
<1>3. \A p \in Procs : Local(p, tx[p])
  BY RestingIsLocal DEF Init
<1> QED
  BY <1>1, <1>2, <1>3 DEF IInv

LEMMA WorkerStepKeeps ==
    ASSUME IInv, NEW w \in Workers, WorkerStep(w)
    PROVE  IInv'
<1>1. w \in Procs
  BY DEF Procs
<1> QED
  BY <1>1, FindGamePendingKeeps, LockRowKeeps, CreateNewGameKeeps, JoinGameKeeps,
     AddQuestionsForGameKeeps, NotFoundKeeps, AnswerQuestionKeeps, ReviewGameKeeps,
     AddBonusPointKeeps, SaveStepKeeps, CommitKeeps DEF WorkerStep

LEMMA CronStepKeeps ==
    ASSUME IInv, NEW c \in Crons, CronStep(c)
    PROVE  IInv'
<1>1. c \in Procs
  BY DEF Procs
<1> QED
  BY <1>1, LoopKeeps, LockRowKeeps, FailedToCompleteKeeps, CompleteGameKeeps,
     CollectProgressKeeps, CloseRowKeeps, RowsClosedKeeps, AddBonusPointKeeps,
     SaveStepKeeps, CommitKeeps DEF CronStep

LEMMA StutterKeeps ==
    ASSUME IInv, UNCHANGED vars
    PROVE  IInv'
<1>1. ASSUME NEW q \in Procs PROVE Local(q, tx[q])'
  <2>1. Local(q, tx[q])
    BY DEF IInv
  <2> QED
    BY <2>1, Frame, ClaimsAreUnique DEF vars
<1> QED
  BY <1>1 DEF IInv, TypeOK, AbsentIsNoGame, vars

LEMMA NextKeeps == IInv /\ [Next]_vars => IInv'
  BY StutterKeeps, ConnectKeeps, AnswerKeeps, WorkerStepKeeps, CronStepKeeps, FailKeeps,
     TickKeeps DEF Next

LEMMA Invariance == Spec => []IInv
  BY InitKeeps, NextKeeps, PTL DEF Spec

(***************************************************************************)
(* The theorems                                                            *)
(***************************************************************************)
\* The tables, locks and handlers keep their types in every interleaving.
THEOREM TypeCorrect == Spec => []TypeOK
<1>1. IInv => TypeOK
  BY DEF IInv
<1> QED
  BY <1>1, Invariance, PTL

\* No connection request, answer or cron run ever holds a change of a game row that was
\* computed from anything but the row's committed value: the FOR UPDATE locks and the
\* rechecks they imply suffice for every number of players, games and processes.
THEOREM Isolation == Spec => []GameWritesAreIsolated
<1>1. IInv => GameWritesAreIsolated
  BY DEF IInv, Local, GameWritesAreIsolated
<1> QED
  BY <1>1, Invariance, PTL

(***************************************************************************)
(* Refinement: every commit is one step of GameLifecycle or leaves the     *)
(* games and the questions dealt as they are, and nothing else writes.     *)
(***************************************************************************)
LEMMA LifecycleInit == Init => Lifecycle!Init
<1>1. Present(NoRows) = {}
  BY DEF Present, NoRows, NoRow
<1> QED
  BY <1>1 DEF Init, Lifecycle!Init, Lifecycle!NoGame, NoGame

\* The two sides name the questions of a game alike.
LEMMA QuestionsDealt ==
    ASSUME NEW g, NEW players, NEW n
    PROVE  Present(QuestionRows(g, players, n)) = Lifecycle!Questions(g, players, n)
  BY DEF Present, QuestionRows, NewRow, NoRow, Lifecycle!Questions, Key, GameOf, UserOf, NumberOf

LEMMA CommitRefines ==
    ASSUME IInv, NEW p \in Procs, Commit(p)
    PROVE  [Lifecycle!Next]_Lifecycle!vars
<1> DEFINE r == tx[p]
<1> DEFINE g == tx[p].mine
<1>1. DraftIsFresh(p, r) /\ r.pc = "commit" /\ (r.draft.status = "Active" => DealtInDraft(r))
  BY CommitWrites DEF Local
<1>2. CASE r.draft.status = "absent"
  BY <1>2, CommitWrites DEF Lifecycle!vars
<1>3. CASE r.draft.status = "PendingSecondPlayer"
  <2>1. PICK u \in Users : r.draft = NewGame(u)
    BY <1>1, <1>3 DEF DraftIsFresh
  <2>2. g \in GameIds /\ game[g] = NoGame
    BY <1>1, <1>3 DEF DraftIsFresh
  <2>3. Lifecycle!Open(g, u)
    BY <1>3, <2>1, <2>2, CommitWrites DEF Lifecycle!Open, Lifecycle!NoGame, NoGame, NewGame
  <2> QED
    BY <2>2, <2>3 DEF Lifecycle!Next
<1>4. CASE r.draft.status = "Finished"
  <2>1. g \in GameIds /\ game[g].status = "Active" /\ r.draft = FinishGame(g)
    BY <1>1, <1>4 DEF DraftIsFresh
  <2>2. Lifecycle!Finish(g)
    BY <1>4, <2>1, CommitWrites DEF Lifecycle!Finish, FinishGame
  <2> QED
    BY <2>1, <2>2 DEF Lifecycle!Next
<1>5. CASE r.draft.status = "Active"
  <2>1. /\ g \in GameIds /\ game[g].status = "PendingSecondPlayer"
        /\ \E u \in Users : r.draft = [game[g] EXCEPT !.secondPlayerId = u, !.status = "Active"]
    BY <1>1, <1>5 DEF DraftIsFresh
  <2>2. PICK u \in Users : r.draft = [game[g] EXCEPT !.secondPlayerId = u, !.status = "Active"]
    BY <2>1
  <2> DEFINE first == game[g].firstPlayerId
  <2>3. r.draft.firstPlayerId = first /\ r.draft.secondPlayerId = u
    <3>1. game[g] \in PairQuizGameRow
      BY <2>1 DEF IInv, TypeOK
    <3> QED
      BY <2>2, <3>1 DEF PairQuizGameRow
  <2>4. PICK n \in 0..Last : /\ n > 0 => first # u
                             /\ r.rows = QuestionRows(g, {first, u}, n)
    BY <1>1, <1>5, <2>3 DEF DealtInDraft
  <2>5. Present(r.rows) = Lifecycle!Questions(g, {first, u}, n)
    BY <2>4, QuestionsDealt
  <2>6. Present(progress)' = Present(progress) \cup Present(r.rows)
    BY CommitWrites DEF Present, Seen
  <2>7. Lifecycle!Pair(g, u, n)
    BY <1>5, <2>1, <2>2, <2>4, <2>5, <2>6, CommitWrites DEF Lifecycle!Pair
  <2> QED
    BY <2>1, <2>4, <2>7 DEF Lifecycle!Next
<1> QED
  BY <1>1, <1>2, <1>3, <1>4, <1>5 DEF DraftIsFresh

\* Every other step leaves the committed tables alone.
LEMMA OnlyCommitsWrite ==
    ASSUME [Next]_vars, \A p \in Procs : ~Commit(p)
    PROVE  UNCHANGED <<game, progress>>
<1>1. CASE \E w \in Workers, u \in Users : Connect(w, u) \/ Answer(w, u)
  BY <1>1 DEF Connect, Answer
<1>2. ASSUME NEW p \in Procs, SaveStep(p) \/ LockRow(p) \/ AddBonusPoint(p) \/ Fail(p)
      PROVE  UNCHANGED <<game, progress>>
  BY <1>2 DEF SaveStep, SaveLoad, SaveUpdate, LockRow, AddBonusPoint, Fail, Rollback
<1>3. ASSUME NEW w \in Workers, WorkerStep(w) PROVE UNCHANGED <<game, progress>>
  BY <1>2, <1>3 DEF WorkerStep, Procs, FindGamePending, CreateNewGame, JoinGame,
     AddQuestionsForGame, GameNotFound, AnswerQuestion, QuestionNotFound, ReviewGame, Rollback
<1>4. ASSUME NEW c \in Crons, CronStep(c) PROVE UNCHANGED <<game, progress>>
  BY <1>2, <1>4 DEF CronStep, Procs, FinishOpenGamesCron, NextGame, EndOfLoop, FailedToComplete,
     CompleteGame, CollectProgress, CloseRow, RowsClosed, Rollback
<1> QED
  BY <1>1, <1>2, <1>3, <1>4 DEF Next, Tick, vars

LEMMA OthersStutter ==
    ASSUME [Next]_vars, \A p \in Procs : ~Commit(p)
    PROVE  UNCHANGED Lifecycle!vars
  BY OnlyCommitsWrite DEF Lifecycle!vars, Present

\* The whole game, with every interleaving of its requests and cron runs, implements the
\* life of a game: opened once, paired and dealt in one step, finished once.
THEOREM Refinement == Spec => RefinesLifecycle
<1>1. IInv /\ [Next]_vars => [Lifecycle!Next]_Lifecycle!vars
  BY CommitRefines, OthersStutter
<1> QED
  BY <1>1, LifecycleInit, Invariance, PTL DEF Spec, RefinesLifecycle, Lifecycle!Spec

(***************************************************************************)
(* Two requests of one player                                              *)
(***************************************************************************)
Answering == {"saveAnswer", "writeAnswer"}
Scanning == {"lockMine"} \cup Answering

\* The active games that request w waits for, or has locked.
ActiveIn(w) == {g \in tx[w].scan \cup tx[w].found : game[g].status = "Active"}

\* What a request that answers has in hand.
AnswerInHand(w) ==
    LET r == tx[w] IN
    /\ r.pc \in Scanning =>
          \A g \in r.scan \cup r.found :
              game[g].status \in {"Active", "Finished"} /\ IsPlayer(g, r.user)
    /\ r.pc \in Answering =>
          /\ r.scan = {} /\ r.mine \in r.found /\ UserOf(r.at) = r.user
          /\ \A g \in r.found : Held(w, g, "Active")

\* Of two requests of a player the later one waits for every active game of the earlier.
Nested ==
    \A v, w \in Workers :
        {tx[v].pc, tx[w].pc} \subseteq Scanning /\ tx[v].user = tx[w].user
        => ActiveIn(v) \subseteq ActiveIn(w) \/ ActiveIn(w) \subseteq ActiveIn(v)

DInv == Nested /\ \A w \in Workers : AnswerInHand(w)

\* An active game can only be finished; its players stay, and so do the locks of others.
LEMMA AnswerFrame ==
    ASSUME IInv, DInv, NEW p \in Procs, NEW r, tx' = [tx EXCEPT ![p] = r],
           \A g \in GameIds :
              /\ game[g].status \in {"Active", "Finished"} =>
                    game'[g] = game[g] \/ (game[g].status = "Active" /\ game'[g] = FinishGame(g))
              /\ locks[g] \in Workers \ {p} =>
                    /\ locks'[g] = locks[g]
                    /\ game[g].status = "Active" => game'[g] = game[g],
           p \in Workers =>
              /\ AnswerInHand(p)'
              /\ r.pc \in Scanning => /\ tx[p].pc \in Scanning /\ tx[p].user = r.user
                                      /\ ActiveIn(p)' = ActiveIn(p)
    PROVE  DInv'
<1>1. tx'[p] = r /\ \A q \in Procs \ {p} : tx'[q] = tx[q]
  BY DEF IInv, TypeOK
<1>2. \A g \in GameIds : game[g].status \in {"Active", "Finished"} =>
          /\ game'[g].status \in {"Active", "Finished"}
          /\ game'[g].status = "Active" => game[g].status = "Active"
          /\ game'[g].firstPlayerId = game[g].firstPlayerId
          /\ game'[g].secondPlayerId = game[g].secondPlayerId
  BY DEF IInv, TypeOK, FinishGame, PairQuizGameRow
<1>3. \A q \in Workers : q \in Procs /\ tx[q].scan \cup tx[q].found \subseteq GameIds
  BY DEF Procs, IInv, TypeOK, Tx
<1>4. ASSUME NEW w \in Workers \ {p} PROVE AnswerInHand(w)'
  <2>1. AnswerInHand(w) /\ tx'[w] = tx[w]
    BY <1>1, <1>3 DEF DInv
  <2>2. \A g \in tx[w].found : Held(w, g, "Active") => Held(w, g, "Active")'
    BY DEF Held
  <2> QED BY <1>2, <1>3, <2>1, <2>2 DEF AnswerInHand, IsPlayer
<1>5. \A w \in Workers : tx'[w].pc \in Scanning =>
          /\ tx[w].pc \in Scanning /\ tx'[w].user = tx[w].user
          /\ ActiveIn(w)' = {g \in ActiveIn(w) : game'[g].status = "Active"}
  <2> SUFFICES ASSUME NEW w \in Workers, tx'[w].pc \in Scanning
               PROVE  /\ tx[w].pc \in Scanning /\ tx'[w].user = tx[w].user
                      /\ ActiveIn(w)' = {g \in ActiveIn(w) : game'[g].status = "Active"}
    OBVIOUS
  <2>1. CASE w = p
    BY <1>1, <2>1 DEF ActiveIn
  <2>2. CASE w # p
    <3>1. tx'[w] = tx[w] /\ AnswerInHand(w)
      BY <1>1, <1>3, <2>2 DEF DInv
    <3>2. \A g \in tx[w].scan \cup tx[w].found : g \in GameIds /\ game[g].status \in {"Active", "Finished"}
      BY <1>3, <3>1 DEF AnswerInHand
    <3> QED BY <1>2, <3>1, <3>2 DEF ActiveIn
  <2> QED BY <2>1, <2>2
<1>6. Nested'
  BY <1>5 DEF DInv, Nested
<1> QED BY <1>4, <1>6 DEF DInv

\* A process that is not answering goes on, and no row is written.
LEMMA AnswerElsewhere ==
    ASSUME IInv, DInv, NEW p \in Procs, NEW r, Step(p, r), p \in Workers => r.pc \notin Scanning,
           UNCHANGED game, \A g \in GameIds : locks[g] \in Workers \ {p} => locks'[g] = locks[g]
    PROVE  DInv'
<1>1. tx'[p] = r
  BY DEF IInv, TypeOK, Step
<1>2. p \in Workers => AnswerInHand(p)'
  BY <1>1 DEF AnswerInHand, Scanning
<1> QED BY <1>1, <1>2, AnswerFrame DEF Step

LEMMA AnswerRollback ==
    ASSUME IInv, DInv, NEW p \in Procs, NEW r, Rollback(p, r), p \in Workers => r = Idle
    PROVE  DInv'
<1>1. \A g \in GameIds : locks[g] \in Workers \ {p} => locks'[g] = locks[g]
  BY DEF Rollback, Unlock
<1>2. Idle.pc \notin Scanning
  BY DEF Idle, Scanning, Answering
<1> QED BY <1>1, <1>2, AnswerElsewhere DEF Rollback

\* The snapshot of a new answer has every active game of the player.
LEMMA AnswerNested ==
    ASSUME IInv, DInv, NEW w \in Workers, NEW u \in Users, Answer(w, u)
    PROVE  DInv'
<1> PICK r : r = [Idle EXCEPT !.pc = "lockMine", !.user = u, !.scan = ActiveGames(u)]
  OBVIOUS
<1>1. r.pc = "lockMine" /\ r.user = u /\ r.scan = ActiveGames(u) /\ r.found = {}
  BY DEF Idle
<1>2. /\ tx'[w] = r /\ \A q \in Workers \ {w} : tx'[q] = tx[q]
      /\ UNCHANGED <<game, locks>>
  BY DEF Answer, Step, IInv, TypeOK, Procs
<1>3. AnswerInHand(w)'
  BY <1>1, <1>2 DEF AnswerInHand, ActiveGames, IsPlayer, Answering
<1>4. \A v \in Workers \ {w} : AnswerInHand(v) /\ AnswerInHand(v)' /\ ActiveIn(v)' = ActiveIn(v)
  BY <1>2 DEF DInv, AnswerInHand, IsPlayer, Held, ActiveIn
<1>5. ActiveIn(w)' = ActiveGames(u)
  BY <1>1, <1>2 DEF ActiveIn, ActiveGames
<1>6. \A v \in Workers \ {w} : tx[v].pc \in Scanning /\ tx[v].user = u =>
          ActiveIn(v) \subseteq ActiveGames(u)
  <2>1. \A v \in Workers : tx[v].scan \cup tx[v].found \subseteq GameIds
    BY DEF Procs, IInv, TypeOK, Tx
  <2> QED BY <1>4, <2>1 DEF AnswerInHand, ActiveIn, ActiveGames
<1>7. Nested'
  <2> SUFFICES ASSUME NEW v \in Workers, NEW x \in Workers,
                      tx'[v].pc \in Scanning, tx'[x].pc \in Scanning, tx'[v].user = tx'[x].user
               PROVE  \/ ActiveIn(v)' \subseteq ActiveIn(x)'
                      \/ ActiveIn(x)' \subseteq ActiveIn(v)'
    BY DEF Nested
  <2>1. CASE v = w /\ x = w
    BY <2>1
  <2>2. CASE v # w /\ x # w
    BY <1>2, <1>4, <2>2 DEF DInv, Nested
  <2>3. \A y \in Workers \ {w} : tx'[y].pc \in Scanning /\ tx'[y].user = u =>
            ActiveIn(y)' \subseteq ActiveIn(w)'
    BY <1>2, <1>4, <1>5, <1>6
  <2>4. tx'[w].user = u
    BY <1>1, <1>2
  <2>5. CASE v = w /\ x # w
    BY <2>3, <2>4, <2>5
  <2>6. CASE v # w /\ x = w
    BY <2>3, <2>4, <2>6
  <2> QED BY <2>1, <2>2, <2>5, <2>6
<1> QED BY <1>3, <1>4, <1>7 DEF DInv

\* A row that no longer matches when it is locked is no active game.
LEMMA LockRowNested ==
    ASSUME IInv, DInv, NEW p \in Procs, LockRow(p)
    PROVE  DInv'
<1>1. PICK g \in tx[p].scan :
         /\ locks[g] = None /\ locks' = [locks EXCEPT ![g] = p]
         /\ Step(p, [tx[p] EXCEPT !.scan = @ \ {g},
                                  !.found = IF StillMatches(p, g) THEN @ \cup {g} ELSE @])
  BY DEF LockRow
<1> PICK r : r = [tx[p] EXCEPT !.scan = tx[p].scan \ {g},
                    !.found = IF StillMatches(p, g) THEN tx[p].found \cup {g} ELSE tx[p].found]
  OBVIOUS
<1>2. tx[p] \in Tx /\ UNCHANGED game /\ tx[p].pc \in {"lockPending", "lockMine"}
  BY DEF LockRow, IInv, TypeOK
<1>3. /\ r.pc = tx[p].pc /\ r.user = tx[p].user /\ r.scan = tx[p].scan \ {g}
      /\ r.found = IF StillMatches(p, g) THEN tx[p].found \cup {g} ELSE tx[p].found
  BY <1>2 DEF Tx
<1>4. tx' = [tx EXCEPT ![p] = r] /\ tx'[p] = r
  BY <1>1 DEF Step, IInv, TypeOK
<1>5. \A h \in GameIds : locks[h] \in Workers \ {p} => locks'[h] = locks[h]
  BY <1>1, GameConstants DEF Procs
<1>6. CASE p \notin Workers \/ tx[p].pc = "lockPending"
  BY <1>1, <1>2, <1>3, <1>5, <1>6, AnswerElsewhere DEF Scanning, Answering
<1>7. CASE p \in Workers /\ tx[p].pc = "lockMine"
  <2>1. AnswerInHand(p)
    BY <1>7 DEF DInv
  <2>2. game[g].status = "Active" <=> StillMatches(p, g)
    BY <1>7, <2>1 DEF AnswerInHand, StillMatches, Scanning
  <2>3. AnswerInHand(p)'
    BY <1>2, <1>3, <1>4, <1>7, <2>1 DEF AnswerInHand, Scanning, Answering, IsPlayer
  <2>4. ActiveIn(p)' = ActiveIn(p)
    BY <1>2, <1>3, <1>4, <2>2 DEF ActiveIn
  <2>5. r.pc \in Scanning => /\ tx[p].pc \in Scanning /\ tx[p].user = r.user
                             /\ ActiveIn(p)' = ActiveIn(p)
    BY <1>3, <2>4
  <2>6. \A h \in GameIds :
           /\ game[h].status \in {"Active", "Finished"} =>
                 game'[h] = game[h] \/ (game[h].status = "Active" /\ game'[h] = FinishGame(h))
           /\ locks[h] \in Workers \ {p} =>
                 /\ locks'[h] = locks[h]
                 /\ game[h].status = "Active" => game'[h] = game[h]
    BY <1>2, <1>5
  <2>7. tx' = [tx EXCEPT ![p] = r]
    BY <1>4
  <2>8. AnswerInHand(p)' /\ (r.pc \in Scanning => /\ tx[p].pc \in Scanning /\ tx[p].user = r.user
                                                  /\ ActiveIn(p)' = ActiveIn(p))
    BY <2>3, <2>5
  <2> QED BY ONLY <2>6, <2>7, <2>8, AnswerFrame, IInv, DInv, p \in Procs
<1> QED BY <1>2, <1>6, <1>7

LEMMA AnswerQuestionNested ==
    ASSUME IInv, DInv, NEW w \in Workers, AnswerQuestion(w)
    PROVE  DInv'
<1>1. PICK g \in tx[w].found, k \in NextQuestions(tx[w].user), outcome \in Outcomes :
          Step(w, [tx[w] EXCEPT !.pc = "saveAnswer", !.mine = g, !.at = k,
                     !.ents = [NoRows EXCEPT ![k] = AddAnswer(progress[k], outcome)]])
  BY DEF AnswerQuestion
<1> PICK r : r = [tx[w] EXCEPT !.pc = "saveAnswer", !.mine = g, !.at = k,
                     !.ents = [NoRows EXCEPT ![k] = AddAnswer(progress[k], outcome)]]
  OBVIOUS
<1>2. /\ w \in Procs /\ tx[w] \in Tx /\ tx[w].pc = "lockMine" /\ tx[w].scan = {}
      /\ UNCHANGED <<game, locks>> /\ AnswerInHand(w) /\ Local(w, tx[w])
  BY DEF AnswerQuestion, Locked, Procs, IInv, TypeOK, DInv
<1>3. /\ r.pc = "saveAnswer" /\ r.user = tx[w].user /\ r.scan = {} /\ r.found = tx[w].found
      /\ r.mine = g /\ r.at = k /\ UserOf(k) = tx[w].user
  BY <1>2 DEF Tx, NextQuestions, Unanswered
<1>4. tx' = [tx EXCEPT ![w] = r] /\ tx'[w] = r
  BY <1>1, <1>2 DEF Step, IInv, TypeOK
<1>5. AnswerInHand(w)'
  BY <1>2, <1>3, <1>4 DEF AnswerInHand, Scanning, Answering, IsPlayer, Local, Held
<1>6. ActiveIn(w)' = ActiveIn(w)
  BY <1>2, <1>3, <1>4 DEF ActiveIn
<1> QED BY <1>2, <1>3, <1>4, <1>5, <1>6, AnswerFrame DEF Scanning

LEMMA SaveNested ==
    ASSUME IInv, DInv, NEW p \in Procs, SaveStep(p)
    PROVE  DInv'
<1>1. /\ tx[p] \in Tx /\ UNCHANGED <<game, locks>>
  BY DEF SaveStep, SaveLoad, SaveUpdate, IInv, TypeOK
<1>2. CASE p \in Workers /\ SaveLoad(p, "saveAnswer", "writeAnswer")
  <2> PICK cols, r : /\ r = [tx[p] EXCEPT !.pc = "writeAnswer", !.cols = cols] /\ Step(p, r)
    BY <1>2 DEF SaveLoad
  <2>1. /\ r.pc = "writeAnswer" /\ r.user = tx[p].user /\ r.scan = tx[p].scan
        /\ r.found = tx[p].found /\ r.mine = tx[p].mine /\ r.at = tx[p].at
        /\ tx[p].pc = "saveAnswer"
    BY <1>1, <1>2 DEF Tx, SaveLoad
  <2>2. tx' = [tx EXCEPT ![p] = r] /\ tx'[p] = r
    BY DEF Step, IInv, TypeOK
  <2>3. AnswerInHand(p)' /\ ActiveIn(p)' = ActiveIn(p)
    BY <1>1, <1>2, <2>1, <2>2 DEF DInv, AnswerInHand, ActiveIn, Scanning, Answering, IsPlayer, Held
  <2> QED BY <1>1, <2>1, <2>2, <2>3, AnswerFrame DEF Scanning, Answering
<1>3. CASE ~(p \in Workers /\ SaveLoad(p, "saveAnswer", "writeAnswer"))
  <2>1. PICK r : Step(p, r) /\ (p \in Workers => r.pc \notin Scanning)
    <3>1. ASSUME NEW from, NEW to, SaveLoad(p, from, to)
          PROVE  \E r : Step(p, r) /\ r.pc = to
      <4> PICK cols, r : r = [tx[p] EXCEPT !.pc = to, !.cols = cols] /\ Step(p, r)
        BY <3>1 DEF SaveLoad
      <4>1. r.pc = to
        BY <1>1 DEF Tx
      <4> QED BY <4>1
    <3>2. ASSUME NEW from, NEW to, SaveUpdate(p, from, to)
          PROVE  \E r : Step(p, r) /\ r.pc = to
      <4>1. PICK k, row : Step(p, [tx[p] EXCEPT !.pc = to, !.rows[k] = row])
        BY <3>2 DEF SaveUpdate
      <4> PICK r : r = [tx[p] EXCEPT !.pc = to, !.rows[k] = row]
        OBVIOUS
      <4>2. r.pc = to
        BY <1>1 DEF Tx
      <4> QED BY <4>1, <4>2
    <3> QED BY <1>3, <3>1, <3>2 DEF SaveStep, Scanning, Answering
  <2> QED BY <1>1, <2>1, AnswerElsewhere
<1> QED BY <1>2, <1>3

LEMMA CommitNested ==
    ASSUME IInv, DInv, NEW p \in Procs, Commit(p)
    PROVE  DInv'
<1> PICK r : r = Resume(p)
  OBVIOUS
<1>1. tx' = [tx EXCEPT ![p] = r] /\ tx'[p] = r
  BY DEF Commit, Step, IInv, TypeOK
<1>2. r.pc \notin Scanning
  BY DEF Resume, Waiting, Idle, Scanning, Answering
<1>3. p \in Workers => AnswerInHand(p)'
  BY <1>1, <1>2 DEF AnswerInHand, Scanning
<1>4. \A g \in GameIds : locks[g] \in Workers \ {p} => locks'[g] = locks[g]
  BY DEF Commit, Unlock
<1>5. DraftIsFresh(p, tx[p]) /\ tx[p].pc = "commit"
  BY CommitWrites DEF Local
<1>6. ASSUME NEW g \in GameIds, game[g].status \in {"Active", "Finished"}, game'[g] # game[g]
      PROVE  game[g].status = "Active" /\ game'[g] = FinishGame(g) /\ locks[g] = p
  <2>1. tx[p].mine = g /\ game'[g] = tx[p].draft /\ tx[p].draft.status # "absent"
    BY <1>6, CommitWrites DEF IInv, TypeOK
  <2>2. game[tx[p].mine].status \notin {"PendingSecondPlayer", "absent"}
    BY <1>6, <2>1
  <2>3. /\ game[tx[p].mine].status = "Active" /\ tx[p].draft = FinishGame(tx[p].mine)
        /\ locks[tx[p].mine] = p
    <3>1. NoGame.status = "absent"
      BY DEF NoGame
    <3>2. tx[p].draft.status \notin {"PendingSecondPlayer", "Active"}
      BY <1>5, <2>2, <3>1 DEF DraftIsFresh
    <3> QED BY <1>5, <2>1, <3>2 DEF DraftIsFresh
  <2> QED BY <2>1, <2>3
<1> QED BY <1>1, <1>2, <1>3, <1>4, <1>6, AnswerFrame

LEMMA BonusNested ==
    ASSUME IInv, DInv, NEW p \in Procs, AddBonusPoint(p)
    PROVE  DInv'
<1>1. tx[p] \in Tx /\ UNCHANGED <<game, locks>>
  BY DEF AddBonusPoint, IInv, TypeOK
<1>2. \/ Step(p, [tx[p] EXCEPT !.pc = "commit"])
      \/ \E k, ents : Step(p, [tx[p] EXCEPT !.pc = "saveBonus", !.at = k, !.ents = ents])
  BY DEF AddBonusPoint
<1>3. \E r : Step(p, r) /\ r.pc \notin Scanning
  <2>1. CASE Step(p, [tx[p] EXCEPT !.pc = "commit"])
    <3> PICK r : r = [tx[p] EXCEPT !.pc = "commit"]
      OBVIOUS
    <3>1. r.pc \notin Scanning
      BY <1>1 DEF Tx, Scanning, Answering
    <3> QED BY <2>1, <3>1
  <2>2. ASSUME NEW k, NEW ents,
               Step(p, [tx[p] EXCEPT !.pc = "saveBonus", !.at = k, !.ents = ents])
        PROVE  \E r : Step(p, r) /\ r.pc \notin Scanning
    <3> PICK r : r = [tx[p] EXCEPT !.pc = "saveBonus", !.at = k, !.ents = ents]
      OBVIOUS
    <3>1. r.pc \notin Scanning
      BY <1>1 DEF Tx, Scanning, Answering
    <3> QED BY <2>2, <3>1
  <2> QED BY <1>2, <2>1, <2>2
<1> QED BY <1>1, <1>3, AnswerElsewhere

LEMMA WorkerNested ==
    ASSUME IInv, DInv, NEW w \in Workers, WorkerStep(w)
    PROVE  DInv'
<1>1. w \in Procs /\ tx[w] \in Tx
  BY DEF Procs, IInv, TypeOK
<1>2. CASE LockRow(w) \/ AnswerQuestion(w) \/ SaveStep(w) \/ Commit(w)
  BY <1>1, <1>2, LockRowNested, AnswerQuestionNested, SaveNested, CommitNested
<1>3. CASE GameNotFound(w) \/ QuestionNotFound(w)
  BY <1>1, <1>3, AnswerRollback DEF GameNotFound, QuestionNotFound
<1>4. ASSUME NEW r, Step(w, r), r.pc \notin Scanning, UNCHANGED <<game, locks>>
      PROVE  DInv'
  BY <1>1, <1>4, AnswerElsewhere
<1>5. CASE FindGamePending(w)
  <2> PICK r : r = [tx[w] EXCEPT !.pc = "lockPending",
                      !.scan = {g \in GameIds : game[g].status = "PendingSecondPlayer"}]
    OBVIOUS
  <2>1. r.pc \notin Scanning
    BY <1>1 DEF Tx, Scanning, Answering
  <2> QED BY <1>4, <1>5, <2>1 DEF FindGamePending
<1>6. CASE CreateNewGame(w)
  <2>1. PICK g : Step(w, [tx[w] EXCEPT !.pc = "commit", !.mine = g, !.draft = NewGame(tx[w].user)])
    BY <1>6 DEF CreateNewGame
  <2> PICK r : r = [tx[w] EXCEPT !.pc = "commit", !.mine = g, !.draft = NewGame(tx[w].user)]
    OBVIOUS
  <2>2. r.pc \notin Scanning
    BY <1>1 DEF Tx, Scanning, Answering
  <2> QED BY <1>4, <1>6, <2>1, <2>2 DEF CreateNewGame
<1>7. CASE JoinGame(w)
  <2>1. PICK g, d : Step(w, [tx[w] EXCEPT !.pc = "addQuestions", !.mine = g, !.draft = d])
    BY <1>7 DEF JoinGame
  <2> PICK r : r = [tx[w] EXCEPT !.pc = "addQuestions", !.mine = g, !.draft = d]
    OBVIOUS
  <2>2. r.pc \notin Scanning
    BY <1>1 DEF Tx, Scanning, Answering
  <2> QED BY <1>4, <1>7, <2>1, <2>2 DEF JoinGame
<1>8. CASE AddQuestionsForGame(w)
  <2>1. CASE Rollback(w, Idle)
    BY <1>1, <2>1, AnswerRollback
  <2>2. CASE ~Rollback(w, Idle)
    <3>1. PICK rows : Step(w, [tx[w] EXCEPT !.pc = "commit", !.rows = rows])
                      /\ UNCHANGED <<game, locks>>
      BY <1>8, <2>2 DEF AddQuestionsForGame
    <3> PICK r : r = [tx[w] EXCEPT !.pc = "commit", !.rows = rows]
      OBVIOUS
    <3>2. r.pc \notin Scanning
      BY <1>1 DEF Tx, Scanning, Answering
    <3> QED BY <1>4, <3>1, <3>2
  <2> QED BY <2>1, <2>2
<1>9. CASE ReviewGame(w)
  <2> PICK ents, r, s : /\ ents = GameProgress(tx[w].mine)
                        /\ r = [tx[w] EXCEPT !.pc = "addBonus", !.ents = ents,
                                             !.draft = FinishGame(tx[w].mine)]
                        /\ s = [tx[w] EXCEPT !.pc = "commit"]
    OBVIOUS
  <2>1. r.pc \notin Scanning /\ s.pc \notin Scanning
    BY <1>1 DEF Tx, Scanning, Answering
  <2>2. Step(w, r) \/ Step(w, s)
    BY <1>9 DEF ReviewGame
  <2> QED BY <1>4, <1>9, <2>1, <2>2 DEF ReviewGame
<1>10. CASE AddBonusPoint(w)
  BY <1>1, <1>10, BonusNested
<1> QED BY <1>2, <1>3, <1>5, <1>6, <1>7, <1>8, <1>9, <1>10 DEF WorkerStep

\* The cron job holds no player's question in hand.
LEMMA CronNested ==
    ASSUME IInv, DInv, NEW c \in Crons, CronStep(c)
    PROVE  DInv'
<1>1. c \in Procs /\ c \notin Workers
  BY GameConstants DEF Procs
<1>2. CASE LockRow(c) \/ AddBonusPoint(c) \/ SaveStep(c) \/ Commit(c)
  BY <1>1, <1>2, LockRowNested, BonusNested, SaveNested, CommitNested
<1>3. CASE FailedToComplete(c)
  BY <1>1, <1>3, AnswerRollback DEF FailedToComplete
<1>4. CASE \/ FinishOpenGamesCron(c) \/ NextGame(c) \/ EndOfLoop(c) \/ CompleteGame(c)
           \/ CollectProgress(c) \/ CloseRow(c) \/ RowsClosed(c)
  <2>1. \E r : Step(c, r)
    BY <1>4 DEF FinishOpenGamesCron, NextGame, EndOfLoop, CompleteGame, CollectProgress, CloseRow,
                RowsClosed
  <2>2. UNCHANGED <<game, locks>>
    BY <1>4 DEF FinishOpenGamesCron, NextGame, EndOfLoop, CompleteGame, CollectProgress, CloseRow,
                RowsClosed
  <2> QED BY <1>1, <2>1, <2>2, AnswerElsewhere
<1> QED BY <1>2, <1>3, <1>4 DEF CronStep

LEMMA NextNested == IInv /\ DInv /\ [Next]_vars => DInv'
<1> SUFFICES ASSUME IInv, DInv, [Next]_vars PROVE DInv'
  OBVIOUS
<1>1. ASSUME NEW w \in Workers, NEW u \in Users, Connect(w, u) PROVE DInv'
  <2> PICK r : r = [Idle EXCEPT !.pc = "findPending", !.user = u]
    OBVIOUS
  <2>1. r.pc \notin Scanning
    BY DEF Idle, Scanning, Answering
  <2> QED BY <1>1, <2>1, AnswerElsewhere DEF Connect, Procs
<1>2. ASSUME NEW p \in Procs, Fail(p) PROVE DInv'
  BY <1>2, AnswerRollback DEF Fail
<1>3. CASE UNCHANGED <<game, locks, tx>>
  <2>1. \A w \in Workers : AnswerInHand(w)' /\ ActiveIn(w)' = ActiveIn(w)
    BY <1>3 DEF DInv, AnswerInHand, ActiveIn, IsPlayer, Held
  <2> QED BY <1>3, <2>1 DEF DInv, Nested
<1> QED BY <1>1, <1>2, <1>3, AnswerNested, WorkerNested, CronNested DEF Next, Tick, vars

LEMMA InitNested ==
    ASSUME \A p \in Procs : tx[p] = Idle
    PROVE  DInv
BY DEF Idle, DInv, Nested, AnswerInHand, Scanning, Answering, Procs

\* Two requests of a player never answer the same question at the same time, in however
\* many games he is: of the games they found active the earlier request has locked one
\* that the later one must lock as well.
THEOREM AnswersAlone == Spec => []NoDoubleAnswer
<1>1. IInv /\ DInv => NoDoubleAnswer
  <2> SUFFICES ASSUME DInv, NEW v \in Workers, NEW w \in Workers, v # w,
                      tx[v].pc \in Answering, tx[w].pc \in Answering, tx[v].at = tx[w].at
               PROVE  FALSE
    BY DEF NoDoubleAnswer, Answering
  <2>1. AnswerInHand(v) /\ AnswerInHand(w)
    BY DEF DInv
  <2>2. /\ tx[v].user = tx[w].user
        /\ tx[v].mine \in ActiveIn(v) /\ tx[w].mine \in ActiveIn(w)
        /\ \A g \in ActiveIn(v) : locks[g] = v
        /\ \A g \in ActiveIn(w) : locks[g] = w
    BY <2>1 DEF AnswerInHand, ActiveIn, Held
  <2>3. ActiveIn(v) \subseteq ActiveIn(w) \/ ActiveIn(w) \subseteq ActiveIn(v)
    BY <2>2 DEF DInv, Nested, Scanning
  <2> QED BY <2>2, <2>3
<1>2. Init => IInv /\ DInv
  BY InitKeeps, InitNested DEF Init
<1>3. IInv /\ DInv /\ [Next]_vars => IInv' /\ DInv'
  BY NextKeeps, NextNested
<1> QED BY <1>1, <1>2, <1>3, PTL DEF Spec

=============================================================================
