--------------------------- MODULE GamePlayProofs ---------------------------
(***************************************************************************)
(* Proofs about games being played: answers, scores and how a game ends.   *)
(*                                                                         *)
(* The first part holds for any number of users, games, requests and cron  *)
(* runs, provided games are played one after another (OneOpenGame).  That  *)
(* is needed: the cron job calls findByGameId(undefined), which returns    *)
(* the rows of every game, so with two open games it reads, closes and     *)
(* saves rows of a game it has not locked.  PInv says what a transaction   *)
(* that has locked an active game may commit (GoodView): rows that keep    *)
(* the answers already given and never answer a question before an earlier *)
(* one.  While one game is open, no commit writes a row while another      *)
(* transaction holds it (CommitAlone), so what has been read stays true.   *)
(*                                                                         *)
(* The second part follows one game to its end (OneGame), again for any    *)
(* number of questions, requests, cron runs and failures.  TurnInv says    *)
(* whose turn does what: a request answers one question and never ends the *)
(* game (NeverOver: it counts on a connection that does not see its own    *)
(* answer), the cron job ends it for a player who has given the last       *)
(* answer and has therefore given all, once it has closed what the         *)
(* opponent left.  The bonus it writes is the one BonusToFastest describes *)
(* for the rows as its transaction sees them.                              *)
(*                                                                         *)
(* The third part counts bonus points in any number of games, open at once *)
(* or not, where rows are saved that nobody has locked.  PaidUp names for  *)
(* each point, in the table or in hand, the finished game that brought it: *)
(* a save may lose points, or bring back lost ones, but makes none.        *)
(***************************************************************************)
EXTENDS MCGame, PairQuizGameProofs, FiniteSetTheorems

(***************************************************************************)
(* Answers and scores, while games are played one after another            *)
(***************************************************************************)
\* No two games are open.  Then findByGameId(undefined), which returns the rows of every
\* game, hands the cron job no row that another transaction may be writing.
OneOpenGame ==
    \A g, h \in GameIds :
        {game[g].status, game[h].status} \cap {"absent", "Finished"} = {} => g = h

\* A row as the transaction with record r sees it: Seen(p, k) for r = tx[p].
View(r, k) == IF r.rows[k].answerStatus # "absent" THEN r.rows[k] ELSE progress[k]

SameAnswer(e, v) == e.answerStatus = v.answerStatus /\ e.addedAt = v.addedAt /\ e.score = v.score
Scored(row) ==
    /\ row.score = IF row.answerStatus = "Correct" THEN 1 ELSE 0
    /\ row.answerStatus = "unanswered" => row.addedAt = 0

Before(j, k) == GameOf(j) = GameOf(k) /\ UserOf(j) = UserOf(k) /\ NumberOf(j) < NumberOf(k)
Earlier(r, k) ==
    \A j \in Key : Before(j, k) /\ View(r, j).answerStatus # "absent"
                      => View(r, j).answerStatus \in Answered

\* What the transaction may commit.
GoodView(r, k) ==
    View(r, k).answerStatus # "absent" =>
        /\ Scored(View(r, k))
        /\ progress[k].answerStatus # "absent"
        /\ progress[k].answerStatus \in Answered => SameAnswer(View(r, k), progress[k])
        /\ View(r, k).answerStatus \in Answered => Earlier(r, k)

Writes == {"writeAnswer", "writeClosed", "writeBonus"}
Saves == {"saveAnswer", "saveClosed", "saveBonus"} \cup Writes
Closing == {"saveClosed", "writeClosed"}
Playing == Saves \cup {"review", "collect", "closeRows", "addBonus"}

\* Record r belongs to a transaction that has the lock of an active game.
Owns(r) == r.pc \in Playing \/ (r.pc = "commit" /\ r.draft.status \in {"absent", "Finished"})

\* The entity to save leaves the answer as it is or gives the next one.
GoodSave(r) ==
    LET e == r.ents[r.at]
        v == View(r, r.at)
    IN \/ SameAnswer(e, v)
       \/ /\ v.answerStatus = "unanswered" /\ e.answerStatus \in Answered
          /\ Scored(e) /\ Earlier(r, r.at)

Hand(p, r) ==
    /\ Held(p, r.mine, "Active") /\ r.draft.status \in {"absent", "Finished"}
    /\ \A k \in Key : GoodView(r, k)
    /\ r.pc = "collect" => Present(r.rows) = {}
    /\ r.pc = "closeRows" => \A k \in Key : r.ents[k] = View(r, k)
    /\ r.pc \in Closing => \A k \in Key \ {r.at} : r.ents[k] = View(r, k)
    /\ r.pc \in Saves => r.at \in Key /\ View(r, r.at).answerStatus # "absent" /\ GoodSave(r)
    /\ r.pc \in Writes => r.cols = {c \in Columns : r.ents[r.at][c] # View(r, r.at)[c]}

RowsAreSound == \A k \in Present(progress) : Scored(progress[k])
Dealt == \A k \in Present(progress) : game[GameOf(k)].status \in {"Active", "Finished"}

PInv == /\ Dealt /\ RowsAreSound /\ AnswersInOrder
        /\ \A p \in Procs : Owns(tx[p]) => Hand(p, tx[p])

\* What process q has in hand stays good while the rows and its game stay.
LEMMA HandFrame ==
    ASSUME NEW q, NEW s, Hand(q, s), tx'[q] = s, progress' = progress, Held(q, s.mine, "Active")'
    PROVE  Hand(q, tx[q])'
<1>1. \A k : View(s, k)' = View(s, k)
  BY DEF View
<1>2. \A k : Earlier(s, k)' <=> Earlier(s, k)
  BY <1>1 DEF Earlier
<1>3. \A k : GoodView(s, k)' <=> GoodView(s, k)
  BY <1>1, <1>2 DEF GoodView
<1>4. GoodSave(s)' <=> GoodSave(s)
  BY <1>1, <1>2 DEF GoodSave
<1>5. Hand(q, s)'
  BY <1>1, <1>3, <1>4 DEF Hand, Present
<1> QED BY <1>5 DEF Hand, View, Earlier, GoodView, GoodSave

\* A step of p that writes no table.
LEMMA PlayStep ==
    ASSUME IInv, PInv, NEW p \in Procs, NEW r, Step(p, r), UNCHANGED <<game, progress>>,
           \A g \in GameIds : locks[g] \in Procs \ {p} => locks'[g] = locks[g],
           Owns(r) => Hand(p, r) /\ UNCHANGED locks
    PROVE  PInv'
<1>1. tx'[p] = r /\ \A q \in Procs \ {p} : tx'[q] = tx[q]
  BY DEF Step, IInv, TypeOK
<1>2. Dealt' /\ RowsAreSound' /\ AnswersInOrder'
  BY DEF PInv, Dealt, RowsAreSound, AnswersInOrder, Present
<1>3. ASSUME NEW q \in Procs, Owns(tx[q])' PROVE Hand(q, tx[q])'
  <2>1. CASE q = p
    <3>1. Owns(r) /\ Hand(p, r)
      BY <1>1, <1>3, <2>1 DEF Owns
    <3> QED BY <1>1, <2>1, <3>1, HandFrame DEF Hand, Held
  <2>2. CASE q # p
    <3>1. Owns(tx[q]) /\ Hand(q, tx[q])
      BY <1>1, <1>3, <2>2 DEF Owns, PInv
    <3> QED BY <1>1, <2>2, <3>1, HandFrame DEF Hand, Held
  <2> QED BY <2>1, <2>2
<1> QED BY <1>2, <1>3 DEF PInv

\* A step that leaves p without an active game.
LEMMA PlayRollback ==
    ASSUME IInv, PInv, NEW p \in Procs, NEW Q, NEW r \in {Idle, Waiting(Q)}, Rollback(p, r)
    PROVE  PInv'
<1>1. Idle.pc = "idle" /\ Waiting(Q).pc = "nextGame"
  BY DEF Idle, Waiting
<1>2. ~Owns(r)
  BY <1>1 DEF Owns, Playing, Saves, Writes
<1> QED BY <1>2, PlayStep DEF Rollback, Unlock

LEMMA PlayQuiet ==
    ASSUME IInv, PInv, NEW p \in Procs, NEW r, Quiet(p, r), Owns(r) => Hand(p, r)
    PROVE  PInv'
BY PlayStep DEF Quiet

\* What a process has in hand that holds active games and has written nothing.
LEMMA NothingWritten ==
    ASSUME IInv, PInv, NEW r, r.rows \in [Key -> ProgressRow], Present(r.rows) = {}
    PROVE  /\ \A k \in Key : View(r, k) = progress[k]
           /\ \A k \in Key : GoodView(r, k)
<1>1. \A k \in Key : View(r, k) = progress[k]
  BY DEF View, Present
<1>2. ASSUME NEW k \in Key, progress[k].answerStatus \in Answered PROVE Earlier(r, k)
  BY <1>1, <1>2 DEF Earlier, Before, PInv, AnswersInOrder, Present, Answered
<1> QED
  BY <1>1, <1>2 DEF GoodView, SameAnswer, Scored, PInv, RowsAreSound, Present

(***************************************************************************)
(* A transaction that answers or closes rows                               *)
(***************************************************************************)
LEMMA AnswerQuestionPlays ==
    ASSUME IInv, PInv, NEW w \in Workers, AnswerQuestion(w)
    PROVE  PInv'
<1>1. w \in Procs /\ tx[w] \in Tx /\ Local(w, tx[w]) /\ tx[w].pc = "lockMine"
  BY DEF Procs, IInv, TypeOK, AnswerQuestion, Locked
<1>2. PICK g \in tx[w].found, k \in NextQuestions(tx[w].user), outcome \in Outcomes :
         Quiet(w, [tx[w] EXCEPT !.pc = "saveAnswer", !.mine = g, !.at = k,
                    !.ents = [NoRows EXCEPT ![k] = AddAnswer(progress[k], outcome)]])
  BY DEF AnswerQuestion, Quiet
<1> PICK e : e = [NoRows EXCEPT ![k] = AddAnswer(progress[k], outcome)]
  OBVIOUS
<1> PICK r : r = [tx[w] EXCEPT !.pc = "saveAnswer", !.mine = g, !.at = k, !.ents = e]
  OBVIOUS
<1>3. /\ k \in Key /\ progress[k].answerStatus = "unanswered" /\ progress[k].score = 0
      /\ e[k] = AddAnswer(progress[k], outcome)
  BY DEF NextQuestions, Unanswered, PInv, RowsAreSound, Scored, Present, NoRows
<1>4. /\ r.pc = "saveAnswer" /\ r.mine = g /\ r.at = k /\ r.ents = e /\ r.rows = tx[w].rows
      /\ r.draft.status = "absent" /\ Present(r.rows) = {} /\ r.rows \in [Key -> ProgressRow]
  BY <1>1 DEF Tx, Local
<1>5. (\A j \in Key : View(r, j) = progress[j]) /\ (\A j \in Key : GoodView(r, j))
  BY <1>4, NothingWritten
<1>6. Earlier(r, k)
  <2> SUFFICES ASSUME NEW j \in Key, Before(j, k), progress[j].answerStatus = "unanswered"
               PROVE  FALSE
    BY <1>5 DEF Earlier, IInv, TypeOK, ProgressRow, Answered
  <2>1. j \in Unanswered(tx[w].user)
    BY DEF NextQuestions, Unanswered, Before
  <2>2. NumberOf(k) <= NumberOf(j) /\ NumberOf(j) < NumberOf(k)
    BY <2>1 DEF NextQuestions, Before
  <2>3. NumberOf(j) \in Int /\ NumberOf(k) \in Int
    BY <1>3, GameConstants DEF Key, NumberOf
  <2> QED BY <2>2, <2>3
<1>7. e[k].answerStatus \in Answered /\ Scored(e[k])
  BY <1>3, GameConstants DEF AddAnswer, Scored, Answered
<1>8. GoodSave(r)
  BY <1>3, <1>4, <1>5, <1>6, <1>7 DEF GoodSave
<1>9. Hand(w, r)
  BY <1>1, <1>3, <1>4, <1>5, <1>8 DEF Hand, Local, Closing, Writes
<1> QED BY <1>1, <1>2, <1>9, PlayQuiet

LEMMA SaveLoadPlays ==
    ASSUME IInv, PInv, NEW p \in Procs, NEW from, NEW to, <<from, to>> \in LoadPC, SaveLoad(p, from, to)
    PROVE  PInv'
<1> PICK cols : cols = {c \in Columns : tx[p].ents[tx[p].at][c] # View(tx[p], tx[p].at)[c]}
  OBVIOUS
<1> PICK r : r = [tx[p] EXCEPT !.pc = to, !.cols = cols]
  OBVIOUS
<1>1. tx[p] \in Tx /\ tx[p].pc = from /\ Quiet(p, r)
  BY DEF IInv, TypeOK, SaveLoad, Quiet, Seen, View
<1>2. /\ r.pc = to /\ r.mine = tx[p].mine /\ r.at = tx[p].at /\ r.ents = tx[p].ents
      /\ r.rows = tx[p].rows /\ r.draft = tx[p].draft /\ r.cols = cols
  BY <1>1 DEF Tx
<1>3. from \in Saves /\ to \in Writes /\ (to \in Closing => from \in Closing)
  BY DEF LoadPC, Saves, Writes, Closing
<1>4. Hand(p, tx[p])
  BY <1>1, <1>3 DEF PInv, Owns, Playing
<1>5. \A k : View(r, k) = View(tx[p], k)
  BY <1>2 DEF View
<1>6. (\A k : GoodView(r, k) <=> GoodView(tx[p], k)) /\ (GoodSave(r) <=> GoodSave(tx[p]))
  BY <1>2, <1>5 DEF GoodView, GoodSave, Earlier
<1>7. Hand(p, r)
  <2>1. r.at \in Key /\ View(r, r.at).answerStatus # "absent" /\ GoodSave(r)
    BY <1>1, <1>2, <1>3, <1>4, <1>5, <1>6 DEF Hand
  <2>2. r.cols = {c \in Columns : r.ents[r.at][c] # View(r, r.at)[c]}
    <3>1. r.ents[r.at] = tx[p].ents[tx[p].at] /\ View(r, r.at) = View(tx[p], tx[p].at)
      BY <1>2, <1>5
    <3> QED BY <1>2, <3>1
  <2>3. r.pc \in Closing => \A k \in Key \ {r.at} : r.ents[k] = View(r, k)
    BY <1>1, <1>2, <1>3, <1>4, <1>5 DEF Hand
  <2>4. r.pc \notin {"collect", "closeRows"}
    BY <1>2, <1>3 DEF Writes
  <2> QED BY <1>2, <1>4, <1>6, <2>1, <2>2, <2>3, <2>4 DEF Hand
<1> QED BY <1>1, <1>7, PlayQuiet

\* After a save the row is the entity saved.
LEMMA RowSaved ==
    ASSUME NEW old \in ProgressRow, NEW new \in ProgressRow, NEW cols,
           cols = {c \in Columns : new[c] # old[c]}
    PROVE  (IF cols = {} THEN old ELSE Merge(old, new, cols)) = new
<1>1. \A c \in Columns : c \notin cols => new[c] = old[c]
  OBVIOUS
<1>2. Columns = {"answerStatus", "addedAt", "score", "bonus_score"}
  BY DEF Columns
<1> QED BY <1>1, <1>2 DEF Merge, ProgressRow

LEMMA SavedRows ==
    ASSUME IInv, PInv, NEW p \in Procs, NEW from, NEW to, <<from, to>> \in UpdatePC,
           SaveUpdate(p, from, to), NEW k, k = tx[p].at
    PROVE  \E r : /\ Quiet(p, r)
                  /\ r.pc = to /\ r.user = tx[p].user /\ r.mine = tx[p].mine /\ r.at = k
                  /\ r.ents = tx[p].ents /\ r.draft = tx[p].draft /\ r.queue = tx[p].queue
                  /\ View(r, k) = tx[p].ents[k] /\ r.rows[k] \in {tx[p].rows[k], tx[p].ents[k]}
                  /\ \A j \in Key \ {k} : r.rows[j] = tx[p].rows[j] /\ View(r, j) = View(tx[p], j)
<1> PICK e, v : e = tx[p].ents[k] /\ v = View(tx[p], k)
  OBVIOUS
<1> PICK row : row = IF tx[p].cols = {} THEN tx[p].rows[k] ELSE Merge(v, e, tx[p].cols)
  OBVIOUS
<1> PICK rows : rows = [tx[p].rows EXCEPT ![k] = row]
  OBVIOUS
<1> PICK r : r = [tx[p] EXCEPT !.pc = to, !.rows = rows]
  OBVIOUS
<1>1. /\ tx[p] \in Tx /\ tx[p].pc = from
      /\ tx[p].rows \in [Key -> ProgressRow] /\ tx[p].ents \in [Key -> ProgressRow]
  BY DEF IInv, TypeOK, SaveUpdate, Tx
<1>2. Quiet(p, r)
  BY <1>1 DEF SaveUpdate, Quiet, Step, Seen, View, Tx
<1>3. from \in Writes \cap Saves
  BY DEF UpdatePC, Saves, Writes
<1>4. /\ k \in Key /\ v.answerStatus # "absent" /\ GoodSave(tx[p])
      /\ tx[p].cols = {c \in Columns : e[c] # v[c]}
  BY <1>1, <1>3 DEF PInv, Owns, Playing, Hand
<1>5. /\ r.pc = to /\ r.user = tx[p].user /\ r.mine = tx[p].mine /\ r.ents = tx[p].ents
      /\ r.at = k /\ r.rows = rows /\ r.draft = tx[p].draft /\ r.queue = tx[p].queue
  BY <1>1 DEF Tx
<1>6. v \in ProgressRow /\ e \in ProgressRow
  BY <1>1, <1>4 DEF View, IInv, TypeOK
<1>7. e.answerStatus # "absent"
  BY <1>4 DEF GoodSave, SameAnswer, Answered
<1>8. (IF tx[p].cols = {} THEN v ELSE Merge(v, e, tx[p].cols)) = e
  BY <1>4, <1>6, RowSaved
<1>9. rows[k] = row
  BY <1>1, <1>4
<1>10. View(r, k) = e /\ row \in {tx[p].rows[k], e}
  BY <1>5, <1>7, <1>8, <1>9 DEF View
<1>11. \A j \in Key \ {k} : rows[j] = tx[p].rows[j] /\ View(r, j) = View(tx[p], j)
  BY <1>1, <1>5 DEF View
<1>12. /\ View(r, k) = tx[p].ents[k] /\ r.rows[k] \in {tx[p].rows[k], tx[p].ents[k]}
       /\ \A j \in Key \ {k} : r.rows[j] = tx[p].rows[j] /\ View(r, j) = View(tx[p], j)
  BY <1>5, <1>9, <1>10, <1>11
<1>13. /\ r.pc = to /\ r.user = tx[p].user /\ r.mine = tx[p].mine /\ r.at = k
       /\ r.ents = tx[p].ents /\ r.draft = tx[p].draft /\ r.queue = tx[p].queue
  BY <1>5
<1> QED BY ONLY <1>2, <1>12, <1>13, Zenon

LEMMA SaveUpdatePlays ==
    ASSUME IInv, PInv, NEW p \in Procs, NEW from, NEW to, <<from, to>> \in UpdatePC,
           SaveUpdate(p, from, to)
    PROVE  PInv'
<1>1. tx[p].pc = from /\ tx[p].ents \in [Key -> ProgressRow]
  BY DEF IInv, TypeOK, SaveUpdate, Tx
<1> PICK k, e, v : k = tx[p].at /\ e = tx[p].ents[k] /\ v = View(tx[p], k)
  OBVIOUS
<1>2. PICK r : /\ Quiet(p, r)
               /\ r.pc = to /\ r.mine = tx[p].mine /\ r.at = k
               /\ r.ents = tx[p].ents /\ r.draft = tx[p].draft
               /\ View(r, k) = e
               /\ \A j \in Key \ {k} : View(r, j) = View(tx[p], j)
  BY SavedRows
<1>3. /\ from \in Writes \cap Saves /\ to \notin Saves \cup {"collect"}
      /\ to = "closeRows" => from \in Closing
  BY DEF UpdatePC, Saves, Writes, Closing
<1>4. Hand(p, tx[p])
  BY <1>1, <1>3 DEF PInv, Owns, Playing
<1>5. k \in Key /\ v.answerStatus # "absent" /\ GoodSave(tx[p])
  BY <1>1, <1>3, <1>4 DEF Hand
<1>6. /\ r.pc = to /\ r.mine = tx[p].mine /\ r.ents = tx[p].ents /\ r.draft = tx[p].draft
      /\ e.answerStatus # "absent"
  BY <1>2, <1>5 DEF GoodSave, SameAnswer, Answered
<1>9. View(r, k) = e
  BY <1>2
<1>10. \A j \in Key \ {k} : View(r, j) = View(tx[p], j)
  BY <1>2
<1>11. \A j \in Key \ {k} : Before(k, j) /\ Earlier(tx[p], j) => e.answerStatus \in Answered
  <2> SUFFICES ASSUME NEW j \in Key \ {k}, Before(k, j), Earlier(tx[p], j)
               PROVE  e.answerStatus \in Answered
    OBVIOUS
  <2>1. v.answerStatus \in Answered
    BY <1>5 DEF Earlier
  <2> QED BY <1>5, <2>1 DEF GoodSave, SameAnswer, Answered
<1>12. \A j \in Key : ~Before(j, j)
  BY GameConstants DEF Before, Key, NumberOf
<1>13. ASSUME NEW j \in Key \ {k}, Earlier(tx[p], j) PROVE Earlier(r, j)
  <2> SUFFICES ASSUME NEW i \in Key, Before(i, j), View(r, i).answerStatus # "absent"
               PROVE  View(r, i).answerStatus \in Answered
    BY DEF Earlier
  <2>1. CASE i = k
    BY <1>9, <1>11, <1>13, <2>1
  <2>2. CASE i # k
    BY <1>10, <1>13, <2>2 DEF Earlier
  <2> QED BY <2>1, <2>2
<1>14. Earlier(tx[p], k) => Earlier(r, k)
  BY <1>5, <1>10, <1>12 DEF Earlier
<1>15. GoodView(r, k)
  <2>1. /\ Scored(v) /\ progress[k].answerStatus # "absent"
        /\ progress[k].answerStatus \in Answered => SameAnswer(v, progress[k])
        /\ v.answerStatus \in Answered => Earlier(tx[p], k)
    BY <1>4, <1>5 DEF Hand, GoodView
  <2>2. CASE SameAnswer(e, v)
    BY <1>9, <1>14, <2>1, <2>2 DEF GoodView, SameAnswer, Scored
  <2>3. CASE ~SameAnswer(e, v)
    <3>1. v.answerStatus = "unanswered" /\ Scored(e) /\ Earlier(tx[p], k)
      BY <1>5, <2>3 DEF GoodSave
    <3>2. progress[k].answerStatus \notin Answered
      BY <2>1, <3>1 DEF SameAnswer, Answered
    <3> QED BY <1>9, <1>14, <2>1, <3>1, <3>2 DEF GoodView
  <2> QED BY <2>2, <2>3
<1>16. \A j \in Key \ {k} : GoodView(r, j)
  BY <1>4, <1>10, <1>13 DEF Hand, GoodView
<1>17. to = "closeRows" => \A j \in Key : r.ents[j] = View(r, j)
  BY <1>1, <1>3, <1>4, <1>6, <1>9, <1>10 DEF Hand
<1>18. Hand(p, r)
  BY <1>3, <1>4, <1>6, <1>15, <1>16, <1>17 DEF Hand, Saves, Writes, Closing
<1> QED BY <1>2, <1>18, PlayQuiet

LEMMA SaveStepPlays ==
    ASSUME IInv, PInv, NEW p \in Procs, SaveStep(p)
    PROVE  PInv'
  BY SaveLoadPlays, SaveUpdatePlays DEF SaveStep, LoadPC, UpdatePC

\* A transaction that writes no row in this step and keeps its game.
LEMMA GoesOn ==
    ASSUME IInv, PInv, NEW p \in Procs, Owns(tx[p]), NEW r, Quiet(p, r),
           r.mine = tx[p].mine, r.draft.status \in {"absent", "Finished"}, r.rows = tx[p].rows,
           /\ r.pc = "closeRows" => \A k \in Key : r.ents[k] = View(r, k)
           /\ r.pc \in Closing => \A k \in Key \ {r.at} : r.ents[k] = View(r, k)
           /\ r.pc \in Saves => r.at \in Key /\ View(r, r.at).answerStatus # "absent" /\ GoodSave(r),
           r.pc \notin Writes \cup {"collect"}
    PROVE  PInv'
<1>1. Hand(p, tx[p])
  BY DEF PInv
<1>2. \A k : View(r, k) = View(tx[p], k)
  BY DEF View
<1>3. \A k : GoodView(r, k) <=> GoodView(tx[p], k)
  BY <1>2 DEF GoodView, Earlier
<1>4. Hand(p, r)
  BY <1>1, <1>3 DEF Hand
<1> QED BY <1>4, PlayQuiet

LEMMA ReviewGamePlays ==
    ASSUME IInv, PInv, NEW w \in Workers, ReviewGame(w)
    PROVE  PInv'
<1>1. w \in Procs /\ tx[w] \in Tx /\ tx[w].pc = "review" /\ Owns(tx[w])
  BY DEF Procs, IInv, TypeOK, ReviewGame, Owns, Playing
<1> PICK ents, a, b : /\ ents = GameProgress(tx[w].mine)
                      /\ a = [tx[w] EXCEPT !.pc = "addBonus", !.ents = ents,
                                           !.draft = FinishGame(tx[w].mine)]
                      /\ b = [tx[w] EXCEPT !.pc = "commit"]
  OBVIOUS
<1>2. Quiet(w, a) \/ Quiet(w, b)
  BY DEF ReviewGame, Quiet
<1>3. Held(w, tx[w].mine, "Active") /\ tx[w].draft.status \in {"absent", "Finished"}
  BY <1>1 DEF PInv, Hand
<1>4. FinishGame(tx[w].mine).status = "Finished"
  BY <1>3 DEF FinishGame, Held, IInv, TypeOK, PairQuizGameRow
<1>5. /\ a.pc = "addBonus" /\ a.mine = tx[w].mine /\ a.rows = tx[w].rows
      /\ a.draft.status = "Finished"
      /\ b.pc = "commit" /\ b.mine = tx[w].mine /\ b.rows = tx[w].rows /\ b.draft = tx[w].draft
  BY <1>1, <1>4 DEF Tx
<1>6. {"addBonus", "commit"} \cap (Saves \cup Writes \cup Closing \cup {"closeRows", "collect"}) = {}
  BY DEF Saves, Writes, Closing
<1> QED BY <1>1, <1>2, <1>3, <1>5, <1>6, GoesOn

LEMMA AddBonusPointPlays ==
    ASSUME IInv, PInv, NEW p \in Procs, AddBonusPoint(p)
    PROVE  PInv'
<1>1. tx[p] \in Tx /\ tx[p].pc = "addBonus" /\ Owns(tx[p]) /\ tx[p].rows \in [Key -> ProgressRow]
  BY DEF IInv, TypeOK, AddBonusPoint, Owns, Playing, Tx
<1>2. tx[p].draft.status \in {"absent", "Finished"}
  BY <1>1 DEF PInv, Hand
<1>3. CASE Quiet(p, [tx[p] EXCEPT !.pc = "commit"])
  <2> PICK r : r = [tx[p] EXCEPT !.pc = "commit"]
    OBVIOUS
  <2>1. r.pc = "commit" /\ r.mine = tx[p].mine /\ r.rows = tx[p].rows /\ r.draft = tx[p].draft
    BY <1>1 DEF Tx
  <2> QED BY <1>1, <1>2, <1>3, <2>1, GoesOn DEF Saves, Writes, Closing
<1>4. ASSUME NEW k \in Key, progress[k].answerStatus # "absent",
             Quiet(p, [tx[p] EXCEPT !.pc = "saveBonus", !.at = k,
                        !.ents = [NoRows EXCEPT ![k] =
                                     [Seen(p, k) EXCEPT !.bonus_score = @ + 1]]])
      PROVE  PInv'
  <2> PICK e : e = [NoRows EXCEPT ![k] = [View(tx[p], k) EXCEPT !.bonus_score = @ + 1]]
    OBVIOUS
  <2> PICK r : r = [tx[p] EXCEPT !.pc = "saveBonus", !.at = k, !.ents = e]
    OBVIOUS
  <2>1. /\ r.pc = "saveBonus" /\ r.at = k /\ r.mine = tx[p].mine /\ r.rows = tx[p].rows
        /\ r.draft = tx[p].draft /\ r.ents = e
    BY <1>1 DEF Tx
  <2>2. Quiet(p, r)
    BY <1>4 DEF Seen, View
  <2>3. View(r, k) = View(tx[p], k) /\ View(r, k).answerStatus # "absent" /\ View(r, k) \in ProgressRow
    BY <1>1, <1>4, <2>1 DEF View, IInv, TypeOK
  <2>4. e[k] = [View(r, k) EXCEPT !.bonus_score = @ + 1]
    BY <2>3 DEF NoRows
  <2>5. SameAnswer(e[k], View(r, k))
    BY <2>3, <2>4 DEF SameAnswer, ProgressRow
  <2>6. GoodSave(r)
    BY <2>1, <2>5 DEF GoodSave
  <2> QED BY <1>1, <1>2, <2>1, <2>2, <2>3, <2>6, GoesOn DEF Saves, Writes, Closing
<1> QED BY <1>3, <1>4, AddBonusPointSteps

LEMMA CompleteGamePlays ==
    ASSUME IInv, PInv, NEW c \in Crons, CompleteGame(c)
    PROVE  PInv'
<1>1. c \in Procs /\ tx[c] \in Tx /\ Local(c, tx[c]) /\ tx[c].pc = "lockMine"
  BY DEF Procs, IInv, TypeOK, CompleteGame, Locked
<1>2. PICK g \in tx[c].found :
         Quiet(c, [tx[c] EXCEPT !.pc = "collect", !.mine = g, !.draft = FinishGame(g)])
  BY DEF CompleteGame, Quiet
<1> PICK r : r = [tx[c] EXCEPT !.pc = "collect", !.mine = g, !.draft = FinishGame(g)]
  OBVIOUS
<1>3. Held(c, g, "Active")
  BY <1>1 DEF Local
<1>4. FinishGame(g).status = "Finished"
  BY <1>3 DEF FinishGame, Held, IInv, TypeOK, PairQuizGameRow
<1>5. /\ r.pc = "collect" /\ r.mine = g /\ r.draft.status = "Finished"
      /\ r.rows = tx[c].rows /\ Present(r.rows) = {} /\ r.rows \in [Key -> ProgressRow]
  BY <1>1, <1>4 DEF Tx, Local
<1>6. Hand(c, r)
  BY <1>3, <1>5, NothingWritten DEF Hand, Saves, Writes, Closing
<1> QED BY <1>1, <1>2, <1>6, PlayQuiet

LEMMA CollectProgressPlays ==
    ASSUME IInv, PInv, NEW c \in Crons, CollectProgress(c)
    PROVE  PInv'
<1>1. c \in Procs /\ tx[c] \in Tx /\ tx[c].pc = "collect" /\ Owns(tx[c])
  BY DEF Procs, IInv, TypeOK, CollectProgress, Owns, Playing
<1> PICK r : r = [tx[c] EXCEPT !.pc = "closeRows", !.ents = progress]
  OBVIOUS
<1>2. Hand(c, tx[c]) /\ Present(tx[c].rows) = {}
  BY <1>1 DEF PInv, Hand
<1>3. /\ r.pc = "closeRows" /\ r.mine = tx[c].mine /\ r.draft = tx[c].draft
      /\ r.rows = tx[c].rows /\ r.ents = progress /\ r.rows \in [Key -> ProgressRow]
  BY <1>1 DEF Tx
<1>4. \A k \in Key : r.ents[k] = View(r, k)
  BY <1>2, <1>3, NothingWritten
<1>5. Quiet(c, r) /\ r.draft.status \in {"absent", "Finished"}
  BY <1>2, <1>3 DEF CollectProgress, Quiet, Hand
<1> QED BY <1>1, <1>3, <1>4, <1>5, GoesOn DEF Saves, Writes, Closing

\* The loop closes the opponent's questions from the lowest number on.
LEMMA CloseRowPlays ==
    ASSUME IInv, PInv, NEW c \in Crons, CloseRow(c)
    PROVE  PInv'
<1>1. c \in Procs /\ tx[c] \in Tx /\ tx[c].pc = "closeRows" /\ Owns(tx[c])
  BY DEF Procs, IInv, TypeOK, CloseRow, Owns, Playing
<1>2. PICK k \in Open(c) :
         /\ \A j \in Open(c) : NumberOf(k) <= NumberOf(j)
         /\ Quiet(c, [tx[c] EXCEPT !.pc = "saveClosed", !.at = k,
                        !.ents = [tx[c].ents EXCEPT ![k] = Closed(tx[c].ents[k])]])
  BY DEF CloseRow, Quiet
<1> PICK e : e = [tx[c].ents EXCEPT ![k] = Closed(tx[c].ents[k])]
  OBVIOUS
<1> PICK r : r = [tx[c] EXCEPT !.pc = "saveClosed", !.at = k, !.ents = e]
  OBVIOUS
<1>3. /\ r.pc = "saveClosed" /\ r.at = k /\ r.mine = tx[c].mine /\ r.rows = tx[c].rows
      /\ r.draft = tx[c].draft /\ r.ents = e /\ Quiet(c, r)
  BY <1>1, <1>2 DEF Tx
<1>4. Hand(c, tx[c]) /\ \A j \in Key : tx[c].ents[j] = View(tx[c], j) /\ View(r, j) = View(tx[c], j)
  BY <1>1, <1>3 DEF PInv, Hand, View
<1>5. /\ k \in Key /\ UserOf(k) # tx[c].user /\ View(r, k).answerStatus = "unanswered"
      /\ tx[c].ents \in [Key -> ProgressRow]
  BY <1>1, <1>4 DEF Open, Tx
<1>6. e[k] = Closed(View(r, k)) /\ \A j \in Key \ {k} : e[j] = View(r, j)
  BY <1>4, <1>5
<1>7. Earlier(r, k)
  <2> SUFFICES ASSUME NEW j \in Key, Before(j, k), View(r, j).answerStatus = "unanswered"
               PROVE  FALSE
    <3>1. \A j \in Key : View(r, j) \in ProgressRow
      BY <1>4, <1>5
    <3> QED BY <3>1 DEF Earlier, ProgressRow, Answered
  <2>1. j \in Open(c)
    BY <1>4, <1>5 DEF Open, Before
  <2>2. NumberOf(k) <= NumberOf(j) /\ NumberOf(j) < NumberOf(k)
    BY <1>2, <2>1 DEF Before
  <2>3. NumberOf(j) \in Int /\ NumberOf(k) \in Int
    BY <1>5, GameConstants DEF Key, NumberOf
  <2> QED BY <2>2, <2>3
<1>8. GoodSave(r)
  <2>1. View(r, k) \in ProgressRow
    BY <1>4, <1>5
  <2>2. Scored(View(r, k))
    BY <1>4, <1>5 DEF Hand, GoodView
  <2>3. e[k].answerStatus \in Answered /\ Scored(e[k])
    BY <1>5, <1>6, <2>1, <2>2 DEF Closed, Scored, ProgressRow, Answered
  <2> QED BY <1>3, <1>5, <1>7, <2>3 DEF GoodSave
<1>9. r.draft.status \in {"absent", "Finished"}
  BY <1>3, <1>4 DEF Hand
<1> QED BY <1>1, <1>3, <1>5, <1>6, <1>8, <1>9, GoesOn DEF Writes

LEMMA RowsClosedPlays ==
    ASSUME IInv, PInv, NEW c \in Crons, RowsClosed(c)
    PROVE  PInv'
<1>1. c \in Procs /\ tx[c] \in Tx /\ tx[c].pc = "closeRows" /\ Owns(tx[c])
  BY DEF Procs, IInv, TypeOK, RowsClosed, Owns, Playing
<1> PICK r : r = [tx[c] EXCEPT !.pc = "addBonus"]
  OBVIOUS
<1>2. r.pc = "addBonus" /\ r.mine = tx[c].mine /\ r.rows = tx[c].rows /\ r.draft = tx[c].draft
  BY <1>1 DEF Tx
<1>3. Quiet(c, r) /\ r.draft.status \in {"absent", "Finished"}
  BY <1>1, <1>2 DEF RowsClosed, Quiet, PInv, Hand
<1> QED BY <1>1, <1>2, <1>3, GoesOn DEF Saves, Writes, Closing

(***************************************************************************)
(* Commits                                                                 *)
(***************************************************************************)
\* The rows that a pairing adds belong to a game without rows.
LEMMA CommitKinds ==
    ASSUME IInv, PInv, NEW p \in Procs, Commit(p)
    PROVE  \/ Owns(tx[p]) /\ Hand(p, tx[p])
           \/ tx[p].draft.status = "PendingSecondPlayer" /\ progress' = progress
           \/ /\ tx[p].draft.status = "Active" /\ tx[p].mine \in GameIds
              /\ game[tx[p].mine].status = "PendingSecondPlayer"
              /\ \A k \in Key : IF GameOf(k) = tx[p].mine
                                THEN /\ progress[k].answerStatus = "absent"
                                     /\ progress'[k] \in {NewRow, progress[k]}
                                ELSE progress'[k] = progress[k]
<1>1. /\ tx[p].pc = "commit" /\ DraftIsFresh(p, tx[p]) /\ tx[p].rows \in [Key -> ProgressRow]
      /\ tx[p].draft.status = "Active" => DealtInDraft(tx[p])
  BY CommitWrites DEF Local, Tx
<1>2. progress' = [k \in Key |-> Seen(p, k)] /\ progress \in [Key -> ProgressRow]
  BY CommitWrites DEF IInv, TypeOK
<1>3. CASE tx[p].draft.status \in {"absent", "Finished"}
  BY <1>1, <1>3 DEF Owns, PInv
<1>4. CASE tx[p].draft.status = "PendingSecondPlayer"
  <2>1. Present(tx[p].rows) = {}
    BY <1>1, <1>4 DEF DraftIsFresh
  <2>2. \A k \in Key : Seen(p, k) = progress[k]
    BY <2>1 DEF Seen, Present
  <2> QED BY <1>2, <1>4, <2>2
<1>5. CASE tx[p].draft.status = "Active"
  <2>1. tx[p].mine \in GameIds /\ game[tx[p].mine].status = "PendingSecondPlayer"
    BY <1>1, <1>5 DEF DraftIsFresh
  <2>2. \A k \in Key : IF GameOf(k) = tx[p].mine THEN tx[p].rows[k] \in {NewRow, NoRow}
                       ELSE tx[p].rows[k] = NoRow
    BY <1>1, <1>5 DEF DealtInDraft, QuestionRows
  <2>3. \A k \in Key : GameOf(k) = tx[p].mine => progress[k].answerStatus = "absent"
    BY <2>1 DEF PInv, Dealt, Present
  <2>4. NoRow.answerStatus = "absent"
    BY DEF NoRow
  <2>5. \A k \in Key : IF GameOf(k) = tx[p].mine THEN Seen(p, k) \in {NewRow, progress[k]}
                       ELSE Seen(p, k) = progress[k]
    BY <2>2, <2>4 DEF Seen
  <2> QED BY <1>2, <1>5, <2>1, <2>3, <2>5
<1> QED BY <1>1, <1>3, <1>4, <1>5 DEF DraftIsFresh

\* While another transaction holds the open game no commit writes a row.
LEMMA CommitAlone ==
    ASSUME IInv, PInv, OneOpenGame, NEW p \in Procs, NEW q \in Procs \ {p}, Commit(p), Owns(tx[q])
    PROVE  progress' = progress
<1>1. Held(q, tx[q].mine, "Active")
  BY DEF PInv, Hand
<1>2. CASE Owns(tx[p]) /\ Hand(p, tx[p])
  BY <1>1, <1>2 DEF Hand, Held, OneOpenGame
<1>3. CASE tx[p].mine \in GameIds /\ game[tx[p].mine].status = "PendingSecondPlayer"
  BY <1>1, <1>3 DEF Held, OneOpenGame
<1> QED BY <1>2, <1>3, CommitKinds

\* A commit leaves the locks and the game rows that others hold.
LEMMA CommitKeepsHeld ==
    ASSUME IInv, NEW p \in Procs, NEW q \in Procs \ {p}, Commit(p), NEW g, Held(q, g, "Active")
    PROVE  Held(q, g, "Active")'
<1>1. g \in GameIds /\ locks[g] = q /\ game[g].status = "Active"
  BY DEF Held
<1>2. locks'[g] = q
  BY <1>1 DEF Commit, Unlock
<1>3. DraftIsFresh(p, tx[p]) /\ game \in [GameIds -> PairQuizGameRow]
  BY CommitWrites DEF Local, IInv, TypeOK
<1>4. tx[p].draft.status # "absent" => tx[p].mine # g
  <2>1. NoGame.status = "absent"
    BY DEF NoGame
  <2>2. \/ tx[p].draft.status = "absent"
        \/ game[tx[p].mine].status \in {"absent", "PendingSecondPlayer"}
        \/ locks[tx[p].mine] = p
    BY <1>3, <2>1 DEF DraftIsFresh
  <2> QED BY <1>1, <2>2
<1> QED BY <1>1, <1>2, <1>3, <1>4, CommitWrites DEF Held

LEMMA CommitPlays ==
    ASSUME IInv, PInv, OneOpenGame, NEW p \in Procs, Commit(p)
    PROVE  PInv'
<1>1. /\ game' = IF tx[p].draft.status = "absent" THEN game
                 ELSE [game EXCEPT ![tx[p].mine] = tx[p].draft]
      /\ DraftIsFresh(p, tx[p]) /\ game \in [GameIds -> PairQuizGameRow]
      /\ tx'[p] = Resume(p) /\ \A q \in Procs \ {p} : tx'[q] = tx[q]
      /\ progress' = [k \in Key |-> View(tx[p], k)]
  BY CommitWrites DEF Commit, Step, Local, IInv, TypeOK, Seen, View
<1>2. \A k \in Key : GameOf(k) \in GameIds
  BY DEF Key, GameOf
<1>3. ASSUME Owns(tx[p]), Hand(p, tx[p])
      PROVE  RowsAreSound' /\ AnswersInOrder' /\ Dealt'
  <2>1. \A k \in Key : GoodView(tx[p], k) /\ progress'[k] = View(tx[p], k)
    BY <1>1, <1>3 DEF Hand
  <2>2. RowsAreSound'
    BY <2>1 DEF RowsAreSound, Present, GoodView, Scored
  <2>3. AnswersInOrder'
    BY <2>1 DEF AnswersInOrder, Present, GoodView, Earlier, Before
  <2>4. \A g \in GameIds : game[g].status \in {"Active", "Finished"} =>
                              game'[g].status \in {"Active", "Finished"}
    BY <1>1, <1>3 DEF Hand
  <2>5. \A k \in Present(progress)' : k \in Present(progress)
    BY <2>1 DEF GoodView, Present
  <2>6. Dealt'
    BY <1>2, <2>4, <2>5 DEF PInv, Dealt, Present
  <2> QED BY <2>2, <2>3, <2>6
<1>4. ASSUME tx[p].draft.status = "PendingSecondPlayer", progress' = progress
      PROVE  RowsAreSound' /\ AnswersInOrder' /\ Dealt'
  <2>1. \A g \in GameIds : game[g].status \in {"Active", "Finished"} => game'[g] = game[g]
    BY <1>1, <1>4 DEF DraftIsFresh, NoGame
  <2>2. Dealt'
    BY <1>2, <1>4, <2>1 DEF PInv, Dealt, Present
  <2> QED BY <1>4, <2>2 DEF PInv, RowsAreSound, AnswersInOrder, Present
<1>5. ASSUME tx[p].draft.status = "Active", tx[p].mine \in GameIds,
             game[tx[p].mine].status = "PendingSecondPlayer",
             \A k \in Key : IF GameOf(k) = tx[p].mine
                            THEN /\ progress[k].answerStatus = "absent"
                                 /\ progress'[k] \in {NewRow, progress[k]}
                            ELSE progress'[k] = progress[k]
      PROVE  RowsAreSound' /\ AnswersInOrder' /\ Dealt'
  <2>1. \A k \in Key : \/ progress'[k] = progress[k]
                       \/ GameOf(k) = tx[p].mine /\ progress'[k] = NewRow
    BY <1>5
  <2>2. NewRow.answerStatus = "unanswered" /\ Scored(NewRow)
    BY DEF NewRow, NoRow, Scored
  <2>3. RowsAreSound'
    BY <2>1, <2>2 DEF PInv, RowsAreSound, Scored, Present
  <2>4. \A k \in Key : progress'[k].answerStatus \in Answered =>
                          progress'[k] = progress[k] /\ GameOf(k) # tx[p].mine
    BY <1>5, <2>1, <2>2 DEF Answered
  <2>5. AnswersInOrder'
    BY <1>5, <2>4 DEF PInv, AnswersInOrder, Present, Answered
  <2>6. \A g \in GameIds : game'[g].status = IF g = tx[p].mine THEN "Active" ELSE game[g].status
    BY <1>1, <1>5
  <2>7. Dealt'
    BY <1>2, <2>1, <2>6 DEF PInv, Dealt, Present
  <2> QED BY <2>3, <2>5, <2>7
<1>6. ASSUME NEW q \in Procs, Owns(tx[q])' PROVE Hand(q, tx[q])'
  <2>1. CASE q = p
    <3>1. Resume(p).pc \in {"idle", "nextGame"}
      BY DEF Resume, Idle, Waiting
    <3> QED BY <1>1, <1>6, <2>1, <3>1 DEF Owns, Playing, Saves, Writes
  <2>2. CASE q # p
    <3>1. Owns(tx[q]) /\ tx'[q] = tx[q]
      BY <1>1, <1>6, <2>2 DEF Owns
    <3>2. Hand(q, tx[q]) /\ progress' = progress
      BY <2>2, <3>1, CommitAlone DEF PInv
    <3>3. Held(q, tx[q].mine, "Active")'
      BY <2>2, <3>1, <3>2, CommitKeepsHeld DEF Hand, Held
    <3> QED BY <3>1, <3>2, <3>3, HandFrame
  <2> QED BY <2>1, <2>2
<1> QED BY <1>3, <1>4, <1>5, <1>6, CommitKinds DEF PInv

(***************************************************************************)
(* Every step                                                              *)
(***************************************************************************)
\* A process has no active game in hand before it has found one.
LEMMA LooksPlay ==
    ASSUME IInv, PInv, NEW p \in Procs, LockRow(p) \/ Fail(p)
    PROVE  PInv'
<1>1. CASE Fail(p)
  BY <1>1, PlayRollback DEF Fail
<1>2. CASE LockRow(p)
  <2>1. PICK g \in tx[p].scan :
           /\ locks[g] = None /\ locks' = [locks EXCEPT ![g] = p]
           /\ Step(p, [tx[p] EXCEPT !.scan = @ \ {g},
                                    !.found = IF StillMatches(p, g) THEN @ \cup {g} ELSE @])
    BY <1>2 DEF LockRow
  <2> PICK r : r = [tx[p] EXCEPT !.scan = tx[p].scan \ {g},
                      !.found = IF StillMatches(p, g) THEN tx[p].found \cup {g} ELSE tx[p].found]
    OBVIOUS
  <2>2. tx[p] \in Tx /\ UNCHANGED <<game, progress>> /\ tx[p].pc \in {"lockPending", "lockMine"}
    BY <1>2 DEF LockRow, IInv, TypeOK
  <2>3. r.pc = tx[p].pc
    BY <2>2 DEF Tx
  <2>4. ~Owns(r)
    BY <2>2, <2>3 DEF Owns, Playing, Saves, Writes
  <2>5. \A h \in GameIds : locks[h] \in Procs \ {p} => locks'[h] = locks[h]
    BY <2>1, GameConstants
  <2> QED BY <2>1, <2>2, <2>4, <2>5, PlayStep
<1> QED BY <1>1, <1>2

LEMMA ConnectionsPlay ==
    ASSUME IInv, PInv, NEW w \in Workers,
           \/ \E u \in Users : Connect(w, u) \/ Answer(w, u)
           \/ FindGamePending(w) \/ CreateNewGame(w) \/ JoinGame(w) \/ AddQuestionsForGame(w)
    PROVE  PInv'
<1>1. w \in Procs /\ tx[w] \in Tx /\ Local(w, tx[w])
  BY DEF Procs, IInv, TypeOK
<1>2. ASSUME NEW r, Quiet(w, r), r.pc \in {"findPending", "lockPending", "lockMine", "addQuestions"}
      PROVE  PInv'
  BY <1>1, <1>2, PlayQuiet DEF Owns, Playing, Saves, Writes
<1>3. ASSUME NEW r, Quiet(w, r), r.pc = "commit", r.draft.status \in {"PendingSecondPlayer", "Active"}
      PROVE  PInv'
  BY <1>1, <1>3, PlayQuiet DEF Owns, Playing, Saves, Writes
<1>4. ASSUME NEW u \in Users, Connect(w, u) PROVE PInv'
  <2> PICK r : r = [Idle EXCEPT !.pc = "findPending", !.user = u]
    OBVIOUS
  <2>1. r.pc = "findPending"
    BY DEF Idle
  <2> QED BY <1>2, <1>4, <2>1 DEF Connect, Quiet
<1>5. ASSUME NEW u \in Users, Answer(w, u) PROVE PInv'
  <2> PICK r : r = [Idle EXCEPT !.pc = "lockMine", !.user = u, !.scan = ActiveGames(u)]
    OBVIOUS
  <2>1. r.pc = "lockMine"
    BY DEF Idle
  <2> QED BY <1>2, <1>5, <2>1 DEF Answer, Quiet
<1>6. CASE FindGamePending(w)
  <2> PICK r : r = [tx[w] EXCEPT !.pc = "lockPending",
                      !.scan = {g \in GameIds : game[g].status = "PendingSecondPlayer"}]
    OBVIOUS
  <2>1. r.pc = "lockPending"
    BY <1>1 DEF Tx
  <2> QED BY <1>2, <1>6, <2>1 DEF FindGamePending, Quiet
<1>7. CASE CreateNewGame(w)
  <2>1. PICK g : Step(w, [tx[w] EXCEPT !.pc = "commit", !.mine = g, !.draft = NewGame(tx[w].user)])
    BY <1>7 DEF CreateNewGame
  <2> PICK r : r = [tx[w] EXCEPT !.pc = "commit", !.mine = g, !.draft = NewGame(tx[w].user)]
    OBVIOUS
  <2>2. r.pc = "commit" /\ r.draft.status = "PendingSecondPlayer"
    BY <1>1 DEF Tx, NewGame
  <2> QED BY <1>3, <1>7, <2>1, <2>2 DEF CreateNewGame, Quiet
<1>8. CASE JoinGame(w)
  <2>1. PICK g, d : Step(w, [tx[w] EXCEPT !.pc = "addQuestions", !.mine = g, !.draft = d])
    BY <1>8 DEF JoinGame
  <2> PICK r : r = [tx[w] EXCEPT !.pc = "addQuestions", !.mine = g, !.draft = d]
    OBVIOUS
  <2>2. r.pc = "addQuestions"
    BY <1>1 DEF Tx
  <2> QED BY <1>2, <1>8, <2>1, <2>2 DEF JoinGame, Quiet
<1>9. CASE AddQuestionsForGame(w)
  <2>1. CASE Rollback(w, Idle)
    BY <1>1, <2>1, PlayRollback
  <2>2. CASE ~Rollback(w, Idle)
    <3>1. PICK rows : Quiet(w, [tx[w] EXCEPT !.pc = "commit", !.rows = rows])
      BY <1>9, <2>2 DEF AddQuestionsForGame, Quiet
    <3> PICK r : r = [tx[w] EXCEPT !.pc = "commit", !.rows = rows]
      OBVIOUS
    <3>2. r.pc = "commit" /\ r.draft.status = "Active"
      BY <1>1, <1>9 DEF Tx, Local, AddQuestionsForGame
    <3> QED BY <1>3, <3>1, <3>2
  <2> QED BY <2>1, <2>2
<1> QED BY <1>4, <1>5, <1>6, <1>7, <1>8, <1>9

LEMMA WorkerPlays ==
    ASSUME IInv, PInv, OneOpenGame, NEW w \in Workers, WorkerStep(w)
    PROVE  PInv'
<1>1. w \in Procs
  BY DEF Procs
<1>2. CASE GameNotFound(w) \/ QuestionNotFound(w)
  BY <1>1, <1>2, PlayRollback DEF GameNotFound, QuestionNotFound
<1> QED
  BY <1>1, <1>2, LooksPlay, ConnectionsPlay, AnswerQuestionPlays, ReviewGamePlays,
     AddBonusPointPlays, SaveStepPlays, CommitPlays DEF WorkerStep

LEMMA CronPlays ==
    ASSUME IInv, PInv, OneOpenGame, NEW c \in Crons, CronStep(c)
    PROVE  PInv'
<1>1. c \in Procs /\ tx[c] \in Tx
  BY DEF Procs, IInv, TypeOK
<1>2. CASE FailedToComplete(c)
  BY <1>1, <1>2, PlayRollback, ResumeRests DEF FailedToComplete
<1>3. ASSUME NEW r, Quiet(c, r), r.pc \in {"idle", "nextGame", "lockMine"} PROVE PInv'
  BY <1>1, <1>3, PlayQuiet DEF Owns, Playing, Saves, Writes
<1>4. CASE FinishOpenGamesCron(c) \/ EndOfLoop(c)
  <2>1. Idle.pc = "idle" /\ Waiting(OpenGamesToComplete).pc = "nextGame"
    BY DEF Idle, Waiting
  <2> QED BY <1>3, <1>4, <2>1 DEF FinishOpenGamesCron, EndOfLoop, Quiet
<1>5. CASE NextGame(c)
  <2>1. PICK u, scan, rest :
           \/ Quiet(c, [tx[c] EXCEPT !.queue = rest])
           \/ Quiet(c, [tx[c] EXCEPT !.pc = "lockMine", !.user = u, !.scan = scan, !.queue = rest])
    BY <1>5 DEF NextGame, Quiet
  <2> PICK a, b : /\ a = [tx[c] EXCEPT !.queue = rest]
                  /\ b = [tx[c] EXCEPT !.pc = "lockMine", !.user = u, !.scan = scan, !.queue = rest]
    OBVIOUS
  <2>2. a.pc = "nextGame" /\ b.pc = "lockMine"
    BY <1>1, <1>5 DEF NextGame, Tx
  <2> QED BY <1>3, <2>1, <2>2
<1> QED
  BY <1>1, <1>2, <1>4, <1>5, LooksPlay, CompleteGamePlays, CollectProgressPlays, CloseRowPlays,
     RowsClosedPlays, AddBonusPointPlays, SaveStepPlays, CommitPlays DEF CronStep

LEMMA NextPlays == IInv /\ PInv /\ OneOpenGame /\ [Next]_vars => PInv'
<1> SUFFICES ASSUME IInv, PInv, OneOpenGame, [Next]_vars PROVE PInv'
  OBVIOUS
<1>1. CASE UNCHANGED <<game, progress, locks, tx>>
  <2>1. Dealt' /\ RowsAreSound' /\ AnswersInOrder'
    BY <1>1 DEF PInv, Dealt, RowsAreSound, AnswersInOrder, Present
  <2>2. ASSUME NEW q \in Procs, Owns(tx[q])' PROVE Hand(q, tx[q])'
    <3>1. Owns(tx[q]) /\ Hand(q, tx[q])
      BY <1>1, <2>2 DEF Owns, PInv
    <3> QED BY <1>1, <3>1, HandFrame DEF Hand, Held
  <2> QED BY <2>1, <2>2 DEF PInv
<1> QED BY <1>1, ConnectionsPlay, WorkerPlays, CronPlays, LooksPlay DEF Next, Tick, vars

LEMMA InitPlays == Init => PInv
<1> SUFFICES ASSUME Init PROVE PInv
  OBVIOUS
<1>1. Present(progress) = {}
  BY DEF Init, Present, NoRows, NoRow
<1>2. ~Owns(Idle)
  BY DEF Owns, Idle, Playing, Saves, Writes
<1> QED BY <1>1, <1>2 DEF Init, PInv, Dealt, RowsAreSound, AnswersInOrder

LEMMA PlayInvariance == Spec /\ []OneOpenGame => [](IInv /\ PInv)
  BY InitKeeps, InitPlays, NextKeeps, NextPlays, PTL DEF Spec

\* While games are played one after another, answers are given in the order of the
\* questions: a request takes the first open question of a player whose game it has
\* locked, and the cron job closes what is left from the lowest number on.
THEOREM AnswersFollowQuestions == Spec /\ []OneOpenGame => []AnswersInOrder
<1>1. PInv => AnswersInOrder
  BY DEF PInv
<1> QED BY <1>1, PlayInvariance, PTL

\* A row keeps the score its answer earned, although answers, closed rows and bonus points
\* are saved by handlers that read the row at different times.
THEOREM ScoresMatch == Spec /\ []OneOpenGame => []ScoreMatchesAnswer
<1>1. PInv => ScoreMatchesAnswer
  BY DEF PInv, RowsAreSound, Scored, ScoreMatchesAnswer
<1> QED BY <1>1, PlayInvariance, PTL

\* No commit replaces an answer that was recorded.
LEMMA StepKeepsAnswers ==
    IInv /\ PInv /\ [Next]_vars =>
        [\A k \in Key : progress[k].answerStatus \in Answered =>
              /\ progress'[k].answerStatus = progress[k].answerStatus
              /\ progress'[k].addedAt = progress[k].addedAt
              /\ progress'[k].score = progress[k].score]_vars
<1> SUFFICES ASSUME IInv, PInv, [Next]_vars, NEW k \in Key, progress[k].answerStatus \in Answered
             PROVE  SameAnswer(progress'[k], progress[k])
  BY DEF SameAnswer
<1>1. progress[k].answerStatus # "absent"
  BY DEF Answered
<1>2. ASSUME NEW p \in Procs, Commit(p) PROVE SameAnswer(progress'[k], progress[k])
  <2>1. progress'[k] = View(tx[p], k)
    BY <1>2 DEF Commit, Seen, View
  <2>2. View(tx[p], k).answerStatus # "absent"
    BY <1>1 DEF View
  <2>3. CASE Owns(tx[p]) /\ Hand(p, tx[p])
    BY <2>1, <2>2, <2>3 DEF Hand, GoodView
  <2>4. CASE ~(Owns(tx[p]) /\ Hand(p, tx[p]))
    <3>1. progress'[k] = progress[k]
      BY <1>1, <1>2, <2>4, CommitKinds
    <3> QED BY <3>1 DEF SameAnswer
  <2> QED BY <2>3, <2>4
<1>3. CASE \A p \in Procs : ~Commit(p)
  BY <1>3, OnlyCommitsWrite DEF SameAnswer
<1> QED BY <1>2, <1>3

\* What was answered stays: the cron job that closes the opponent's questions reads them
\* under the lock that an answer to one of them needs.
THEOREM AnswersStay == Spec /\ []OneOpenGame => AnswersAreFinal
  BY PlayInvariance, StepKeepsAnswers, PTL DEF Spec, AnswersAreFinal

(***************************************************************************)
(* One game, dealt in full: how it ends                                    *)
(***************************************************************************)
\* The game of OneGameInit, whoever else the table of users holds.
OneGame == GameIds = {g1} /\ ann \in Users /\ bob \in Users /\ ann # bob

Players == {ann, bob}
Questions == {k \in Key : UserOf(k) \in Players}

\* Player u has given the last answer.
Done(u) == u \in Players /\ progress[LastOf(g1, u)].answerStatus \in Answered

\* The row to reward, for the rows as a transaction sees them.
ViewOf(r) == [k \in Key |-> View(r, k)]
FasterIn(rows) ==
    IF rows[LastOf(g1, ann)].addedAt < rows[LastOf(g1, bob)].addedAt THEN ann ELSE bob
BonusIn(rows, k) ==
    IF /\ k = LastOf(g1, FasterIn(rows))
       /\ \E j \in Questions : UserOf(j) = FasterIn(rows) /\ rows[j].score > 0
    THEN 1 ELSE 0

NoBonus(r) == \A k \in Key : r.rows[k].bonus_score = 0
AllAnswered(r) == \A k \in Questions : View(r, k).answerStatus \in Answered

\* A request of one of the players answers one open question and never ends the game.
WorkerTurn(r) ==
    /\ r.pc \in {"idle", "lockMine", "saveAnswer", "writeAnswer", "review", "commit"}
    /\ r.draft.status = "absent"
    /\ r.pc \in {"saveAnswer", "writeAnswer", "review"} =>
          r.at \in Questions /\ progress[r.at].answerStatus = "unanswered"
    /\ r.pc \in Answering => r.ents[r.at].bonus_score = 0
    /\ NoBonus(r)

\* The cron job ends the game for a player who is done: all is answered before the bonus.
Rewarding == {"saveBonus", "writeBonus"}
CronTurn(r) ==
    /\ r.pc \in {"idle", "nextGame", "lockMine", "collect", "closeRows", "addBonus", "commit"}
                  \cup Closing \cup Rewarding
    /\ r.pc \in {"commit"} \cup Rewarding => r.draft.status = "Finished"
    /\ \A k \in r.queue : Done(UserOf(k))
    /\ r.pc \notin {"idle", "nextGame"} => Done(r.user)
    /\ r.pc \in Closing => r.ents[r.at].bonus_score = 0
    /\ r.pc \in {"addBonus", "commit"} \cup Rewarding => AllAnswered(r)
    /\ r.pc = "addBonus" => \A k \in Key : r.ents[k] = View(r, k)
    /\ r.pc \in Rewarding => BonusIn(ViewOf(r), r.at) = 1 /\ r.ents[r.at].bonus_score = 1
    /\ IF r.pc = "commit" THEN \A k \in Key : View(r, k).bonus_score = BonusIn(ViewOf(r), k)
       ELSE NoBonus(r)

Turn(p, r) == (p \in Workers => WorkerTurn(r)) /\ (p \in Crons => CronTurn(r))

Board ==
    /\ game[g1].firstPlayerId = ann /\ game[g1].secondPlayerId = bob
    /\ game[g1].status \in {"Active", "Finished"}
    /\ Present(progress) = Questions
    /\ game[g1].status = "Active" => \A k \in Key : progress[k].bonus_score = 0

TurnInv == /\ Board /\ FinishedGameIsAnswered /\ BonusToFastest
           /\ \A p \in Procs : Turn(p, tx[p])

\* There are Last questions for each of the two players.
LEMMA QuestionCount ==
    ASSUME OneGame
    PROVE  /\ Cardinality(Questions) = 2 * Last
           /\ LastOf(g1, ann) \in Questions /\ LastOf(g1, bob) \in Questions
           /\ \A k \in Questions : k = <<g1, UserOf(k), NumberOf(k)>>
<1>1. Key = {g1} \X Users \X (1..Last) /\ Last \in Nat \ {0}
  BY GameConstants DEF OneGame, Key
<1> DEFINE P == Players \X (1..Last)
<1> DEFINE f == [x \in P |-> <<g1, x[1], x[2]>>]
<1>2. f \in Bijection(P, Questions)
  <2>1. \A x \in P : f[x] \in Questions
    BY <1>1 DEF OneGame, Questions, Players, UserOf
  <2>2. \A x, y \in P : f[x] = f[y] => x = y
    OBVIOUS
  <2>3. \A k \in Questions : \E x \in P : f[x] = k
    <3> SUFFICES ASSUME NEW k \in Questions PROVE \E x \in P : f[x] = k
      OBVIOUS
    <3>1. k = <<g1, k[2], k[3]>> /\ k[2] \in Players /\ k[3] \in 1..Last
      BY <1>1 DEF Questions, UserOf
    <3>2. <<k[2], k[3]>> \in P /\ f[<<k[2], k[3]>>] = k
      BY <3>1
    <3> QED BY <3>2
  <2> QED BY <2>1, <2>2, <2>3 DEF Bijection, Injection, IsInjective, Surjection
<1>3. IsFiniteSet(Players) /\ Cardinality(Players) = 2
  <2>1. IsFiniteSet({ann}) /\ Cardinality({ann}) = 1
    BY FS_Singleton
  <2>2. IsFiniteSet({ann} \cup {bob}) /\ Cardinality({ann} \cup {bob}) = 1 + 1
    BY <2>1, FS_AddElement DEF OneGame
  <2> QED BY <2>2 DEF Players
<1>4. IsFiniteSet(1..Last) /\ Cardinality(1..Last) = Last
  BY <1>1, FS_Interval
<1>5. IsFiniteSet(P) /\ Cardinality(P) = 2 * Last
  BY <1>3, <1>4, FS_Product
<1>6. Cardinality(Questions) = 2 * Last
  BY <1>2, <1>5, FS_Bijection DEF ExistsBijection
<1>7. LastOf(g1, ann) \in Questions /\ LastOf(g1, bob) \in Questions
  BY <1>1 DEF LastOf, Questions, UserOf, Players, OneGame
<1>8. \A k \in Questions : k = <<g1, UserOf(k), NumberOf(k)>>
  BY <1>1 DEF Questions, UserOf, NumberOf
<1> QED BY <1>6, <1>7, <1>8

\* What a process has in hand stays true while the rows stay, and, when it holds no game,
\* while answers stay.
LEMMA TurnFrame ==
    ASSUME OneGame, NEW q, NEW s, Turn(q, s), tx'[q] = s,
           \/ progress' = progress
           \/ /\ ~Owns(s)
              /\ \A k \in Key : progress[k].answerStatus \in Answered =>
                                   progress'[k].answerStatus \in Answered
    PROVE  Turn(q, tx[q])'
<1>1. CASE progress' = progress
  <2>1. \A k : View(s, k)' = View(s, k)
    BY <1>1 DEF View
  <2>2. ViewOf(s)' = ViewOf(s)
    BY <2>1 DEF ViewOf
  <2>3. \A u : Done(u)' <=> Done(u)
    BY <1>1 DEF Done
  <2>4. AllAnswered(s)' <=> AllAnswered(s)
    BY <2>1 DEF AllAnswered
  <2>5. WorkerTurn(s) => WorkerTurn(tx[q])'
    BY <1>1 DEF WorkerTurn, NoBonus
  <2>6. CronTurn(s) => CronTurn(s)'
    BY <1>1, <2>1, <2>2, <2>3, <2>4 DEF CronTurn
  <2>7. CronTurn(s)' => CronTurn(tx[q])'
    BY DEF CronTurn, NoBonus, AllAnswered, ViewOf, View
  <2> QED BY <2>5, <2>6, <2>7 DEF Turn
<1>2. CASE /\ ~Owns(s)
           /\ \A k \in Key : progress[k].answerStatus \in Answered =>
                                progress'[k].answerStatus \in Answered
  <2>1. \A u : Done(u) => Done(u)'
    BY <1>2, QuestionCount DEF Done, Players, Questions
  <2>2. s.pc \notin Playing
    BY <1>2 DEF Owns
  <2>3. WorkerTurn(s) => WorkerTurn(tx[q])'
    BY <1>2, <2>2 DEF WorkerTurn, NoBonus, Owns, Playing, Saves, Writes, Answering
  <2>4. CronTurn(s) => s.pc \in {"idle", "nextGame", "lockMine"}
    BY <1>2, <2>2 DEF CronTurn, Owns, Playing, Saves, Writes, Closing, Rewarding
  <2>5. CronTurn(s) => CronTurn(tx[q])'
    BY <2>1, <2>4 DEF CronTurn, NoBonus, Closing, Rewarding
  <2> QED BY <2>3, <2>5 DEF Turn
<1> QED BY <1>1, <1>2

\* A step of p that writes no table.
LEMMA TurnStep ==
    ASSUME OneGame, IInv, TurnInv, NEW p \in Procs, NEW r, Step(p, r), UNCHANGED <<game, progress>>,
           Turn(p, r)
    PROVE  TurnInv'
<1>1. tx'[p] = r /\ \A q \in Procs \ {p} : tx'[q] = tx[q]
  BY DEF Step, IInv, TypeOK
<1>2. Board' /\ FinishedGameIsAnswered' /\ BonusToFastest'
  BY DEF TurnInv, Board, FinishedGameIsAnswered, BonusToFastest, Bonus, Fastest, Present
<1>3. ASSUME NEW q \in Procs PROVE Turn(q, tx[q])'
  BY <1>1, TurnFrame DEF TurnInv
<1> QED BY <1>2, <1>3 DEF TurnInv

\* A process between requests, and the cron job between transactions.
LEMMA RestingRecords ==
    ASSUME NEW Q
    PROVE  /\ NoBonus(Idle) /\ Idle.pc = "idle" /\ Idle.draft.status = "absent" /\ Idle.queue = {}
           /\ NoBonus(Waiting(Q)) /\ Waiting(Q).pc = "nextGame" /\ Waiting(Q).queue = Q
  BY DEF NoBonus, Idle, Waiting, NoRows, NoRow, NoGame

LEMMA IdleTurns ==
    ASSUME NEW p
    PROVE  Turn(p, Idle)
<1>1. NoBonus(Idle) /\ Idle.pc = "idle" /\ Idle.draft.status = "absent" /\ Idle.queue = {}
  BY RestingRecords
<1> QED BY <1>1 DEF Turn, WorkerTurn, CronTurn, Answering, Closing, Rewarding

LEMMA WaitingTurns ==
    ASSUME NEW c \in Crons, NEW Q, \A k \in Q : Done(UserOf(k))
    PROVE  Turn(c, Waiting(Q))
<1>1. NoBonus(Waiting(Q)) /\ Waiting(Q).pc = "nextGame" /\ Waiting(Q).queue = Q
  BY RestingRecords
<1> QED BY <1>1, GameConstants DEF Turn, CronTurn, Closing, Rewarding

LEMMA ResumeTurns ==
    ASSUME IInv, TurnInv, NEW p \in Procs
    PROVE  Turn(p, Resume(p))
<1>1. CASE p \in Crons
  <2>1. \A k \in tx[p].queue : Done(UserOf(k))
    BY <1>1 DEF TurnInv, Turn, CronTurn
  <2> QED BY <1>1, <2>1, WaitingTurns DEF Resume
<1>2. CASE p \notin Crons
  BY <1>2, IdleTurns DEF Resume
<1> QED BY <1>1, <1>2

\* A worker's or the cron job's record after LockRow, and after a failure.
LEMMA LockRowTurns ==
    ASSUME OneGame, IInv, TurnInv, NEW p \in Procs, LockRow(p)
    PROVE  TurnInv'
<1>1. PICK g \in tx[p].scan :
         Step(p, [tx[p] EXCEPT !.scan = @ \ {g},
                               !.found = IF StillMatches(p, g) THEN @ \cup {g} ELSE @])
  BY DEF LockRow
<1> PICK r : r = [tx[p] EXCEPT !.scan = tx[p].scan \ {g},
                    !.found = IF StillMatches(p, g) THEN tx[p].found \cup {g} ELSE tx[p].found]
  OBVIOUS
<1>2. tx[p] \in Tx /\ tx[p].pc \in {"lockPending", "lockMine"} /\ Turn(p, tx[p])
  BY DEF LockRow, IInv, TypeOK, TurnInv
<1>3. /\ r.pc = tx[p].pc /\ r.user = tx[p].user /\ r.draft = tx[p].draft
      /\ r.rows = tx[p].rows /\ r.queue = tx[p].queue
  BY <1>2 DEF Tx
<1>4. Turn(p, r)
  BY <1>2, <1>3 DEF Turn, WorkerTurn, CronTurn, NoBonus, Answering, Closing, Rewarding
<1> QED BY <1>1, <1>4, TurnStep DEF LockRow

LEMMA RollbackTurns ==
    ASSUME OneGame, IInv, TurnInv, NEW p \in Procs, NEW r \in {Idle, Resume(p)}, Rollback(p, r)
    PROVE  TurnInv'
<1>1. Turn(p, r)
  BY IdleTurns, ResumeTurns
<1> QED BY <1>1, TurnStep DEF Rollback

(***************************************************************************)
(* Requests                                                                *)
(***************************************************************************)
LEMMA AnswerTurns ==
    ASSUME OneGame, IInv, TurnInv, NEW w \in Workers, NEW u \in Users, Answer(w, u)
    PROVE  TurnInv'
<1> PICK r : r = [Idle EXCEPT !.pc = "lockMine", !.user = u, !.scan = ActiveGames(u)]
  OBVIOUS
<1>1. r.pc = "lockMine" /\ r.draft.status = "absent" /\ r.rows = NoRows
  BY DEF Idle, NoGame
<1>2. NoBonus(r)
  BY <1>1 DEF NoBonus, NoRows, NoRow
<1>3. Turn(w, r)
  BY <1>1, <1>2, GameConstants DEF Turn, WorkerTurn, Answering
<1> QED BY <1>3, TurnStep DEF Answer, Procs

LEMMA AnswerQuestionTurns ==
    ASSUME OneGame, IInv, TurnInv, NEW w \in Workers, AnswerQuestion(w)
    PROVE  TurnInv'
<1>1. w \in Procs /\ tx[w] \in Tx /\ Local(w, tx[w]) /\ WorkerTurn(tx[w]) /\ tx[w].pc = "lockMine"
  BY DEF Procs, IInv, TypeOK, TurnInv, Turn, AnswerQuestion, Locked
<1>2. PICK g \in tx[w].found, k \in NextQuestions(tx[w].user), outcome \in Outcomes :
         Step(w, [tx[w] EXCEPT !.pc = "saveAnswer", !.mine = g, !.at = k,
                    !.ents = [NoRows EXCEPT ![k] = AddAnswer(progress[k], outcome)]])
  BY DEF AnswerQuestion
<1> PICK e : e = [NoRows EXCEPT ![k] = AddAnswer(progress[k], outcome)]
  OBVIOUS
<1> PICK r : r = [tx[w] EXCEPT !.pc = "saveAnswer", !.mine = g, !.at = k, !.ents = e]
  OBVIOUS
<1>3. g = g1 /\ game[g1].status = "Active"
  BY <1>1 DEF Local, Held, OneGame
<1>4. k \in Questions /\ progress[k].answerStatus = "unanswered" /\ progress[k].bonus_score = 0
  BY <1>3 DEF NextQuestions, Unanswered, TurnInv, Board, Present
<1>5. e[k].bonus_score = 0
  BY <1>4 DEF AddAnswer, NoRows, Questions
<1>6. /\ r.pc = "saveAnswer" /\ r.at = k /\ r.ents = e /\ r.rows = tx[w].rows
      /\ r.draft = tx[w].draft
  BY <1>1 DEF Tx
<1>7. Turn(w, r)
  BY <1>1, <1>4, <1>5, <1>6, GameConstants DEF Turn, WorkerTurn, NoBonus
<1> QED BY <1>1, <1>2, <1>7, TurnStep DEF AnswerQuestion

LEMMA AnswerSaveTurns ==
    ASSUME OneGame, IInv, PInv, TurnInv, NEW w \in Workers, SaveStep(w)
    PROVE  TurnInv'
<1>1. w \in Procs /\ w \notin Crons /\ tx[w] \in Tx /\ WorkerTurn(tx[w])
  BY GameConstants DEF Procs, IInv, TypeOK, TurnInv, Turn
<1>2. CASE SaveLoad(w, "saveAnswer", "writeAnswer")
  <2> PICK cols, r : r = [tx[w] EXCEPT !.pc = "writeAnswer", !.cols = cols] /\ Step(w, r)
    BY <1>2 DEF SaveLoad
  <2>1. /\ r.pc = "writeAnswer" /\ r.at = tx[w].at /\ r.ents = tx[w].ents /\ r.rows = tx[w].rows
        /\ r.draft = tx[w].draft /\ tx[w].pc = "saveAnswer"
    BY <1>1, <1>2 DEF Tx, SaveLoad
  <2>2. Turn(w, r)
    BY <1>1, <2>1 DEF Turn, WorkerTurn, NoBonus, Answering
  <2> QED BY <1>1, <1>2, <2>2, TurnStep DEF SaveLoad
<1>3. CASE SaveUpdate(w, "writeAnswer", "review")
  <2> PICK k : k = tx[w].at
    OBVIOUS
  <2>1. PICK r : /\ Quiet(w, r) /\ r.pc = "review" /\ r.at = k /\ r.draft = tx[w].draft
                 /\ r.rows[k] \in {tx[w].rows[k], tx[w].ents[k]}
                 /\ \A j \in Key \ {k} : r.rows[j] = tx[w].rows[j]
    BY <1>1, <1>3, SavedRows DEF UpdatePC
  <2>2. tx[w].pc = "writeAnswer" /\ k \in Key
    BY <1>1, <1>3 DEF SaveUpdate, WorkerTurn, Questions
  <2>3. NoBonus(r)
    BY <1>1, <2>1, <2>2 DEF WorkerTurn, NoBonus, Answering
  <2>4. Turn(w, r)
    BY <1>1, <2>1, <2>2, <2>3 DEF Turn, WorkerTurn, Answering
  <2> QED BY <1>1, <2>1, <2>4, TurnStep DEF Quiet
<1> QED BY <1>1, <1>2, <1>3 DEF SaveStep, SaveLoad, SaveUpdate, WorkerTurn

\* The request that gives a player's last answer reads the table without it, so it never
\* finds the game over.
LEMMA NeverOver ==
    ASSUME OneGame, IInv, PInv, TurnInv, NEW w \in Workers, tx[w].pc = "review"
    PROVE  ~GameOver(GameProgress(tx[w].mine))
<1> PICK k, u, seen : k = tx[w].at /\ u = UserOf(k) /\ seen = GameProgress(tx[w].mine)
  OBVIOUS
<1>1. w \in Procs /\ WorkerTurn(tx[w]) /\ Local(w, tx[w])
  BY DEF Procs, IInv, TurnInv, Turn
<1>2. k \in Questions /\ k \in Key /\ progress[k].answerStatus = "unanswered" /\ u \in Players
  BY <1>1 DEF WorkerTurn, Questions
<1>3. \A j \in Key : seen[j] = progress[j]
  BY <1>1 DEF Local, Held, OneGame, GameProgress, Key, GameOf
<1>4. Present(seen) = Questions
  BY <1>3 DEF Present, TurnInv, Board
<1>5. CountAnswers(seen) = Last
  BY <1>4, QuestionCount, GameConstants DEF CountAnswers
<1>6. progress[LastOf(g1, u)].answerStatus \notin Answered
  <2>1. LastOf(g1, u) \in Questions /\ LastOf(g1, u) \in Key
    BY <1>2, QuestionCount DEF Players, Questions
  <2>2. k = <<g1, u, NumberOf(k)>> /\ NumberOf(k) \in 1..Last
    BY <1>2, QuestionCount DEF Key, NumberOf
  <2>3. CASE NumberOf(k) = Last
    BY <1>2, <2>2, <2>3 DEF LastOf, Answered
  <2>4. CASE NumberOf(k) # Last
    <3>1. /\ k \in Present(progress) /\ LastOf(g1, u) \in Present(progress)
      BY <1>2, <2>1 DEF TurnInv, Board
    <3>2. /\ GameOf(LastOf(g1, u)) = g1 /\ UserOf(LastOf(g1, u)) = u
          /\ NumberOf(LastOf(g1, u)) = Last
      BY DEF LastOf, GameOf, UserOf, NumberOf
    <3>3. GameOf(k) = g1 /\ NumberOf(k) < Last
      BY <2>2, <2>4, GameConstants DEF GameOf
    <3> QED BY <1>2, <3>1, <3>2, <3>3 DEF PInv, AnswersInOrder, Answered
  <2> QED BY <2>3, <2>4
<1> PICK v : v = IF u = ann THEN bob ELSE ann
  OBVIOUS
<1> PICK S : S = {j \in Present(seen) : /\ NumberOf(j) = CountAnswers(seen)
                                        /\ seen[j].answerStatus \in Answered}
  OBVIOUS
<1>7. S \subseteq {LastOf(g1, v)}
  <2> SUFFICES ASSUME NEW j \in S PROVE j = LastOf(g1, v)
    OBVIOUS
  <2>1. j \in Questions /\ j \in Key /\ NumberOf(j) = Last /\ progress[j].answerStatus \in Answered
    BY <1>3, <1>4, <1>5 DEF Questions
  <2>2. j = LastOf(g1, UserOf(j)) /\ UserOf(j) \in Players
    BY <2>1, QuestionCount DEF LastOf, Questions
  <2> QED BY <1>2, <1>6, <2>1, <2>2 DEF Players
<1>8. IsFiniteSet({LastOf(g1, v)}) /\ Cardinality({LastOf(g1, v)}) = 1
  BY FS_Singleton
<1>9. Cardinality(S) <= 1 /\ Cardinality(S) \in Nat
  BY <1>7, <1>8, FS_Subset, FS_CardinalityType
<1> QED BY <1>9 DEF GameOver

LEMMA ReviewGameTurns ==
    ASSUME OneGame, IInv, PInv, TurnInv, NEW w \in Workers, ReviewGame(w)
    PROVE  TurnInv'
<1> PICK r : r = [tx[w] EXCEPT !.pc = "commit"]
  OBVIOUS
<1>1. /\ w \in Procs /\ w \notin Crons /\ tx[w] \in Tx /\ WorkerTurn(tx[w]) /\ tx[w].pc = "review"
  BY GameConstants DEF Procs, IInv, TypeOK, TurnInv, Turn, ReviewGame
<1>2. Step(w, r)
  BY <1>1, NeverOver DEF ReviewGame
<1>3. r.pc = "commit" /\ r.draft = tx[w].draft /\ r.rows = tx[w].rows
  BY <1>1 DEF Tx
<1>4. Turn(w, r)
  BY <1>1, <1>3 DEF Turn, WorkerTurn, NoBonus, Answering
<1> QED BY <1>1, <1>2, <1>4, TurnStep DEF ReviewGame

(***************************************************************************)
(* The cron job                                                            *)
(***************************************************************************)
LEMMA LoopTurns ==
    ASSUME OneGame, IInv, PInv, TurnInv, NEW c \in Crons,
           FinishOpenGamesCron(c) \/ NextGame(c) \/ EndOfLoop(c)
    PROVE  TurnInv'
<1>1. c \in Procs /\ c \notin Workers /\ tx[c] \in Tx /\ CronTurn(tx[c]) /\ Local(c, tx[c])
  BY GameConstants DEF Procs, IInv, TypeOK, TurnInv, Turn
<1>3. CASE FinishOpenGamesCron(c)
  <2>1. ASSUME NEW k \in OpenGamesToComplete PROVE Done(UserOf(k))
    <3>1. /\ k \in Key /\ NumberOf(k) = Last /\ k \in Present(progress) /\ progress[k].addedAt # 0
      BY <2>1 DEF OpenGamesToComplete, Present
    <3>2. k = LastOf(g1, UserOf(k)) /\ UserOf(k) \in Players
      BY <3>1, QuestionCount DEF TurnInv, Board, LastOf, Questions
    <3>3. progress[k].answerStatus \in Answered
      BY <3>1 DEF PInv, RowsAreSound, Scored, IInv, TypeOK, ProgressRow, Present, Answered
    <3> QED BY <3>2, <3>3 DEF Done
  <2>2. Turn(c, Waiting(OpenGamesToComplete))
    BY <2>1, WaitingTurns
  <2> QED BY <1>1, <1>3, <2>2, TurnStep DEF FinishOpenGamesCron
<1>4. CASE EndOfLoop(c)
  BY <1>1, <1>4, IdleTurns, TurnStep DEF EndOfLoop
<1>5. CASE NextGame(c)
  <2>1. PICK k, rest, scan :
           /\ k \in tx[c].queue /\ rest \subseteq tx[c].queue
           /\ \/ Quiet(c, [tx[c] EXCEPT !.queue = rest])
              \/ Quiet(c, [tx[c] EXCEPT !.pc = "lockMine", !.user = UserOf(k), !.scan = scan,
                                        !.queue = rest])
    BY <1>5 DEF NextGame, Quiet
  <2> PICK a, b : /\ a = [tx[c] EXCEPT !.queue = rest]
                  /\ b = [tx[c] EXCEPT !.pc = "lockMine", !.user = UserOf(k), !.scan = scan,
                                       !.queue = rest]
    OBVIOUS
  <2>2. /\ a.pc = "nextGame" /\ a.queue = rest /\ a.rows = tx[c].rows
        /\ b.pc = "lockMine" /\ b.queue = rest /\ b.rows = tx[c].rows /\ b.user = UserOf(k)
    BY <1>1, <1>5 DEF NextGame, Tx
  <2>3. NoBonus(tx[c]) /\ \A j \in tx[c].queue : Done(UserOf(j))
    BY <1>1, <1>5 DEF CronTurn, NextGame
  <2>4. Done(UserOf(k)) /\ \A j \in rest : Done(UserOf(j))
    BY <2>1, <2>3
  <2>5. Turn(c, a) /\ Turn(c, b)
    BY <1>1, <2>2, <2>3, <2>4 DEF Turn, CronTurn, NoBonus, Closing, Rewarding
  <2> QED BY <1>1, <2>1, <2>5, TurnStep DEF Quiet
<1> QED BY <1>3, <1>4, <1>5

LEMMA CompleteGameTurns ==
    ASSUME OneGame, IInv, TurnInv, NEW c \in Crons, CompleteGame(c) \/ CollectProgress(c)
    PROVE  TurnInv'
<1>1. c \in Procs /\ c \notin Workers /\ tx[c] \in Tx /\ CronTurn(tx[c])
  BY GameConstants DEF Procs, IInv, TypeOK, TurnInv, Turn
<1>2. CASE CompleteGame(c)
  <2> PICK g, d, r : r = [tx[c] EXCEPT !.pc = "collect", !.mine = g, !.draft = d] /\ Quiet(c, r)
    BY <1>2 DEF CompleteGame, Quiet
  <2>1. /\ r.pc = "collect" /\ r.user = tx[c].user /\ r.queue = tx[c].queue
        /\ r.rows = tx[c].rows /\ tx[c].pc = "lockMine"
    BY <1>1, <1>2 DEF Tx, CompleteGame, Locked
  <2>2. Turn(c, r)
    BY <1>1, <2>1 DEF Turn, CronTurn, NoBonus, Closing, Rewarding
  <2> QED BY <1>1, <2>2, TurnStep DEF Quiet
<1>3. CASE CollectProgress(c)
  <2> PICK r : r = [tx[c] EXCEPT !.pc = "closeRows", !.ents = progress] /\ Quiet(c, r)
    BY <1>3 DEF CollectProgress, Quiet
  <2>1. /\ r.pc = "closeRows" /\ r.user = tx[c].user /\ r.queue = tx[c].queue
        /\ r.rows = tx[c].rows /\ tx[c].pc = "collect"
    BY <1>1, <1>3 DEF Tx, CollectProgress
  <2>2. Turn(c, r)
    BY <1>1, <2>1 DEF Turn, CronTurn, NoBonus, Closing, Rewarding
  <2> QED BY <1>1, <2>2, TurnStep DEF Quiet
<1> QED BY <1>2, <1>3

\* A transaction that holds the game sees a bonus only where it has written one.
LEMMA NoBonusSeen ==
    ASSUME OneGame, PInv, TurnInv, NEW p \in Procs, Owns(tx[p]), NEW k \in Key
    PROVE  /\ tx[p].mine = g1 /\ game[g1].status = "Active"
           /\ tx[p].rows[k].bonus_score = 0 => View(tx[p], k).bonus_score = 0
<1>1. Held(p, tx[p].mine, "Active")
  BY DEF PInv, Hand
<1> QED BY <1>1 DEF Held, OneGame, TurnInv, Board, View

LEMMA CloseRowTurns ==
    ASSUME OneGame, IInv, PInv, TurnInv, NEW c \in Crons, CloseRow(c)
    PROVE  TurnInv'
<1>1. /\ c \in Procs /\ c \notin Workers /\ tx[c] \in Tx /\ CronTurn(tx[c])
      /\ tx[c].pc = "closeRows" /\ Owns(tx[c])
  BY GameConstants DEF Procs, IInv, TypeOK, TurnInv, Turn, CloseRow, Owns, Playing
<1>2. PICK k \in Open(c) :
         Quiet(c, [tx[c] EXCEPT !.pc = "saveClosed", !.at = k,
                     !.ents = [tx[c].ents EXCEPT ![k] = Closed(tx[c].ents[k])]])
  BY DEF CloseRow, Quiet
<1> PICK e : e = [tx[c].ents EXCEPT ![k] = Closed(tx[c].ents[k])]
  OBVIOUS
<1> PICK r : r = [tx[c] EXCEPT !.pc = "saveClosed", !.at = k, !.ents = e]
  OBVIOUS
<1>3. /\ r.pc = "saveClosed" /\ r.at = k /\ r.ents = e /\ r.user = tx[c].user
      /\ r.queue = tx[c].queue /\ r.rows = tx[c].rows
  BY <1>1 DEF Tx
<1>4. k \in Key /\ tx[c].ents \in [Key -> ProgressRow] /\ tx[c].ents[k] = View(tx[c], k)
  BY <1>1 DEF Open, Tx, PInv, Hand
<1>5. tx[c].ents[k].bonus_score = 0
  BY <1>1, <1>4, NoBonusSeen DEF CronTurn, NoBonus
<1>6. e[k].bonus_score = 0
  BY <1>4, <1>5 DEF Closed, ProgressRow
<1>7. Turn(c, r)
  BY <1>1, <1>3, <1>6 DEF Turn, CronTurn, NoBonus, Closing, Rewarding
<1> QED BY <1>1, <1>2, <1>7, TurnStep DEF Quiet

\* When the loop has closed the opponent's questions, the player who is done has none.
LEMMA RowsClosedTurns ==
    ASSUME OneGame, IInv, PInv, TurnInv, NEW c \in Crons, RowsClosed(c)
    PROVE  TurnInv'
<1>1. /\ c \in Procs /\ c \notin Workers /\ tx[c] \in Tx /\ CronTurn(tx[c])
      /\ tx[c].pc = "closeRows" /\ Owns(tx[c]) /\ Hand(c, tx[c])
  BY GameConstants DEF Procs, IInv, TypeOK, TurnInv, Turn, RowsClosed, Owns, Playing, PInv
<1> PICK r : r = [tx[c] EXCEPT !.pc = "addBonus"]
  OBVIOUS
<1>2. /\ r.pc = "addBonus" /\ r.user = tx[c].user /\ r.ents = tx[c].ents
      /\ r.queue = tx[c].queue /\ r.rows = tx[c].rows
  BY <1>1 DEF Tx
<1>3. \A k : View(r, k) = View(tx[c], k)
  BY <1>2 DEF View
<1>4. ASSUME NEW k \in Questions PROVE View(r, k).answerStatus \in Answered
  <2>1. /\ k \in Key /\ progress[k].answerStatus # "absent" /\ UserOf(k) \in Players
        /\ View(r, k).answerStatus # "absent" /\ tx[c].ents[k] = View(r, k)
        /\ tx[c].ents[k] \in ProgressRow
    BY <1>1, <1>3 DEF TurnInv, Board, Present, Questions, Hand, View, Tx
  <2>2. CASE UserOf(k) # tx[c].user
    <3>1. tx[c].ents[k].answerStatus # "unanswered"
      BY <2>1, <2>2 DEF RowsClosed, Open
    <3> QED BY <2>1, <3>1 DEF ProgressRow
  <2>3. CASE UserOf(k) = tx[c].user
    <3> PICK u : u = tx[c].user
      OBVIOUS
    <3>1. u \in Players /\ progress[LastOf(g1, u)].answerStatus \in Answered
      BY <1>1 DEF CronTurn, Done
    <3>2. progress[k].answerStatus \in Answered
      <4>1. LastOf(g1, u) \in Questions /\ k = <<g1, u, NumberOf(k)>> /\ NumberOf(k) \in 1..Last
        BY <2>1, <2>3, <3>1, QuestionCount DEF Players, Key, NumberOf
      <4>2. CASE NumberOf(k) = Last
        BY <3>1, <4>1, <4>2 DEF LastOf
      <4>3. CASE NumberOf(k) # Last
        <5>1. k \in Present(progress) /\ LastOf(g1, u) \in Present(progress)
          BY <4>1 DEF TurnInv, Board
        <5>2. /\ GameOf(LastOf(g1, u)) = g1 /\ UserOf(LastOf(g1, u)) = u
              /\ NumberOf(LastOf(g1, u)) = Last
          BY DEF LastOf, GameOf, UserOf, NumberOf
        <5>3. GameOf(k) = g1 /\ NumberOf(k) < Last
          BY <4>1, <4>3, GameConstants DEF GameOf
        <5> QED BY <2>3, <3>1, <5>1, <5>2, <5>3 DEF PInv, AnswersInOrder
      <4> QED BY <4>2, <4>3
    <3>3. GoodView(tx[c], k)
      BY <1>1, <2>1 DEF Hand
    <3> QED BY <1>3, <2>1, <3>2, <3>3 DEF GoodView, SameAnswer
  <2> QED BY <2>2, <2>3
<1>5. \A k \in Key : r.ents[k] = View(r, k)
  BY <1>1, <1>2, <1>3 DEF Hand
<1>6. Turn(c, r)
  BY <1>1, <1>2, <1>4, <1>5 DEF Turn, CronTurn, NoBonus, AllAnswered, Closing, Rewarding
<1> QED BY <1>1, <1>6, TurnStep DEF RowsClosed

\* The rows in hand for the bonus: the last answers of the two players.
LEMMA LastAnswersKnown ==
    ASSUME OneGame, IInv, PInv, TurnInv, NEW c \in Crons, tx[c].pc = "addBonus",
           NEW v, v = ViewOf(tx[c])
    PROVE  /\ \A k \in Key : tx[c].ents[k] = v[k]
           /\ LastAnswer(c, TRUE) = {LastOf(g1, ann)} /\ LastAnswer(c, FALSE) = {LastOf(g1, bob)}
           /\ FinishedFirst(c, LastOf(g1, ann), LastOf(g1, bob)) <=> FasterIn(v) = ann
           /\ HasScore(c, TRUE) <=> \E j \in Questions : UserOf(j) = ann /\ v[j].score > 0
           /\ HasScore(c, FALSE) <=> \E j \in Questions : UserOf(j) = bob /\ v[j].score > 0
<1>1. c \in Procs /\ tx[c].mine = g1 /\ game[g1].firstPlayerId = ann /\ CronTurn(tx[c])
  <2>1. c \in Procs /\ Owns(tx[c]) /\ LastOf(g1, ann) \in Key
    BY QuestionCount DEF Procs, Owns, Playing, Questions
  <2> QED BY <2>1, NoBonusSeen DEF TurnInv, Turn, Board
<1> PICK e : e = tx[c].ents
  OBVIOUS
<1>2. \A k \in Key : e[k] = View(tx[c], k) /\ v[k] = View(tx[c], k)
  BY <1>1 DEF CronTurn, ViewOf
<1>3. Present(e) = Questions
  <2>1. \A k \in Key : View(tx[c], k).answerStatus # "absent" <=> progress[k].answerStatus # "absent"
    BY <1>1 DEF PInv, Hand, GoodView, View, Owns, Playing
  <2> QED BY <1>2, <2>1 DEF TurnInv, Board, Present
<1>4. CountAnswers(e) = Last
  BY <1>3, QuestionCount, GameConstants DEF CountAnswers
<1>5. \A k : /\ (IsFirst(c, k) = TRUE) <=> UserOf(k) = ann
             /\ (IsFirst(c, k) = FALSE) <=> UserOf(k) # ann
  BY <1>1 DEF IsFirst
<1>6. ASSUME NEW u \in Players PROVE \A k \in Questions :
                         NumberOf(k) = Last /\ UserOf(k) = u <=> k = LastOf(g1, u)
  <2>1. NumberOf(LastOf(g1, u)) = Last /\ UserOf(LastOf(g1, u)) = u
    BY DEF NumberOf, UserOf, LastOf
  <2>2. \A k \in Questions : k = <<g1, UserOf(k), NumberOf(k)>>
    BY QuestionCount
  <2> QED BY <2>1, <2>2 DEF LastOf
<1>7. /\ \A k \in Questions : UserOf(k) \in Players
      /\ LastOf(g1, ann) \in Questions /\ LastOf(g1, bob) \in Questions
      /\ ann \in Players /\ bob \in Players /\ ann # bob
  BY QuestionCount DEF Questions, Players, OneGame
<1>8. \A k : /\ k \in LastAnswers(c, TRUE) <=> k \in Questions /\ NumberOf(k) = Last /\ UserOf(k) = ann
             /\ k \in LastAnswers(c, FALSE) <=> k \in Questions /\ NumberOf(k) = Last /\ UserOf(k) # ann
  <2> TAKE k
  <2>1. \A first : k \in LastAnswers(c, first) <=>
                      k \in Questions /\ NumberOf(k) = Last /\ IsFirst(c, k) = first
    BY <1>3, <1>4 DEF LastAnswers
  <2> QED BY <1>5, <2>1
<1>9. LastAnswers(c, TRUE) = {LastOf(g1, ann)}
  <2>1. \A k \in Questions : NumberOf(k) = Last /\ UserOf(k) = ann <=> k = LastOf(g1, ann)
    BY <1>6, <1>7
  <2>2. ASSUME NEW k PROVE k \in LastAnswers(c, TRUE) <=> k = LastOf(g1, ann)
    BY <1>7, <1>8, <2>1
  <2> QED BY <2>2
<1>10. LastAnswers(c, FALSE) = {LastOf(g1, bob)}
  <2>1. \A k \in Questions : NumberOf(k) = Last /\ UserOf(k) = bob <=> k = LastOf(g1, bob)
    BY <1>6, <1>7
  <2>2. ASSUME NEW k PROVE k \in LastAnswers(c, FALSE) <=> k = LastOf(g1, bob)
    <3>1. \A j \in Questions : UserOf(j) # ann <=> UserOf(j) = bob
      BY <1>7 DEF Players
    <3> QED BY <1>7, <1>8, <2>1, <3>1
  <2> QED BY <2>2
<1>11. LastAnswer(c, TRUE) = {LastOf(g1, ann)} /\ LastAnswer(c, FALSE) = {LastOf(g1, bob)}
  BY <1>9, <1>10 DEF LastAnswer
<1>12. LastOf(g1, ann) # None /\ LastOf(g1, bob) # None
  BY <1>7, NullIsNoRow DEF Questions
<1>13. FinishedFirst(c, LastOf(g1, ann), LastOf(g1, bob)) <=> FasterIn(v) = ann
  BY <1>2, <1>7, <1>12 DEF FinishedFirst, AddedAt, FasterIn, Questions
<1>14. /\ HasScore(c, TRUE) <=> \E j \in Questions : UserOf(j) = ann /\ v[j].score > 0
       /\ HasScore(c, FALSE) <=> \E j \in Questions : UserOf(j) = bob /\ v[j].score > 0
  <2>1. \A k \in Questions : e[k] = v[k] /\ (UserOf(k) # ann <=> UserOf(k) = bob)
    BY <1>2, <1>7 DEF Questions, Players
  <2>2. HasScore(c, TRUE) <=> \E j \in Questions : UserOf(j) = ann /\ v[j].score > 0
    <3>1. HasScore(c, TRUE) <=> \E j \in Questions : IsFirst(c, j) = TRUE /\ e[j].score > 0
      BY <1>3 DEF HasScore
    <3>2. \A j \in Questions : IsFirst(c, j) = TRUE /\ e[j].score > 0
                               <=> UserOf(j) = ann /\ v[j].score > 0
      BY <1>5, <2>1
    <3> QED BY <3>1, <3>2, Zenon
  <2>3. HasScore(c, FALSE) <=> \E j \in Questions : UserOf(j) = bob /\ v[j].score > 0
    <3>1. HasScore(c, FALSE) <=> \E j \in Questions : IsFirst(c, j) = FALSE /\ e[j].score > 0
      BY <1>3 DEF HasScore
    <3>2. \A j \in Questions : IsFirst(c, j) = FALSE /\ e[j].score > 0
                               <=> UserOf(j) = bob /\ v[j].score > 0
      BY <1>5, <2>1
    <3> QED BY <3>1, <3>2, Zenon
  <2> QED BY <2>2, <2>3
<1> QED BY <1>2, <1>11, <1>13, <1>14

\* The bonus goes where BonusToFastest wants it.
LEMMA AddBonusTurns ==
    ASSUME OneGame, IInv, PInv, TurnInv, NEW p \in Procs, AddBonusPoint(p)
    PROVE  TurnInv'
<1>1. p \in Crons /\ p \notin Workers /\ tx[p] \in Tx /\ CronTurn(tx[p]) /\ tx[p].pc = "addBonus"
  BY GameConstants DEF Procs, IInv, TypeOK, TurnInv, Turn, WorkerTurn, AddBonusPoint
<1>2. Owns(tx[p]) /\ Local(p, tx[p]) /\ tx[p].draft.status = "Finished"
  BY <1>1 DEF Owns, Playing, IInv, Local, Finishing
<1> PICK v : v = ViewOf(tx[p])
  OBVIOUS
<1> PICK win : win = FasterIn(v)
  OBVIOUS
<1> PICK k : k = LastOf(g1, win)
  OBVIOUS
<1>3. k \in Questions /\ k \in Key
  BY QuestionCount DEF FasterIn, Questions
<1>4. \A j \in Key : tx[p].rows[j].bonus_score = 0 /\ View(tx[p], j).bonus_score = 0
  BY <1>1, <1>2, NoBonusSeen DEF CronTurn, NoBonus
<1> PICK e : e = [NoRows EXCEPT ![k] = [Seen(p, k) EXCEPT !.bonus_score = @ + 1]]
  OBVIOUS
<1> PICK r, s : /\ r = [tx[p] EXCEPT !.pc = "saveBonus", !.at = k, !.ents = e]
                /\ s = [tx[p] EXCEPT !.pc = "commit"]
  OBVIOUS
<1>5. /\ r.pc = "saveBonus" /\ r.at = k /\ r.ents = e /\ r.rows = tx[p].rows /\ r.user = tx[p].user
      /\ r.draft = tx[p].draft /\ r.queue = tx[p].queue
      /\ s.pc = "commit" /\ s.rows = tx[p].rows /\ s.draft = tx[p].draft /\ s.queue = tx[p].queue
      /\ s.user = tx[p].user
  BY <1>1 DEF Tx
<1>6. \A j : View(r, j) = View(tx[p], j) /\ View(s, j) = View(tx[p], j)
  BY <1>5 DEF View
<1>7. ViewOf(r) = v /\ ViewOf(s) = v
  BY <1>6 DEF ViewOf
<1>8. e[k].bonus_score = 1
  <2>1. Seen(p, k) \in ProgressRow /\ Seen(p, k).bonus_score = 0
    BY <1>1, <1>3, <1>4 DEF Seen, View, Tx, IInv, TypeOK
  <2>2. [Seen(p, k) EXCEPT !.bonus_score = @ + 1].bonus_score = 1
    BY <2>1 DEF ProgressRow
  <2> QED BY <1>3, <2>2 DEF NoRows
<1>9. AllAnswered(r) /\ AllAnswered(s) /\ NoBonus(r)
  BY <1>1, <1>5, <1>6 DEF CronTurn, AllAnswered, NoBonus
<1>10. CASE BonusIn(v, k) = 1 /\ Step(p, r)
  <2>1. Turn(p, r)
    BY <1>1, <1>2, <1>5, <1>7, <1>8, <1>9, <1>10 DEF Turn, CronTurn, Closing, Rewarding
  <2> QED BY <2>1, <1>10, TurnStep DEF AddBonusPoint
<1>11. CASE (\A j \in Key : BonusIn(v, j) = 0) /\ Step(p, s)
  <2>1. \A j \in Key : View(s, j).bonus_score = BonusIn(ViewOf(s), j)
    BY <1>4, <1>6, <1>7, <1>11
  <2>2. Turn(p, s)
    BY <1>1, <1>2, <1>5, <1>9, <2>1 DEF Turn, CronTurn, Closing, Rewarding
  <2> QED BY <2>2, <1>11, TurnStep DEF AddBonusPoint
<1>12. \/ BonusIn(v, k) = 1 /\ Step(p, r)
       \/ (\A j \in Key : BonusIn(v, j) = 0) /\ Step(p, s)
  <2> PICK first : first = FinishedFirst(p, LastOf(g1, ann), LastOf(g1, bob))
    OBVIOUS
  <2>1. /\ LastAnswer(p, TRUE) = {LastOf(g1, ann)} /\ LastAnswer(p, FALSE) = {LastOf(g1, bob)}
        /\ first <=> win = ann
        /\ HasScore(p, TRUE) <=> \E j \in Questions : UserOf(j) = ann /\ v[j].score > 0
        /\ HasScore(p, FALSE) <=> \E j \in Questions : UserOf(j) = bob /\ v[j].score > 0
    BY <1>1, LastAnswersKnown
  <2>2. IF HasScore(p, first)
        THEN \E j \in FindById(p, IF first THEN LastOf(g1, ann) ELSE LastOf(g1, bob)) :
                Step(p, [tx[p] EXCEPT !.pc = "saveBonus", !.at = j,
                           !.ents = [NoRows EXCEPT ![j] =
                                        [Seen(p, j) EXCEPT !.bonus_score = @ + 1]]])
        ELSE Step(p, s)
    BY <2>1 DEF AddBonusPoint
  <2>3. k = IF first THEN LastOf(g1, ann) ELSE LastOf(g1, bob)
    BY <2>1 DEF FasterIn
  <2>4. FindById(p, k) = {k}
    BY <1>3, NullIsNoRow DEF FindById
  <2>5. IF HasScore(p, first) THEN Step(p, r) ELSE Step(p, s)
    BY <2>2, <2>3, <2>4
  <2>6. HasScore(p, first) <=> \E j \in Questions : UserOf(j) = win /\ v[j].score > 0
    <3>1. CASE win = ann
      <4>1. first = TRUE
        BY <2>1, <3>1 DEF FinishedFirst
      <4> QED BY <2>1, <3>1, <4>1
    <3>2. CASE win # ann
      <4>1. first = FALSE /\ win = bob
        BY <2>1, <3>2 DEF FinishedFirst, FasterIn
      <4> QED BY <2>1, <4>1
    <3> QED BY <3>1, <3>2
  <2>7. CASE HasScore(p, first)
    BY <2>5, <2>6, <2>7 DEF BonusIn
  <2>8. CASE ~HasScore(p, first)
    BY <2>5, <2>6, <2>8 DEF BonusIn
  <2> QED BY <2>7, <2>8
<1> QED BY <1>10, <1>11, <1>12

LEMMA CronLoadTurns ==
    ASSUME OneGame, IInv, TurnInv, NEW c \in Crons,
           SaveLoad(c, "saveClosed", "writeClosed") \/ SaveLoad(c, "saveBonus", "writeBonus")
    PROVE  TurnInv'
<1>1. c \in Procs /\ c \notin Workers /\ tx[c] \in Tx /\ CronTurn(tx[c])
  BY GameConstants DEF Procs, IInv, TypeOK, TurnInv, Turn
<1> PICK from, to : /\ SaveLoad(c, from, to)
                    /\ \/ from = "saveClosed" /\ to = "writeClosed"
                       \/ from = "saveBonus" /\ to = "writeBonus"
  OBVIOUS
<1> PICK cols : Step(c, [tx[c] EXCEPT !.pc = to, !.cols = cols])
  BY DEF SaveLoad
<1> PICK r : r = [tx[c] EXCEPT !.pc = to, !.cols = cols]
  OBVIOUS
<1>2. Step(c, r) /\ tx[c].pc = from /\ UNCHANGED <<game, progress>>
  BY DEF SaveLoad
<1>3. /\ r.pc = to /\ r.at = tx[c].at /\ r.ents = tx[c].ents /\ r.rows = tx[c].rows
      /\ r.draft = tx[c].draft /\ r.user = tx[c].user /\ r.queue = tx[c].queue
  BY <1>1 DEF Tx
<1>4. \A k : View(r, k) = View(tx[c], k)
  BY <1>3 DEF View
<1>5. ViewOf(r) = ViewOf(tx[c]) /\ (AllAnswered(r) <=> AllAnswered(tx[c])) /\ NoBonus(r)
  BY <1>1, <1>2, <1>3, <1>4 DEF ViewOf, AllAnswered, NoBonus, CronTurn
<1>6. Turn(c, r)
  BY <1>1, <1>2, <1>3, <1>5 DEF Turn, CronTurn, Closing, Rewarding
<1> QED BY <1>1, <1>2, <1>6, TurnStep

LEMMA WriteClosedTurns ==
    ASSUME OneGame, IInv, PInv, TurnInv, NEW c \in Crons, SaveUpdate(c, "writeClosed", "closeRows")
    PROVE  TurnInv'
<1>1. /\ c \in Procs /\ c \notin Workers /\ tx[c] \in Tx /\ CronTurn(tx[c])
      /\ tx[c].pc = "writeClosed" /\ Owns(tx[c])
  BY GameConstants DEF Procs, IInv, TypeOK, TurnInv, Turn, SaveUpdate, Owns, Playing, Saves, Writes
<1> PICK k : k = tx[c].at
  OBVIOUS
<1>2. PICK r : /\ Quiet(c, r) /\ r.pc = "closeRows" /\ r.user = tx[c].user
               /\ r.draft = tx[c].draft /\ r.queue = tx[c].queue
               /\ r.rows[k] \in {tx[c].rows[k], tx[c].ents[k]}
               /\ \A j \in Key \ {k} : r.rows[j] = tx[c].rows[j]
  BY <1>1, SavedRows DEF UpdatePC
<1>3. k \in Key /\ tx[c].ents[k].bonus_score = 0 /\ NoBonus(tx[c])
  BY <1>1 DEF PInv, Hand, CronTurn, Saves, Writes, Closing, Rewarding
<1>4. NoBonus(r)
  BY <1>2, <1>3 DEF NoBonus
<1>5. Turn(c, r)
  BY <1>1, <1>2, <1>4 DEF Turn, CronTurn, Closing, Rewarding
<1> QED BY <1>1, <1>2, <1>5, TurnStep DEF Quiet

\* Saving the bonus changes no answer, so the row that was chosen is still the one.
LEMMA WriteBonusTurns ==
    ASSUME OneGame, IInv, PInv, TurnInv, NEW c \in Crons, SaveUpdate(c, "writeBonus", "commit")
    PROVE  TurnInv'
<1>1. /\ c \in Procs /\ c \notin Workers /\ tx[c] \in Tx /\ CronTurn(tx[c])
      /\ tx[c].pc = "writeBonus" /\ Owns(tx[c]) /\ Hand(c, tx[c])
  BY GameConstants DEF Procs, IInv, TypeOK, TurnInv, Turn, SaveUpdate, Owns, Playing, Saves,
                       Writes, PInv
<1> PICK k, v : k = tx[c].at /\ v = ViewOf(tx[c])
  OBVIOUS
<1>2. PICK r : /\ Quiet(c, r) /\ r.pc = "commit" /\ r.user = tx[c].user
               /\ r.draft = tx[c].draft /\ r.queue = tx[c].queue
               /\ View(r, k) = tx[c].ents[k]
               /\ \A j \in Key \ {k} : View(r, j) = View(tx[c], j)
  BY <1>1, SavedRows DEF UpdatePC
<1>3. /\ BonusIn(v, k) = 1 /\ tx[c].ents[k].bonus_score = 1 /\ NoBonus(tx[c])
      /\ AllAnswered(tx[c]) /\ tx[c].draft.status = "Finished"
  BY <1>1 DEF CronTurn, Rewarding
<1>4. k = LastOf(g1, FasterIn(v)) /\ k \in Questions /\ k \in Key
  <2>1. k = LastOf(g1, FasterIn(v))
    BY <1>3 DEF BonusIn
  <2> QED BY <2>1, QuestionCount DEF FasterIn, Questions
<1>5. SameAnswer(tx[c].ents[k], View(tx[c], k))
  <2>1. View(tx[c], k).answerStatus \in Answered
    BY <1>3, <1>4 DEF AllAnswered
  <2>2. GoodSave(tx[c])
    BY <1>1 DEF Hand, Saves, Writes
  <2> QED BY <2>1, <2>2 DEF GoodSave, Answered
<1>6. \A j \in Key : SameAnswer(View(r, j), View(tx[c], j))
  BY <1>2, <1>5 DEF SameAnswer
<1>7. \A j \in Key : ViewOf(r)[j].addedAt = v[j].addedAt /\ ViewOf(r)[j].score = v[j].score
  BY <1>6 DEF SameAnswer, ViewOf
<1>8. FasterIn(ViewOf(r)) = FasterIn(v)
  BY <1>7, QuestionCount DEF FasterIn, Questions
<1>9. \A j \in Key : BonusIn(ViewOf(r), j) = BonusIn(v, j)
  BY <1>7, <1>8 DEF BonusIn, Questions
<1>10. ASSUME NEW j \in Key PROVE View(r, j).bonus_score = BonusIn(ViewOf(r), j)
  <2>1. CASE j = k
    BY <1>2, <1>3, <1>9, <2>1
  <2>2. CASE j # k
    <3>1. BonusIn(v, j) = 0
      BY <1>4, <2>2 DEF BonusIn
    <3>2. View(tx[c], j).bonus_score = 0
      BY <1>1, <1>3, NoBonusSeen DEF NoBonus
    <3> QED BY <1>2, <1>9, <2>2, <3>1, <3>2
  <2> QED BY <2>1, <2>2
<1>11. AllAnswered(r)
  BY <1>3, <1>6 DEF AllAnswered, SameAnswer, Questions
<1>12. Turn(c, r)
  BY <1>1, <1>2, <1>3, <1>10, <1>11 DEF Turn, CronTurn, Closing, Rewarding
<1> QED BY <1>1, <1>2, <1>12, TurnStep DEF Quiet

(***************************************************************************)
(* Commits                                                                 *)
(***************************************************************************)
\* What everybody has in hand survives a commit of p.
LEMMA OthersTurns ==
    ASSUME OneGame, IInv, PInv, OneOpenGame, TurnInv, NEW p \in Procs, Commit(p),
           Owns(tx[p]), Hand(p, tx[p])
    PROVE  \A q \in Procs : Turn(q, tx[q])'
<1>1. tx'[p] = Resume(p) /\ \A q \in Procs \ {p} : tx'[q] = tx[q]
  BY DEF Commit, Step, IInv, TypeOK
<1>2. \A k \in Key : progress[k].answerStatus \in Answered => progress'[k].answerStatus \in Answered
  <2>1. \A k \in Key : progress'[k] = View(tx[p], k) /\ GoodView(tx[p], k)
    BY DEF Commit, Seen, View, Hand
  <2>2. \A k \in Key : progress[k].answerStatus \in Answered => View(tx[p], k).answerStatus # "absent"
    BY DEF View, Answered
  <2> QED BY <2>1, <2>2 DEF GoodView, SameAnswer
<1> SUFFICES ASSUME NEW q \in Procs PROVE Turn(q, tx[q])'
  OBVIOUS
<1>3. CASE q = p
  <2>1. Turn(p, Resume(p))
    BY ResumeTurns
  <2>2. Resume(p).pc \in {"idle", "nextGame"}
    BY DEF Resume, Idle, Waiting
  <2>3. ~Owns(Resume(p))
    BY <2>2 DEF Owns, Playing, Saves, Writes
  <2> QED BY <1>1, <1>2, <1>3, <2>1, <2>3, TurnFrame
<1>4. CASE q # p
  <2>1. tx'[q] = tx[q] /\ Turn(q, tx[q])
    BY <1>1, <1>4 DEF TurnInv
  <2>2. Owns(tx[q]) => progress' = progress
    BY <1>4, CommitAlone
  <2> QED BY <1>2, <2>1, <2>2, TurnFrame
<1> QED BY <1>3, <1>4

LEMMA CommitTurns ==
    ASSUME OneGame, IInv, PInv, OneOpenGame, TurnInv, NEW p \in Procs, Commit(p)
    PROVE  TurnInv'
<1>1. /\ tx[p].pc = "commit" /\ tx[p].draft.status \in {"absent", "Finished"} /\ DraftIsFresh(p, tx[p])
      /\ p \in Workers => WorkerTurn(tx[p]) /\ tx[p].draft.status = "absent"
      /\ p \in Crons => CronTurn(tx[p]) /\ tx[p].draft.status = "Finished"
  BY CommitWrites DEF Commit, Procs, TurnInv, Turn, WorkerTurn, CronTurn, Local
<1>2. Owns(tx[p]) /\ Hand(p, tx[p]) /\ LastOf(g1, ann) \in Key /\ LastOf(g1, bob) \in Key
  BY <1>1, QuestionCount DEF Owns, PInv, Questions
<1>3. tx[p].mine = g1 /\ game[g1].status = "Active"
  BY <1>2, NoBonusSeen
<1> PICK v : v = ViewOf(tx[p])
  OBVIOUS
<1>4. \A k \in Key : progress'[k] = v[k] /\ v[k] = View(tx[p], k)
  BY DEF Commit, Seen, View, ViewOf
<1>5. Present(progress)' = Questions
  BY <1>1, CommitWrites DEF TurnInv, Board
<1>6. \A q \in Procs : Turn(q, tx[q])'
  BY <1>2, OthersTurns
<1>7. CASE p \in Workers
  <2>1. game' = game
    BY <1>1, <1>7, CommitWrites
  <2>2. \A k \in Key : progress'[k].bonus_score = 0
    BY <1>1, <1>2, <1>4, <1>7, NoBonusSeen DEF WorkerTurn, NoBonus
  <2>3. \A k \in Key : GameOf(k) = g1
    BY DEF OneGame, Key, GameOf
  <2>4. Board'
    BY <1>5, <2>1, <2>2 DEF TurnInv, Board
  <2>5. FinishedGameIsAnswered' /\ BonusToFastest'
    BY <1>3, <2>1, <2>2, <2>3 DEF FinishedGameIsAnswered, BonusToFastest, Bonus, Present
  <2> QED BY <1>6, <2>4, <2>5 DEF TurnInv
<1>8. CASE p \in Crons
  <2>1. game'[g1] = FinishGame(g1) /\ game[g1] \in PairQuizGameRow
    BY <1>1, <1>3, <1>8, CommitWrites DEF DraftIsFresh, OneGame, IInv, TypeOK
  <2>2. /\ game'[g1].status = "Finished" /\ game'[g1].firstPlayerId = ann
        /\ game'[g1].secondPlayerId = bob
    BY <2>1 DEF FinishGame, PairQuizGameRow, TurnInv, Board
  <2>3. Board'
    BY <1>5, <2>2 DEF Board
  <2>4. FinishedGameIsAnswered'
    BY <1>1, <1>4, <1>5, <1>8 DEF FinishedGameIsAnswered, CronTurn, AllAnswered, Questions
  <2>5. BonusToFastest'
    <3> SUFFICES ASSUME NEW k \in Questions PROVE progress'[k].bonus_score = Bonus(k)'
      BY <1>5 DEF BonusToFastest
    <3>1. k \in Key /\ GameOf(k) = g1
      BY DEF Questions, OneGame, Key, GameOf
    <3>2. Fastest(g1)' = FasterIn(v)
      BY <1>2, <1>4, <2>2 DEF Fastest, FasterIn
    <3>3. \A j \in Questions : GameOf(j) = g1 /\ progress'[j].score = v[j].score
      BY <1>4 DEF Questions, OneGame, Key, GameOf
    <3>4. Bonus(k)' = BonusIn(v, k)
      BY <1>5, <2>2, <3>1, <3>2, <3>3 DEF Bonus, BonusIn
    <3> QED BY <1>1, <1>4, <1>8, <3>1, <3>4 DEF CronTurn
  <2> QED BY <1>6, <2>3, <2>4, <2>5 DEF TurnInv
<1> QED BY <1>7, <1>8 DEF Procs

(***************************************************************************)
(* Every step of a game played out                                         *)
(***************************************************************************)
LEMMA WorkerTurns ==
    ASSUME OneGame, IInv, PInv, OneOpenGame, TurnInv, NEW w \in Workers, WorkerStep(w)
    PROVE  TurnInv'
<1>1. w \in Procs /\ WorkerTurn(tx[w])
  BY DEF Procs, TurnInv, Turn
<1>2. CASE GameNotFound(w) \/ QuestionNotFound(w)
  BY <1>1, <1>2, RollbackTurns DEF GameNotFound, QuestionNotFound
<1>3. ~(FindGamePending(w) \/ CreateNewGame(w) \/ JoinGame(w) \/ AddQuestionsForGame(w))
  BY <1>1 DEF FindGamePending, CreateNewGame, JoinGame, AddQuestionsForGame, WorkerTurn, Locked
<1> QED BY <1>1, <1>2, <1>3, LockRowTurns, AnswerQuestionTurns, ReviewGameTurns, AddBonusTurns,
           AnswerSaveTurns, CommitTurns DEF WorkerStep

LEMMA CronTurns ==
    ASSUME OneGame, IInv, PInv, OneOpenGame, TurnInv, NEW c \in Crons, CronStep(c)
    PROVE  TurnInv'
<1>1. c \in Procs /\ c \notin Workers /\ CronTurn(tx[c])
  BY GameConstants DEF Procs, TurnInv, Turn
<1>2. CASE FailedToComplete(c)
  BY <1>1, <1>2, RollbackTurns DEF FailedToComplete
<1>3. CASE SaveStep(c)
  <2>1. ~(SaveLoad(c, "saveAnswer", "writeAnswer") \/ SaveUpdate(c, "writeAnswer", "review"))
    BY <1>1 DEF SaveLoad, SaveUpdate, CronTurn, Closing, Rewarding
  <2> QED BY <1>3, <2>1, CronLoadTurns, WriteClosedTurns, WriteBonusTurns DEF SaveStep
<1> QED BY <1>1, <1>2, <1>3, LoopTurns, LockRowTurns, CompleteGameTurns, CloseRowTurns,
           RowsClosedTurns, AddBonusTurns, CommitTurns DEF CronStep

LEMMA NothingTurns ==
    ASSUME OneGame, TurnInv, UNCHANGED <<game, progress, tx>>
    PROVE  TurnInv'
<1>1. Board' /\ FinishedGameIsAnswered' /\ BonusToFastest'
  BY DEF TurnInv, Board, FinishedGameIsAnswered, BonusToFastest, Bonus, Fastest, Present
<1>2. ASSUME NEW q \in Procs PROVE Turn(q, tx[q])'
  <2>1. Turn(q, tx[q]) /\ tx'[q] = tx[q]
    BY DEF TurnInv
  <2> QED BY <2>1, TurnFrame
<1> QED BY <1>1, <1>2 DEF TurnInv

LEMMA PlayNextTurns ==
    ASSUME OneGame
    PROVE  IInv /\ PInv /\ TurnInv /\ [PlayNext]_vars => IInv' /\ PInv' /\ TurnInv'
<1> SUFFICES ASSUME IInv, PInv, TurnInv, [PlayNext]_vars
             PROVE  IInv' /\ PInv' /\ TurnInv'
  OBVIOUS
<1>1. OneOpenGame /\ [Next]_vars
  BY DEF OneGame, OneOpenGame, PlayNext, Next
<1>2. ASSUME Tick \/ UNCHANGED vars PROVE TurnInv'
  BY <1>2, NothingTurns DEF Tick, vars
<1>3. ASSUME NEW p \in Procs, Fail(p) PROVE TurnInv'
  BY <1>3, RollbackTurns DEF Fail
<1>4. TurnInv'
  BY <1>1, <1>2, <1>3, AnswerTurns, WorkerTurns, CronTurns DEF PlayNext
<1> QED BY <1>1, <1>4, NextKeeps, NextPlays

LEMMA OneGameTurns ==
    ASSUME OneGame, OneGameInit
    PROVE  IInv /\ PInv /\ TurnInv
<1>1. /\ game = [g \in GameIds |-> Paired(ann, bob)] /\ progress = Deal(game) /\ clock = 1
      /\ locks = [g \in GameIds |-> None] /\ tx = [p \in Procs |-> Idle]
  BY DEF OneGameInit, Tables
<1>2. /\ g1 \in GameIds /\ \A g \in GameIds : g = g1
      /\ game[g1].firstPlayerId = ann /\ game[g1].secondPlayerId = bob
      /\ game[g1].status = "Active" /\ game[g1] \in PairQuizGameRow
  BY <1>1 DEF OneGame, Paired, PairQuizGameRow
<1>3. \A k \in Key : progress[k] = IF k \in Questions THEN NewRow ELSE NoRow
  BY <1>1, <1>2 DEF Deal, Questions, Players, Key, GameOf
<1>4. /\ NewRow.answerStatus = "unanswered" /\ NewRow.addedAt = 0 /\ NewRow.score = 0
      /\ NewRow.bonus_score = 0 /\ NoRow.answerStatus = "absent" /\ NoRow.bonus_score = 0
  BY DEF NewRow, NoRow
<1>5. Present(progress) = Questions /\ \A k \in Questions : progress[k] = NewRow
  BY <1>3, <1>4 DEF Present, Questions
<1>6. IInv
  <2>1. TypeOK
    BY <1>1, <1>2, <1>3, InitialValues, GameConstants DEF TypeOK, Deal, Procs
  <2>2. \A p \in Procs : Local(p, tx[p])
    BY <1>1, RestingIsLocal
  <2> QED BY <1>2, <2>1, <2>2 DEF IInv, AbsentIsNoGame
<1>7. PInv
  <2>1. Dealt /\ RowsAreSound /\ AnswersInOrder
    BY <1>2, <1>4, <1>5 DEF Dealt, RowsAreSound, Scored, AnswersInOrder, Answered, Questions, Key,
                            GameOf
  <2>2. \A p \in Procs : ~Owns(tx[p])
    BY <1>1 DEF Owns, Playing, Saves, Writes, Idle
  <2> QED BY <2>1, <2>2 DEF PInv
<1>8. TurnInv
  <2>1. Board
    BY <1>2, <1>3, <1>4, <1>5 DEF Board
  <2>2. FinishedGameIsAnswered /\ BonusToFastest
    BY <1>2, <1>4, <1>5 DEF FinishedGameIsAnswered, BonusToFastest, Bonus, Questions, Key, GameOf
  <2>3. \A p \in Procs : Turn(p, tx[p])
    BY <1>1, IdleTurns
  <2> QED BY <2>1, <2>2, <2>3 DEF TurnInv
<1> QED BY <1>6, <1>7, <1>8

\* A game played out by two players, with any number of questions, requests, overlapping
\* cron runs and failing statements: when it is over nobody has a question left, although
\* the job that ends it for one player closes the questions of the other.
THEOREM GameIsAnswered ==
    ASSUME OneGame
    PROVE  OneGameSpec => []FinishedGameIsAnswered
<1>1. OneGameInit => IInv /\ PInv /\ TurnInv
  BY OneGameTurns
<1>2. IInv /\ PInv /\ TurnInv /\ [PlayNext]_vars => IInv' /\ PInv' /\ TurnInv'
  BY PlayNextTurns
<1>3. TurnInv => FinishedGameIsAnswered
  BY DEF TurnInv
<1> QED BY <1>1, <1>2, <1>3, PTL DEF OneGameSpec

\* In such a game the bonus is one point, for the last answer of the player who was first
\* to give it, if he scored at all; no other row ever holds one.
THEOREM BonusIsFair ==
    ASSUME OneGame
    PROVE  OneGameSpec => []BonusToFastest
<1>1. OneGameInit => IInv /\ PInv /\ TurnInv
  BY OneGameTurns
<1>2. IInv /\ PInv /\ TurnInv /\ [PlayNext]_vars => IInv' /\ PInv' /\ TurnInv'
  BY PlayNextTurns
<1>3. TurnInv => BonusToFastest
  BY DEF TurnInv
<1> QED BY <1>1, <1>2, <1>3, PTL DEF OneGameSpec

(***************************************************************************)
(* One bonus point for each game that has ended, in any number of games    *)
(***************************************************************************)
\* f says of each finished game which point it has brought, as a row and a number: all
\* points up to v in row k come from finished games.
Paid(f, k, v) == \A i \in 1..v : \E g \in GameIds : game[g].status = "Finished" /\ f[g] = <<k, i>>

\* The transaction with record r ends a game and may have added its point to row k.
Rewards(r, k) ==
    r.pc \in {"saveBonus", "writeBonus", "commit"} /\ r.draft.status = "Finished" /\ r.at = k
PaidBefore(f, r, k, v) == Paid(f, k, IF Rewards(r, k) THEN v - 1 ELSE v)
PaysFor(f, r) ==
    \A k \in Key : PaidBefore(f, r, k, r.ents[k].bonus_score) /\ PaidBefore(f, r, k, r.rows[k].bonus_score)

\* Rows are saved from entities read long before, by transactions that have locked other
\* games: so points may be lost and come back, but every one that is in a table or in hand
\* was paid by a game.
PaidUp(f) ==
    /\ \A k \in Key : Paid(f, k, progress[k].bonus_score)
    /\ \A p \in Procs : PaysFor(f, tx[p])

LEMMA PaidLess ==
    ASSUME NEW f, NEW k, NEW v \in Int, NEW u \in Int, u <= v, Paid(f, k, v)
    PROVE  Paid(f, k, u)
<1>1. \A i \in 1..u : i \in 1..v
  OBVIOUS
<1> QED BY <1>1 DEF Paid

LEMMA BonusTypes ==
    ASSUME IInv
    PROVE  /\ \A k \in Key : progress[k].bonus_score \in Nat
           /\ \A p \in Procs : /\ tx[p] \in Tx
                               /\ \A k \in Key : /\ tx[p].ents[k].bonus_score \in Nat
                                                 /\ tx[p].rows[k].bonus_score \in Nat
                                                 /\ Seen(p, k).bonus_score \in Nat
  BY DEF IInv, TypeOK, Tx, ProgressRow, Seen

LEMMA NoPoints ==
    ASSUME NEW f, NEW r, \A k \in Key : r.ents[k].bonus_score = 0 /\ r.rows[k].bonus_score = 0
    PROVE  PaysFor(f, r)
<1>1. \A k \in Key : Paid(f, k, 0) /\ Paid(f, k, 0 - 1)
  BY DEF Paid
<1> QED BY <1>1 DEF PaysFor, PaidBefore

LEMMA RestingPays ==
    ASSUME NEW f, NEW Q, NEW r \in {Idle, Waiting(Q)}
    PROVE  PaysFor(f, r)
<1>1. Idle.ents = NoRows /\ Idle.rows = NoRows
  BY DEF Idle
<1>2. Waiting(Q).ents = NoRows /\ Waiting(Q).rows = NoRows
  BY <1>1 DEF Idle, Waiting
<1> QED BY <1>1, <1>2, NoPoints DEF NoRows, NoRow

\* A step of p that leaves the tables alone.
LEMMA BonusStep ==
    ASSUME IInv, NEW f, PaidUp(f), NEW p \in Procs, NEW r, Step(p, r), UNCHANGED <<game, progress>>,
           PaysFor(f, r)
    PROVE  PaidUp(f)'
<1>1. tx'[p] = r /\ \A q \in Procs \ {p} : tx'[q] = tx[q]
  BY DEF IInv, TypeOK, Step
<1>2. \A k, v : Paid(f, k, v)' <=> Paid(f, k, v)
  BY DEF Paid
<1>3. ASSUME NEW q \in Procs PROVE PaysFor(f, tx[q])'
  <2> PICK s : s = tx'[q]
    OBVIOUS
  <2>1. PaysFor(f, s)
    BY <1>1 DEF PaidUp
  <2>2. \A k \in Key : Paid(f, k, IF Rewards(s, k) THEN s.ents[k].bonus_score - 1 ELSE s.ents[k].bonus_score)'
                       /\ Paid(f, k, IF Rewards(s, k) THEN s.rows[k].bonus_score - 1 ELSE s.rows[k].bonus_score)'
    BY <1>2, <2>1 DEF PaysFor, PaidBefore
  <2> QED BY <2>2 DEF PaysFor, PaidBefore, Rewards, Paid
<1> QED BY <1>2, <1>3 DEF PaidUp, Paid

\* It goes on with the same rows in hand, and does not turn back from the bonus.
LEMMA BonusQuiet ==
    ASSUME IInv, NEW f, PaidUp(f), NEW p \in Procs, NEW r, Step(p, r), UNCHANGED <<game, progress>>,
           r.ents = tx[p].ents, r.rows = tx[p].rows,
           tx[p].pc \in {"saveBonus", "writeBonus", "commit"} =>
               /\ r.pc \in {"saveBonus", "writeBonus", "commit"}
               /\ r.draft = tx[p].draft /\ r.at = tx[p].at
    PROVE  PaidUp(f)'
<1>1. PaysFor(f, r)
  <2> SUFFICES ASSUME NEW k \in Key
               PROVE  PaidBefore(f, r, k, r.ents[k].bonus_score) /\ PaidBefore(f, r, k, r.rows[k].bonus_score)
    BY DEF PaysFor
  <2>1. PaidBefore(f, tx[p], k, r.ents[k].bonus_score) /\ PaidBefore(f, tx[p], k, r.rows[k].bonus_score)
    BY DEF PaidUp, PaysFor
  <2>2. Rewards(tx[p], k) => Rewards(r, k)
    BY DEF Rewards
  <2>3. r.ents[k].bonus_score \in Nat /\ r.rows[k].bonus_score \in Nat
    BY BonusTypes
  <2> QED BY <2>1, <2>2, <2>3, PaidLess DEF PaidBefore
<1> QED BY <1>1, BonusStep

LEMMA BonusRollback ==
    ASSUME IInv, NEW f, PaidUp(f), NEW p \in Procs, NEW Q, NEW r \in {Idle, Waiting(Q)}, Rollback(p, r)
    PROVE  PaidUp(f)'
  BY RestingPays, BonusStep DEF Rollback

LEMMA BeginsPaid ==
    ASSUME IInv, NEW f, PaidUp(f), NEW w \in Workers, NEW u \in Users, Connect(w, u) \/ Answer(w, u)
    PROVE  PaidUp(f)'
<1> PICK r, s : /\ r = [Idle EXCEPT !.pc = "findPending", !.user = u]
                /\ s = [Idle EXCEPT !.pc = "lockMine", !.user = u, !.scan = ActiveGames(u)]
  OBVIOUS
<1>1. Idle.ents = NoRows /\ Idle.rows = NoRows
  BY DEF Idle
<1>2. r.ents = NoRows /\ r.rows = NoRows /\ s.ents = NoRows /\ s.rows = NoRows
  BY <1>1 DEF Idle
<1>3. PaysFor(f, r) /\ PaysFor(f, s)
  <2>1. \A k \in Key : NoRows[k].bonus_score = 0
    BY DEF NoRows, NoRow
  <2>2. PaysFor(f, r)
    BY <1>2, <2>1, NoPoints
  <2>3. PaysFor(f, s)
    BY <1>2, <2>1, NoPoints
  <2> QED BY <2>2, <2>3
<1>4. (Step(w, r) \/ Step(w, s)) /\ UNCHANGED <<game, progress>> /\ w \in Procs
  BY DEF Connect, Answer, Procs
<1> QED BY <1>3, <1>4, BonusStep

\* Steps that change no row in hand.
LEMMA LooksPaid ==
    ASSUME IInv, NEW f, PaidUp(f), NEW p \in Procs,
           \/ FindGamePending(p) \/ LockRow(p) \/ CreateNewGame(p) \/ JoinGame(p) \/ CompleteGame(p)
           \/ RowsClosed(p) \/ NextGame(p)
    PROVE  PaidUp(f)'
<1>0. tx[p] \in Tx
  BY DEF IInv, TypeOK
<1>1. \E r : /\ Step(p, r) /\ UNCHANGED <<game, progress>>
             /\ r.ents = tx[p].ents /\ r.rows = tx[p].rows
             /\ tx[p].pc \notin {"saveBonus", "writeBonus", "commit"}
  <2>1. CASE FindGamePending(p)
    <3> PICK r : r = [tx[p] EXCEPT !.pc = "lockPending",
                        !.scan = {g \in GameIds : game[g].status = "PendingSecondPlayer"}]
      OBVIOUS
    <3>1. r.ents = tx[p].ents /\ r.rows = tx[p].rows
      BY <1>0 DEF Tx
    <3> QED BY <2>1, <3>1 DEF FindGamePending
  <2>2. CASE LockRow(p)
    <3>1. PICK scan, found : Step(p, [tx[p] EXCEPT !.scan = scan, !.found = found])
                             /\ UNCHANGED <<game, progress>> /\ tx[p].pc \in {"lockPending", "lockMine"}
      <4>1. PICK g \in tx[p].scan :
               Step(p, [tx[p] EXCEPT !.scan = @ \ {g},
                                     !.found = IF StillMatches(p, g) THEN @ \cup {g} ELSE @])
        BY <2>2 DEF LockRow
      <4>2. Step(p, [tx[p] EXCEPT !.scan = tx[p].scan \ {g},
                        !.found = IF StillMatches(p, g) THEN tx[p].found \cup {g} ELSE tx[p].found])
        BY <1>0, <4>1 DEF Tx
      <4> QED BY <2>2, <4>2 DEF LockRow
    <3> PICK r : r = [tx[p] EXCEPT !.scan = scan, !.found = found]
      OBVIOUS
    <3>2. r.ents = tx[p].ents /\ r.rows = tx[p].rows
      BY <1>0 DEF Tx
    <3> QED BY <3>1, <3>2
  <2>3. CASE CreateNewGame(p)
    <3>1. PICK g, d : Step(p, [tx[p] EXCEPT !.pc = "commit", !.mine = g, !.draft = d])
      BY <2>3 DEF CreateNewGame
    <3> PICK r : r = [tx[p] EXCEPT !.pc = "commit", !.mine = g, !.draft = d]
      OBVIOUS
    <3>2. r.ents = tx[p].ents /\ r.rows = tx[p].rows
      BY <1>0 DEF Tx
    <3> QED BY <2>3, <3>1, <3>2 DEF CreateNewGame, Locked
  <2>4. CASE JoinGame(p)
    <3>1. PICK g, d : Step(p, [tx[p] EXCEPT !.pc = "addQuestions", !.mine = g, !.draft = d])
      BY <2>4 DEF JoinGame
    <3> PICK r : r = [tx[p] EXCEPT !.pc = "addQuestions", !.mine = g, !.draft = d]
      OBVIOUS
    <3>2. r.ents = tx[p].ents /\ r.rows = tx[p].rows
      BY <1>0 DEF Tx
    <3> QED BY <2>4, <3>1, <3>2 DEF JoinGame, Locked
  <2>5. CASE CompleteGame(p)
    <3>1. PICK g, d : Step(p, [tx[p] EXCEPT !.pc = "collect", !.mine = g, !.draft = d])
      BY <2>5 DEF CompleteGame
    <3> PICK r : r = [tx[p] EXCEPT !.pc = "collect", !.mine = g, !.draft = d]
      OBVIOUS
    <3>2. r.ents = tx[p].ents /\ r.rows = tx[p].rows
      BY <1>0 DEF Tx
    <3> QED BY <2>5, <3>1, <3>2 DEF CompleteGame, Locked
  <2>6. CASE RowsClosed(p)
    <3> PICK r : r = [tx[p] EXCEPT !.pc = "addBonus"]
      OBVIOUS
    <3>1. r.ents = tx[p].ents /\ r.rows = tx[p].rows
      BY <1>0 DEF Tx
    <3> QED BY <2>6, <3>1 DEF RowsClosed
  <2>7. CASE NextGame(p)
    <3>1. \/ \E Q : Step(p, [tx[p] EXCEPT !.queue = Q])
          \/ \E u, S, Q : Step(p, [tx[p] EXCEPT !.pc = "lockMine", !.user = u, !.scan = S, !.queue = Q])
      BY <2>7 DEF NextGame
    <3>2. ASSUME NEW Q, Step(p, [tx[p] EXCEPT !.queue = Q])
          PROVE  \E r : Step(p, r) /\ r.ents = tx[p].ents /\ r.rows = tx[p].rows
      <4> PICK r : r = [tx[p] EXCEPT !.queue = Q]
        OBVIOUS
      <4> QED BY <1>0, <3>2 DEF Tx
    <3>3. ASSUME NEW u, NEW S, NEW Q,
                 Step(p, [tx[p] EXCEPT !.pc = "lockMine", !.user = u, !.scan = S, !.queue = Q])
          PROVE  \E r : Step(p, r) /\ r.ents = tx[p].ents /\ r.rows = tx[p].rows
      <4> PICK r : r = [tx[p] EXCEPT !.pc = "lockMine", !.user = u, !.scan = S, !.queue = Q]
        OBVIOUS
      <4>1. r.ents = tx[p].ents /\ r.rows = tx[p].rows
        BY <1>0 DEF Tx
      <4> QED BY <3>3, <4>1
    <3> QED BY <2>7, <3>1, <3>2, <3>3 DEF NextGame
  <2> QED BY <2>1, <2>2, <2>3, <2>4, <2>5, <2>6, <2>7
<1> QED BY <1>1, BonusQuiet

\* The questions dealt bring no points.
LEMMA DealPaid ==
    ASSUME IInv, NEW f, PaidUp(f), NEW w \in Procs, AddQuestionsForGame(w)
    PROVE  PaidUp(f)'
<1>0. tx[w] \in Tx /\ tx[w].pc = "addQuestions"
  BY DEF IInv, TypeOK, AddQuestionsForGame
<1>1. CASE Rollback(w, Idle)
  BY <1>1, BonusRollback
<1>2. CASE ~Rollback(w, Idle)
  <2>1. PICK n : /\ Step(w, [tx[w] EXCEPT !.pc = "commit", !.rows =
                        QuestionRows(tx[w].mine, {tx[w].draft.firstPlayerId, tx[w].draft.secondPlayerId}, n)])
                 /\ UNCHANGED <<game, progress>>
    BY <1>2 DEF AddQuestionsForGame
  <2> PICK rows : rows = QuestionRows(tx[w].mine, {tx[w].draft.firstPlayerId, tx[w].draft.secondPlayerId}, n)
    OBVIOUS
  <2> PICK r : r = [tx[w] EXCEPT !.pc = "commit", !.rows = rows]
    OBVIOUS
  <2>2. r.ents = tx[w].ents /\ r.rows = rows /\ r.pc = "commit" /\ r.draft = tx[w].draft
    BY <1>0 DEF Tx
  <2>3. \A k \in Key : rows[k].bonus_score = 0
    BY DEF QuestionRows, NewRow, NoRow
  <2>4. tx[w].draft.status = "Active"
    BY <1>0 DEF IInv, Local
  <2>5. \A k \in Key : Paid(f, k, r.ents[k].bonus_score) /\ Paid(f, k, r.rows[k].bonus_score)
    <3>1. \A k \in Key : ~Rewards(tx[w], k) /\ Paid(f, k, 0)
      BY <1>0 DEF Rewards, Paid
    <3> QED BY <2>2, <2>3, <3>1 DEF PaidUp, PaysFor, PaidBefore
  <2>6. PaysFor(f, r)
    BY <2>2, <2>4, <2>5 DEF PaysFor, PaidBefore, Rewards
  <2> QED BY <2>1, <2>6, BonusStep
<1> QED BY <1>1, <1>2

\* Entities are as they were, as read from the table, or of no account.
BonusAsRead(p, r) ==
    \A k \in Key : \/ r.ents[k].bonus_score = 0
                   \/ r.ents[k].bonus_score = progress[k].bonus_score
                   \/ r.ents[k].bonus_score = tx[p].ents[k].bonus_score

LEMMA ReadsPaid ==
    ASSUME IInv, NEW f, PaidUp(f), NEW p \in Procs, NEW r, Step(p, r), UNCHANGED <<game, progress>>,
           r.rows = tx[p].rows, tx[p].pc \notin {"saveBonus", "writeBonus", "commit"},
           r.pc \notin {"saveBonus", "writeBonus"},
           BonusAsRead(p, r)
    PROVE  PaidUp(f)'
<1>1. ASSUME NEW k \in Key
      PROVE  /\ Paid(f, k, r.ents[k].bonus_score) /\ Paid(f, k, r.rows[k].bonus_score)
             /\ r.ents[k].bonus_score \in Nat /\ r.rows[k].bonus_score \in Nat
  <2>1. Paid(f, k, 0) /\ Paid(f, k, progress[k].bonus_score)
    BY DEF Paid, PaidUp
  <2>2. Paid(f, k, tx[p].ents[k].bonus_score) /\ Paid(f, k, tx[p].rows[k].bonus_score)
    BY DEF PaidUp, PaysFor, PaidBefore, Rewards
  <2> QED BY <2>1, <2>2, BonusTypes DEF BonusAsRead
<1>2. PaysFor(f, r)
  BY <1>1, PaidLess DEF PaysFor, PaidBefore
<1> QED BY <1>2, BonusStep

LEMMA AnswerPaid ==
    ASSUME IInv, NEW f, PaidUp(f), NEW w \in Procs, AnswerQuestion(w)
    PROVE  PaidUp(f)'
<1>0. tx[w] \in Tx /\ tx[w].pc = "lockMine"
  BY DEF IInv, TypeOK, AnswerQuestion, Locked
<1>1. PICK g, k, outcome : Step(w, [tx[w] EXCEPT !.pc = "saveAnswer", !.mine = g, !.at = k,
                              !.ents = [NoRows EXCEPT ![k] = AddAnswer(progress[k], outcome)]])
  BY DEF AnswerQuestion
<1> PICK ents : ents = [NoRows EXCEPT ![k] = AddAnswer(progress[k], outcome)]
  OBVIOUS
<1> PICK r : r = [tx[w] EXCEPT !.pc = "saveAnswer", !.mine = g, !.at = k, !.ents = ents]
  OBVIOUS
<1>2. r.rows = tx[w].rows /\ r.ents = ents /\ r.pc = "saveAnswer"
  BY <1>0 DEF Tx
<1>3. \A j \in Key : ents[j].bonus_score = 0 \/ ents[j].bonus_score = progress[j].bonus_score
  BY DEF NoRows, NoRow, AddAnswer
<1>4. BonusAsRead(w, r)
  BY <1>2, <1>3 DEF BonusAsRead
<1>5. Step(w, r) /\ UNCHANGED <<game, progress>>
  BY <1>1 DEF AnswerQuestion
<1> QED BY <1>0, <1>2, <1>4, <1>5, ReadsPaid

LEMMA ReviewPaid ==
    ASSUME IInv, NEW f, PaidUp(f), NEW w \in Procs, ReviewGame(w)
    PROVE  PaidUp(f)'
<1>0. tx[w] \in Tx /\ tx[w].pc = "review"
  BY DEF IInv, TypeOK, ReviewGame
<1> PICK seen, d : seen = GameProgress(tx[w].mine) /\ d = FinishGame(tx[w].mine)
  OBVIOUS
<1> PICK r, s : /\ r = [tx[w] EXCEPT !.pc = "addBonus", !.ents = seen, !.draft = d]
                /\ s = [tx[w] EXCEPT !.pc = "commit"]
  OBVIOUS
<1>1. (Step(w, r) \/ Step(w, s)) /\ UNCHANGED <<game, progress>>
  BY DEF ReviewGame
<1>2. /\ r.rows = tx[w].rows /\ r.ents = seen /\ r.pc = "addBonus"
      /\ s.rows = tx[w].rows /\ s.ents = tx[w].ents
  BY <1>0 DEF Tx
<1>3. \A j \in Key : seen[j].bonus_score = 0 \/ seen[j].bonus_score = progress[j].bonus_score
  BY DEF GameProgress, NoRow
<1>4. CASE Step(w, r)
  <2>1. BonusAsRead(w, r)
    BY <1>2, <1>3 DEF BonusAsRead
  <2> QED BY <1>0, <1>1, <1>2, <1>4, <2>1, ReadsPaid
<1>5. CASE Step(w, s)
  BY <1>0, <1>1, <1>2, <1>5, BonusQuiet
<1> QED BY <1>1, <1>4, <1>5

LEMMA CollectPaid ==
    ASSUME IInv, NEW f, PaidUp(f), NEW c \in Procs, CollectProgress(c) \/ CloseRow(c)
    PROVE  PaidUp(f)'
<1>0. tx[c] \in Tx /\ UNCHANGED <<game, progress>> /\ tx[c].pc \in {"collect", "closeRows"}
  BY DEF IInv, TypeOK, CollectProgress, CloseRow
<1>1. CASE CollectProgress(c)
  <2> PICK r : r = [tx[c] EXCEPT !.pc = "closeRows", !.ents = progress]
    OBVIOUS
  <2>1. r.rows = tx[c].rows /\ r.ents = progress /\ r.pc = "closeRows"
    BY <1>0 DEF Tx
  <2> QED BY <1>0, <1>1, <2>1, ReadsPaid DEF CollectProgress, BonusAsRead
<1>2. CASE CloseRow(c)
  <2>1. PICK k \in Key : Step(c, [tx[c] EXCEPT !.pc = "saveClosed", !.at = k,
                            !.ents = [tx[c].ents EXCEPT ![k] = Closed(tx[c].ents[k])]])
    BY <1>2 DEF CloseRow, Open
  <2> PICK ents : ents = [tx[c].ents EXCEPT ![k] = Closed(tx[c].ents[k])]
    OBVIOUS
  <2> PICK r : r = [tx[c] EXCEPT !.pc = "saveClosed", !.at = k, !.ents = ents]
    OBVIOUS
  <2>2. r.rows = tx[c].rows /\ r.ents = ents /\ r.pc = "saveClosed"
    BY <1>0 DEF Tx
  <2>3. \A j \in Key : ents[j].bonus_score = tx[c].ents[j].bonus_score
    BY <1>0 DEF Tx, ProgressRow, Closed
  <2>4. BonusAsRead(c, r)
    BY <2>2, <2>3 DEF BonusAsRead
  <2> QED BY <1>0, <2>1, <2>2, <2>4, ReadsPaid
<1> QED BY <1>1, <1>2

LEMMA LoadPaid ==
    ASSUME IInv, NEW f, PaidUp(f), NEW p \in Procs, NEW from, NEW to, SaveLoad(p, from, to),
           <<from, to>> \in {<<"saveAnswer", "writeAnswer">>, <<"saveClosed", "writeClosed">>,
                             <<"saveBonus", "writeBonus">>}
    PROVE  PaidUp(f)'
<1>0. tx[p] \in Tx /\ tx[p].pc = from
  BY DEF IInv, TypeOK, SaveLoad
<1> PICK cols : cols = {c \in Columns : tx[p].ents[tx[p].at][c] # Seen(p, tx[p].at)[c]}
  OBVIOUS
<1> PICK r : r = [tx[p] EXCEPT !.pc = to, !.cols = cols]
  OBVIOUS
<1>1. r.ents = tx[p].ents /\ r.rows = tx[p].rows /\ r.pc = to /\ r.draft = tx[p].draft /\ r.at = tx[p].at
  BY <1>0 DEF Tx
<1>2. Step(p, r) /\ UNCHANGED <<game, progress>>
  BY DEF SaveLoad
<1> QED BY <1>0, <1>1, <1>2, BonusQuiet

LEMMA SavePaid ==
    ASSUME IInv, NEW f, PaidUp(f), NEW p \in Procs, NEW from, NEW to, SaveUpdate(p, from, to),
           <<from, to>> \in {<<"writeAnswer", "review">>, <<"writeClosed", "closeRows">>,
                             <<"writeBonus", "commit">>}
    PROVE  PaidUp(f)'
<1>0. tx[p] \in Tx /\ tx[p].pc = from /\ UNCHANGED <<game, progress>> /\ Local(p, tx[p])
  BY DEF IInv, TypeOK, SaveUpdate
<1> PICK k : k = tx[p].at
  OBVIOUS
<1>1. k \in Key /\ (from = "writeBonus" => tx[p].draft.status \in {"absent", "Finished"})
  BY <1>0 DEF Local, Saving, DraftIsFresh
<1> PICK row : row = IF tx[p].cols = {} THEN tx[p].rows[k]
                     ELSE Merge(Seen(p, k), tx[p].ents[k], tx[p].cols)
  OBVIOUS
<1> PICK r : r = [tx[p] EXCEPT !.pc = to, !.rows = [tx[p].rows EXCEPT ![k] = row]]
  OBVIOUS
<1>2. Step(p, r)
  BY <1>0 DEF SaveUpdate, Tx, Step
<1>3. /\ r.pc = to /\ r.draft = tx[p].draft /\ r.at = k /\ r.ents = tx[p].ents
      /\ r.rows[k] = row /\ \A j \in Key : j # k => r.rows[j] = tx[p].rows[j]
  BY <1>0, <1>1 DEF Tx
<1>4. \/ row.bonus_score = tx[p].rows[k].bonus_score
      \/ row.bonus_score = progress[k].bonus_score
      \/ row.bonus_score = tx[p].ents[k].bonus_score
  BY DEF Merge, Seen
<1>5. \A j \in Key : Rewards(r, j) <=> Rewards(tx[p], j)
  BY <1>0, <1>3 DEF Rewards
<1>6. PaysFor(f, r)
  <2> SUFFICES ASSUME NEW j \in Key
               PROVE  PaidBefore(f, r, j, r.ents[j].bonus_score) /\ PaidBefore(f, r, j, r.rows[j].bonus_score)
    BY DEF PaysFor
  <2>1. /\ PaidBefore(f, tx[p], j, tx[p].ents[j].bonus_score)
        /\ PaidBefore(f, tx[p], j, tx[p].rows[j].bonus_score)
    BY DEF PaidUp, PaysFor
  <2>2. PaidBefore(f, tx[p], j, progress[j].bonus_score)
    <3>1. Paid(f, j, progress[j].bonus_score) /\ progress[j].bonus_score \in Nat
      BY BonusTypes DEF PaidUp
    <3> QED BY <3>1, PaidLess DEF PaidBefore
  <2>3. r.ents[j].bonus_score = tx[p].ents[j].bonus_score
    BY <1>3
  <2>4. \/ r.rows[j].bonus_score = tx[p].rows[j].bonus_score
        \/ r.rows[j].bonus_score = progress[j].bonus_score
        \/ r.rows[j].bonus_score = tx[p].ents[j].bonus_score
    BY <1>3, <1>4
  <2> QED BY <1>5, <2>1, <2>2, <2>3, <2>4 DEF PaidBefore
<1> QED BY <1>0, <1>2, <1>6, BonusStep

\* The transaction that ends a game may take one point more in hand.
LEMMA BonusPaid ==
    ASSUME IInv, NEW f, PaidUp(f), NEW p \in Procs, AddBonusPoint(p)
    PROVE  PaidUp(f)'
<1>0. tx[p] \in Tx /\ tx[p].pc = "addBonus" /\ tx[p].draft.status = "Finished" /\ UNCHANGED <<game, progress>>
  BY DEF IInv, TypeOK, AddBonusPoint, Local, Finishing
<1>1. CASE Quiet(p, [tx[p] EXCEPT !.pc = "commit"])
  <2> PICK r : r = [tx[p] EXCEPT !.pc = "commit"]
    OBVIOUS
  <2>1. r.ents = tx[p].ents /\ r.rows = tx[p].rows
    BY <1>0 DEF Tx
  <2> QED BY <1>0, <1>1, <2>1, BonusQuiet DEF Quiet
<1>2. ASSUME NEW k \in Key,
             Quiet(p, [tx[p] EXCEPT !.pc = "saveBonus", !.at = k,
                         !.ents = [NoRows EXCEPT ![k] = [Seen(p, k) EXCEPT !.bonus_score = @ + 1]]])
      PROVE  PaidUp(f)'
  <2> PICK v, ents : v = Seen(p, k).bonus_score
                     /\ ents = [NoRows EXCEPT ![k] = [Seen(p, k) EXCEPT !.bonus_score = @ + 1]]
    OBVIOUS
  <2> PICK r : r = [tx[p] EXCEPT !.pc = "saveBonus", !.at = k, !.ents = ents]
    OBVIOUS
  <2>1. r.ents = ents /\ r.rows = tx[p].rows /\ r.pc = "saveBonus" /\ r.draft = tx[p].draft /\ r.at = k
    BY <1>0 DEF Tx
  <2>2. v \in Nat /\ Seen(p, k) \in ProgressRow
    BY BonusTypes DEF Seen, IInv, TypeOK, Tx
  <2>3. ents[k].bonus_score = v + 1 /\ \A j \in Key : j # k => ents[j].bonus_score = 0
    BY <2>2 DEF NoRows, NoRow, ProgressRow
  <2>4. \A j \in Key : Paid(f, j, tx[p].rows[j].bonus_score) /\ Paid(f, j, progress[j].bonus_score) /\ Paid(f, j, 0)
    <3>1. \A j \in Key : Paid(f, j, 0)
      BY DEF Paid
    <3> QED BY <1>0, <3>1 DEF PaidUp, PaysFor, PaidBefore, Rewards
  <2>5. Paid(f, k, v)
    BY <2>4 DEF Seen
  <2>6. \A j \in Key : Rewards(r, j) <=> j = k
    BY <1>0, <2>1 DEF Rewards
  <2>7. PaysFor(f, r)
    <3> SUFFICES ASSUME NEW j \in Key
                 PROVE  PaidBefore(f, r, j, ents[j].bonus_score) /\ PaidBefore(f, r, j, tx[p].rows[j].bonus_score)
      BY <2>1 DEF PaysFor
    <3>1. CASE j = k
      <4>1. tx[p].rows[j].bonus_score \in Nat /\ ents[j].bonus_score - 1 = v
        BY <2>2, <2>3, <3>1, BonusTypes
      <4>2. Paid(f, j, tx[p].rows[j].bonus_score - 1)
        BY <2>4, <4>1, PaidLess
      <4> QED BY <2>5, <2>6, <3>1, <4>1, <4>2 DEF PaidBefore
    <3>2. CASE j # k
      BY <2>3, <2>4, <2>6, <3>2 DEF PaidBefore
    <3> QED BY <3>1, <3>2
  <2> QED BY <1>0, <1>2, <2>7, BonusStep DEF Quiet
<1> QED BY <1>1, <1>2, AddBonusPointSteps

\* The game that a commit ends pays for the point that the commit adds.
LEMMA CommitPaid ==
    ASSUME IInv, NEW f, PaidUp(f), NEW p \in Procs, Commit(p)
    PROVE  \E h : PaidUp(h)'
<1> PICK k, b, m : k = tx[p].at /\ b = tx[p].rows[k].bonus_score /\ m = tx[p].mine
  OBVIOUS
<1> PICK ends : ends = (tx[p].draft.status = "Finished")
  OBVIOUS
<1> PICK h : h = [g \in GameIds |-> IF ends /\ g = m THEN <<k, b>> ELSE f[g]]
  OBVIOUS
<1>1. /\ tx[p] \in Tx /\ tx[p].pc = "commit" /\ DraftIsFresh(p, tx[p])
      /\ progress' = [j \in Key |-> Seen(p, j)]
      /\ tx[p].draft.status = "absent" => game' = game
      /\ tx[p].draft.status # "absent" => m \in GameIds /\ game' = [game EXCEPT ![m] = tx[p].draft]
  BY CommitWrites DEF Local
<1>2. ASSUME NEW g \in GameIds, game[g].status = "Finished"
      PROVE  game'[g].status = "Finished" /\ h[g] = f[g]
  <2>1. ASSUME tx[p].draft.status # "absent" PROVE game[m].status # "Finished"
    <3>1. NoGame.status = "absent"
      BY DEF NoGame
    <3>2. game[m] = NoGame \/ game[m].status \in {"PendingSecondPlayer", "Active"}
      BY <1>1, <2>1 DEF DraftIsFresh
    <3> QED BY <3>1, <3>2
  <2>2. tx[p].draft.status # "absent" => g # m
    BY <1>2, <2>1
  <2>3. game'[g] = game[g]
    <3>1. game \in [GameIds -> PairQuizGameRow]
      BY DEF IInv, TypeOK
    <3>2. CASE tx[p].draft.status = "absent"
      BY <1>1, <3>2
    <3>3. CASE tx[p].draft.status # "absent"
      BY <1>1, <1>2, <2>2, <3>1, <3>3
    <3> QED BY <3>2, <3>3
  <2>4. ends => g # m
    BY <2>2
  <2> QED BY <1>2, <2>3, <2>4
<1>3. ASSUME NEW j, NEW v, Paid(f, j, v)
      PROVE  Paid(h, j, v)'
  BY <1>2, <1>3 DEF Paid
<1>4. ASSUME ends
      PROVE  game'[m].status = "Finished" /\ h[m] = <<k, b>> /\ m \in GameIds
  <2>1. game' = [game EXCEPT ![m] = tx[p].draft] /\ m \in GameIds /\ tx[p].draft.status = "Finished"
    BY <1>1, <1>4
  <2>2. game \in [GameIds -> PairQuizGameRow]
    BY DEF IInv, TypeOK
  <2> QED BY <1>4, <2>1, <2>2
<1>5. ASSUME NEW j \in Key
      PROVE  Paid(h, j, progress[j].bonus_score)'
  <2> PICK v : v = progress'[j].bonus_score
    OBVIOUS
  <2>1. v = progress[j].bonus_score \/ v = tx[p].rows[j].bonus_score
    BY <1>1 DEF Seen
  <2>2. Paid(h, j, v)'
    <3>1. CASE v = progress[j].bonus_score
      BY <1>3, <3>1 DEF PaidUp
    <3>2. CASE v = tx[p].rows[j].bonus_score /\ ~Rewards(tx[p], j)
      <4>1. Paid(f, j, v)
        BY <3>2 DEF PaidUp, PaysFor, PaidBefore
      <4> QED BY <1>3, <4>1
    <3>3. CASE v = tx[p].rows[j].bonus_score /\ Rewards(tx[p], j)
      <4>1. ends /\ j = k /\ v = b /\ v \in Nat
        BY <3>3, BonusTypes DEF Rewards
      <4>2. Paid(f, j, v - 1)
        BY <3>3 DEF PaidUp, PaysFor, PaidBefore
      <4>3. Paid(h, j, v - 1)'
        BY <1>3, <4>2
      <4>4. \A i \in 1..v : i \in 1..(v - 1) \/ i = v
        BY <4>1
      <4> QED BY <1>4, <4>1, <4>3, <4>4 DEF Paid
    <3> QED BY <2>1, <3>1, <3>2, <3>3
  <2> QED BY <2>2 DEF Paid
<1>6. ASSUME NEW q \in Procs
      PROVE  PaysFor(h, tx[q])'
  <2> PICK s : s = tx'[q]
    OBVIOUS
  <2>1. PaysFor(f, s)
    <3>1. CASE q = p
      <4>1. s = Resume(p)
        BY <3>1 DEF Commit, Step, IInv, TypeOK
      <4> QED BY <4>1, ResumeRests, RestingPays
    <3>2. CASE q # p
      <4>1. s = tx[q]
        BY <3>2 DEF Commit, Step, IInv, TypeOK
      <4> QED BY <4>1 DEF PaidUp
    <3> QED BY <3>1, <3>2
  <2>2. \A j \in Key :
           /\ Paid(h, j, IF Rewards(s, j) THEN s.ents[j].bonus_score - 1 ELSE s.ents[j].bonus_score)'
           /\ Paid(h, j, IF Rewards(s, j) THEN s.rows[j].bonus_score - 1 ELSE s.rows[j].bonus_score)'
    BY <1>3, <2>1 DEF PaysFor, PaidBefore
  <2> QED BY <2>2 DEF PaysFor, PaidBefore, Rewards, Paid
<1>7. PaidUp(h)'
  BY <1>5, <1>6 DEF PaidUp, Paid
<1> QED BY <1>7

LEMMA WorkerPaid ==
    ASSUME IInv, NEW f, PaidUp(f), NEW w \in Workers, WorkerStep(w)
    PROVE  \E h : PaidUp(h)'
<1>1. w \in Procs
  BY DEF Procs
<1>2. CASE \/ FindGamePending(w) \/ LockRow(w) \/ CreateNewGame(w) \/ JoinGame(w)
           \/ AddQuestionsForGame(w) \/ AnswerQuestion(w) \/ ReviewGame(w) \/ AddBonusPoint(w)
  BY <1>1, <1>2, LooksPaid, DealPaid, AnswerPaid, ReviewPaid, BonusPaid
<1>3. CASE GameNotFound(w) \/ QuestionNotFound(w)
  BY <1>1, <1>3, BonusRollback DEF GameNotFound, QuestionNotFound
<1>4. CASE SaveStep(w)
  BY <1>1, <1>4, LoadPaid, SavePaid DEF SaveStep
<1>5. CASE Commit(w)
  BY <1>1, <1>5, CommitPaid
<1> QED BY <1>2, <1>3, <1>4, <1>5 DEF WorkerStep

LEMMA CronPaid ==
    ASSUME IInv, NEW f, PaidUp(f), NEW c \in Crons, CronStep(c)
    PROVE  \E h : PaidUp(h)'
<1>1. c \in Procs
  BY DEF Procs
<1>2. CASE \/ NextGame(c) \/ LockRow(c) \/ CompleteGame(c) \/ RowsClosed(c)
           \/ CollectProgress(c) \/ CloseRow(c) \/ AddBonusPoint(c)
  BY <1>1, <1>2, LooksPaid, CollectPaid, BonusPaid
<1>3. CASE FailedToComplete(c)
  BY <1>1, <1>3, ResumeRests, BonusRollback DEF FailedToComplete
<1>4. CASE SaveStep(c)
  BY <1>1, <1>4, LoadPaid, SavePaid DEF SaveStep
<1>5. CASE Commit(c)
  BY <1>1, <1>5, CommitPaid
<1>6. CASE FinishOpenGamesCron(c) \/ EndOfLoop(c)
  <2>1. /\ Step(c, Idle) \/ Step(c, Waiting(OpenGamesToComplete))
        /\ UNCHANGED <<game, progress>>
    BY <1>6 DEF FinishOpenGamesCron, EndOfLoop
  <2> QED BY <1>1, <2>1, RestingPays, BonusStep
<1> QED BY <1>2, <1>3, <1>4, <1>5, <1>6 DEF CronStep

LEMMA NextPaid ==
    ASSUME IInv, \E f : PaidUp(f), [Next]_vars
    PROVE  \E h : PaidUp(h)'
<1> PICK f : PaidUp(f)
  OBVIOUS
<1>1. ASSUME NEW p \in Procs, Fail(p) PROVE PaidUp(f)'
  BY <1>1, BonusRollback DEF Fail
<1>2. CASE UNCHANGED <<game, progress, tx>>
  <2>1. \A k, v : Paid(f, k, v)' <=> Paid(f, k, v)
    BY <1>2 DEF Paid
  <2>2. ASSUME NEW q \in Procs PROVE PaysFor(f, tx[q])'
    <3> PICK s : s = tx'[q]
      OBVIOUS
    <3>1. PaysFor(f, s)
      BY <1>2 DEF PaidUp
    <3>2. \A k \in Key : /\ Paid(f, k, IF Rewards(s, k) THEN s.ents[k].bonus_score - 1 ELSE s.ents[k].bonus_score)'
                         /\ Paid(f, k, IF Rewards(s, k) THEN s.rows[k].bonus_score - 1 ELSE s.rows[k].bonus_score)'
      BY <2>1, <3>1 DEF PaysFor, PaidBefore
    <3> QED BY <3>2 DEF PaysFor, PaidBefore, Rewards, Paid
  <2>3. PaidUp(f)'
    BY <1>2, <2>1, <2>2 DEF PaidUp, Paid
  <2> QED BY <2>3
<1> QED BY <1>1, <1>2, BeginsPaid, WorkerPaid, CronPaid DEF Next, Tick, vars

\* Any number of games, open at once and played by the same players, any number of requests
\* and overlapping cron runs: the bonus points in the table are no more than the games that
\* have ended, although cron runs save rows of games they have not locked.
THEOREM BonusesCounted ==
    ASSUME IsFiniteSet(GameIds)
    PROVE  Spec => []OneBonusPerGame
<1>1. Init => IInv /\ \E f : PaidUp(f)
  <2> SUFFICES ASSUME Init PROVE IInv /\ \E f : PaidUp(f)
    OBVIOUS
  <2> PICK f : f = game
    OBVIOUS
  <2>1. \A k \in Key : progress[k].bonus_score = 0 /\ Paid(f, k, 0)
    BY DEF Init, NoRows, NoRow, Paid
  <2>2. \A p \in Procs : PaysFor(f, tx[p])
    BY RestingPays DEF Init
  <2> QED BY <2>1, <2>2, InitKeeps DEF PaidUp
<1>2. IInv /\ (\E f : PaidUp(f)) /\ [Next]_vars => IInv' /\ (\E f : PaidUp(f))'
  BY NextKeeps, NextPaid
<1>3. ASSUME \E f : PaidUp(f) PROVE OneBonusPerGame
  <2> PICK f : PaidUp(f)
    BY <1>3
  <2> PICK ended, paid : /\ ended = {g \in GameIds : game[g].status = "Finished"}
                         /\ paid = {f[g] : g \in ended}
    OBVIOUS
  <2>1. IsFiniteSet(ended)
    BY FS_Subset
  <2>2. IsFiniteSet(paid) /\ Cardinality(paid) <= Cardinality(ended)
    <3> PICK F : F = [g \in ended |-> f[g]]
      OBVIOUS
    <3>1. F \in Surjection(ended, paid)
      BY DEF Surjection
    <3> QED BY <2>1, <3>1, FS_Surjection
  <2>3. BonusPoints \subseteq paid
    <3> SUFFICES ASSUME NEW k \in Key, NEW i \in 1..progress[k].bonus_score
                 PROVE  <<k, i>> \in paid
      BY DEF BonusPoints
    <3> QED BY DEF PaidUp, Paid
  <2>4. Cardinality(BonusPoints) <= Cardinality(paid) /\ Cardinality(BonusPoints) \in Nat
    BY <2>2, <2>3, FS_Subset, FS_CardinalityType
  <2>5. Cardinality(paid) \in Nat /\ Cardinality(ended) \in Nat
    BY <2>1, <2>2, FS_CardinalityType
  <2> QED BY <2>2, <2>4, <2>5 DEF OneBonusPerGame
<1> QED BY <1>1, <1>2, <1>3, PTL DEF Spec

=============================================================================
