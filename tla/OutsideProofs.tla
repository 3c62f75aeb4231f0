---------------------------- MODULE OutsideProofs ----------------------------
(***************************************************************************)
(* What holds of questions, Telegram accounts, subscriptions and images    *)
(* for any number of users, rows and requests: the two invariants and the  *)
(* action property of MCOutside.  Rows are found first and then saved as   *)
(* they were found, but for what the request changes; so each invariant    *)
(* says of the rows in hand what the property says of the rows in the      *)
(* table, for all that two requests did not change at once.                *)
(***************************************************************************)
EXTENDS MCOutside, Sequences, FiniteSetTheorems, TLAPS

(***************************************************************************)
(* Part A.  The invariant of the questions.                                *)
(***************************************************************************)
QuestionAsked == [correctAnswers: Answers \cup {None}, published: BOOLEAN \cup {None}]

\* No question has an id that is still to come, and none is in hand or asked about.
QuestionsFresh ==
    \A q \in Q!QuestionId : q > lastQuestion =>
        /\ ~Q!Exists(q) /\ \A r \in Requests : ~Q!HoldsQuestion(r, q)
        /\ asked[q].correctAnswers = None /\ asked[q].published = None

\* The answers asked for last are in the row, and in every row in hand that is to change
\* something else; and so is the publication.
AnswersKept ==
    \A q \in Q!QuestionId : asked[q].correctAnswers # None =>
        /\ questions[q].correctAnswers = asked[q].correctAnswers
        /\ \A r \in Requests : Q!At(r, "publish") /\ req[r].id = q =>
              req[r].ent.correctAnswers = asked[q].correctAnswers
PublicationKept ==
    \A q \in Q!QuestionId : asked[q].published # None =>
        /\ Q!Exists(q) /\ questions[q].published = asked[q].published
        /\ \A r \in Requests : Q!At(r, "update") /\ req[r].id = q =>
              req[r].ent.published = asked[q].published

\* What a request was asked to change and found so already, which it may leave out, is still
\* so in a row that nobody has changed since.
AskedStands(r) ==
    req[r].pc \in {"update", "publish"} =>
        /\ Q!Exists(req[r].id)
        /\ req[r].pc = "update" =>
              \/ "correctAnswers" \in req[r].changed
              \/ questions[req[r].id].correctAnswers = req[r].ent.correctAnswers
        /\ req[r].pc = "publish" =>
              \/ "published" \in req[r].changed
              \/ questions[req[r].id].published = req[r].ent.published
QuestionsStand == \A r \in Requests \ overlapped : AskedStands(r)

QuestionInv ==
    /\ Q!TypeOK /\ asked \in [Q!QuestionId -> QuestionAsked]
    /\ QuestionsFresh /\ AnswersKept /\ PublicationKept /\ QuestionsStand

\* The fields a request keeps while it is on its way, and what it may be on its way to.
LEMMA QuestionRequestFields ==
    ASSUME NEW s \in Q!Request
    PROVE  /\ s.pc = "create" => s.ent \in Q!QuestionRow
           /\ s.pc \in {"update", "publish"} =>
                 s.id \in Q!QuestionId /\ s.ent \in Q!QuestionRow
           /\ s.pc = "deal" => s.ids \in SUBSET Q!QuestionId
  BY DEF Q!Request

LEMMA QuestionRequests ==
    /\ Q!Idle \in Q!Request
    /\ \A ent \in Q!QuestionRow : [pc |-> "create", ent |-> ent] \in Q!Request
    /\ \A q \in Q!QuestionId, ent \in Q!QuestionRow, cols \in SUBSET {"correctAnswers", "published"} :
          /\ [pc |-> "update", id |-> q, ent |-> ent, changed |-> cols] \in Q!Request
          /\ [pc |-> "publish", id |-> q, ent |-> ent, changed |-> cols] \in Q!Request
    /\ \A ids \in SUBSET Q!QuestionId : [pc |-> "deal", ids |-> ids] \in Q!Request
  BY DEF Q!Request, Q!Idle

LEMMA QuestionFacts ==
    /\ MaxQuestion \in Nat \ {0} /\ None \notin Answers
    /\ Q!NoQuestion.correctAnswers = None /\ Q!NoQuestion.published = FALSE
    /\ \A e \in Q!QuestionRow : e # Q!NoQuestion
  BY OutsideConstants DEF Q!QuestionsConstants, Q!NoQuestion, Q!QuestionRow

\* What a request takes in hand it finds in the table, but for the part that it changes.
QuestionFound(s) ==
    s.pc \in {"update", "publish"} =>
        /\ s.id \in Q!QuestionId /\ Q!Exists(s.id)
        /\ s.pc = "publish" =>
              /\ s.ent.correctAnswers = questions[s.id].correctAnswers
              /\ "published" \in s.changed \/ s.ent.published = questions[s.id].published
        /\ s.pc = "update" =>
              /\ s.ent.published = questions[s.id].published
              /\ "correctAnswers" \in s.changed \/ s.ent.correctAnswers = questions[s.id].correctAnswers

\* The columns in which an entity differs from the question it was found as.
LEMMA DifferingQuestion ==
    ASSUME NEW row \in Q!QuestionRow, NEW ent \in Q!QuestionRow
    PROVE  /\ Q!Differing(row, ent) \in SUBSET {"correctAnswers", "published"}
           /\ "correctAnswers" \in Q!Differing(row, ent) \/ ent.correctAnswers = row.correctAnswers
           /\ "published" \in Q!Differing(row, ent) \/ ent.published = row.published
<1>1. DOMAIN row = {"correctAnswers", "published"}
  BY DEF Q!QuestionRow
<1> QED BY <1>1 DEF Q!Differing

\* What a save leaves of a question that is there: of each column what the row has or what
\* the entity has, and this if the request has changed it.
LEMMA SavedQuestionColumns ==
    ASSUME Q!TypeOK, NEW q \in Q!QuestionId, NEW ent \in Q!QuestionRow, NEW cols,
           NEW row \in Q!SavedQuestion(q, ent, cols)
    PROVE  /\ row \in Q!QuestionRow \cup {Q!NoQuestion}
           /\ Q!Exists(q) =>
                 /\ row \in Q!QuestionRow
                 /\ row.correctAnswers \in {questions[q].correctAnswers, ent.correctAnswers}
                 /\ row.published \in {questions[q].published, ent.published}
                 /\ "correctAnswers" \in cols => row.correctAnswers = ent.correctAnswers
                 /\ "published" \in cols => row.published = ent.published
<1>1. CASE ~Q!Exists(q)
  BY <1>1 DEF Q!SavedQuestion
<1>2. CASE Q!Exists(q)
  <2>1. questions[q] \in Q!QuestionRow
    BY <1>2 DEF Q!TypeOK, Q!Exists
  <2>2. PICK written : cols \subseteq written /\ row = Q!Merge(questions[q], ent, written)
    BY <1>2 DEF Q!SavedQuestion, Q!Saved
  <2>3. DOMAIN questions[q] = {"correctAnswers", "published"}
    BY <2>1 DEF Q!QuestionRow
  <2>4. row = [c \in {"correctAnswers", "published"} |-> IF c \in written THEN ent[c] ELSE questions[q][c]]
    BY <2>2, <2>3 DEF Q!Merge
  <2>5. /\ row.correctAnswers \in {questions[q].correctAnswers, ent.correctAnswers}
        /\ row.published \in {questions[q].published, ent.published}
        /\ "correctAnswers" \in cols => row.correctAnswers = ent.correctAnswers
        /\ "published" \in cols => row.published = ent.published
    BY <2>2, <2>4
  <2>6. row = [correctAnswers |-> row.correctAnswers, published |-> row.published]
    BY <2>4
  <2>7. row \in Q!QuestionRow
    BY <2>1, <2>5, <2>6 DEF Q!QuestionRow
  <2> QED BY <2>5, <2>7
<1> QED BY <1>1, <1>2

\* Every step marks the requests whose row it changes; the others find it as it was.
QuestionsMarked == overlapped' = OverlappedBy({p \in Requests : QuestionChanges(p)})

LEMMA QuestionsStandKeeps ==
    ASSUME QuestionInv, QuestionsMarked,
           NEW r \in Requests, \A p \in Requests : p # r => req'[p] = req[p],
           r \notin overlapped' => AskedStands(r)'
    PROVE  QuestionsStand'
<1> SUFFICES ASSUME NEW p \in Requests \ overlapped', p # r, req'[p].pc \in {"update", "publish"}
             PROVE  AskedStands(p)'
  BY DEF QuestionsStand, AskedStands
<1>1. req'[p] = req[p] /\ p \notin overlapped /\ ~QuestionChanges(p)
  BY DEF QuestionsMarked, OverlappedBy
<1>2. req[p].id \in Q!QuestionId
  BY <1>1, QuestionRequestFields DEF QuestionInv, Q!TypeOK
<1>3. questions'[req[p].id] = questions[req[p].id]
  BY <1>1, <1>2 DEF QuestionChanges, Q!HoldsQuestion
<1>4. AskedStands(p)
  BY <1>1 DEF QuestionInv, QuestionsStand
<1> QED BY <1>1, <1>3, <1>4 DEF AskedStands, Q!Exists

LEMMA QuestionAwaitKeeps ==
    ASSUME QuestionInv, NEW r \in Requests, NEW s \in Q!Request, Q!Await(r, s), QuestionFound(s),
           UNCHANGED <<questions, lastQuestion, asked>>, dealt' \subseteq Q!QuestionId, QuestionsMarked
    PROVE  QuestionInv'
<1>1. req'[r] = s /\ \A p \in Requests : p # r => req'[p] = req[p]
  BY DEF QuestionInv, Q!TypeOK, Q!Await
<1>2. Q!TypeOK' /\ asked' \in [Q!QuestionId -> QuestionAsked]
  BY DEF QuestionInv, Q!TypeOK, Q!Await
<1>3. QuestionsFresh'
  BY <1>1 DEF QuestionInv, QuestionsFresh, QuestionFound, Q!Exists, Q!HoldsQuestion
<1>4. AnswersKept' /\ PublicationKept'
  BY <1>1 DEF QuestionInv, AnswersKept, PublicationKept, QuestionFound, Q!Exists, Q!At
<1>5. QuestionsStand'
  <2>1. AskedStands(r)'
    BY <1>1 DEF AskedStands, QuestionFound, Q!Exists
  <2> QED BY <1>1, <2>1, QuestionsStandKeeps
<1> QED BY <1>2, <1>3, <1>4, <1>5 DEF QuestionInv

LEMMA QuestionAnswerKeeps ==
    ASSUME QuestionInv, NEW r \in Requests, Q!Answer(r),
           UNCHANGED <<questions, lastQuestion, asked>>, dealt' \subseteq Q!QuestionId, QuestionsMarked
    PROVE  QuestionInv'
<1>1. QuestionFound(Q!Idle)
  BY DEF QuestionFound, Q!Idle
<1> QED BY <1>1, QuestionRequests, QuestionAwaitKeeps DEF Q!Answer

LEMMA QuestionBeginKeeps ==
    ASSUME QuestionInv, NEW r \in Requests, Q!Begin(r), UNCHANGED asked, QuestionsMarked
    PROVE  QuestionInv'
<1>0. /\ UNCHANGED <<questions, lastQuestion, asked>> /\ dealt' \subseteq Q!QuestionId
      /\ questions \in [Q!QuestionId -> Q!QuestionRow \cup {Q!NoQuestion}]
  BY DEF Q!Begin, Q!CreateQuestion, Q!QuestionUpdate, Q!QuestionPublishUnpublish, Q!RandomQuestions,
         Q!tables, QuestionInv, Q!TypeOK
<1>1. ASSUME NEW answers \in Answers, Q!CreateQuestion(r, answers)
      PROVE  QuestionInv'
  <2> PICK s : s = [pc |-> "create", ent |-> [correctAnswers |-> answers, published |-> FALSE]]
    OBVIOUS
  <2>1. s \in Q!Request
    BY DEF Q!Request, Q!QuestionRow
  <2>2. QuestionFound(s)
    BY DEF QuestionFound
  <2> QED BY <1>0, <1>1, <2>1, <2>2, QuestionAwaitKeeps DEF Q!CreateQuestion
<1>2. ASSUME NEW q \in Q!QuestionId, NEW answers \in Answers, Q!QuestionUpdate(r, q, answers)
      PROVE  QuestionInv'
  <2> PICK ent : ent = [questions[q] EXCEPT !.correctAnswers = answers]
    OBVIOUS
  <2>1. questions[q] \in Q!QuestionRow /\ ent \in Q!QuestionRow /\ ent.published = questions[q].published
    BY <1>0, <1>2 DEF Q!QuestionUpdate, Q!Exists, Q!QuestionRow
  <2> PICK s : s = [pc |-> "update", id |-> q, ent |-> ent, changed |-> Q!Differing(questions[q], ent)]
    OBVIOUS
  <2>2. s \in Q!Request /\ QuestionFound(s) /\ Q!Await(r, s)
    BY <1>2, <2>1, DifferingQuestion, QuestionRequests DEF QuestionFound, Q!QuestionUpdate
  <2> QED BY <1>0, <2>2, QuestionAwaitKeeps
<1>3. ASSUME NEW q \in Q!QuestionId, NEW published \in BOOLEAN,
             Q!QuestionPublishUnpublish(r, q, published)
      PROVE  QuestionInv'
  <2> PICK ent : ent = [questions[q] EXCEPT !.published = published]
    OBVIOUS
  <2>1. questions[q] \in Q!QuestionRow /\ ent \in Q!QuestionRow /\ ent.correctAnswers = questions[q].correctAnswers
    BY <1>0, <1>3 DEF Q!QuestionPublishUnpublish, Q!Exists, Q!QuestionRow
  <2> PICK s : s = [pc |-> "publish", id |-> q, ent |-> ent, changed |-> Q!Differing(questions[q], ent)]
    OBVIOUS
  <2>2. s \in Q!Request /\ QuestionFound(s) /\ Q!Await(r, s)
    BY <1>3, <2>1, DifferingQuestion, QuestionRequests DEF QuestionFound, Q!QuestionPublishUnpublish
  <2> QED BY <1>0, <2>2, QuestionAwaitKeeps
<1>4. CASE Q!RandomQuestions(r)
  <2>1. PICK ids \in SUBSET Q!QuestionId : Q!Await(r, [pc |-> "deal", ids |-> ids])
    BY <1>4 DEF Q!RandomQuestions
  <2>2. QuestionFound([pc |-> "deal", ids |-> ids])
    BY DEF QuestionFound
  <2> QED BY <1>0, <2>1, <2>2, QuestionRequests, QuestionAwaitKeeps
<1> QED BY <1>1, <1>2, <1>3, <1>4 DEF Q!Begin

LEMMA QuestionSaveKeeps ==
    ASSUME QuestionInv, NEW r \in Requests, Q!Save(r), asked' = AskedOfQuestion(r), QuestionsMarked
    PROVE  QuestionInv'
<1>0. req[r] \in Q!Request
  BY DEF QuestionInv, Q!TypeOK
<1>1. CASE Q!InsertQuestion(r)
  <2>1. asked' = asked
    BY <1>1 DEF AskedOfQuestion, Q!InsertQuestion, Q!At
  <2>2. /\ req'[r] = Q!Idle /\ \A p \in Requests : p # r => req'[p] = req[p]
        /\ req' \in [Requests -> Q!Request]
    BY <1>1, QuestionRequests DEF Q!InsertQuestion, Q!Answer, Q!Await, QuestionInv, Q!TypeOK
  <2>3. lastQuestion + 1 \in Q!QuestionId /\ lastQuestion' = lastQuestion + 1
    BY <1>1, QuestionFacts DEF Q!InsertQuestion, QuestionInv, Q!TypeOK, Q!QuestionId
  <2>4. /\ questions' \in [Q!QuestionId -> Q!QuestionRow \cup {Q!NoQuestion}]
        /\ \A q \in Q!QuestionId : q # lastQuestion + 1 => questions'[q] = questions[q]
    BY <1>0, <1>1, <2>3, QuestionRequestFields DEF Q!InsertQuestion, Q!At, QuestionInv, Q!TypeOK
  <2>5. Q!TypeOK'
    BY <1>1, <2>2, <2>3, <2>4 DEF Q!InsertQuestion, QuestionInv, Q!TypeOK, Q!QuestionId
  <2>6. QuestionsFresh'
    BY <2>1, <2>2, <2>3, <2>4
       DEF QuestionInv, Q!TypeOK, Q!QuestionId, QuestionsFresh, Q!Exists, Q!HoldsQuestion, Q!Idle
  <2>7. asked[lastQuestion + 1].correctAnswers = None /\ asked[lastQuestion + 1].published = None
    BY <2>3 DEF QuestionInv, QuestionsFresh, Q!TypeOK, Q!QuestionId
  <2>8. AnswersKept' /\ PublicationKept'
    BY <2>1, <2>2, <2>4, <2>7 DEF QuestionInv, AnswersKept, PublicationKept, Q!Exists, Q!At, Q!Idle
  <2>9. QuestionsStand'
    BY <2>2, QuestionsStandKeeps DEF AskedStands, Q!Idle
  <2> QED BY <2>1, <2>5, <2>6, <2>8, <2>9 DEF QuestionInv
<1>2. CASE Q!SaveQuestion(r)
  <2> PICK q, ent : q = req[r].id /\ ent = req[r].ent
    OBVIOUS
  <2>1. q \in Q!QuestionId /\ ent \in Q!QuestionRow /\ Q!HoldsQuestion(r, q)
    BY <1>0, <1>2, QuestionRequestFields DEF Q!SaveQuestion, Q!At, Q!HoldsQuestion
  <2>2. /\ req'[r] = Q!Idle /\ \A p \in Requests : p # r => req'[p] = req[p]
        /\ req' \in [Requests -> Q!Request]
    BY <1>2, QuestionRequests DEF Q!SaveQuestion, Q!Answer, Q!Await, QuestionInv, Q!TypeOK
  <2> PICK row \in Q!SavedQuestion(q, ent, req[r].changed) : questions' = [questions EXCEPT ![q] = row]
    BY <1>2 DEF Q!SaveQuestion
  <2>0. /\ row \in Q!QuestionRow \cup {Q!NoQuestion}
        /\ Q!Exists(q) =>
              /\ row \in Q!QuestionRow
              /\ row.correctAnswers \in {questions[q].correctAnswers, ent.correctAnswers}
              /\ row.published \in {questions[q].published, ent.published}
              /\ "correctAnswers" \in req[r].changed => row.correctAnswers = ent.correctAnswers
              /\ "published" \in req[r].changed => row.published = ent.published
    BY <2>1, SavedQuestionColumns DEF QuestionInv
  <2>3. /\ questions' \in [Q!QuestionId -> Q!QuestionRow \cup {Q!NoQuestion}]
        /\ questions'[q] = row /\ \A k \in Q!QuestionId : k # q => questions'[k] = questions[k]
    BY <2>1, <2>0 DEF QuestionInv, Q!TypeOK
  <2>4. Q!TypeOK'
    BY <1>2, <2>2, <2>3 DEF Q!SaveQuestion, QuestionInv, Q!TypeOK
  <2>5. q <= lastQuestion
    BY <2>1 DEF QuestionInv, QuestionsFresh, Q!TypeOK, Q!QuestionId
  <2>6. ent.correctAnswers \in Answers /\ ent.published \in BOOLEAN
    BY <2>1 DEF Q!QuestionRow
  <2>7. /\ asked' \in [Q!QuestionId -> QuestionAsked]
        /\ \A k \in Q!QuestionId : k # q => asked'[k] = asked[k]
        /\ Q!At(r, "update") =>
              /\ asked'[q].correctAnswers = Unless(QuestionOverlap(r, q), ent.correctAnswers)
              /\ asked'[q].published = asked[q].published
        /\ Q!At(r, "publish") =>
              /\ asked'[q].published = Unless(QuestionOverlap(r, q), ent.published)
              /\ asked'[q].correctAnswers = asked[q].correctAnswers
    BY <1>2, <2>1, <2>6 DEF AskedOfQuestion, Q!SaveQuestion, Q!At, QuestionInv, QuestionAsked, Unless
  <2>8. QuestionsFresh'
    BY <1>2, <2>2, <2>3, <2>5, <2>7
       DEF QuestionInv, QuestionsFresh, Q!TypeOK, Q!QuestionId, Q!Exists, Q!HoldsQuestion, Q!Idle,
           Q!SaveQuestion
  <2>9. AnswersKept'
    <3>1. ASSUME asked'[q].correctAnswers # None
          PROVE  /\ row.correctAnswers = asked'[q].correctAnswers
                 /\ \A p \in Requests \ {r} : Q!At(p, "publish") /\ req[p].id = q =>
                       req[p].ent.correctAnswers = asked'[q].correctAnswers
      <4>1. CASE Q!At(r, "update")
        <5>1. ~QuestionOverlap(r, q) /\ asked'[q].correctAnswers = ent.correctAnswers
          BY <3>1, <4>1, <2>7 DEF Unless
        <5>2. AskedStands(r)
          BY <5>1 DEF QuestionInv, QuestionsStand, QuestionOverlap
        <5>3. row.correctAnswers = ent.correctAnswers
          BY <2>0, <4>1, <5>2 DEF AskedStands, Q!At
        <5> QED BY <5>1, <5>3 DEF QuestionOverlap, Q!HoldsQuestion, Q!At
      <4>2. CASE Q!At(r, "publish")
        <5>1. /\ asked[q].correctAnswers = asked'[q].correctAnswers
              /\ questions[q].correctAnswers = asked[q].correctAnswers
              /\ ent.correctAnswers = asked[q].correctAnswers
          BY <3>1, <4>2, <2>1, <2>7 DEF QuestionInv, AnswersKept, Q!At
        <5>2. Q!Exists(q)
          BY <3>1, <5>1, QuestionFacts DEF Q!Exists
        <5> QED BY <2>0, <2>1, <3>1, <5>1, <5>2 DEF QuestionInv, AnswersKept
      <4> QED BY <1>2, <4>1, <4>2 DEF Q!SaveQuestion
    <3> QED BY <2>2, <2>3, <2>7, <3>1 DEF QuestionInv, AnswersKept, Q!At, Q!Idle
  <2>10. PublicationKept'
    <3>1. ASSUME asked'[q].published # None
          PROVE  /\ Q!Exists(q) /\ row.published = asked'[q].published
                 /\ \A p \in Requests \ {r} : Q!At(p, "update") /\ req[p].id = q =>
                       req[p].ent.published = asked'[q].published
      <4>1. CASE Q!At(r, "publish")
        <5>1. ~QuestionOverlap(r, q) /\ asked'[q].published = ent.published
          BY <3>1, <4>1, <2>7 DEF Unless
        <5>2. AskedStands(r)
          BY <5>1 DEF QuestionInv, QuestionsStand, QuestionOverlap
        <5>3. Q!Exists(q) /\ row.published = ent.published
          BY <2>0, <4>1, <5>2 DEF AskedStands, Q!At
        <5> QED BY <5>1, <5>3 DEF QuestionOverlap, Q!HoldsQuestion, Q!At
      <4>2. CASE Q!At(r, "update")
        <5>1. /\ asked[q].published = asked'[q].published /\ Q!Exists(q)
              /\ questions[q].published = asked[q].published
              /\ ent.published = asked[q].published
          BY <3>1, <4>2, <2>1, <2>7 DEF QuestionInv, PublicationKept, Q!At
        <5> QED BY <2>0, <2>1, <3>1, <5>1 DEF QuestionInv, PublicationKept
      <4> QED BY <1>2, <4>1, <4>2 DEF Q!SaveQuestion
    <3>2. Q!Exists(q) => Q!Exists(q)'
      BY <2>0, <2>3, QuestionFacts DEF Q!Exists
    <3> QED BY <2>2, <2>3, <2>7, <3>1, <3>2 DEF QuestionInv, PublicationKept, Q!Exists, Q!At, Q!Idle
  <2>11. QuestionsStand'
    BY <2>2, QuestionsStandKeeps DEF AskedStands, Q!Idle
  <2> QED BY <2>4, <2>7, <2>8, <2>9, <2>10, <2>11 DEF QuestionInv
<1>3. CASE Q!AddQuestionsForGame(r)
  <2>1. asked' = asked
    BY <1>3 DEF AskedOfQuestion, Q!AddQuestionsForGame, Q!At
  <2>2. dealt' \subseteq Q!QuestionId
    BY <1>0, <1>3, QuestionRequestFields DEF Q!AddQuestionsForGame, Q!At, QuestionInv, Q!TypeOK
  <2> QED BY <1>3, <2>1, <2>2, QuestionAnswerKeeps DEF Q!AddQuestionsForGame
<1> QED BY <1>1, <1>2, <1>3 DEF Q!Save

LEMMA QuestionDeleteKeeps ==
    ASSUME QuestionInv, NEW q \in Q!QuestionId, Q!QuestionDelete(q), QuestionsMarked,
           asked' = [asked EXCEPT ![q] = [correctAnswers |-> None, published |-> None]]
    PROVE  QuestionInv'
<1>1. /\ asked' \in [Q!QuestionId -> QuestionAsked]
      /\ asked'[q].correctAnswers = None /\ asked'[q].published = None
      /\ \A k \in Q!QuestionId : k # q => asked'[k] = asked[k]
  BY DEF QuestionInv, QuestionAsked
<1>2. /\ Q!TypeOK' /\ req' = req /\ lastQuestion' = lastQuestion
      /\ questions'[q] = Q!NoQuestion
      /\ \A k \in Q!QuestionId : k # q => questions'[k] = questions[k]
  BY DEF Q!QuestionDelete, QuestionInv, Q!TypeOK
<1>3. QuestionsFresh'
  BY <1>1, <1>2 DEF QuestionInv, QuestionsFresh, Q!Exists, Q!HoldsQuestion
<1>4. AnswersKept' /\ PublicationKept'
  BY <1>1, <1>2 DEF QuestionInv, AnswersKept, PublicationKept, Q!Exists, Q!At
<1>5. QuestionsStand'
  <2> SUFFICES ASSUME NEW r \in Requests
               PROVE  r \notin overlapped' => AskedStands(r)'
    BY DEF QuestionsStand
  <2>1. req[r].pc \in {"update", "publish"} => req[r].id \in Q!QuestionId
    BY QuestionRequestFields DEF QuestionInv, Q!TypeOK
  <2> QED BY <1>2, <2>1 DEF QuestionInv, QuestionsStand, QuestionsMarked, OverlappedBy, QuestionChanges,
                            Q!HoldsQuestion, AskedStands, Q!Exists
<1> QED BY <1>1, <1>2, <1>3, <1>4, <1>5 DEF QuestionInv

LEMMA QuestionStepKeeps ==
    ASSUME QuestionInv, QuestionStep
    PROVE  QuestionInv'
<1>0. QuestionsMarked
  BY DEF QuestionStep, QuestionsMarked
<1>1. ASSUME NEW r \in Requests, Q!Fail(r), UNCHANGED asked
      PROVE  QuestionInv'
  BY <1>0, <1>1, QuestionAnswerKeeps DEF Q!Fail, Q!tables, QuestionInv, Q!TypeOK
<1> QED BY <1>0, <1>1, QuestionBeginKeeps, QuestionSaveKeeps, QuestionDeleteKeeps DEF QuestionStep

LEMMA QuestionInvInit ==
    ASSUME Init, part = "questions"
    PROVE  QuestionInv
<1>1. Q!Init /\ asked = [q \in Q!QuestionId |-> [correctAnswers |-> None, published |-> None]]
  BY DEF Init
<1>2. Q!TypeOK /\ asked \in [Q!QuestionId -> QuestionAsked]
  BY <1>1, QuestionFacts, QuestionRequests DEF Q!Init, Q!TypeOK, QuestionAsked
<1>3. QuestionsFresh /\ AnswersKept /\ PublicationKept /\ QuestionsStand
  BY <1>1 DEF Q!Init, QuestionsFresh, AnswersKept, PublicationKept, QuestionsStand, AskedStands,
              Q!Exists, Q!HoldsQuestion, Q!At, Q!Idle
<1> QED BY <1>2, <1>3 DEF QuestionInv


(***************************************************************************)
(* Part B.  The invariant of the Telegram accounts.                        *)
(***************************************************************************)
TelegramAsked ==
    [code: T!Code \cup {None}, chat: Chats \cup {None}, isBanned: BOOLEAN \cup {None}]

\* No account that a user has, or that is in hand, has an id still to come; all others are there.
AccountsFresh ==
    /\ \A a \in T!AccountId : a <= lastAccount => accounts[a] # T!NoAccount
    /\ \A u \in Users : users[u].account # None => users[u].account <= lastAccount
    /\ \A r \in Requests, u \in Users :
          T!HoldsUser(r, u) /\ req[r].ent.account # None => req[r].ent.account <= lastAccount
    /\ \A r \in Requests, a \in T!AccountId : T!HoldsAccount(r, a) => a <= lastAccount
    /\ \A r \in Requests : req[r].pc = "saveUser" => req[r].ent.account # None

\* The account a link has inserted is nobody's until it is attached: no link that came
\* later changes its code.
LinksAreNew ==
    \A r \in Requests, a \in T!AccountId : T!At(r, "saveUser") /\ req[r].ent.account = a =>
        /\ \A u \in Users : users[u].account # a
        /\ \A q \in Requests \ {r}, u \in Users : T!HoldsUser(q, u) => req[q].ent.account # a
        /\ accounts[a].code = req[r].code
        /\ \A q \in Requests : T!HoldsAccount(q, a) => T!At(q, "saveChat") /\ req[q].ent.code = req[r].code

\* The ban asked for last is in the row, and in every row in hand that is to attach an account.
BansKept ==
    \A u \in Users : asked[u].isBanned # None =>
        /\ users[u].isBanned = asked[u].isBanned
        /\ \A r \in Requests : T!HoldsUser(r, u) /\ ~T!At(r, "commitBan") =>
              req[r].ent.isBanned = asked[u].isBanned

\* The account of a user with a link or a chat is in every row of his in hand.
AccountKept ==
    \A u \in Users : asked[u].code # None \/ asked[u].chat # None =>
        /\ users[u].account # None
        /\ \A r \in Requests : T!HoldsUser(r, u) =>
              T!At(r, "commitBan") /\ req[r].ent.account = users[u].account

\* The code of the last link is in the account, and no link is under way; the chat confirmed
\* last is in the account, and in every row of it in hand that is to change the code.
CodesKept ==
    \A u \in Users : asked[u].code # None =>
        /\ accounts[users[u].account].code = asked[u].code
        /\ \A r \in Requests : T!HoldsAccount(r, users[u].account) =>
              T!At(r, "saveChat") /\ req[r].ent.code = asked[u].code
ChatsKept ==
    \A u \in Users : asked[u].chat # None =>
        /\ accounts[users[u].account].telegramId = asked[u].chat
        /\ \A r \in Requests : T!At(r, "saveCode") /\ req[r].id = users[u].account =>
              req[r].ent.telegramId = asked[u].chat

\* A link writes what it has made.  What a ban, or a message, found as it was asked to make
\* it, and may leave out, is still so in a row that nobody has changed since.
LinkWritten(r) ==
    /\ req[r].pc = "saveUser" => "account" \in req[r].changed
    /\ req[r].pc = "saveCode" => "code" \in req[r].changed
RowStands(r) ==
    /\ req[r].pc = "commitBan" =>
          "isBanned" \in req[r].changed \/ users[req[r].user].isBanned = req[r].ent.isBanned
    /\ req[r].pc = "saveChat" =>
          "telegramId" \in req[r].changed \/ accounts[req[r].id].telegramId = req[r].ent.telegramId
RowsStand == \A r \in Requests : LinkWritten(r) /\ (r \notin overlapped => RowStands(r))

TelegramInv ==
    /\ T!TypeOK /\ asked \in [Users -> TelegramAsked]
    /\ AccountsFresh /\ LinksAreNew /\ BansKept /\ AccountKept /\ CodesKept /\ ChatsKept /\ RowsStand

\* The fields a request keeps while it is on its way, and what it may be on its way to.
LEMMA TelegramRequestFields ==
    ASSUME NEW s \in T!Request
    PROVE  /\ s.pc \in {"insertAccount", "saveUser"} => s.code \in T!Code
           /\ s.pc \in {"insertAccount", "saveUser", "commitBan"} =>
                 s.user \in Users /\ s.ent \in T!UserRow
           /\ s.pc \in {"saveCode", "saveChat"} => s.id \in T!AccountId /\ s.ent \in T!AccountRow
  BY DEF T!Request

LEMMA TelegramRequests ==
    /\ T!Idle \in T!Request
    /\ \A u \in Users, ent \in T!UserRow, code \in T!Code :
          /\ [pc |-> "insertAccount", user |-> u, ent |-> ent, code |-> code] \in T!Request
          /\ [pc |-> "saveUser", user |-> u, code |-> code, ent |-> ent, changed |-> {"account"}] \in T!Request
    /\ \A a \in T!AccountId, ent \in T!AccountRow, cols \in SUBSET {"code", "telegramId"} :
          /\ [pc |-> "saveCode", id |-> a, ent |-> ent, changed |-> {"code"}] \in T!Request
          /\ [pc |-> "saveChat", id |-> a, ent |-> ent, changed |-> cols] \in T!Request
    /\ \A u \in Users, ent \in T!UserRow, cols \in SUBSET {"isBanned", "account"} :
          [pc |-> "commitBan", user |-> u, ent |-> ent, changed |-> cols] \in T!Request
  BY DEF T!Request, T!Idle

LEMMA TelegramFacts ==
    /\ MaxAccount \in Nat \ {0} /\ MaxCode \in Nat \ {0}
    /\ None \notin Users /\ None \notin Chats /\ None \notin T!AccountId /\ None \notin T!Code
    /\ T!NoAccount.code = None /\ T!NoAccount.telegramId = None
    /\ \A e \in T!AccountRow : e # T!NoAccount
<1>1. \A e \in T!AccountRow : e.code \in Int
  BY OutsideConstants DEF T!TelegramConstants, T!AccountRow, T!Code
<1> QED BY <1>1, OutsideConstants DEF T!TelegramConstants, T!NoAccount, T!AccountId, T!Code

\* What a request takes in hand it finds in the tables, but for the part that it changes; a
\* new link of a user with an account finds that.
AccountFound(s) ==
    /\ s.pc # "saveUser"
    /\ s.pc \in {"insertAccount", "commitBan"} =>
          /\ s.user \in Users
          /\ s.ent.account = users[s.user].account
          /\ s.pc = "insertAccount" =>
                s.ent.account = None /\ s.ent.isBanned = users[s.user].isBanned
          /\ s.pc = "commitBan" =>
                "isBanned" \in s.changed \/ s.ent.isBanned = users[s.user].isBanned
    /\ s.pc = "saveCode" =>
          /\ \E u \in Users : users[u].account = s.id
          /\ s.ent.telegramId = accounts[s.id].telegramId
          /\ "code" \in s.changed
    /\ s.pc = "saveChat" =>
          /\ s.id <= lastAccount /\ s.ent.code = accounts[s.id].code
          /\ "telegramId" \in s.changed \/ s.ent.telegramId = accounts[s.id].telegramId

\* The columns in which an entity differs from the row it was found as, and what a save
\* leaves of a row: of each column what the row has or what the entity has, and this if the
\* request has changed it.
LEMMA TelegramColumns ==
    /\ \A row, ent \in T!UserRow :
          /\ T!Differing(row, ent) \in SUBSET {"isBanned", "account"}
          /\ "isBanned" \in T!Differing(row, ent) \/ ent.isBanned = row.isBanned
    /\ \A row, ent \in T!AccountRow :
          /\ T!Differing(row, ent) \in SUBSET {"code", "telegramId"}
          /\ "telegramId" \in T!Differing(row, ent) \/ ent.telegramId = row.telegramId
<1>1. /\ \A row \in T!UserRow : DOMAIN row = {"isBanned", "account"}
      /\ \A row \in T!AccountRow : DOMAIN row = {"code", "telegramId"}
  BY DEF T!UserRow, T!AccountRow
<1> QED BY <1>1 DEF T!Differing

LEMMA SavedUserColumns ==
    ASSUME NEW row \in T!UserRow, NEW ent \in T!UserRow, NEW cols, NEW new \in T!Saved(row, ent, cols)
    PROVE  /\ new \in T!UserRow
           /\ new.isBanned \in {row.isBanned, ent.isBanned} /\ new.account \in {row.account, ent.account}
           /\ "isBanned" \in cols => new.isBanned = ent.isBanned
           /\ "account" \in cols => new.account = ent.account
<1>1. PICK written : cols \subseteq written /\ new = T!Merge(row, ent, written)
  BY DEF T!Saved
<1>2. DOMAIN row = {"isBanned", "account"}
  BY DEF T!UserRow
<1>3. new = [c \in {"isBanned", "account"} |-> IF c \in written THEN ent[c] ELSE row[c]]
  BY <1>1, <1>2 DEF T!Merge
<1>4. /\ new.isBanned \in {row.isBanned, ent.isBanned} /\ new.account \in {row.account, ent.account}
      /\ "isBanned" \in cols => new.isBanned = ent.isBanned
      /\ "account" \in cols => new.account = ent.account
  BY <1>1, <1>3
<1>5. new = [isBanned |-> new.isBanned, account |-> new.account]
  BY <1>3
<1>6. new \in T!UserRow
  BY <1>4, <1>5 DEF T!UserRow
<1> QED BY <1>4, <1>6

LEMMA SavedAccountColumns ==
    ASSUME NEW row \in T!AccountRow, NEW ent \in T!AccountRow, NEW cols, NEW new \in T!Saved(row, ent, cols)
    PROVE  /\ new \in T!AccountRow
           /\ new.code \in {row.code, ent.code} /\ new.telegramId \in {row.telegramId, ent.telegramId}
           /\ "code" \in cols => new.code = ent.code
           /\ "telegramId" \in cols => new.telegramId = ent.telegramId
<1>1. PICK written : cols \subseteq written /\ new = T!Merge(row, ent, written)
  BY DEF T!Saved
<1>2. DOMAIN row = {"code", "telegramId"}
  BY DEF T!AccountRow
<1>3. new = [c \in {"code", "telegramId"} |-> IF c \in written THEN ent[c] ELSE row[c]]
  BY <1>1, <1>2 DEF T!Merge
<1>4. /\ new.code \in {row.code, ent.code} /\ new.telegramId \in {row.telegramId, ent.telegramId}
      /\ "code" \in cols => new.code = ent.code
      /\ "telegramId" \in cols => new.telegramId = ent.telegramId
  BY <1>1, <1>3
<1>5. new = [code |-> new.code, telegramId |-> new.telegramId]
  BY <1>3
<1>6. new \in T!AccountRow
  BY <1>4, <1>5 DEF T!AccountRow
<1> QED BY <1>4, <1>6

\* Every step marks the requests whose row it changes; the others find it as it was.
TelegramMarked == overlapped' = OverlappedBy({p \in Requests : UserChanges(p) \/ AccountChanges(p)})

LEMMA RowsStandKeeps ==
    ASSUME TelegramInv, TelegramMarked,
           NEW r \in Requests, \A p \in Requests : p # r => req'[p] = req[p],
           LinkWritten(r)', r \notin overlapped' => RowStands(r)'
    PROVE  RowsStand'
<1> SUFFICES ASSUME NEW p \in Requests, p # r
             PROVE  LinkWritten(p)' /\ (p \notin overlapped' => RowStands(p)')
  BY DEF RowsStand
<1>1. LinkWritten(p)'
  BY DEF TelegramInv, RowsStand, LinkWritten
<1>2. ASSUME p \notin overlapped', req'[p].pc \in {"commitBan", "saveChat"}
      PROVE  RowStands(p)'
  <2>1. req'[p] = req[p] /\ p \notin overlapped /\ ~UserChanges(p) /\ ~AccountChanges(p)
    BY <1>2 DEF TelegramMarked, OverlappedBy
  <2>2. /\ req[p].pc = "commitBan" => req[p].user \in Users
        /\ req[p].pc = "saveChat" => req[p].id \in T!AccountId
    BY TelegramRequestFields DEF TelegramInv, T!TypeOK
  <2>3. req[p].pc = "commitBan" => users'[req[p].user] = users[req[p].user]
    BY <2>1, <2>2 DEF UserChanges, T!HoldsUser
  <2>4. req[p].pc = "saveChat" => accounts'[req[p].id] = accounts[req[p].id]
    BY <2>1, <2>2 DEF AccountChanges, T!HoldsAccount
  <2>5. RowStands(p)
    BY <2>1 DEF TelegramInv, RowsStand
  <2> QED BY <2>1, <2>3, <2>4, <2>5 DEF RowStands
<1> QED BY <1>1, <1>2 DEF RowStands

LEMMA TelegramAwaitKeeps ==
    ASSUME TelegramInv, NEW r \in Requests, NEW s \in T!Request, T!Await(r, s), AccountFound(s),
           UNCHANGED <<users, accounts, lastAccount>>, lastCode' \in 0..MaxCode, TelegramMarked,
           asked' = [u \in Users |-> IF BeginsLink(r, u) THEN [asked[u] EXCEPT !.code = None]
                                     ELSE asked[u]]
    PROVE  TelegramInv'
<1>1. req'[r] = s /\ \A p \in Requests : p # r => req'[p] = req[p]
  BY DEF TelegramInv, T!TypeOK, T!Await
<1>2. /\ asked' \in [Users -> TelegramAsked]
      /\ \A u \in Users : /\ asked'[u].isBanned = asked[u].isBanned /\ asked'[u].chat = asked[u].chat
                          /\ asked'[u].code = IF BeginsLink(r, u) THEN None ELSE asked[u].code
  BY DEF TelegramInv, TelegramAsked
<1>3. T!TypeOK'
  BY DEF TelegramInv, T!TypeOK, T!Await
<1>4. AccountsFresh'
  BY <1>1, TelegramFacts, TelegramRequestFields
     DEF TelegramInv, AccountsFresh, AccountFound, T!HoldsUser, T!HoldsAccount
<1>5. LinksAreNew'
  <2> SUFFICES ASSUME NEW p \in Requests, NEW a \in T!AccountId,
                      req'[p].pc = "saveUser", req'[p].ent.account = a
               PROVE  /\ \A u \in Users : users'[u].account # a
                      /\ \A q \in Requests \ {p}, u \in Users :
                            T!HoldsUser(q, u)' => req'[q].ent.account # a
                      /\ accounts'[a].code = req'[p].code
                      /\ \A q \in Requests :
                            T!HoldsAccount(q, a)' => req'[q].pc = "saveChat" /\ req'[q].ent.code = req'[p].code
    BY DEF LinksAreNew, T!At
  <2>1. req'[p] = req[p] /\ p # r
    BY <1>1 DEF AccountFound
  <2>2. /\ \A u \in Users : users[u].account # a
        /\ \A q \in Requests \ {p}, u \in Users : T!HoldsUser(q, u) => req[q].ent.account # a
        /\ accounts[a].code = req[p].code
        /\ \A q \in Requests : T!HoldsAccount(q, a) => T!At(q, "saveChat") /\ req[q].ent.code = req[p].code
    BY <2>1 DEF TelegramInv, LinksAreNew, T!At
  <2>3. \A q \in Requests \ {p}, u \in Users : T!HoldsUser(q, u)' => req'[q].ent.account # a
    BY <1>1, <2>2 DEF AccountFound, T!HoldsUser
  <2>4. \A q \in Requests :
           T!HoldsAccount(q, a)' => req'[q].pc = "saveChat" /\ req'[q].ent.code = req[p].code
    BY <1>1, <2>2 DEF AccountFound, T!HoldsAccount, T!At
  <2> QED BY <2>1, <2>2, <2>3, <2>4
<1>6. BansKept'
  BY <1>1, <1>2 DEF TelegramInv, BansKept, AccountFound, T!HoldsUser, T!At
<1>7. AccountKept'
  BY <1>1, <1>2 DEF TelegramInv, AccountKept, AccountFound, T!HoldsUser, T!At
<1>8. CodesKept'
  BY <1>1, <1>2 DEF TelegramInv, CodesKept, AccountFound, BeginsLink, T!HoldsAccount, T!At
<1>9. ChatsKept'
  BY <1>1, <1>2 DEF TelegramInv, ChatsKept, AccountFound, T!At
<1>10. RowsStand'
  <2>1. LinkWritten(r)' /\ RowStands(r)'
    BY <1>1 DEF LinkWritten, RowStands, AccountFound
  <2> QED BY <1>1, <2>1, RowsStandKeeps
<1> QED BY <1>2, <1>3, <1>4, <1>5, <1>6, <1>7, <1>8, <1>9, <1>10 DEF TelegramInv

LEMMA TelegramBeginKeeps ==
    ASSUME TelegramInv, NEW r \in Requests, T!Begin(r), TelegramMarked,
           asked' = [u \in Users |-> IF BeginsLink(r, u) THEN [asked[u] EXCEPT !.code = None]
                                     ELSE asked[u]]
    PROVE  TelegramInv'
<1>0. /\ users \in [Users -> T!UserRow] /\ accounts \in [T!AccountId -> T!AccountRow \cup {T!NoAccount}]
      /\ lastAccount \in 0..MaxAccount /\ lastCode \in 0..MaxCode
  BY DEF TelegramInv, T!TypeOK
<1>1. ASSUME NEW u \in Users, T!GenerateAuthBotLink(r, u)
      PROVE  TelegramInv'
  <2>1. /\ lastCode + 1 \in T!Code /\ lastCode' \in 0..MaxCode
        /\ UNCHANGED <<users, accounts, lastAccount>>
    BY <1>0, <1>1, TelegramFacts DEF T!GenerateAuthBotLink, T!Code
  <2>2. CASE users[u].account = None
    <3> PICK s : s = [pc |-> "insertAccount", user |-> u, ent |-> users[u], code |-> lastCode + 1]
      OBVIOUS
    <3>1. s \in T!Request /\ AccountFound(s) /\ T!Await(r, s)
      BY <1>0, <1>1, <2>1, <2>2, TelegramRequests DEF T!GenerateAuthBotLink, AccountFound
    <3> QED BY <2>1, <3>1, TelegramAwaitKeeps
  <2>3. CASE users[u].account # None
    <3> PICK a, ent : a = users[u].account /\ ent = [accounts[a] EXCEPT !.code = lastCode + 1]
      OBVIOUS
    <3>1. a \in T!AccountId
      BY <1>0, <2>3 DEF T!UserRow
    <3>2. ent \in T!AccountRow /\ ent.telegramId = accounts[a].telegramId
      BY <1>0, <2>1, <3>1 DEF T!AccountRow, T!NoAccount
    <3> PICK s : s = [pc |-> "saveCode", id |-> a, ent |-> ent, changed |-> {"code"}]
      OBVIOUS
    <3>3. s \in T!Request /\ AccountFound(s) /\ T!Await(r, s)
      BY <1>1, <2>3, <3>1, <3>2, TelegramRequests DEF T!GenerateAuthBotLink, AccountFound
    <3> QED BY <2>1, <3>3, TelegramAwaitKeeps
  <2> QED BY <2>2, <2>3
<1>2. ASSUME NEW chat \in Chats, NEW code \in T!Code \cup {None},
             T!UpdatingMessagesFromTelegram(r, chat, code)
      PROVE  TelegramInv'
  <2>1. PICK a \in 1..lastAccount :
           T!Await(r, [pc |-> "saveChat", id |-> a, ent |-> [accounts[a] EXCEPT !.telegramId = chat],
                       changed |-> T!Differing(accounts[a], [accounts[a] EXCEPT !.telegramId = chat])])
    BY <1>2 DEF T!UpdatingMessagesFromTelegram, T!FindByActivateCode
  <2>2. a \in T!AccountId /\ a <= lastAccount
    BY <1>0, TelegramFacts DEF T!AccountId
  <2> PICK ent : ent = [accounts[a] EXCEPT !.telegramId = chat]
    OBVIOUS
  <2>3. accounts[a] \in T!AccountRow /\ ent \in T!AccountRow /\ ent.code = accounts[a].code
    BY <1>0, <2>2 DEF TelegramInv, AccountsFresh, T!AccountRow
  <2> PICK s : s = [pc |-> "saveChat", id |-> a, ent |-> ent, changed |-> T!Differing(accounts[a], ent)]
    OBVIOUS
  <2>4. s \in T!Request /\ AccountFound(s) /\ T!Await(r, s)
    BY <2>1, <2>2, <2>3, TelegramColumns, TelegramRequests DEF AccountFound
  <2> QED BY <1>0, <1>2, <2>4, TelegramAwaitKeeps DEF T!UpdatingMessagesFromTelegram, T!tables
<1>3. ASSUME NEW u \in Users, NEW isBanned \in BOOLEAN, T!BanUnbanUser(r, u, isBanned)
      PROVE  TelegramInv'
  <2> PICK ent : ent = [users[u] EXCEPT !.isBanned = isBanned]
    OBVIOUS
  <2>1. users[u] \in T!UserRow /\ ent \in T!UserRow /\ ent.account = users[u].account
    BY <1>0 DEF T!UserRow
  <2> PICK s : s = [pc |-> "commitBan", user |-> u, ent |-> ent, changed |-> T!Differing(users[u], ent)]
    OBVIOUS
  <2>2. s \in T!Request /\ T!Await(r, s)
    BY <1>3, <2>1, TelegramColumns, TelegramRequests DEF T!BanUnbanUser
  <2>3. AccountFound(s)
    BY <2>1, TelegramColumns DEF AccountFound
  <2> QED BY <1>0, <1>3, <2>2, <2>3, TelegramAwaitKeeps DEF T!BanUnbanUser, T!tables
<1> QED BY <1>1, <1>2, <1>3 DEF T!Begin


\* What a request that answers leaves: nothing in its hands.
LEMMA TelegramAnswer ==
    ASSUME TelegramInv, NEW r \in Requests, T!Answer(r)
    PROVE  /\ req' \in [Requests -> T!Request] /\ req'[r].pc = "idle"
           /\ \A p \in Requests : p # r => req'[p] = req[p]
  BY TelegramRequests DEF TelegramInv, T!TypeOK, T!Answer, T!Await, T!Idle

LEMMA TelegramFailKeeps ==
    ASSUME TelegramInv, NEW r \in Requests, T!Fail(r), UNCHANGED asked, TelegramMarked
    PROVE  TelegramInv'
<1>1. /\ req' \in [Requests -> T!Request] /\ req'[r].pc = "idle"
      /\ \A p \in Requests : p # r => req'[p] = req[p]
  BY TelegramAnswer DEF T!Fail
<1>2. UNCHANGED <<users, accounts, lastAccount, lastCode, asked>>
  BY DEF T!Fail, T!tables
<1> USE <1>1, <1>2
<1>3. T!TypeOK'
  BY DEF TelegramInv, T!TypeOK
<1>4. AccountsFresh' /\ LinksAreNew'
  BY DEF TelegramInv, AccountsFresh, LinksAreNew, T!HoldsUser, T!HoldsAccount, T!At
<1>5. BansKept' /\ AccountKept' /\ CodesKept' /\ ChatsKept'
  BY DEF TelegramInv, BansKept, AccountKept, CodesKept, ChatsKept, T!HoldsUser, T!HoldsAccount, T!At
<1>6. RowsStand'
  BY RowsStandKeeps DEF LinkWritten, RowStands
<1> QED BY <1>3, <1>4, <1>5, <1>6 DEF TelegramInv

LEMMA InsertAccountKeeps ==
    ASSUME TelegramInv, NEW r \in Requests, T!InsertAccount(r), TelegramMarked, asked' = [u \in Users |-> AskedOf(r, u)]
    PROVE  TelegramInv'
<1>0. req[r] \in T!Request /\ req[r].pc = "insertAccount"
  BY DEF TelegramInv, T!TypeOK, T!InsertAccount, T!At
<1>1. asked' = asked
  BY <1>0 DEF AskedOf, TelegramInv
<1> PICK a : a = lastAccount + 1
  OBVIOUS
<1>2. /\ a \in T!AccountId /\ lastAccount' = a /\ lastAccount' \in 0..MaxAccount
      /\ ~(a <= lastAccount) /\ a <= a /\ \A k \in T!AccountId : k <= a => k = a \/ k <= lastAccount
      /\ \A k \in T!AccountId : k <= lastAccount => k <= a
      /\ UNCHANGED <<users, lastCode>>
  BY TelegramFacts DEF T!InsertAccount, TelegramInv, T!TypeOK, T!AccountId
<1>3. req[r].user \in Users /\ req[r].ent \in T!UserRow /\ req[r].code \in T!Code
  BY <1>0, TelegramRequestFields
<1>4. /\ accounts' \in [T!AccountId -> T!AccountRow \cup {T!NoAccount}]
      /\ accounts'[a] \in T!AccountRow /\ accounts'[a].code = req[r].code
      /\ \A k \in T!AccountId : k # a => accounts'[k] = accounts[k]
  BY <1>2, <1>3 DEF T!InsertAccount, TelegramInv, T!TypeOK, T!AccountRow
<1> PICK ent : ent = [req[r].ent EXCEPT !.account = a]
  OBVIOUS
<1>5. ent \in T!UserRow /\ ent.account = a /\ ent.isBanned = req[r].ent.isBanned
  BY <1>2, <1>3 DEF T!UserRow
<1> PICK s : s = [pc |-> "saveUser", user |-> req[r].user, code |-> req[r].code, ent |-> ent,
                  changed |-> {"account"}]
  OBVIOUS
<1>6. /\ req' \in [Requests -> T!Request] /\ req'[r] = s
      /\ s.pc = "saveUser" /\ s.user = req[r].user /\ s.code = req[r].code /\ s.ent = ent
      /\ s.changed = {"account"}
      /\ \A p \in Requests : p # r => req'[p] = req[p]
  BY <1>2, <1>3, <1>5, TelegramRequests DEF T!InsertAccount, T!Await, TelegramInv, T!TypeOK
<1>7. T!TypeOK'
  BY <1>2, <1>4, <1>6 DEF TelegramInv, T!TypeOK
<1>8. AccountsFresh'
  <2>1. /\ \A u \in Users : users[u].account \in T!AccountId \cup {None}
        /\ \A q \in Requests, u \in Users : T!HoldsUser(q, u) => req[q].ent.account \in T!AccountId \cup {None}
    BY TelegramRequestFields DEF TelegramInv, T!TypeOK, T!UserRow, T!HoldsUser
  <2>2. \A k \in T!AccountId : k <= a => accounts'[k] # T!NoAccount
    BY <1>2, <1>4, TelegramFacts DEF TelegramInv, AccountsFresh
  <2>3. \A u \in Users : users'[u].account # None => users'[u].account <= a
    BY <1>2, <2>1 DEF TelegramInv, AccountsFresh
  <2>4. ASSUME NEW q \in Requests, NEW u \in Users, T!HoldsUser(q, u)', req'[q].ent.account # None
        PROVE  req'[q].ent.account <= a
    <3>1. CASE q = r
      BY <1>2, <1>5, <1>6, <3>1
    <3>2. CASE q # r
      <4>1. T!HoldsUser(q, u) /\ req'[q] = req[q]
        BY <1>6, <2>4, <3>2 DEF T!HoldsUser
      <4> QED BY <1>2, <2>1, <2>4, <4>1 DEF TelegramInv, AccountsFresh
    <3> QED BY <3>1, <3>2
  <2>5. /\ \A q \in Requests, k \in T!AccountId : T!HoldsAccount(q, k)' => k <= a
        /\ \A q \in Requests : req'[q].pc = "saveUser" => req'[q].ent.account # None
    <3>1. a # None
      BY <1>2, TelegramFacts
    <3>2. \A q \in Requests : req'[q].pc = "saveUser" => req'[q].ent.account # None
      BY <3>1, <1>5, <1>6 DEF TelegramInv, AccountsFresh
    <3>3. \A q \in Requests, k \in T!AccountId : T!HoldsAccount(q, k)' => T!HoldsAccount(q, k)
      BY <1>6 DEF T!HoldsAccount
    <3>4. \A q \in Requests, k \in T!AccountId : T!HoldsAccount(q, k) => k <= a
      BY <1>2 DEF TelegramInv, AccountsFresh
    <3> QED BY <3>2, <3>3, <3>4
  <2> QED BY <1>2, <2>2, <2>3, <2>4, <2>5 DEF AccountsFresh
<1>9. \* The new account is nobody's.
      /\ \A u \in Users : users[u].account # a
      /\ \A q \in Requests, u \in Users : T!HoldsUser(q, u) => req[q].ent.account # a
      /\ \A q \in Requests : ~T!HoldsAccount(q, a)
  BY <1>2, TelegramFacts DEF TelegramInv, AccountsFresh
<1>10. LinksAreNew'
  <2> SUFFICES ASSUME NEW p \in Requests, NEW k \in T!AccountId,
                      req'[p].pc = "saveUser", req'[p].ent.account = k
               PROVE  /\ \A u \in Users : users'[u].account # k
                      /\ \A q \in Requests \ {p}, u \in Users :
                            T!HoldsUser(q, u)' => req'[q].ent.account # k
                      /\ accounts'[k].code = req'[p].code
                      /\ \A q \in Requests :
                            T!HoldsAccount(q, k)' => req'[q].pc = "saveChat" /\ req'[q].ent.code = req'[p].code
    BY DEF LinksAreNew, T!At
  <2>1. CASE p = r
    <3>1. k = a
      BY <1>5, <1>6, <2>1
    <3>2. \A q \in Requests, u \in Users : q # r /\ T!HoldsUser(q, u)' => req'[q].ent.account # a
      BY <1>6, <1>9 DEF T!HoldsUser
    <3>3. \A q \in Requests : ~T!HoldsAccount(q, a)'
      BY <1>6, <1>9 DEF T!HoldsAccount
    <3> QED BY <1>2, <1>4, <1>6, <1>9, <2>1, <3>1, <3>2, <3>3
  <2>2. CASE p # r
    <3>1. req'[p] = req[p] /\ T!At(p, "saveUser") /\ T!HoldsUser(p, req[p].user) /\ req[p].user \in Users
      BY <1>6, <2>2, TelegramRequestFields DEF TelegramInv, T!TypeOK, T!At, T!HoldsUser
    <3>2. k # a
      BY <1>9, <3>1
    <3>3. /\ \A u \in Users : users[u].account # k
          /\ \A q \in Requests \ {p}, u \in Users : T!HoldsUser(q, u) => req[q].ent.account # k
          /\ accounts[k].code = req[p].code
          /\ \A q \in Requests : T!HoldsAccount(q, k) => T!At(q, "saveChat") /\ req[q].ent.code = req[p].code
      BY <3>1 DEF TelegramInv, LinksAreNew
    <3>4. \A q \in Requests \ {p}, u \in Users : T!HoldsUser(q, u)' => req'[q].ent.account # k
      <4> TAKE q \in Requests \ {p}, u \in Users
      <4>1. CASE q = r
        BY <1>5, <1>6, <3>2, <4>1
      <4>2. CASE q # r
        BY <1>6, <3>3, <4>2 DEF T!HoldsUser
      <4> QED BY <4>1, <4>2
    <3>5. \A q \in Requests :
             T!HoldsAccount(q, k)' => req'[q].pc = "saveChat" /\ req'[q].ent.code = req[p].code
      BY <1>6, <3>3 DEF T!HoldsAccount, T!At
    <3> QED BY <1>2, <1>4, <3>1, <3>2, <3>3, <3>4, <3>5
  <2> QED BY <2>1, <2>2
<1>11. BansKept'
  <2>1. \A q \in Requests, u \in Users : T!HoldsUser(q, u)' =>
           T!HoldsUser(q, u) /\ req'[q].ent.isBanned = req[q].ent.isBanned /\ (req'[q].pc = "commitBan" <=> req[q].pc = "commitBan")
    BY <1>0, <1>5, <1>6 DEF T!HoldsUser
  <2> QED BY <1>1, <1>2, <2>1 DEF TelegramInv, BansKept, T!At
<1>12. AccountKept'
  BY <1>0, <1>1, <1>2, <1>6 DEF TelegramInv, AccountKept, T!HoldsUser, T!At
<1>13. CodesKept' /\ ChatsKept'
  BY <1>1, <1>2, <1>4, <1>6, <1>9
     DEF TelegramInv, T!TypeOK, T!UserRow, AccountKept, CodesKept, ChatsKept, T!HoldsAccount, T!At
<1>14. RowsStand'
  BY <1>6, RowsStandKeeps DEF LinkWritten, RowStands
<1> QED BY <1>1, <1>7, <1>8, <1>10, <1>11, <1>12, <1>13, <1>14 DEF TelegramInv

LEMMA SaveUserKeeps ==
    ASSUME TelegramInv, NEW r \in Requests, T!SaveUser(r), TelegramMarked, asked' = [u \in Users |-> AskedOf(r, u)]
    PROVE  TelegramInv'
<1>0. req[r] \in T!Request /\ req[r].pc = "saveUser"
  BY DEF TelegramInv, T!TypeOK, T!SaveUser, T!At
<1> PICK v, ent : v = req[r].user /\ ent = req[r].ent
  OBVIOUS
<1>1. v \in Users /\ ent \in T!UserRow /\ req[r].code \in T!Code /\ T!HoldsUser(r, v)
  BY <1>0, TelegramRequestFields DEF T!HoldsUser
<1>2. /\ req' \in [Requests -> T!Request] /\ req'[r].pc = "idle"
      /\ \A p \in Requests : p # r => req'[p] = req[p]
  BY TelegramAnswer DEF T!SaveUser
<1>w. PICK row \in T!Saved(users[v], ent, req[r].changed) : users' = [users EXCEPT ![v] = row]
  BY DEF T!SaveUser, T!UserSaved
<1>a. row \in T!UserRow /\ row.account = ent.account /\ row.isBanned \in {users[v].isBanned, ent.isBanned}
  BY <1>0, <1>1, SavedUserColumns DEF TelegramInv, T!TypeOK, RowsStand, LinkWritten
<1>3. /\ users' \in [Users -> T!UserRow] /\ users'[v] = row
      /\ \A u \in Users : u # v => users'[u] = users[u]
      /\ UNCHANGED <<accounts, lastAccount, lastCode>>
  BY <1>1, <1>w, <1>a DEF T!SaveUser, TelegramInv, T!TypeOK
<1>4. /\ asked' \in [Users -> TelegramAsked]
      /\ \A u \in Users : u # v => asked'[u] = asked[u]
      /\ asked'[v].code = Unless(TelegramOverlap(r, v), req[r].code)
      /\ asked'[v].chat = None /\ asked'[v].isBanned = asked[v].isBanned
  BY <1>0, <1>1 DEF AskedOf, Unless, TelegramInv, TelegramAsked
<1>5. T!TypeOK'
  BY <1>2, <1>3 DEF TelegramInv, T!TypeOK
<1>6. AccountsFresh'
  BY <1>1, <1>2, <1>a, <1>3 DEF TelegramInv, AccountsFresh, T!HoldsUser, T!HoldsAccount
<1>7. LinksAreNew'
  <2> SUFFICES ASSUME NEW p \in Requests, NEW k \in T!AccountId,
                      req'[p].pc = "saveUser", req'[p].ent.account = k
               PROVE  /\ \A u \in Users : users'[u].account # k
                      /\ \A q \in Requests \ {p}, u \in Users :
                            T!HoldsUser(q, u)' => req'[q].ent.account # k
                      /\ accounts'[k].code = req'[p].code
                      /\ \A q \in Requests :
                            T!HoldsAccount(q, k)' => req'[q].pc = "saveChat" /\ req'[q].ent.code = req'[p].code
    BY DEF LinksAreNew, T!At
  <2>1. req'[p] = req[p] /\ T!At(p, "saveUser") /\ p # r
    BY <1>2 DEF T!At
  <2>2. /\ \A u \in Users : users[u].account # k
        /\ \A q \in Requests \ {p}, u \in Users : T!HoldsUser(q, u) => req[q].ent.account # k
        /\ accounts[k].code = req[p].code
        /\ \A q \in Requests : T!HoldsAccount(q, k) => T!At(q, "saveChat") /\ req[q].ent.code = req[p].code
    BY <2>1 DEF TelegramInv, LinksAreNew
  <2>3. ent.account # k
    BY <1>1, <2>1, <2>2
  <2> QED BY <1>2, <1>a, <1>3, <2>1, <2>2, <2>3 DEF T!HoldsUser, T!HoldsAccount, T!At
<1>8. BansKept'
  <2>1. asked[v].isBanned # None => row.isBanned = asked[v].isBanned
    BY <1>0, <1>1, <1>a DEF TelegramInv, BansKept, T!At
  <2> QED BY <1>2, <1>3, <1>4, <2>1 DEF TelegramInv, BansKept, T!HoldsUser, T!At
<1>9. ASSUME asked'[v].code # None
      PROVE  /\ \A q \in Requests \ {r} : ~T!HoldsUser(q, v)
             /\ \A q \in Requests \ {r}, a \in T!AccountId : a = ent.account => ~T!HoldsAccount(q, a)
             /\ asked'[v].code = req[r].code
  BY <1>1, <1>a, <1>3, <1>4, <1>9 DEF Unless, TelegramOverlap
<1>10. ent.account # None /\ ent.account \in T!AccountId /\ T!At(r, "saveUser")
  BY <1>0, <1>1 DEF TelegramInv, AccountsFresh, T!UserRow, T!At
<1>11. AccountKept'
  <2>1. asked'[v].code # None =>
           \A q \in Requests : T!HoldsUser(q, v)' => req'[q].pc = "commitBan" /\ req'[q].ent.account = ent.account
    BY <1>2, <1>9 DEF T!HoldsUser
  <2> QED BY <1>2, <1>a, <1>3, <1>4, <1>10, <2>1 DEF TelegramInv, AccountKept, T!HoldsUser, T!At
<1>12. CodesKept'
  <2>1. ASSUME asked'[v].code # None
        PROVE  /\ accounts[ent.account].code = asked'[v].code
               /\ \A q \in Requests : T!HoldsAccount(q, ent.account)' =>
                     req'[q].pc = "saveChat" /\ req'[q].ent.code = asked'[v].code
    BY <1>1, <1>2, <1>9, <1>10, <2>1 DEF TelegramInv, LinksAreNew, T!HoldsAccount, T!At
  <2> QED BY <1>2, <1>a, <1>3, <1>4, <2>1 DEF TelegramInv, CodesKept, T!HoldsAccount, T!At
<1>13. ChatsKept'
  BY <1>2, <1>3, <1>4 DEF TelegramInv, ChatsKept, T!At
<1>14. RowsStand'
  BY <1>2, RowsStandKeeps DEF LinkWritten, RowStands
<1> QED BY <1>4, <1>5, <1>6, <1>7, <1>8, <1>11, <1>12, <1>13, <1>14 DEF TelegramInv


LEMMA SaveAccountKeeps ==
    ASSUME TelegramInv, NEW r \in Requests, T!SaveAccount(r), TelegramMarked, asked' = [u \in Users |-> AskedOf(r, u)]
    PROVE  TelegramInv'
<1>0. req[r] \in T!Request /\ req[r].pc \in {"saveCode", "saveChat"}
  BY DEF TelegramInv, T!TypeOK, T!SaveAccount, T!At
<1> PICK a, ent : a = req[r].id /\ ent = req[r].ent
  OBVIOUS
<1>1. a \in T!AccountId /\ ent \in T!AccountRow /\ T!HoldsAccount(r, a)
  BY <1>0, TelegramRequestFields DEF T!HoldsAccount
<1>2. /\ req' \in [Requests -> T!Request] /\ req'[r].pc = "idle"
      /\ \A p \in Requests : p # r => req'[p] = req[p]
  BY TelegramAnswer DEF T!SaveAccount
<1>w. PICK row \in T!Saved(accounts[a], ent, req[r].changed) : accounts' = [accounts EXCEPT ![a] = row]
  BY DEF T!SaveAccount
<1>a. accounts[a] \in T!AccountRow
  BY <1>1 DEF TelegramInv, T!TypeOK, AccountsFresh
<1>b. /\ row \in T!AccountRow
      /\ row.code \in {accounts[a].code, ent.code}
      /\ row.telegramId \in {accounts[a].telegramId, ent.telegramId}
      /\ req[r].pc = "saveCode" => row.code = ent.code
      /\ "telegramId" \in req[r].changed => row.telegramId = ent.telegramId
  BY <1>1, <1>a, SavedAccountColumns DEF TelegramInv, RowsStand, LinkWritten
<1>3. /\ accounts' \in [T!AccountId -> T!AccountRow \cup {T!NoAccount}] /\ accounts'[a] = row
      /\ \A k \in T!AccountId : k # a => accounts'[k] = accounts[k]
      /\ UNCHANGED <<users, lastAccount, lastCode>>
  BY <1>1, <1>w, <1>b DEF T!SaveAccount, TelegramInv, T!TypeOK
<1>4. ent.code \in T!Code /\ ent.telegramId \in Chats \cup {None}
  BY <1>1 DEF T!AccountRow
<1>5. /\ asked' \in [Users -> TelegramAsked]
      /\ \A u \in Users :
            /\ asked'[u].isBanned = asked[u].isBanned
            /\ asked'[u].code = IF req[r].pc = "saveCode" /\ users[u].account = a
                                THEN Unless(TelegramOverlap(r, u), ent.code) ELSE asked[u].code
            /\ asked'[u].chat = IF req[r].pc = "saveChat" /\ users[u].account = a
                                THEN Unless(TelegramOverlap(r, u), ent.telegramId) ELSE asked[u].chat
  BY <1>0, <1>4 DEF AskedOf, Unless, TelegramInv, TelegramAsked
<1>6. T!TypeOK'
  BY <1>2, <1>3 DEF TelegramInv, T!TypeOK
<1>7. AccountsFresh'
  BY <1>1, <1>2, <1>b, <1>3, TelegramFacts DEF TelegramInv, AccountsFresh, T!HoldsUser, T!HoldsAccount
<1>8. LinksAreNew'
  <2> SUFFICES ASSUME NEW p \in Requests, NEW k \in T!AccountId,
                      req'[p].pc = "saveUser", req'[p].ent.account = k
               PROVE  /\ \A u \in Users : users'[u].account # k
                      /\ \A q \in Requests \ {p}, u \in Users :
                            T!HoldsUser(q, u)' => req'[q].ent.account # k
                      /\ accounts'[k].code = req'[p].code
                      /\ \A q \in Requests :
                            T!HoldsAccount(q, k)' => req'[q].pc = "saveChat" /\ req'[q].ent.code = req'[p].code
    BY DEF LinksAreNew, T!At
  <2>1. req'[p] = req[p] /\ T!At(p, "saveUser") /\ p # r
    BY <1>2 DEF T!At
  <2>2. /\ \A u \in Users : users[u].account # k
        /\ \A q \in Requests \ {p}, u \in Users : T!HoldsUser(q, u) => req[q].ent.account # k
        /\ accounts[k].code = req[p].code
        /\ \A q \in Requests : T!HoldsAccount(q, k) => T!At(q, "saveChat") /\ req[q].ent.code = req[p].code
    BY <2>1 DEF TelegramInv, LinksAreNew
  <2>3. accounts'[k].code = req[p].code
    BY <1>1, <1>b, <1>3, <2>2
  <2> QED BY <1>2, <1>3, <2>1, <2>2, <2>3 DEF T!HoldsUser, T!HoldsAccount, T!At
<1>9. BansKept'
  BY <1>2, <1>3, <1>5 DEF TelegramInv, BansKept, T!HoldsUser, T!At
<1>10. \* No other request has the user or the account in hand when one of them is asked for.
       ASSUME NEW u \in Users, users[u].account = a, ~TelegramOverlap(r, u)
       PROVE  /\ \A q \in Requests : ~T!HoldsUser(q, u)'
              /\ \A q \in Requests : ~T!HoldsAccount(q, a)'
  <2>1. \A q \in Requests \ {r} : ~T!HoldsUser(q, u) /\ ~T!HoldsAccount(q, a)
    BY <1>1, <1>3, <1>10 DEF TelegramOverlap
  <2> QED BY <1>2, <2>1 DEF T!HoldsUser, T!HoldsAccount
<1>11. AccountKept'
  <2> SUFFICES ASSUME NEW u \in Users, asked'[u].code # None \/ asked'[u].chat # None
               PROVE  /\ users[u].account # None
                      /\ \A q \in Requests : T!HoldsUser(q, u)' =>
                            req'[q].pc = "commitBan" /\ req'[q].ent.account = users[u].account
    BY <1>3 DEF AccountKept, T!At
  <2>1. CASE asked[u].code # None \/ asked[u].chat # None
    BY <1>2, <2>1 DEF TelegramInv, AccountKept, T!HoldsUser, T!At
  <2>2. CASE asked[u].code = None /\ asked[u].chat = None
    <3>1. users[u].account = a /\ ~TelegramOverlap(r, u)
      BY <1>5, <2>2 DEF Unless
    <3> QED BY <1>1, <1>10, <3>1, TelegramFacts
  <2> QED BY <2>1, <2>2
<1>12. CodesKept'
  <2> SUFFICES ASSUME NEW u \in Users, asked'[u].code # None
               PROVE  /\ accounts'[users[u].account].code = asked'[u].code
                      /\ \A q \in Requests : T!HoldsAccount(q, users[u].account)' =>
                            req'[q].pc = "saveChat" /\ req'[q].ent.code = asked'[u].code
    BY <1>3 DEF CodesKept, T!HoldsAccount, T!At
  <2>1. CASE req[r].pc = "saveCode" /\ users[u].account = a
    <3>1. ~TelegramOverlap(r, u) /\ asked'[u].code = ent.code
      BY <1>5, <2>1 DEF Unless
    <3> QED BY <1>b, <1>3, <1>10, <2>1, <3>1
  <2>2. CASE ~(req[r].pc = "saveCode" /\ users[u].account = a)
    <3>1. /\ asked'[u].code = asked[u].code
          /\ accounts[users[u].account].code = asked[u].code
          /\ \A q \in Requests : T!HoldsAccount(q, users[u].account) =>
                T!At(q, "saveChat") /\ req[q].ent.code = asked[u].code
          /\ users[u].account \in T!AccountId
      BY <1>5, <2>2 DEF TelegramInv, CodesKept, AccountKept, T!TypeOK, T!UserRow
    <3>2. accounts'[users[u].account].code = asked[u].code
      BY <1>0, <1>1, <1>b, <1>3, <3>1 DEF T!At
    <3> QED BY <1>2, <1>3, <3>1, <3>2 DEF T!HoldsAccount, T!At
  <2> QED BY <2>1, <2>2
<1>13. ChatsKept'
  <2> SUFFICES ASSUME NEW u \in Users, asked'[u].chat # None
               PROVE  /\ accounts'[users[u].account].telegramId = asked'[u].chat
                      /\ \A q \in Requests : req'[q].pc = "saveCode" /\ req'[q].id = users[u].account =>
                            req'[q].ent.telegramId = asked'[u].chat
    BY <1>3 DEF ChatsKept, T!At
  <2>1. CASE req[r].pc = "saveChat" /\ users[u].account = a
    <3>1. ~TelegramOverlap(r, u) /\ asked'[u].chat = ent.telegramId
      BY <1>5, <2>1 DEF Unless
    <3>2. row.telegramId = ent.telegramId
      BY <1>b, <2>1, <3>1 DEF TelegramOverlap, TelegramInv, RowsStand, RowStands
    <3> QED BY <1>3, <1>10, <2>1, <3>1, <3>2 DEF T!HoldsAccount
  <2>2. CASE ~(req[r].pc = "saveChat" /\ users[u].account = a)
    <3>1. /\ asked'[u].chat = asked[u].chat
          /\ accounts[users[u].account].telegramId = asked[u].chat
          /\ \A q \in Requests : req[q].pc = "saveCode" /\ req[q].id = users[u].account =>
                req[q].ent.telegramId = asked[u].chat
          /\ users[u].account \in T!AccountId
      BY <1>5, <2>2 DEF TelegramInv, ChatsKept, AccountKept, T!TypeOK, T!UserRow, T!At
    <3>2. accounts'[users[u].account].telegramId = asked[u].chat
      BY <1>0, <1>b, <1>3, <2>2, <3>1
    <3> QED BY <1>2, <3>1, <3>2
  <2> QED BY <2>1, <2>2
<1>14. RowsStand'
  BY <1>2, RowsStandKeeps DEF LinkWritten, RowStands
<1> QED BY <1>5, <1>6, <1>7, <1>8, <1>9, <1>11, <1>12, <1>13, <1>14 DEF TelegramInv

LEMMA CommitBanKeeps ==
    ASSUME TelegramInv, NEW r \in Requests, T!CommitBan(r), TelegramMarked, asked' = [u \in Users |-> AskedOf(r, u)]
    PROVE  TelegramInv'
<1>0. req[r] \in T!Request /\ req[r].pc = "commitBan"
  BY DEF TelegramInv, T!TypeOK, T!CommitBan, T!At
<1> PICK v, ent : v = req[r].user /\ ent = req[r].ent
  OBVIOUS
<1>1. v \in Users /\ ent \in T!UserRow /\ T!HoldsUser(r, v)
  BY <1>0, TelegramRequestFields DEF T!HoldsUser
<1>2. /\ req' \in [Requests -> T!Request] /\ req'[r].pc = "idle"
      /\ \A p \in Requests : p # r => req'[p] = req[p]
  BY TelegramAnswer DEF T!CommitBan
<1>w. PICK row \in T!Saved(users[v], ent, req[r].changed) : users' = [users EXCEPT ![v] = row]
  BY DEF T!CommitBan
<1>a. /\ row \in T!UserRow /\ row.account \in {users[v].account, ent.account}
      /\ "isBanned" \in req[r].changed => row.isBanned = ent.isBanned
      /\ row.isBanned \in {users[v].isBanned, ent.isBanned}
  BY <1>1, SavedUserColumns DEF TelegramInv, T!TypeOK
<1>3. /\ users' \in [Users -> T!UserRow] /\ users'[v] = row
      /\ \A u \in Users : u # v => users'[u] = users[u]
      /\ UNCHANGED <<accounts, lastAccount, lastCode>>
  BY <1>1, <1>w, <1>a DEF T!CommitBan, TelegramInv, T!TypeOK
<1>4. ent.isBanned \in BOOLEAN
  BY <1>1 DEF T!UserRow
<1>5. /\ asked' \in [Users -> TelegramAsked]
      /\ \A u \in Users : /\ asked'[u].code = asked[u].code /\ asked'[u].chat = asked[u].chat
                          /\ u # v => asked'[u].isBanned = asked[u].isBanned
      /\ asked'[v].isBanned = Unless(TelegramOverlap(r, v), ent.isBanned)
  BY <1>0, <1>1, <1>4 DEF AskedOf, Unless, TelegramInv, TelegramAsked
<1>6. T!TypeOK'
  BY <1>2, <1>3 DEF TelegramInv, T!TypeOK
<1>7. AccountsFresh'
  BY <1>1, <1>2, <1>a, <1>3 DEF TelegramInv, AccountsFresh, T!HoldsUser, T!HoldsAccount
<1>8. LinksAreNew'
  <2> SUFFICES ASSUME NEW p \in Requests, NEW k \in T!AccountId,
                      req'[p].pc = "saveUser", req'[p].ent.account = k
               PROVE  /\ \A u \in Users : users'[u].account # k
                      /\ \A q \in Requests \ {p}, u \in Users :
                            T!HoldsUser(q, u)' => req'[q].ent.account # k
                      /\ accounts'[k].code = req'[p].code
                      /\ \A q \in Requests :
                            T!HoldsAccount(q, k)' => req'[q].pc = "saveChat" /\ req'[q].ent.code = req'[p].code
    BY DEF LinksAreNew, T!At
  <2>1. req'[p] = req[p] /\ T!At(p, "saveUser") /\ p # r
    BY <1>2 DEF T!At
  <2>2. /\ \A u \in Users : users[u].account # k
        /\ \A q \in Requests \ {p}, u \in Users : T!HoldsUser(q, u) => req[q].ent.account # k
        /\ accounts[k].code = req[p].code
        /\ \A q \in Requests : T!HoldsAccount(q, k) => T!At(q, "saveChat") /\ req[q].ent.code = req[p].code
    BY <2>1 DEF TelegramInv, LinksAreNew
  <2>3. ent.account # k
    BY <1>1, <2>1, <2>2
  <2> QED BY <1>2, <1>a, <1>3, <2>1, <2>2, <2>3 DEF T!HoldsUser, T!HoldsAccount, T!At
<1>9. BansKept'
  <2>1. ASSUME asked'[v].isBanned # None
        PROVE  /\ row.isBanned = asked'[v].isBanned
               /\ \A q \in Requests \ {r} : ~T!HoldsUser(q, v)
    <3>1. ~TelegramOverlap(r, v) /\ asked'[v].isBanned = ent.isBanned
      BY <1>5, <2>1 DEF Unless
    <3>2. row.isBanned = ent.isBanned
      BY <1>0, <1>a, <3>1 DEF TelegramOverlap, TelegramInv, RowsStand, RowStands
    <3> QED BY <3>1, <3>2 DEF TelegramOverlap
  <2> QED BY <1>2, <1>3, <1>5, <2>1 DEF TelegramInv, BansKept, T!HoldsUser, T!At
<1>10. \A u \in Users : asked[u].code # None \/ asked[u].chat # None =>
          users'[u].account = users[u].account
  BY <1>1, <1>a, <1>3 DEF TelegramInv, AccountKept
<1>11. AccountKept'
  BY <1>2, <1>5, <1>10 DEF TelegramInv, AccountKept, T!HoldsUser, T!At
<1>12. CodesKept' /\ ChatsKept'
  BY <1>2, <1>3, <1>5, <1>10 DEF TelegramInv, CodesKept, ChatsKept, T!HoldsAccount, T!At
<1>13. RowsStand'
  BY <1>2, RowsStandKeeps DEF LinkWritten, RowStands
<1> QED BY <1>5, <1>6, <1>7, <1>8, <1>9, <1>11, <1>12, <1>13 DEF TelegramInv

LEMMA TelegramStepKeeps ==
    ASSUME TelegramInv, TelegramStep
    PROVE  TelegramInv'
<1>1. TelegramMarked
  BY DEF TelegramStep, TelegramMarked
<1> QED BY <1>1, TelegramBeginKeeps, InsertAccountKeeps, SaveUserKeeps, SaveAccountKeeps, CommitBanKeeps,
           TelegramFailKeeps DEF TelegramStep, T!Save

LEMMA TelegramInvInit ==
    ASSUME Init, part = "telegram"
    PROVE  TelegramInv
<1>1. T!Init /\ asked = [u \in Users |-> [code |-> None, chat |-> None, isBanned |-> None]]
  BY DEF Init
<1>2. T!TypeOK /\ asked \in [Users -> TelegramAsked]
  BY <1>1, TelegramFacts, TelegramRequests DEF T!Init, T!TypeOK, T!UserRow, TelegramAsked
<1>3. AccountsFresh /\ LinksAreNew
  BY <1>1 DEF T!Init, AccountsFresh, LinksAreNew, T!AccountId, T!HoldsUser, T!HoldsAccount,
              T!At, T!Idle
<1>4. BansKept /\ AccountKept /\ CodesKept /\ ChatsKept /\ RowsStand
  BY <1>1 DEF T!Init, T!Idle, BansKept, AccountKept, CodesKept, ChatsKept, RowsStand, LinkWritten, RowStands
<1> QED BY <1>2, <1>3, <1>4 DEF TelegramInv


(***************************************************************************)
(* Part C.  The invariant of the subscriptions.                            *)
(***************************************************************************)
\* No row has an id still to come; a row in hand is one of its blog and user.
SubsFresh ==
    /\ \A s \in S!SubId : s > lastSub => subs[s] = S!NoSub
    /\ \A r \in Requests : S!At(r, "saveSub") /\ req[r].id # None =>
          /\ req[r].id <= lastSub
          /\ subs[req[r].id].blog = req[r].ent.blog /\ subs[req[r].id].user = req[r].ent.user

\* A subscription that two requests never changed at once has one row, or none yet.
OneSubscription ==
    \A bu \in Pairs \ overlapped :
        /\ \A r, q \in S!Changing(bu[1], bu[2]) : r = q
        /\ \A s, t \in S!RowsOf(bu[1], bu[2]) : s = t
        /\ \A r \in S!Changing(bu[1], bu[2]) : req[r].id = None => S!RowsOf(bu[1], bu[2]) = {}

\* The rows of a quiet user say that he is unsubscribed, no request is to change that, and
\* no listener has read otherwise.
QuietIsQuiet ==
    \A bu \in quiet :
        /\ \A s \in S!RowsOf(bu[1], bu[2]) : subs[s].status = "Unsubscribed"
        /\ \A r \in S!Changing(bu[1], bu[2]) : req[r].ent.status = "Unsubscribed"
        /\ \A r \in S!Informing(bu[1]) : \A ua \in req[r].left : ua[1] # bu[2]

SubscriptionInv ==
    /\ S!TypeOK /\ overlapped \subseteq Pairs /\ quiet \subseteq Pairs
    /\ SubsFresh /\ OneSubscription /\ QuietIsQuiet

\* The fields a request keeps while it is on its way, and what it may be on its way to.
LEMMA SubRequestFields ==
    ASSUME NEW s \in S!Request
    PROVE  /\ s.pc = "saveSub" => s.id \in S!SubId \cup {None} /\ s.ent \in S!SubRow
           /\ s.pc \in {"inform", "informing"} => s.blog \in Blogs
           /\ s.pc = "informing" => s.left \in SUBSET (Subscribers \X S!Account)
  BY DEF S!Request

LEMMA SubRequests ==
    /\ S!Idle \in S!Request /\ S!Idle.pc = "idle"
    /\ \A s \in S!SubId \cup {None}, ent \in S!SubRow : [pc |-> "saveSub", id |-> s, ent |-> ent] \in S!Request
    /\ \A b \in Blogs : [pc |-> "inform", blog |-> b] \in S!Request
    /\ \A b \in Blogs, left \in SUBSET (Subscribers \X S!Account) :
          [pc |-> "informing", blog |-> b, left |-> left] \in S!Request
  BY DEF S!Request, S!Idle

LEMMA SubFacts ==
    /\ MaxSub \in Nat \ {0}
    /\ None \notin Subscribers /\ None \notin Blogs /\ None \notin S!SubId
    /\ S!NoSub.blog = None /\ S!NoSub.user = None
    /\ \A e \in S!SubRow : e.blog \in Blogs /\ e.user \in Subscribers /\ e.status \in S!Status
    /\ \A b \in Blogs, u \in Subscribers, f \in S!Status : [blog |-> b, user |-> u, status |-> f] \in S!SubRow
  BY OutsideConstants DEF S!SubscriptionsConstants, S!NoSub, S!SubId, S!SubRow

LEMMA AtMostOne ==
    ASSUME NEW A, IsFiniteSet(A), ~(Cardinality(A) > 1), NEW x \in A, NEW y \in A
    PROVE  x = y
<1> SUFFICES ASSUME x # y PROVE FALSE
  OBVIOUS
<1>1. IsFiniteSet({y}) /\ Cardinality({y}) = 1
  BY FS_Singleton
<1>2. Cardinality({y} \cup {x}) = 2
  <2>1. Cardinality({y} \cup {x}) = IF x \in {y} THEN Cardinality({y}) ELSE Cardinality({y}) + 1
    BY <1>1, FS_AddElement
  <2>2. x \notin {y}
    OBVIOUS
  <2> QED BY <1>1, <2>1, <2>2
<1>3. Cardinality({y} \cup {x}) <= Cardinality(A)
  BY FS_Subset
<1>4. Cardinality(A) \in Nat
  BY FS_CardinalityType
<1> QED BY <1>2, <1>3, <1>4

\* Only request r can take a row in hand in a step.
OnlyOneMoves(r) == \A q \in Requests : q # r => req'[q] \in {req[q], S!Idle}

\* So a subscription that was never overlapped is in the hands of one request at most.
LEMMA OneChanges ==
    ASSUME SubscriptionInv, NEW r, OnlyOneMoves(r), overlapped' = overlapped \cup OverlappedNow,
           NEW bu \in Pairs \ overlapped',
           NEW p \in S!Changing(bu[1], bu[2])', NEW q \in S!Changing(bu[1], bu[2])'
    PROVE  p = q
<1> PICK b, u : b = bu[1] /\ u = bu[2]
  OBVIOUS
<1> PICK A : A = S!Changing(b, u)
  OBVIOUS
<1> PICK B : B = {x \in Requests : /\ req'[x].pc = "saveSub"
                                   /\ req'[x].ent.blog = b /\ req'[x].ent.user = u}
  OBVIOUS
<1>1. \A x, y \in A : x = y
  BY DEF SubscriptionInv, OneSubscription
<1>2. IsFiniteSet(A)
  <2>1. CASE A = {}
    BY <2>1, FS_EmptySet
  <2>2. CASE A # {}
    <3>1. PICK x \in A : TRUE
      BY <2>2
    <3>2. A = {x}
      BY <1>1, <3>1
    <3> QED BY <3>2, FS_Singleton
  <2> QED BY <2>1, <2>2
<1>3. B \subseteq A \cup {r}
  BY SubRequests DEF OnlyOneMoves, S!Changing
<1>4. IsFiniteSet(B)
  BY <1>2, <1>3, FS_AddElement, FS_Subset
<1>5. ~(Cardinality(B) > 1)
  <2>1. bu \notin OverlappedNow
    OBVIOUS
  <2>2. OverlappedNow = {c \in Pairs : Cardinality({x \in Requests :
           req'[x].pc = "saveSub" /\ req'[x].ent.blog = c[1] /\ req'[x].ent.user = c[2]}) > 1}
    BY DEF OverlappedNow, S!Changing
  <2> QED BY <2>1, <2>2
<1>6. p \in B /\ q \in B
  BY DEF S!Changing
<1> QED BY <1>4, <1>5, <1>6, AtMostOne

\* What a request takes in hand: a row of the blog and user, a new one if there is none; what
\* a listener reads: the subscribers of the blog.
SubFound(s) ==
    /\ s.pc = "saveSub" =>
          IF s.id = None THEN S!RowsOf(s.ent.blog, s.ent.user) = {}
          ELSE s.id \in S!RowsOf(s.ent.blog, s.ent.user)
    /\ s.pc = "informing" =>
          \A ua \in s.left : \E t \in S!RowsOf(s.blog, ua[1]) : subs[t].status = "Subscribed"

\* A step that writes no row keeps the invariant.
LEMMA SubAwaitKeeps ==
    ASSUME SubscriptionInv, NEW r, OnlyOneMoves(r), r \in Requests => req'[r] = req[r] \/ SubFound(req'[r]),
           S!TypeOK', UNCHANGED <<subs, lastSub>>,
           overlapped' = overlapped \cup OverlappedNow, quiet' = quiet \ Subscribing
    PROVE  SubscriptionInv'
<1>1. \A q \in Requests : \/ req'[q] = req[q] \/ req'[q] = S!Idle \/ SubFound(req'[q])
  BY DEF OnlyOneMoves
<1>2. /\ \A q \in Requests : req[q] \in S!Request /\ req'[q] \in S!Request
      /\ lastSub \in Nat /\ \A t \in S!SubId : t \in Nat
  BY SubFacts DEF SubscriptionInv, S!TypeOK, S!SubId
<1>3. overlapped' \subseteq Pairs /\ quiet' \subseteq Pairs
  BY DEF SubscriptionInv, OverlappedNow
<1>4. SubsFresh'
  <2>1. ASSUME NEW q \in Requests, req'[q].pc = "saveSub", req'[q].id # None
        PROVE  /\ req'[q].id <= lastSub
               /\ subs[req'[q].id].blog = req'[q].ent.blog /\ subs[req'[q].id].user = req'[q].ent.user
    <3>1. CASE req'[q] = req[q]
      BY <2>1, <3>1 DEF SubscriptionInv, SubsFresh, S!At
    <3>2. CASE SubFound(req'[q])
      <4> PICK t : t = req'[q].id
        OBVIOUS
      <4>1. req'[q].ent.blog \in Blogs
        BY <1>2, <2>1, SubRequestFields, SubFacts
      <4>2. t \in S!SubId /\ subs[t].blog = req'[q].ent.blog /\ subs[t].user = req'[q].ent.user
        BY <2>1, <3>2 DEF SubFound, S!RowsOf
      <4>3. subs[t] # S!NoSub
        BY <4>1, <4>2, SubFacts
      <4>4. t <= lastSub
        BY <1>2, <4>2, <4>3 DEF SubscriptionInv, SubsFresh
      <4> QED BY <4>2, <4>4
    <3> QED BY <1>1, <2>1, <3>1, <3>2, SubRequests
  <2> QED BY <2>1 DEF SubscriptionInv, SubsFresh, S!At
<1>5. OneSubscription'
  <2> SUFFICES ASSUME NEW bu \in Pairs \ overlapped'
               PROVE  /\ \A p, q \in S!Changing(bu[1], bu[2])' : p = q
                      /\ \A s, t \in S!RowsOf(bu[1], bu[2])' : s = t
                      /\ \A q \in S!Changing(bu[1], bu[2])' :
                            req'[q].id = None => S!RowsOf(bu[1], bu[2])' = {}
    BY DEF OneSubscription, S!Changing, S!RowsOf
  <2>1. bu \in Pairs \ overlapped
    OBVIOUS
  <2>2. S!RowsOf(bu[1], bu[2])' = S!RowsOf(bu[1], bu[2])
    BY DEF S!RowsOf
  <2>3. ASSUME NEW q \in S!Changing(bu[1], bu[2])', req'[q].id = None
        PROVE  S!RowsOf(bu[1], bu[2]) = {}
    <3>1. /\ q \in Requests /\ req'[q].pc = "saveSub"
          /\ req'[q].ent.blog = bu[1] /\ req'[q].ent.user = bu[2]
      BY <2>3 DEF S!Changing
    <3>2. CASE req'[q] = req[q]
      <4>1. q \in S!Changing(bu[1], bu[2])
        BY <3>1, <3>2 DEF S!Changing
      <4> QED BY <2>1, <2>3, <3>2, <4>1 DEF SubscriptionInv, OneSubscription
    <3> QED BY <1>1, <2>3, <3>1, <3>2, SubRequests DEF SubFound
  <2> QED BY <2>1, <2>2, <2>3, OneChanges DEF SubscriptionInv, OneSubscription
<1>6. QuietIsQuiet'
  <2> SUFFICES ASSUME NEW bu \in quiet'
               PROVE  /\ \A s \in S!RowsOf(bu[1], bu[2])' : subs[s].status = "Unsubscribed"
                      /\ \A q \in S!Changing(bu[1], bu[2])' : req'[q].ent.status = "Unsubscribed"
                      /\ \A q \in S!Informing(bu[1])' : \A ua \in req'[q].left : ua[1] # bu[2]
    BY DEF QuietIsQuiet, S!Changing, S!RowsOf, S!Informing
  <2>1. /\ bu \in quiet /\ bu \notin Subscribing /\ bu \in Pairs
        /\ S!RowsOf(bu[1], bu[2])' = S!RowsOf(bu[1], bu[2])
        /\ \A s \in S!RowsOf(bu[1], bu[2]) : subs[s].status = "Unsubscribed"
    BY DEF SubscriptionInv, QuietIsQuiet, S!RowsOf
  <2>2. ASSUME NEW q \in S!Changing(bu[1], bu[2])'
        PROVE  req'[q].ent.status = "Unsubscribed"
    <3>1. /\ q \in Requests /\ req'[q].pc = "saveSub"
          /\ req'[q].ent.blog = bu[1] /\ req'[q].ent.user = bu[2]
      BY <2>2 DEF S!Changing
    <3>2. req'[q].ent \in S!SubRow
      BY <1>2, <3>1, SubRequestFields
    <3>3. req'[q].ent # [blog |-> bu[1], user |-> bu[2], status |-> "Subscribed"]
      BY <2>1, <3>1 DEF Subscribing
    <3> QED BY <3>1, <3>2, <3>3 DEF S!SubRow, S!Status
  <2>3. ASSUME NEW q \in S!Informing(bu[1])', NEW ua \in req'[q].left
        PROVE  ua[1] # bu[2]
    <3>1. q \in Requests /\ req'[q].pc = "informing" /\ req'[q].blog = bu[1]
      BY <2>3 DEF S!Informing
    <3>2. CASE req'[q] = req[q]
      BY <2>1, <2>3, <3>1, <3>2 DEF SubscriptionInv, QuietIsQuiet, S!Informing
    <3>3. CASE SubFound(req'[q])
      <4>1. PICK t \in S!RowsOf(bu[1], ua[1]) : subs[t].status = "Subscribed"
        BY <2>3, <3>1, <3>3 DEF SubFound
      <4> QED BY <2>1, <4>1
    <3> QED BY <1>1, <3>1, <3>2, <3>3, SubRequests
  <2> QED BY <2>1, <2>2, <2>3
<1> QED BY <1>3, <1>4, <1>5, <1>6 DEF SubscriptionInv


LEMMA SaveSubKeeps ==
    ASSUME SubscriptionInv, NEW r \in Requests, S!SaveSubscriber(r),
           overlapped' = overlapped \cup OverlappedNow, quiet' = (quiet \cup Quieted(r)) \ Subscribing
    PROVE  SubscriptionInv'
<1> PICK s, ent : ent = req[r].ent /\ s = IF req[r].id = None THEN lastSub + 1 ELSE req[r].id
  OBVIOUS
<1>0. /\ req[r] \in S!Request /\ req[r].pc = "saveSub"
      /\ lastSub \in 0..MaxSub /\ \A t \in S!SubId : t \in Int
      /\ S!SubId = 1..MaxSub /\ MaxSub \in Nat
  BY SubFacts DEF SubscriptionInv, S!TypeOK, S!SaveSubscriber, S!At, S!SubId
<1>1. /\ ent \in S!SubRow /\ ent.blog \in Blogs /\ ent.user \in Subscribers
      /\ ent.status \in S!Status /\ req[r].id \in S!SubId \cup {None}
  BY <1>0, SubRequestFields, SubFacts
<1> PICK b, u : b = ent.blog /\ u = ent.user
  OBVIOUS
<1>2. s \in S!SubId /\ s <= MaxSub
  BY <1>0, <1>1 DEF S!SaveSubscriber
<1>3. /\ lastSub' = IF s > lastSub THEN s ELSE lastSub
      /\ lastSub' \in 0..MaxSub /\ s <= lastSub' /\ lastSub <= lastSub'
      /\ \A t \in S!SubId : t > lastSub' => t > lastSub /\ t # s
  BY <1>0, <1>2 DEF S!SaveSubscriber
<1>4. /\ subs' \in [S!SubId -> S!SubRow \cup {S!NoSub}] /\ subs'[s] = ent
      /\ \A t \in S!SubId : t # s => subs'[t] = subs[t]
  BY <1>1, <1>2 DEF S!SaveSubscriber, SubscriptionInv, S!TypeOK
<1>5. /\ req' \in [Requests -> S!Request] /\ req'[r] = S!Idle /\ S!Idle.pc = "idle"
      /\ \A q \in Requests : q # r => req'[q] = req[q]
  BY SubRequests DEF S!SaveSubscriber, S!Answer, S!Await, SubscriptionInv, S!TypeOK
<1>6. S!TypeOK'
  BY <1>3, <1>4, <1>5 DEF S!SaveSubscriber, SubscriptionInv, S!TypeOK
<1>7. overlapped' \subseteq Pairs /\ quiet' \subseteq Pairs
  BY DEF SubscriptionInv, OverlappedNow, Quieted
<1>8. \* The row that is written was free, or one of the same blog and user.
      /\ req[r].id = None => subs[s] = S!NoSub
      /\ req[r].id # None => subs[s].blog = b /\ subs[s].user = u /\ s <= lastSub
  BY <1>0, <1>2 DEF SubscriptionInv, SubsFresh, S!At
<1>9. SubsFresh'
  <2>1. \A t \in S!SubId : t > lastSub' => subs'[t] = S!NoSub
    BY <1>3, <1>4 DEF SubscriptionInv, SubsFresh
  <2>2. ASSUME NEW q \in Requests, req'[q].pc = "saveSub", req'[q].id # None
        PROVE  /\ req'[q].id <= lastSub'
               /\ subs'[req'[q].id].blog = req'[q].ent.blog /\ subs'[req'[q].id].user = req'[q].ent.user
    <3>1. q # r /\ req'[q] = req[q]
      BY <1>5, <2>2
    <3> PICK t : t = req[q].id
      OBVIOUS
    <3>2. t <= lastSub /\ subs[t].blog = req[q].ent.blog /\ subs[t].user = req[q].ent.user
      BY <2>2, <3>1 DEF SubscriptionInv, SubsFresh, S!At
    <3>3. t \in S!SubId
      BY <2>2, <3>1, SubRequestFields DEF SubscriptionInv, S!TypeOK
    <3>4. t <= lastSub'
      BY <1>0, <1>3, <3>2, <3>3
    <3>5. t = s => req[r].id # None
      BY <1>0, <3>2
    <3> QED BY <1>4, <1>8, <3>1, <3>2, <3>3, <3>4, <3>5
  <2> QED BY <2>1, <2>2 DEF SubsFresh, S!At
<1>10. \* The rows of other subscriptions stay as they are.
       ASSUME NEW c \in Blogs, NEW v \in Subscribers, c # b \/ v # u
       PROVE  S!RowsOf(c, v)' = S!RowsOf(c, v) /\ \A t \in S!RowsOf(c, v) : subs'[t] = subs[t]
  <2>1. ~(subs[s].blog = c /\ subs[s].user = v)
    BY <1>8, <1>10, SubFacts
  <2> QED BY <1>4, <1>10, <2>1 DEF S!RowsOf
<1>11. \* The subscription that is saved has that row only, unless it was overlapped.
       ASSUME <<b, u>> \notin overlapped
       PROVE  /\ \A t \in S!RowsOf(b, u)' : t = s
              /\ S!Changing(b, u)' = {}
  <2>1. <<b, u>> \in Pairs \ overlapped /\ r \in S!Changing(b, u)
    BY <1>0, <1>1, <1>11 DEF Pairs, S!Changing
  <2> PICK bu : bu = <<b, u>>
    OBVIOUS
  <2>2. /\ \A p, q \in S!Changing(b, u) : p = q
        /\ \A t, k \in S!RowsOf(b, u) : t = k
        /\ req[r].id = None => S!RowsOf(b, u) = {}
    <3>1. bu[1] = b /\ bu[2] = u /\ bu \in Pairs \ overlapped
      BY <2>1
    <3> QED BY <2>1, <3>1 DEF SubscriptionInv, OneSubscription
  <2>3. req[r].id # None => s \in S!RowsOf(b, u)
    BY <1>2, <1>8 DEF S!RowsOf
  <2>4. \A t \in S!RowsOf(b, u)' : t # s => t \in S!RowsOf(b, u)
    BY <1>4 DEF S!RowsOf
  <2>5. S!Changing(b, u)' \subseteq S!Changing(b, u) \ {r}
    BY <1>5 DEF S!Changing
  <2> QED BY <2>1, <2>2, <2>3, <2>4, <2>5
<1>12. \A c, v : S!Changing(c, v)' \subseteq S!Changing(c, v)
  BY <1>5 DEF S!Changing
<1>13. OneSubscription'
  <2> SUFFICES ASSUME NEW bu \in Pairs \ overlapped'
               PROVE  /\ \A p, q \in S!Changing(bu[1], bu[2])' : p = q
                      /\ \A t, k \in S!RowsOf(bu[1], bu[2])' : t = k
                      /\ \A q \in S!Changing(bu[1], bu[2])' :
                            req'[q].id = None => S!RowsOf(bu[1], bu[2])' = {}
    BY DEF OneSubscription, S!Changing, S!RowsOf
  <2>1. bu \in Pairs \ overlapped /\ bu[1] \in Blogs /\ bu[2] \in Subscribers /\ bu = <<bu[1], bu[2]>>
    BY DEF Pairs
  <2> PICK c, v : c = bu[1] /\ v = bu[2]
    OBVIOUS
  <2>2. CASE c = b /\ v = u
    <3>1. \A t \in S!RowsOf(c, v)' : t = s
      BY <1>11, <2>1, <2>2 DEF S!RowsOf
    <3>2. S!Changing(c, v)' = {}
      BY <1>11, <2>1, <2>2 DEF S!Changing
    <3> QED BY <3>1, <3>2
  <2>3. CASE c # b \/ v # u
    <3>1. S!RowsOf(c, v)' = S!RowsOf(c, v)
      BY <1>10, <2>1, <2>3 DEF S!RowsOf
    <3>2. /\ S!Changing(c, v)' \subseteq S!Changing(c, v)
          /\ \A q \in S!Changing(c, v)' : req'[q] = req[q]
      BY <1>5 DEF S!Changing
    <3>3. /\ \A p, q \in S!Changing(c, v) : p = q
          /\ \A t, k \in S!RowsOf(c, v) : t = k
          /\ \A q \in S!Changing(c, v) : req[q].id = None => S!RowsOf(c, v) = {}
      BY <2>1 DEF SubscriptionInv, OneSubscription
    <3> QED BY <3>1, <3>2, <3>3
  <2> QED BY <2>2, <2>3
<1>14. QuietIsQuiet'
  <2> SUFFICES ASSUME NEW bu \in quiet'
               PROVE  /\ \A t \in S!RowsOf(bu[1], bu[2])' : subs'[t].status = "Unsubscribed"
                      /\ \A q \in S!Changing(bu[1], bu[2])' : req'[q].ent.status = "Unsubscribed"
                      /\ \A q \in S!Informing(bu[1])' : \A ua \in req'[q].left : ua[1] # bu[2]
    BY DEF QuietIsQuiet, S!Changing, S!RowsOf, S!Informing
  <2>1. bu \in Pairs /\ bu[1] \in Blogs /\ bu[2] \in Subscribers /\ bu = <<bu[1], bu[2]>>
    BY <1>7 DEF Pairs
  <2> PICK c, v : c = bu[1] /\ v = bu[2]
    OBVIOUS
  <2>2. \A q \in S!Changing(c, v)' : q \in S!Changing(c, v) /\ req'[q] = req[q]
    BY <1>5 DEF S!Changing
  <2>3. \A q \in S!Informing(c)' : q \in S!Informing(c) /\ req'[q] = req[q]
    BY <1>5 DEF S!Informing
  <2>4. CASE bu \in quiet
    <3>1. /\ \A t \in S!RowsOf(c, v) : subs[t].status = "Unsubscribed"
          /\ \A q \in S!Changing(c, v) : req[q].ent.status = "Unsubscribed"
          /\ \A q \in S!Informing(c) : \A ua \in req[q].left : ua[1] # v
      BY <2>4 DEF SubscriptionInv, QuietIsQuiet
    <3>2. ASSUME NEW t \in S!RowsOf(c, v)'
          PROVE  subs'[t].status = "Unsubscribed"
      <4>1. CASE t = s
        <5>1. ent.blog = c /\ ent.user = v
          BY <1>4, <3>2, <4>1 DEF S!RowsOf
        <5>2. r \in S!Changing(c, v)
          BY <1>0, <5>1 DEF S!Changing
        <5> QED BY <1>4, <3>1, <4>1, <5>2
      <4>2. CASE t # s
        <5>1. t \in S!RowsOf(c, v) /\ subs'[t] = subs[t]
          BY <1>4, <3>2, <4>2 DEF S!RowsOf
        <5> QED BY <3>1, <5>1
      <4> QED BY <4>1, <4>2
    <3> QED BY <2>2, <2>3, <3>1, <3>2
  <2>5. CASE bu \in Quieted(r)
    <3>1. /\ ent = [blog |-> c, user |-> v, status |-> "Unsubscribed"]
          /\ bu \notin overlapped /\ S!Informing(c) = {}
      BY <2>5 DEF Quieted
    <3>2. c = b /\ v = u /\ ent.status = "Unsubscribed"
      BY <3>1
    <3>3. \A t \in S!RowsOf(c, v)' : t = s
      BY <1>11, <2>1, <3>1, <3>2 DEF S!RowsOf
    <3>4. S!Changing(c, v)' = {}
      BY <1>11, <2>1, <3>1, <3>2 DEF S!Changing
    <3> QED BY <1>4, <2>3, <3>1, <3>2, <3>3, <3>4
  <2> QED BY <2>4, <2>5
<1> QED BY <1>6, <1>7, <1>9, <1>13, <1>14 DEF SubscriptionInv


LEMMA SubAwait ==
    ASSUME S!TypeOK, NEW r \in Requests, NEW s \in S!Request, S!Await(r, s)
    PROVE  req' \in [Requests -> S!Request] /\ req'[r] = s /\ OnlyOneMoves(r)
  BY DEF S!TypeOK, S!Await, OnlyOneMoves

\* After a restart nothing is in hand.
LEMMA SubRestart ==
    ASSUME S!Restart
    PROVE  req' \in [Requests -> S!Request] /\ outbox' = {} /\ \A r : OnlyOneMoves(r)
  BY SubRequests DEF S!Restart, OnlyOneMoves

LEMMA SubIdleFound == SubFound(S!Idle)
  BY DEF SubFound, S!Idle

LEMMA SubBeginKeeps ==
    ASSUME SubscriptionInv, NEW r \in Requests, S!Begin(r),
           overlapped' = overlapped \cup OverlappedNow, quiet' = quiet \ Subscribing
    PROVE  SubscriptionInv'
<1>0. S!TypeOK /\ subs \in [S!SubId -> S!SubRow \cup {S!NoSub}]
  BY DEF SubscriptionInv, S!TypeOK
<1>1. ASSUME NEW b \in Blogs, NEW u \in Subscribers, S!SubscribeUserToBlog(r, b, u)
      PROVE  SubscriptionInv'
  <2> PICK ent : ent = [blog |-> b, user |-> u, status |-> "Subscribed"]
    OBVIOUS
  <2>1. ent \in S!SubRow /\ ent.blog = b /\ ent.user = u
    BY SubFacts DEF S!Status, S!SubRow
  <2>2. PICK t \in S!SubId \cup {None} :
           /\ IF S!RowsOf(b, u) = {} THEN t = None ELSE t \in S!RowsOf(b, u)
           /\ S!Await(r, [pc |-> "saveSub", id |-> t, ent |-> ent])
    BY <1>1 DEF S!SubscribeUserToBlog, S!FindSubscriberByBlogIdAndUserId, S!RowsOf
  <2> PICK s : s = [pc |-> "saveSub", id |-> t, ent |-> ent]
    OBVIOUS
  <2>3. s.pc = "saveSub" /\ s.id = t /\ s.ent = ent /\ s \in S!Request /\ S!Await(r, s)
    BY <2>1, <2>2, SubRequests
  <2>4. t = None => S!RowsOf(b, u) = {}
    BY <2>2, SubFacts DEF S!RowsOf
  <2>5. SubFound(s)
    BY <2>1, <2>2, <2>3, <2>4 DEF SubFound
  <2>6. UNCHANGED <<account, subs, lastSub, outbox>>
    BY <1>1 DEF S!SubscribeUserToBlog, S!tables
  <2>7. S!TypeOK'
    BY <1>0, <2>3, <2>6, SubAwait DEF S!TypeOK
  <2> QED BY <1>0, <2>3, <2>5, <2>6, <2>7, SubAwait, SubAwaitKeeps
<1>2. ASSUME NEW b \in Blogs, NEW u \in Subscribers, S!UnsubscribeUserToBlog(r, b, u)
      PROVE  SubscriptionInv'
  <2>1. PICK t \in S!RowsOf(b, u) :
           S!Await(r, [pc |-> "saveSub", id |-> t, ent |-> [subs[t] EXCEPT !.status = "Unsubscribed"]])
    BY <1>2 DEF S!UnsubscribeUserToBlog, S!FindSubscriberByBlogIdAndUserId, S!RowsOf
  <2> PICK ent : ent = [subs[t] EXCEPT !.status = "Unsubscribed"]
    OBVIOUS
  <2>2. t \in S!SubId /\ subs[t].blog = b /\ subs[t].user = u /\ subs[t] \in S!SubRow
    BY <1>0, SubFacts DEF S!RowsOf
  <2>3. ent \in S!SubRow /\ ent.blog = b /\ ent.user = u
    BY <2>2 DEF S!SubRow, S!Status
  <2> PICK s : s = [pc |-> "saveSub", id |-> t, ent |-> ent]
    OBVIOUS
  <2>4. s.pc = "saveSub" /\ s.id = t /\ s.ent = ent /\ s \in S!Request /\ S!Await(r, s)
    BY <2>1, <2>2, <2>3, SubRequests
  <2>5. SubFound(s)
    BY <2>2, <2>3, <2>4, SubFacts DEF SubFound
  <2>6. UNCHANGED <<account, subs, lastSub, outbox>>
    BY <1>2 DEF S!UnsubscribeUserToBlog, S!tables
  <2>7. S!TypeOK'
    BY <1>0, <2>4, <2>6, SubAwait DEF S!TypeOK
  <2> QED BY <1>0, <2>4, <2>5, <2>6, <2>7, SubAwait, SubAwaitKeeps
<1>3. ASSUME NEW b \in Blogs, S!PostCreated(r, b)
      PROVE  SubscriptionInv'
  <2> PICK s : s = [pc |-> "inform", blog |-> b]
    OBVIOUS
  <2>1. s.pc = "inform" /\ s \in S!Request /\ S!Await(r, s) /\ SubFound(s)
    BY <1>3, SubRequests DEF S!PostCreated, SubFound
  <2>2. UNCHANGED <<account, subs, lastSub, outbox>>
    BY <1>3 DEF S!PostCreated, S!tables
  <2>3. S!TypeOK'
    BY <1>0, <2>1, <2>2, SubAwait DEF S!TypeOK
  <2> QED BY <1>0, <2>1, <2>2, <2>3, SubAwait, SubAwaitKeeps
<1> QED BY <1>1, <1>2, <1>3 DEF S!Begin

LEMMA SubListenKeeps ==
    ASSUME SubscriptionInv, NEW r \in Requests, S!Listen(r) \/ S!Fail(r),
           overlapped' = overlapped \cup OverlappedNow, quiet' = quiet \ Subscribing
    PROVE  SubscriptionInv'
<1>0. S!TypeOK /\ subs \in [S!SubId -> S!SubRow \cup {S!NoSub}] /\ req[r] \in S!Request
  BY DEF SubscriptionInv, S!TypeOK
<1>1. CASE S!InformSubscribers(r)
  <2> PICK b, left : b = req[r].blog /\ left = S!FindActiveSubscribesByBlogId(b)
    OBVIOUS
  <2>1. b \in Blogs
    BY <1>0, <1>1, SubRequestFields DEF S!InformSubscribers, S!At
  <2>2. \A t \in S!SubId : subs[t].blog = b => subs[t].user \in Subscribers
    BY <1>0, <2>1, SubFacts
  <2>3. left \in SUBSET (Subscribers \X S!Account)
    BY <1>0, <2>2 DEF S!FindActiveSubscribesByBlogId, S!TypeOK
  <2>4. \A ua \in left : \E t \in S!RowsOf(b, ua[1]) : subs[t].status = "Subscribed"
    BY DEF S!FindActiveSubscribesByBlogId, S!RowsOf
  <2> PICK s : s = [pc |-> "informing", blog |-> b, left |-> left]
    OBVIOUS
  <2>5. s.pc = "informing" /\ s.blog = b /\ s.left = left /\ s \in S!Request /\ S!Await(r, s)
    BY <1>1, <2>1, <2>3, SubRequests DEF S!InformSubscribers
  <2>6. SubFound(s)
    BY <2>4, <2>5 DEF SubFound
  <2>7. UNCHANGED <<account, subs, lastSub, outbox>>
    BY <1>1 DEF S!InformSubscribers, S!tables
  <2>8. S!TypeOK'
    BY <1>0, <2>5, <2>7, SubAwait DEF S!TypeOK
  <2> QED BY <1>0, <2>5, <2>6, <2>7, <2>8, SubAwait, SubAwaitKeeps
<1>2. CASE S!Inform(r)
  <2>1. UNCHANGED <<account, subs, lastSub>>
    BY <1>2 DEF S!Inform, S!tables
  <2>2. req[r].blog \in Blogs /\ req[r].left \in SUBSET (Subscribers \X S!Account)
    BY <1>0, <1>2, SubRequestFields DEF S!Inform, S!At
  <2>3. CASE S!Restart
    <3>1. S!TypeOK'
      BY <1>0, <2>1, <2>3, SubRestart DEF S!TypeOK
    <3>2. req'[r] = S!Idle
      BY <2>3 DEF S!Restart
    <3> QED BY <2>1, <2>3, <3>1, <3>2, SubRestart, SubIdleFound, SubAwaitKeeps
  <2>4. CASE S!Answer(r)
    <3>1. req' \in [Requests -> S!Request] /\ req'[r] = S!Idle /\ OnlyOneMoves(r)
      BY <1>0, <2>4, SubRequests, SubAwait DEF S!Answer
    <3>2. outbox' \subseteq Blogs \X Subscribers
      BY <1>0, <1>2, <2>2 DEF S!Inform, S!Restart, S!TypeOK
    <3>3. S!TypeOK'
      BY <1>0, <2>1, <3>1, <3>2 DEF S!TypeOK
    <3> QED BY <2>1, <3>1, <3>3, SubIdleFound, SubAwaitKeeps
  <2> QED BY <1>2, <2>3, <2>4 DEF S!Inform
<1>3. CASE S!Fail(r)
  <2>1. UNCHANGED <<account, subs, lastSub, outbox>>
    BY <1>3 DEF S!Fail, S!tables
  <2>2. req' \in [Requests -> S!Request] /\ req'[r] = S!Idle /\ OnlyOneMoves(r)
    BY <1>0, <1>3, SubRequests, SubAwait DEF S!Fail, S!Answer
  <2>3. S!TypeOK'
    BY <1>0, <2>1, <2>2 DEF S!TypeOK
  <2> QED BY <2>1, <2>2, <2>3, SubIdleFound, SubAwaitKeeps
<1> QED BY <1>1, <1>2, <1>3 DEF S!Listen

\* Telegram answers, or the account of a user changes.
LEMMA SubOutsideKeeps ==
    ASSUME SubscriptionInv,
           \/ \E m \in Pairs : S!Delivered(m) \/ S!Refused(m)
           \/ \E u \in Subscribers : S!AccountChanges(u),
           overlapped' = overlapped \cup OverlappedNow, quiet' = quiet \ Subscribing
    PROVE  SubscriptionInv'
<1>0. S!TypeOK
  BY DEF SubscriptionInv
<1>1. ASSUME NEW m \in Pairs, S!Refused(m)
      PROVE  SubscriptionInv'
  <2>1. UNCHANGED <<account, subs, lastSub>> /\ S!Restart
    BY <1>1 DEF S!Refused, S!tables
  <2>2. S!TypeOK'
    BY <1>0, <2>1, SubRestart DEF S!TypeOK
  <2>3. \A r \in Requests : req'[r] = S!Idle
    BY <2>1 DEF S!Restart
  <2>4. PICK r : OnlyOneMoves(r)
    BY <2>1, SubRestart
  <2> QED BY <2>1, <2>2, <2>3, <2>4, SubIdleFound, SubAwaitKeeps
<1>2. ASSUME \/ \E m \in Pairs : S!Delivered(m)
             \/ \E u \in Subscribers : S!AccountChanges(u)
      PROVE  SubscriptionInv'
  <2>1. UNCHANGED <<subs, lastSub, req>>
    BY <1>2 DEF S!Delivered, S!AccountChanges, S!tables
  <2>2. S!TypeOK'
    BY <1>0, <1>2 DEF S!Delivered, S!AccountChanges, S!tables, S!TypeOK
  <2>3. PICK r : OnlyOneMoves(r) /\ (r \in Requests => req'[r] = req[r])
    BY <2>1 DEF OnlyOneMoves
  <2> QED BY <2>1, <2>2, <2>3, SubAwaitKeeps
<1> QED BY <1>1, <1>2

LEMMA SubscriptionStepKeeps ==
    ASSUME SubscriptionInv, SubscriptionStep
    PROVE  SubscriptionInv'
  BY SaveSubKeeps, SubBeginKeeps, SubListenKeeps, SubOutsideKeeps DEF SubscriptionStep

LEMMA SubscriptionInvInit ==
    ASSUME Init, part = "subscriptions"
    PROVE  SubscriptionInv
<1>1. S!Init /\ quiet = {} /\ overlapped = {}
  BY DEF Init
<1>2. S!TypeOK
  BY <1>1, SubRequests, SubFacts DEF S!Init, S!TypeOK
<1>3. \A r \in Requests : req[r].pc = "idle"
  BY <1>1, SubRequests DEF S!Init
<1>4. \A b \in Blogs, u \in Subscribers : S!RowsOf(b, u) = {} /\ S!Changing(b, u) = {}
  BY <1>1, <1>3, SubFacts DEF S!Init, S!RowsOf, S!Changing
<1>5. SubsFresh /\ QuietIsQuiet
  BY <1>1, <1>3 DEF S!Init, SubsFresh, QuietIsQuiet, S!At
<1>6. OneSubscription
  BY <1>4 DEF OneSubscription, Pairs
<1> QED BY <1>1, <1>2, <1>5, <1>6 DEF SubscriptionInv

\* One step towards QuietAfterUnsubscribe: only a listener hands out messages, and only to
\* those it has read.
QuietStep == part = "subscriptions" => (outbox' \cap quiet) \subseteq outbox

LEMMA SubscriptionStepQuiet ==
    ASSUME SubscriptionInv, SubscriptionStep
    PROVE  QuietStep
<1>1. ASSUME NEW r \in Requests, S!Inform(r), NEW m \in outbox', m \in quiet, m \notin outbox
      PROVE  FALSE
  <2>1. PICK ua \in req[r].left : m = <<req[r].blog, ua[1]>>
    BY <1>1 DEF S!Inform, S!Restart
  <2>2. r \in S!Informing(m[1])
    BY <1>1, <2>1 DEF S!Inform, S!At, S!Informing
  <2> QED BY <1>1, <2>1, <2>2 DEF SubscriptionInv, QuietIsQuiet
<1>2. ASSUME NEW r \in Requests,
             S!Begin(r) \/ S!InformSubscribers(r) \/ S!Fail(r) \/ S!SaveSubscriber(r)
      PROVE  outbox' = outbox
  BY <1>2 DEF S!Begin, S!SubscribeUserToBlog, S!UnsubscribeUserToBlog, S!PostCreated,
              S!InformSubscribers, S!Fail, S!SaveSubscriber
<1>3. ASSUME NEW m \in Pairs, S!Delivered(m) \/ S!Refused(m)
      PROVE  outbox' \subseteq outbox
  BY <1>3 DEF S!Delivered, S!Refused, S!Restart
<1>4. ASSUME NEW u \in Subscribers, S!AccountChanges(u)
      PROVE  outbox' = outbox
  BY <1>4 DEF S!AccountChanges
<1> QED BY <1>1, <1>2, <1>3, <1>4 DEF SubscriptionStep, S!Listen, QuietStep


(***************************************************************************)
(* Part D.  The invariant of the images.                                   *)
(***************************************************************************)
ImageOwners == {PostImage, BlogImage}

\* A row of the owner and size shows the image, and so does the object that it names.
ShownIn(o, size, image) ==
    \E i \in I!FindImage(o, size) :
        photos[i].image = image /\ objects[<<o, size, photos[i].format>>] = image

\* No row has an id still to come; an upload that found a row found one of its size.
PhotosFresh ==
    /\ \A i \in I!PhotoId : i > lastPhoto => photos[i] = I!NoPhoto
    /\ \A r \in Requests : ~I!At(r, "idle") => req[r].step <= Len(Sizes[req[r].owner])
    /\ \A r \in Requests : I!At(r, "savePhoto") /\ req[r].id # None =>
          req[r].id <= lastPhoto /\ req[r].id \in I!FindImage(req[r].owner, I!Size(r))

\* The uploads of an owner for whom two were never under way at once: there is one row for
\* each size.
OnePhoto(o) ==
    /\ \A r, q \in I!Uploading(o) : r = q
    /\ \A size \in I!SizeOf(o) : \A i, k \in I!FindImage(o, size) : i = k
    /\ \A r \in I!Uploading(o) :
          I!At(r, "savePhoto") /\ req[r].id = None => I!FindImage(o, I!Size(r)) = {}

\* An upload under way has stored its image in all sizes before the present one.
UploadProceeds(o) ==
    \A r \in I!Uploading(o) :
        /\ uploaded[o] = None
        /\ \A j \in 1..(req[r].step - 1) : ShownIn(o, Sizes[o][j], req[r].image)
        /\ ~I!At(r, "put") => objects[<<o, I!Size(r), req[r].format>>] = req[r].image

\* The image uploaded last is shown in every size.
UploadStays(o) ==
    uploaded[o] # None => \A size \in I!SizeOf(o) : ShownIn(o, size, uploaded[o])

OwnerInv(o) == OnePhoto(o) /\ UploadProceeds(o) /\ UploadStays(o)

ImageInv ==
    /\ I!TypeOK /\ overlapped \subseteq ImageOwners
    /\ uploaded \in [ImageOwners -> I!Image \cup {None}]
    /\ PhotosFresh /\ \A o \in ImageOwners \ overlapped : OwnerInv(o)

\* The sizes of each owner: three of a post, one of a blog, all different.
LEMMA SizesOf ==
    \A o \in ImageOwners :
        /\ Len(Sizes[o]) \in 1..3
        /\ \A j \in 1..Len(Sizes[o]) : Sizes[o][j] \in I!SizeOf(o)
        /\ \A size \in I!SizeOf(o) : \E j \in 1..Len(Sizes[o]) : size = Sizes[o][j]
        /\ \A j, k \in 1..Len(Sizes[o]) : Sizes[o][j] = Sizes[o][k] => j = k
        /\ I!SizeOf(o) \subseteq I!SizeNames
<1> TAKE o \in ImageOwners
<1>1. Sizes[o] = <<"original", "middle", "small">> \/ Sizes[o] = <<"main">>
  BY DEF Sizes, ImageOwners
<1>2. I!SizeOf(o) \subseteq I!SizeNames
  BY DEF I!SizeNames, ImageOwners
<1>3. CASE Sizes[o] = <<"original", "middle", "small">>
  BY <1>2, <1>3 DEF I!SizeOf
<1>4. CASE Sizes[o] = <<"main">>
  BY <1>2, <1>4 DEF I!SizeOf
<1> QED BY <1>1, <1>3, <1>4


LEMMA ImageFacts ==
    /\ MaxImage \in Nat \ {0} /\ MaxPhoto \in Nat \ {0}
    /\ None \notin ImageOwners /\ None \notin I!Image /\ None \notin I!PhotoId
    /\ I!NoPhoto.owner = None
    /\ \A e \in I!PhotoRow : e.owner \in ImageOwners
    /\ \A o \in ImageOwners, size \in I!SizeNames, f \in Formats, x \in I!Image :
          [owner |-> o, size |-> size, format |-> f, image |-> x] \in I!PhotoRow
  BY OutsideConstants DEF I!ImagesConstants, I!NoPhoto, I!Image, I!PhotoId, I!PhotoRow, ImageOwners

\* The fields a request keeps while it is on its way, and what it may be on its way to.
LEMMA ImageRequestFields ==
    ASSUME NEW s \in I!Request, s.pc # "idle"
    PROVE  /\ s.pc \in {"put", "findPhoto", "savePhoto"}
           /\ s.owner \in ImageOwners /\ s.format \in Formats /\ s.image \in I!Image /\ s.step \in 1..3
           /\ s.pc = "savePhoto" => s.id \in I!PhotoId \cup {None}
  BY DEF I!Request, ImageOwners

LEMMA ImageRequests ==
    /\ I!Idle \in I!Request /\ I!Idle.pc = "idle"
    /\ \A o \in ImageOwners, f \in Formats, x \in I!Image, j \in 1..3 :
          /\ [pc |-> "put", owner |-> o, format |-> f, image |-> x, step |-> j] \in I!Request
          /\ [pc |-> "findPhoto", owner |-> o, format |-> f, image |-> x, step |-> j] \in I!Request
          /\ \A i \in I!PhotoId \cup {None} :
                [pc |-> "savePhoto", owner |-> o, format |-> f, image |-> x, step |-> j, id |-> i] \in I!Request
  BY DEF I!Request, I!Idle, ImageOwners

\* Request r moves to state s, all others stay where they are.
Moves(r, s) ==
    /\ req' \in [Requests -> I!Request] /\ req'[r] = s
    /\ \A q \in Requests : q # r => req'[q] = req[q]

LEMMA MovesTo ==
    ASSUME I!TypeOK, NEW r \in Requests, NEW s \in I!Request, req' = [req EXCEPT ![r] = s]
    PROVE  Moves(r, s)
  BY DEF I!TypeOK, Moves

NewOverlaps == overlapped' = overlapped \cup {o \in ImageOwners : Cardinality(I!Uploading(o)') > 1}

\* An owner who was never overlapped has one upload at most.
LEMMA OneUploads ==
    ASSUME ImageInv, NEW r \in Requests, NEW s, Moves(r, s), NewOverlaps,
           NEW o \in ImageOwners \ overlapped',
           NEW p \in I!Uploading(o)', NEW q \in I!Uploading(o)'
    PROVE  p = q
<1> PICK A : A = I!Uploading(o)
  OBVIOUS
<1> PICK B : B = {x \in Requests : req'[x].pc # "idle" /\ req'[x].owner = o}
  OBVIOUS
<1>1. \A x, y \in A : x = y
  BY DEF ImageInv, OwnerInv, OnePhoto, NewOverlaps
<1>2. IsFiniteSet(A)
  <2>1. CASE A = {}
    BY <2>1, FS_EmptySet
  <2>2. CASE A # {}
    <3>1. PICK x \in A : TRUE
      BY <2>2
    <3>2. A = {x}
      BY <1>1, <3>1
    <3> QED BY <3>2, FS_Singleton
  <2> QED BY <2>1, <2>2
<1>3. B \subseteq A \cup {r}
  BY DEF Moves, I!Uploading
<1>4. IsFiniteSet(B)
  BY <1>2, <1>3, FS_AddElement, FS_Subset
<1>5. ~(Cardinality(B) > 1)
  <2>1. overlapped' = overlapped \cup {c \in ImageOwners :
           Cardinality({x \in Requests : req'[x].pc # "idle" /\ req'[x].owner = c}) > 1}
    BY DEF NewOverlaps, I!Uploading
  <2> QED BY <2>1
<1>6. p \in B /\ q \in B
  BY DEF I!Uploading
<1> QED BY <1>4, <1>5, <1>6, AtMostOne

\* The rows and objects of an owner and a size are as they were.
Unchanged(o, size) ==
    /\ I!FindImage(o, size)' = I!FindImage(o, size)
    /\ \A i \in I!FindImage(o, size) : photos'[i] = photos[i]
    /\ \A f : objects'[<<o, size, f>>] = objects[<<o, size, f>>]

LEMMA ShownStays ==
    ASSUME NEW o, NEW size, NEW image, Unchanged(o, size), ShownIn(o, size, image)
    PROVE  ShownIn(o, size, image)'
<1>1. PICK i \in I!FindImage(o, size) :
         photos[i].image = image /\ objects[<<o, size, photos[i].format>>] = image
  BY DEF ShownIn
<1>2. i \in I!FindImage(o, size)' /\ photos'[i].image = image /\ objects'[<<o, size, photos'[i].format>>] = image
  BY <1>1 DEF Unchanged
<1> QED BY <1>2 DEF ShownIn

\* A step of an upload of owner w leaves the other owners alone.
LEMMA OthersStay ==
    ASSUME ImageInv, NEW r \in Requests, NEW s, Moves(r, s), NewOverlaps, NEW w,
           req[r].pc # "idle" => req[r].owner = w,
           s.pc # "idle" => s.owner = w,
           NEW o \in ImageOwners \ overlapped', o # w,
           uploaded'[o] = uploaded[o],
           \A size : Unchanged(o, size)
    PROVE  OwnerInv(o)'
<1>0. OwnerInv(o) /\ I!Uploading(o)' = I!Uploading(o) /\ \A q \in I!Uploading(o) : req'[q] = req[q]
  BY DEF ImageInv, NewOverlaps, Moves, I!Uploading
<1>1. OnePhoto(o)'
  BY <1>0 DEF OwnerInv, OnePhoto, Unchanged, I!At, I!Size
<1>2. UploadProceeds(o)'
  <2>1. ASSUME NEW q \in I!Uploading(o)
        PROVE  /\ uploaded'[o] = None
               /\ \E x : x = req'[q].image /\ \A j \in 1..(req'[q].step - 1) : ShownIn(o, Sizes[o][j], x)'
               /\ req'[q].pc # "put" => objects'[<<o, I!Size(q)', req'[q].format>>] = req'[q].image
    <3> PICK x, n : x = req[q].image /\ n = req[q].step
      OBVIOUS
    <3>1. req'[q] = req[q] /\ req'[q].image = x /\ req'[q].step = n
      BY <1>0
    <3>2. \A j \in 1..(n - 1) : ShownIn(o, Sizes[o][j], x)
      BY <1>0 DEF OwnerInv, UploadProceeds
    <3>3. \A j \in 1..(n - 1) : ShownIn(o, Sizes[o][j], x)'
      BY <3>2, ShownStays
    <3>4. /\ uploaded[o] = None
          /\ req[q].pc # "put" => objects[<<o, I!Size(q), req[q].format>>] = x
      BY <1>0 DEF OwnerInv, UploadProceeds, I!At
    <3> QED BY <3>1, <3>3, <3>4 DEF Unchanged, I!Size
  <2> QED BY <1>0, <2>1 DEF UploadProceeds, ShownIn, I!FindImage, I!At
<1>3. UploadStays(o)'
  <2> PICK x : x = uploaded[o]
    OBVIOUS
  <2>1. x # None => \A size \in I!SizeOf(o) : ShownIn(o, size, x)
    BY <1>0 DEF OwnerInv, UploadStays
  <2>2. x # None => \A size \in I!SizeOf(o) : ShownIn(o, size, x)'
    BY <2>1, ShownStays
  <2> QED BY <2>2 DEF UploadStays, ShownIn, I!FindImage
<1> QED BY <1>1, <1>2, <1>3 DEF OwnerInv


\* What holds of the only upload of an owner.
LEMMA SoleUpload ==
    ASSUME ImageInv, NEW r \in Requests, req[r].pc # "idle", NEW w, w = req[r].owner
    PROVE  /\ req[r] \in I!Request /\ w \in ImageOwners
           /\ req[r].step \in 1..3 /\ req[r].step <= Len(Sizes[w])
           /\ w \notin overlapped =>
                 /\ OwnerInv(w) /\ uploaded[w] = None
                 /\ \A q \in Requests : q # r => req[q].pc = "idle" \/ req[q].owner # w
<1>1. req[r] \in I!Request
  BY DEF ImageInv, I!TypeOK
<1>2. w \in ImageOwners /\ req[r].step \in 1..3
  BY <1>1, ImageRequestFields
<1>3. req[r].step <= Len(Sizes[w])
  BY DEF ImageInv, PhotosFresh, I!At
<1>4. w \notin overlapped => OwnerInv(w)
  BY <1>2 DEF ImageInv
<1> QED BY <1>1, <1>2, <1>3, <1>4 DEF OwnerInv, OnePhoto, UploadProceeds, I!Uploading

\* A step that writes no row.
LEMMA FreshStays ==
    ASSUME ImageInv, NEW r \in Requests, NEW s, Moves(r, s), UNCHANGED <<photos, lastPhoto>>,
           s.pc # "idle" => s.step <= Len(Sizes[s.owner]),
           s.pc = "savePhoto" /\ s.id # None =>
              s.id <= lastPhoto /\ s.id \in I!FindImage(s.owner, Sizes[s.owner][s.step])
    PROVE  PhotosFresh'
  BY DEF ImageInv, PhotosFresh, Moves, I!At, I!Size, I!FindImage

LEMMA TablesUnchanged ==
    ASSUME UNCHANGED <<objects, photos>>
    PROVE  \A o, size : Unchanged(o, size)
  BY DEF Unchanged, I!FindImage

LEMMA UploadImageKeeps ==
    ASSUME ImageInv, NEW r \in Requests, NEW w \in ImageOwners, NEW f \in Formats, I!UploadImage(r, w, f),
           NewOverlaps, uploaded' = [uploaded EXCEPT ![req'[r].owner] = None]
    PROVE  ImageInv'
<1> PICK s : s = [pc |-> "put", owner |-> w, format |-> f, image |-> lastImage + 1, step |-> 1]
  OBVIOUS
<1>1. lastImage + 1 \in I!Image /\ lastImage' = lastImage + 1 /\ lastImage' \in 0..MaxImage
  BY ImageFacts DEF I!UploadImage, ImageInv, I!TypeOK, I!Image
<1>2. s \in I!Request /\ s.pc = "put" /\ s.owner = w /\ s.step = 1
  BY <1>1 DEF I!Request, ImageOwners
<1>3. Moves(r, s) /\ req[r].pc = "idle" /\ UNCHANGED <<objects, photos, lastPhoto>>
  BY <1>1, <1>2, MovesTo DEF I!UploadImage, I!At, ImageInv
<1>4. /\ uploaded' \in [ImageOwners -> I!Image \cup {None}] /\ uploaded'[w] = None
      /\ \A o \in ImageOwners : o # w => uploaded'[o] = uploaded[o]
  BY <1>2, <1>3 DEF Moves, ImageInv
<1>5. I!TypeOK'
  BY <1>1, <1>3 DEF Moves, ImageInv, I!TypeOK
<1>6. PhotosFresh'
  BY <1>2, <1>3, SizesOf, FreshStays
<1>7. ASSUME w \notin overlapped'
      PROVE  OwnerInv(w)'
  <2>1. OnePhoto(w)
    BY <1>7 DEF ImageInv, NewOverlaps, OwnerInv
  <2>2. \A p, q \in I!Uploading(w)' : p = q
    BY <1>3, <1>7, OneUploads
  <2>3. r \in I!Uploading(w)'
    BY <1>2, <1>3 DEF Moves, I!Uploading
  <2>4. \A q \in I!Uploading(w)' : q = r
    BY <2>2, <2>3
  <2>5. OnePhoto(w)'
    BY <1>2, <1>3, <2>1, <2>2, <2>4 DEF OnePhoto, Moves, I!At, I!FindImage
  <2>6. UploadProceeds(w)'
    BY <1>2, <1>3, <1>4, <2>4 DEF UploadProceeds, Moves, I!At
  <2>7. UploadStays(w)'
    BY <1>4 DEF UploadStays
  <2> QED BY <2>5, <2>6, <2>7 DEF OwnerInv
<1>8. ASSUME NEW o \in ImageOwners \ overlapped', o # w
      PROVE  OwnerInv(o)'
  BY <1>2, <1>3, <1>4, <1>8, TablesUnchanged, OthersStay
<1> QED BY <1>4, <1>5, <1>6, <1>7, <1>8 DEF ImageInv, NewOverlaps

LEMMA ImageFailKeeps ==
    ASSUME ImageInv, NEW r \in Requests, I!Fail(r), NewOverlaps, UNCHANGED uploaded
    PROVE  ImageInv'
<1> PICK w : w = req[r].owner
  OBVIOUS
<1>1. /\ Moves(r, I!Idle) /\ I!Idle.pc = "idle" /\ req[r].pc # "idle"
      /\ UNCHANGED <<objects, photos, lastPhoto, lastImage>>
  BY ImageRequests, MovesTo DEF I!Fail, I!At, I!tables, ImageInv
<1>2. I!TypeOK'
  BY <1>1 DEF Moves, ImageInv, I!TypeOK
<1>3. PhotosFresh'
  BY <1>1, FreshStays
<1>4. ASSUME w \in ImageOwners, w \notin overlapped'
      PROVE  OwnerInv(w)'
  <2>1. /\ OwnerInv(w) /\ uploaded[w] = None
        /\ \A q \in Requests : q # r => req[q].pc = "idle" \/ req[q].owner # w
    BY <1>1, <1>4, SoleUpload DEF NewOverlaps
  <2>2. I!Uploading(w)' = {}
    BY <1>1, <2>1 DEF Moves, I!Uploading
  <2> QED BY <1>1, <2>1, <2>2 DEF OwnerInv, OnePhoto, UploadProceeds, UploadStays, I!FindImage
<1>5. ASSUME NEW o \in ImageOwners \ overlapped', o # w
      PROVE  OwnerInv(o)'
  BY <1>1, <1>5, TablesUnchanged, OthersStay
<1> QED BY <1>2, <1>3, <1>4, <1>5 DEF ImageInv, NewOverlaps

LEMMA PutObjectKeeps ==
    ASSUME ImageInv, NEW r \in Requests, I!PutObject(r), NewOverlaps, UNCHANGED uploaded
    PROVE  ImageInv'
<1> PICK w, n, x, f, size :
        w = req[r].owner /\ n = req[r].step /\ x = req[r].image /\ f = req[r].format /\ size = Sizes[w][n]
  OBVIOUS
<1> PICK s : s = [req[r] EXCEPT !.pc = "findPhoto"]
  OBVIOUS
<1>1. req[r].pc = "put" /\ req[r] \in I!Request
  BY DEF I!PutObject, I!At, ImageInv, I!TypeOK
<1>2. w \in ImageOwners /\ x \in I!Image /\ f \in Formats /\ n \in 1..3 /\ n <= Len(Sizes[w])
  BY <1>1, SoleUpload, ImageRequestFields
<1>3. /\ s.pc = "findPhoto" /\ s.owner = w /\ s.format = f /\ s.image = x /\ s.step = n
      /\ s \in I!Request
  BY <1>1 DEF I!Request, ImageOwners
<1>4. Moves(r, s) /\ UNCHANGED <<photos, lastPhoto, lastImage>>
  <2>1. req' = [req EXCEPT ![r] = s]
    BY DEF I!PutObject, I!Goes
  <2> QED BY <1>3, <2>1, MovesTo DEF I!PutObject, ImageInv
<1>5. n \in 1..Len(Sizes[w]) /\ size \in I!SizeNames /\ size \in I!SizeOf(w)
  BY <1>2, SizesOf
<1> PICK key : key = <<w, size, f>>
  OBVIOUS
<1>6. /\ objects' \in [ImageOwners \X I!SizeNames \X Formats -> I!Image \cup {None}]
      /\ objects' = [objects EXCEPT ![key] = x] /\ key \in DOMAIN objects
      /\ objects'[key] = x
  BY <1>2, <1>5 DEF I!PutObject, I!Size, ImageInv, I!TypeOK, ImageOwners
<1>7. \A o, z, g : o # w \/ z # size => objects'[<<o, z, g>>] = objects[<<o, z, g>>]
  <2> TAKE o, z, g
  <2> HAVE o # w \/ z # size
  <2>1. <<o, z, g>> # key
    OBVIOUS
  <2> QED BY <1>6, <2>1
<1>8. \A o, z : o # w \/ z # size => Unchanged(o, z)
  BY <1>4, <1>7 DEF Unchanged, I!FindImage
<1>9. I!TypeOK'
  BY <1>4, <1>6 DEF Moves, ImageInv, I!TypeOK, ImageOwners
<1>10. PhotosFresh'
  BY <1>2, <1>3, <1>4, FreshStays
<1>11. ASSUME w \notin overlapped'
       PROVE  OwnerInv(w)'
  <2>1. /\ OwnerInv(w) /\ uploaded[w] = None /\ r \in I!Uploading(w)
        /\ \A q \in Requests : q # r => req[q].pc = "idle" \/ req[q].owner # w
    BY <1>1, <1>2, <1>11, SoleUpload DEF NewOverlaps, I!Uploading
  <2>2. \A q \in I!Uploading(w)' : q = r
    BY <1>4, <2>1 DEF Moves, I!Uploading
  <2>3. OnePhoto(w)'
    <3>1. req'[r].pc = "findPhoto"
      BY <1>3, <1>4 DEF Moves
    <3>2. \A z \in I!SizeOf(w) : \A i, k \in I!FindImage(w, z) : i = k
      BY <2>1 DEF OwnerInv, OnePhoto
    <3> QED BY <1>4, <2>2, <3>1, <3>2 DEF OnePhoto, I!At, I!FindImage
  <2>4. \A j \in 1..(n - 1) : ShownIn(w, Sizes[w][j], x)'
    <3> TAKE j \in 1..(n - 1)
    <3>1. ShownIn(w, Sizes[w][j], x)
      BY <2>1 DEF OwnerInv, UploadProceeds
    <3>2. Sizes[w][j] # size
      <4>1. j \in 1..Len(Sizes[w]) /\ j # n /\ Len(Sizes[w]) \in 1..3
        BY <1>2, SizesOf
      <4> QED BY <1>2, <1>5, <4>1, SizesOf
    <3> QED BY <1>8, <3>1, <3>2, ShownStays
  <2>5. req'[r].step = n /\ req'[r].image = x /\ req'[r].owner = w /\ req'[r].format = f
    BY <1>3, <1>4 DEF Moves
  <2>6. UploadProceeds(w)'
    <3>1. objects'[<<w, Sizes[w][n], f>>] = x
      BY <1>6
    <3> QED BY <2>1, <2>2, <2>4, <2>5, <3>1 DEF UploadProceeds, ShownIn, I!FindImage, I!At, I!Size
  <2> QED BY <2>1, <2>3, <2>6 DEF OwnerInv, UploadStays
<1>12. ASSUME NEW o \in ImageOwners \ overlapped', o # w
       PROVE  OwnerInv(o)'
  BY <1>3, <1>4, <1>8, <1>12, OthersStay
<1> QED BY <1>9, <1>10, <1>11, <1>12 DEF ImageInv, NewOverlaps


LEMMA FindPhotoKeeps ==
    ASSUME ImageInv, NEW r \in Requests, I!FindPhoto(r), NewOverlaps, UNCHANGED uploaded
    PROVE  ImageInv'
<1> PICK w, n, x, f, size :
        w = req[r].owner /\ n = req[r].step /\ x = req[r].image /\ f = req[r].format /\ size = Sizes[w][n]
  OBVIOUS
<1>1. req[r].pc = "findPhoto" /\ req[r] \in I!Request
  BY DEF I!FindPhoto, I!At, ImageInv, I!TypeOK
<1>2. w \in ImageOwners /\ x \in I!Image /\ f \in Formats /\ n \in 1..3 /\ n <= Len(Sizes[w])
  BY <1>1, SoleUpload, ImageRequestFields
<1>3. PICK i : /\ IF I!FindImage(w, size) = {} THEN i = None ELSE i \in I!FindImage(w, size)
               /\ req' = [req EXCEPT ![r] = [pc |-> "savePhoto", owner |-> w, format |-> f,
                                             image |-> x, step |-> n, id |-> i]]
  BY DEF I!FindPhoto, I!Size
<1> PICK s : s = [pc |-> "savePhoto", owner |-> w, format |-> f, image |-> x, step |-> n, id |-> i]
  OBVIOUS
<1>4. /\ s.pc = "savePhoto" /\ s.owner = w /\ s.format = f /\ s.image = x /\ s.step = n /\ s.id = i
      /\ i \in I!PhotoId \cup {None}
  BY <1>3 DEF I!FindImage
<1>5. s \in I!Request
  BY <1>2, <1>4, ImageRequests
<1>6. Moves(r, s) /\ UNCHANGED <<objects, photos, lastPhoto, lastImage>>
  BY <1>3, <1>5, MovesTo DEF I!FindPhoto, I!tables, ImageInv
<1>7. I!TypeOK'
  BY <1>6 DEF Moves, ImageInv, I!TypeOK
<1>8. i # None => i \in I!FindImage(w, size) /\ i <= lastPhoto
  <2>1. i # None => i \in I!FindImage(w, size)
    BY <1>3
  <2>2. i # None => photos[i] # I!NoPhoto
    BY <1>2, <2>1, ImageFacts DEF I!FindImage
  <2>3. i # None => i \in I!PhotoId /\ i \in Int /\ lastPhoto \in Int
    BY <2>1, ImageFacts DEF I!FindImage, I!PhotoId, ImageInv, I!TypeOK
  <2> QED BY <2>1, <2>2, <2>3 DEF ImageInv, PhotosFresh
<1>9. PhotosFresh'
  BY <1>2, <1>4, <1>6, <1>8, FreshStays
<1>10. ASSUME w \notin overlapped'
       PROVE  OwnerInv(w)'
  <2>1. /\ OwnerInv(w) /\ uploaded[w] = None /\ r \in I!Uploading(w)
        /\ \A q \in Requests : q # r => req[q].pc = "idle" \/ req[q].owner # w
    BY <1>1, <1>2, <1>10, SoleUpload DEF NewOverlaps, I!Uploading
  <2>2. \A q \in I!Uploading(w)' : q = r
    BY <1>6, <2>1 DEF Moves, I!Uploading
  <2>3. /\ req'[r].pc = "savePhoto" /\ req'[r].step = n /\ req'[r].image = x /\ req'[r].owner = w
        /\ req'[r].format = f /\ req'[r].id = i
    BY <1>4, <1>6 DEF Moves
  <2>4. OnePhoto(w)'
    <3>1. \A z \in I!SizeOf(w) : \A k, m \in I!FindImage(w, z) : k = m
      BY <2>1 DEF OwnerInv, OnePhoto
    <3>2. i = None => I!FindImage(w, size) = {}
      BY <1>3, ImageFacts DEF I!FindImage
    <3> QED BY <1>6, <2>2, <2>3, <3>1, <3>2 DEF OnePhoto, I!At, I!Size, I!FindImage
  <2>5. UploadProceeds(w)'
    <3>1. /\ \A j \in 1..(n - 1) : ShownIn(w, Sizes[w][j], x)
          /\ objects[<<w, size, f>>] = x
      BY <1>1, <2>1 DEF OwnerInv, UploadProceeds, I!At, I!Size
    <3>2. \A j \in 1..(n - 1) : ShownIn(w, Sizes[w][j], x)'
      BY <1>6, <3>1, TablesUnchanged, ShownStays
    <3> QED BY <1>6, <2>1, <2>2, <2>3, <3>1, <3>2
            DEF UploadProceeds, ShownIn, I!FindImage, I!At, I!Size
  <2> QED BY <2>1, <2>4, <2>5 DEF OwnerInv, UploadStays
<1>11. ASSUME NEW o \in ImageOwners \ overlapped', o # w
       PROVE  OwnerInv(o)'
  BY <1>4, <1>6, <1>11, TablesUnchanged, OthersStay
<1> QED BY <1>7, <1>9, <1>10, <1>11 DEF ImageInv, NewOverlaps

LEMMA NotLast ==
    ASSUME NEW n \in 1..3, NEW len \in 1..3, n <= len, n # len
    PROVE  n + 1 \in 1..3 /\ n + 1 <= len
  OBVIOUS

LEMMA SavePhotoKeeps ==
    ASSUME ImageInv, NEW r \in Requests, I!SavePhoto(r), NewOverlaps,
           uploaded' = IF I!At(r, "idle")' THEN [uploaded EXCEPT ![req[r].owner] = req[r].image] ELSE uploaded
    PROVE  ImageInv'
<1> PICK w, n, x, f, size :
        w = req[r].owner /\ n = req[r].step /\ x = req[r].image /\ f = req[r].format /\ size = Sizes[w][n]
  OBVIOUS
<1> PICK i, row, s :
        /\ i = IF req[r].id = None THEN lastPhoto + 1 ELSE req[r].id
        /\ row = [owner |-> w, size |-> size, format |-> f, image |-> x] /\ s = I!AfterSize(r)
  OBVIOUS
<1>1. req[r].pc = "savePhoto" /\ req[r] \in I!Request
  BY DEF I!SavePhoto, I!At, ImageInv, I!TypeOK
<1>2. /\ w \in ImageOwners /\ x \in I!Image /\ f \in Formats /\ n \in 1..3
      /\ req[r].id \in I!PhotoId \cup {None}
  BY <1>1, ImageRequestFields
<1>3. n <= Len(Sizes[w]) /\ Len(Sizes[w]) \in 1..3
  BY <1>1, <1>2, SoleUpload, SizesOf
<1>4. n \in 1..Len(Sizes[w]) /\ size \in I!SizeNames /\ size \in I!SizeOf(w)
  BY <1>2, <1>3, SizesOf
<1>5. /\ n = Len(Sizes[w]) => s.pc = "idle" /\ s \in I!Request
      /\ n # Len(Sizes[w]) =>
            /\ s.pc = "put" /\ s.owner = w /\ s.format = f /\ s.image = x /\ s.step = n + 1
            /\ n + 1 <= Len(Sizes[w]) /\ s \in I!Request
  <2>1. CASE n = Len(Sizes[w])
    BY <2>1, ImageRequests DEF I!AfterSize
  <2>2. CASE n # Len(Sizes[w])
    <3>1. s = [pc |-> "put", owner |-> w, format |-> f, image |-> x, step |-> n + 1]
      BY <2>2 DEF I!AfterSize
    <3>2. n + 1 \in 1..3 /\ n + 1 <= Len(Sizes[w])
      BY <1>2, <1>3, <2>2, NotLast
    <3>3. s \in I!Request
      BY <1>2, <3>1, <3>2 DEF I!Request, ImageOwners
    <3> QED BY <2>2, <3>1, <3>2, <3>3
  <2> QED BY <2>1, <2>2
<1>6. Moves(r, s) /\ UNCHANGED <<objects, lastImage>> /\ s \in I!Request
  BY <1>5, MovesTo DEF I!SavePhoto, ImageInv
<1>7. /\ lastPhoto \in 0..MaxPhoto /\ I!PhotoId = 1..MaxPhoto /\ MaxPhoto \in Nat
  BY ImageFacts DEF ImageInv, I!TypeOK, I!PhotoId
<1>8. i \in I!PhotoId
  BY <1>2, <1>7 DEF I!SavePhoto
<1>9. /\ lastPhoto' \in 0..MaxPhoto /\ i <= lastPhoto' /\ lastPhoto <= lastPhoto'
      /\ \A k \in I!PhotoId : k > lastPhoto' => k > lastPhoto /\ k # i
  BY <1>7, <1>8 DEF I!SavePhoto
<1>10. /\ row \in I!PhotoRow
       /\ row.owner = w /\ row.size = size /\ row.format = f /\ row.image = x
  BY <1>2, <1>4, ImageFacts
<1>11. /\ photos' \in [I!PhotoId -> I!PhotoRow \cup {I!NoPhoto}] /\ photos'[i] = row
       /\ \A k \in I!PhotoId : k # i => photos'[k] = photos[k]
  BY <1>8, <1>10 DEF I!SavePhoto, I!Size, ImageInv, I!TypeOK
<1>12. /\ uploaded' \in [ImageOwners -> I!Image \cup {None}]
       /\ uploaded'[w] = IF s.pc = "idle" THEN x ELSE uploaded[w]
       /\ \A o \in ImageOwners : o # w => uploaded'[o] = uploaded[o]
  <2>1. uploaded' = IF s.pc = "idle" THEN [uploaded EXCEPT ![w] = x] ELSE uploaded
    BY <1>6 DEF Moves, I!At
  <2> QED BY <1>2, <2>1 DEF ImageInv
<1>13. I!TypeOK'
  BY <1>6, <1>9, <1>11 DEF Moves, ImageInv, I!TypeOK
<1>14. \* The row that is written was free, or one of the same owner and size.
       /\ req[r].id = None => photos[i] = I!NoPhoto
       /\ req[r].id # None => i <= lastPhoto /\ i \in I!FindImage(w, size)
  BY <1>1, <1>7, <1>8 DEF ImageInv, PhotosFresh, I!At, I!Size
<1>15. \A o \in ImageOwners : \A z : o # w \/ z # size => Unchanged(o, z)
  <2> TAKE o \in ImageOwners
  <2> TAKE z
  <2> HAVE o # w \/ z # size
  <2>1. i \notin I!FindImage(o, z)
    BY <1>14, ImageFacts DEF I!FindImage
  <2>2. I!FindImage(o, z)' = I!FindImage(o, z)
    BY <1>10, <1>11, <2>1 DEF I!FindImage
  <2>3. \A k \in I!FindImage(o, z) : photos'[k] = photos[k]
    BY <1>11, <2>1 DEF I!FindImage
  <2> QED BY <1>6, <2>2, <2>3 DEF Unchanged
<1>16. PhotosFresh'
  <2>1. \A k \in I!PhotoId : k > lastPhoto' => photos'[k] = I!NoPhoto
    BY <1>9, <1>11 DEF ImageInv, PhotosFresh
  <2>2. \A q \in Requests : req'[q].pc # "idle" => req'[q].step <= Len(Sizes[req'[q].owner])
    BY <1>5, <1>6 DEF Moves, ImageInv, PhotosFresh, I!At
  <2>3. ASSUME NEW q \in Requests, req'[q].pc = "savePhoto", req'[q].id # None
        PROVE  /\ req'[q].id <= lastPhoto'
               /\ req'[q].id \in I!FindImage(req[q].owner, Sizes[req[q].owner][req[q].step])'
               /\ req'[q] = req[q]
    <3> PICK k, o, z : k = req[q].id /\ o = req[q].owner /\ z = Sizes[o][req[q].step]
      OBVIOUS
    <3>1. q # r /\ req'[q] = req[q]
      BY <1>5, <1>6, <2>3 DEF Moves
    <3>2. k <= lastPhoto /\ k \in I!FindImage(o, z) /\ k \in I!PhotoId
      BY <2>3, <3>1 DEF ImageInv, PhotosFresh, I!At, I!Size, I!FindImage
    <3>3. k <= lastPhoto'
      BY <1>7, <1>9, <3>2
    <3>4. photos'[k].owner = o /\ photos'[k].size = z
      <4>1. CASE k # i
        BY <1>11, <3>2, <4>1 DEF I!FindImage
      <4>2. CASE k = i
        <5>1. req[r].id # None
          BY <1>7, <3>2, <4>2
        <5>2. o = w /\ z = size
          BY <1>14, <3>2, <4>2, <5>1 DEF I!FindImage
        <5> QED BY <1>10, <1>11, <4>2, <5>2
      <4> QED BY <4>1, <4>2
    <3>5. req[q].id \in I!FindImage(req[q].owner, Sizes[req[q].owner][req[q].step])'
      BY <3>1, <3>2, <3>4 DEF I!FindImage
    <3> QED BY <3>1, <3>3, <3>5
  <2> QED BY <2>1, <2>2, <2>3 DEF PhotosFresh, I!At, I!Size, I!FindImage
<1>17. ASSUME w \notin overlapped'
       PROVE  OwnerInv(w)'
  <2>1. /\ OwnerInv(w) /\ uploaded[w] = None /\ r \in I!Uploading(w)
        /\ \A q \in Requests : q # r => req[q].pc = "idle" \/ req[q].owner # w
    BY <1>1, <1>2, <1>17, SoleUpload DEF NewOverlaps, I!Uploading
  <2>2. \A q \in I!Uploading(w)' : q = r
    BY <1>6, <2>1 DEF Moves, I!Uploading
  <2>3. req'[r] = s /\ req'[r].pc # "savePhoto"
    BY <1>5, <1>6 DEF Moves
  <2>4. /\ \A z \in I!SizeOf(w) : \A k, m \in I!FindImage(w, z) : k = m
        /\ req[r].id = None => I!FindImage(w, size) = {}
    BY <1>1, <2>1 DEF OwnerInv, OnePhoto, I!At, I!Size
  <2>5. \A k \in I!FindImage(w, size)' : k = i
    <3>1. \A k \in I!FindImage(w, size)' : k # i => k \in I!FindImage(w, size)
      BY <1>11 DEF I!FindImage
    <3> QED BY <1>4, <1>14, <2>4, <3>1
  <2>6. \A z \in I!SizeOf(w) : \A k, m \in I!FindImage(w, z)' : k = m
    <3> TAKE z \in I!SizeOf(w)
    <3>1. CASE z = size
      BY <2>5, <3>1
    <3>2. CASE z # size
      BY <1>2, <1>15, <2>4, <3>2 DEF Unchanged
    <3> QED BY <3>1, <3>2
  <2>7. OnePhoto(w)'
    BY <2>2, <2>3, <2>6 DEF OnePhoto, I!At, I!FindImage
  <2>8. ShownIn(w, size, x)'
    <3>1. objects[<<w, size, f>>] = x
      BY <1>1, <2>1 DEF OwnerInv, UploadProceeds, I!At, I!Size
    <3>2. i \in I!FindImage(w, size)'
      BY <1>8, <1>10, <1>11 DEF I!FindImage
    <3>3. photos'[i].image = x /\ objects'[<<w, size, photos'[i].format>>] = x
      BY <1>6, <1>10, <1>11, <3>1
    <3> QED BY <3>2, <3>3 DEF ShownIn
  <2>9. \A j \in 1..n : ShownIn(w, Sizes[w][j], x)'
    <3> TAKE j \in 1..n
    <3>1. CASE j = n
      BY <2>8, <3>1
    <3>2. CASE j # n
      <4>1. j \in 1..(n - 1) /\ j \in 1..Len(Sizes[w])
        BY <1>2, <1>3, <3>2
      <4>2. ShownIn(w, Sizes[w][j], x)
        BY <2>1, <4>1 DEF OwnerInv, UploadProceeds
      <4>3. Sizes[w][j] # size
        BY <1>2, <1>4, <3>2, <4>1, SizesOf
      <4> QED BY <1>2, <1>15, <4>2, <4>3, ShownStays
    <3> QED BY <3>1, <3>2
  <2>10. CASE n = Len(Sizes[w])
    <3>1. I!Uploading(w)' = {}
      BY <1>5, <2>2, <2>3, <2>10 DEF I!Uploading
    <3>2. uploaded'[w] = x /\ \A z \in I!SizeOf(w) : ShownIn(w, z, x)'
      BY <1>2, <1>5, <1>12, <2>9, <2>10, SizesOf
    <3>3. UploadStays(w)'
      BY <3>2 DEF UploadStays, ShownIn, I!FindImage
    <3> QED BY <2>7, <3>1, <3>3 DEF OwnerInv, UploadProceeds
  <2>11. CASE n # Len(Sizes[w])
    <3>1. uploaded'[w] = None
      BY <1>5, <1>12, <2>1, <2>11
    <3>2. req'[r].step - 1 = n /\ req'[r].image = x /\ req'[r].pc = "put"
      BY <1>2, <1>5, <2>3, <2>11
    <3>3. \A j \in 1..(req'[r].step - 1) : ShownIn(w, Sizes[w][j], x)'
      BY <2>9, <3>2
    <3>4. UploadProceeds(w)'
      BY <2>2, <3>1, <3>2, <3>3 DEF UploadProceeds, ShownIn, I!FindImage, I!At
    <3> QED BY <2>7, <3>1, <3>4 DEF OwnerInv, UploadStays
  <2> QED BY <2>10, <2>11
<1>18. ASSUME NEW o \in ImageOwners \ overlapped', o # w
       PROVE  OwnerInv(o)'
  <2>1. s.pc # "idle" => s.owner = w
    BY <1>5
  <2>2. uploaded'[o] = uploaded[o] /\ \A z : Unchanged(o, z)
    BY <1>12, <1>15, <1>18
  <2>3. Moves(r, s) /\ req[r].owner = w
    BY <1>6
  <2> QED BY <1>18, <2>1, <2>2, <2>3, OthersStay
<1> QED BY <1>12, <1>13, <1>16, <1>17, <1>18 DEF ImageInv, NewOverlaps


LEMMA ImageStepKeeps ==
    ASSUME ImageInv, ImageStep
    PROVE  ImageInv'
<1>1. NewOverlaps
  BY DEF ImageStep, NewOverlaps, ImageOwners
<1>2. ASSUME NEW r \in Requests, I!Begin(r), uploaded' = [uploaded EXCEPT ![req'[r].owner] = None]
      PROVE  ImageInv'
  BY <1>1, <1>2, UploadImageKeeps DEF I!Begin, ImageOwners
<1>3. ASSUME NEW r \in Requests, I!PutObject(r) \/ I!FindPhoto(r),
             uploaded' = IF I!At(r, "idle")' THEN [uploaded EXCEPT ![req[r].owner] = req[r].image]
                         ELSE uploaded
      PROVE  ImageInv'
  <2>1. req \in [Requests -> I!Request]
    BY DEF ImageInv, I!TypeOK
  <2>2. req'[r].pc # "idle"
    <3>1. CASE I!PutObject(r)
      <4>1. req[r] \in I!Request /\ req[r].pc = "put"
        BY <2>1, <3>1 DEF I!PutObject, I!At
      <4>2. req'[r] = [req[r] EXCEPT !.pc = "findPhoto"]
        BY <2>1, <3>1 DEF I!PutObject, I!Goes
      <4> QED BY <4>1, <4>2 DEF I!Request
    <3>2. CASE I!FindPhoto(r)
      BY <2>1, <3>2 DEF I!FindPhoto
    <3> QED BY <1>3, <3>1, <3>2
  <2>3. UNCHANGED uploaded
    BY <1>3, <2>2 DEF I!At
  <2> QED BY <1>1, <1>3, <2>3, PutObjectKeeps, FindPhotoKeeps
<1> QED BY <1>1, <1>2, <1>3, SavePhotoKeeps, ImageFailKeeps DEF ImageStep, I!Proceed

LEMMA ImageInvInit ==
    ASSUME Init, part = "images"
    PROVE  ImageInv
<1>1. I!Init /\ uploaded = [o \in ImageOwners |-> None] /\ overlapped = {}
  BY DEF Init, ImageOwners
<1>2. I!TypeOK
  BY <1>1, ImageFacts, ImageRequests DEF I!Init, I!TypeOK
<1>3. /\ \A r \in Requests : req[r].pc = "idle"
      /\ \A i \in I!PhotoId : photos[i] = I!NoPhoto
  BY <1>1, ImageRequests DEF I!Init
<1>4. PhotosFresh
  BY <1>3 DEF PhotosFresh, I!At
<1>5. ASSUME NEW o \in ImageOwners
      PROVE  OwnerInv(o)
  <2>1. I!Uploading(o) = {} /\ \A size : I!FindImage(o, size) = {}
    BY <1>3, ImageFacts DEF I!Uploading, I!FindImage
  <2> QED BY <1>1, <2>1 DEF OwnerInv, OnePhoto, UploadProceeds, UploadStays
<1> QED BY <1>1, <1>2, <1>4, <1>5 DEF ImageInv


(***************************************************************************)
(* Part E.  The parts together.                                            *)
(***************************************************************************)
IInv ==
    \/ part = "questions" /\ QuestionInv
    \/ part = "telegram" /\ TelegramInv
    \/ part = "subscriptions" /\ SubscriptionInv
    \/ part = "images" /\ ImageInv

outsideVars ==
    <<part, req, telegramVars, subscriptionVars, imageVars, questionVars, asked, overlapped>>

LEMMA InvInit ==
    ASSUME Init
    PROVE  IInv
<1>1. part \in {"telegram", "subscriptions", "images", "questions"}
  BY DEF Init
<1> QED BY <1>1, QuestionInvInit, TelegramInvInit, SubscriptionInvInit, ImageInvInit DEF IInv

LEMMA StepKeeps ==
    ASSUME IInv, Next
    PROVE  IInv'
<1>1. CASE QuestionStep
  BY <1>1, QuestionStepKeeps DEF IInv, QuestionStep
<1>2. CASE TelegramStep
  BY <1>2, TelegramStepKeeps DEF IInv, TelegramStep
<1>3. CASE SubscriptionStep
  BY <1>3, SubscriptionStepKeeps DEF IInv, SubscriptionStep
<1>4. CASE ImageStep
  BY <1>4, ImageStepKeeps DEF IInv, ImageStep
<1> QED BY <1>1, <1>2, <1>3, <1>4 DEF Next

LEMMA StutterKeeps ==
    ASSUME IInv, UNCHANGED outsideVars
    PROVE  IInv'
<1>1. /\ UNCHANGED <<part, req, asked, overlapped>>
      /\ UNCHANGED <<users, accounts, lastAccount, lastCode>>
      /\ UNCHANGED <<account, subs, lastSub, outbox, quiet>>
      /\ UNCHANGED <<objects, photos, lastPhoto, lastImage, uploaded>>
      /\ UNCHANGED <<questions, lastQuestion, dealt>>
  BY DEF outsideVars, telegramVars, subscriptionVars, imageVars, questionVars
<1>2. ASSUME QuestionInv PROVE QuestionInv'
  BY <1>1, <1>2 DEF QuestionInv, QuestionsFresh, AnswersKept, PublicationKept, QuestionsStand,
                    AskedStands, Q!TypeOK, Q!Exists, Q!HoldsQuestion, Q!At
<1>3. ASSUME TelegramInv PROVE TelegramInv'
  BY <1>1, <1>3 DEF TelegramInv, AccountsFresh, LinksAreNew, BansKept, AccountKept, CodesKept,
                    ChatsKept, RowsStand, LinkWritten, RowStands, T!TypeOK, T!HoldsUser, T!HoldsAccount, T!At
<1>4. ASSUME SubscriptionInv PROVE SubscriptionInv'
  BY <1>1, <1>4 DEF SubscriptionInv, SubsFresh, OneSubscription, QuietIsQuiet, S!TypeOK, S!RowsOf,
                    S!Changing, S!Informing, S!At
<1>5. ASSUME ImageInv PROVE ImageInv'
  <2>1. I!TypeOK' /\ PhotosFresh'
    BY <1>1, <1>5 DEF ImageInv, I!TypeOK, PhotosFresh, I!FindImage, I!At, I!Size
  <2>2. ASSUME NEW o \in ImageOwners \ overlapped
        PROVE  OwnerInv(o)'
    <3>1. OwnerInv(o)
      BY <1>5 DEF ImageInv
    <3>2. OnePhoto(o)'
      BY <1>1, <3>1 DEF OwnerInv, OnePhoto, I!Uploading, I!FindImage, I!At, I!Size
    <3>3. UploadProceeds(o)'
      BY <1>1, <3>1 DEF OwnerInv, UploadProceeds, ShownIn, I!Uploading, I!FindImage, I!At, I!Size
    <3>4. UploadStays(o)'
      BY <1>1, <3>1 DEF OwnerInv, UploadStays, ShownIn, I!FindImage
    <3> QED BY <3>2, <3>3, <3>4 DEF OwnerInv
  <2> QED BY <1>1, <1>5, <2>1, <2>2 DEF ImageInv
<1> QED BY <1>1, <1>2, <1>3, <1>4, <1>5 DEF IInv

LEMMA Invariance == Spec => []IInv
<1>1. Init => IInv
  BY InvInit
<1>2. IInv /\ [Next]_outsideVars => IInv'
  BY StepKeeps, StutterKeeps
<1> QED BY <1>1, <1>2, PTL DEF Spec, outsideVars

(***************************************************************************)
(* The theorems.                                                           *)
(***************************************************************************)

\* However many requests of however many users and admins there are, none undoes what one
\* that had finished before it began was asked for: a code, a chat or a ban of a user, the
\* answers or the publication of a question.
THEOREM FinishedRequestsStay == Spec => []NothingUndone
<1>1. ASSUME IInv PROVE NothingUndone
  <2>1. CASE part = "telegram"
    <3>1. ASSUME NEW u \in Users
          PROVE  TelegramKept(u)
      BY <1>1, <2>1, <3>1 DEF IInv, TelegramInv, BansKept, AccountKept, CodesKept, ChatsKept,
                              TelegramKept, Keeps
    <3> QED BY <2>1, <3>1 DEF NothingUndone
  <2>2. CASE part = "questions"
    <3>1. ASSUME NEW q \in Q!QuestionId
          PROVE  QuestionKept(q)
      BY <1>1, <2>2, <3>1 DEF IInv, QuestionInv, AnswersKept, PublicationKept, QuestionKept, Keeps
    <3> QED BY <2>2, <3>1 DEF NothingUndone
  <2> QED BY <2>1, <2>2 DEF NothingUndone
<1> QED BY <1>1, Invariance, PTL

\* Whatever number of uploads failed midway before, one that ran to its end is shown in
\* every size by one row, whose object and measures are its own.
THEOREM UploadsShow == Spec => []UploadShows
<1>1. ASSUME IInv PROVE UploadShows
  <2> SUFFICES ASSUME part = "images", NEW o \in ImageOwners \ overlapped, NEW x, x = uploaded[o],
                      x # None
               PROVE  I!Shows(IF o = PostImage THEN I!PostImageView(o).main
                              ELSE I!BlogImageView(o).main, I!SizeOf(o), x)
    BY DEF UploadShows, ImageOwners
  <2>1. OwnerInv(o)
    BY <1>1 DEF IInv, ImageInv
  <2> PICK view : view = IF o = PostImage THEN I!PostImageView(o).main ELSE I!BlogImageView(o).main
    OBVIOUS
  <2>2. ASSUME NEW size \in I!SizeOf(o)
        PROVE  {k \in view : photos[k].size = size} = I!FindImage(o, size)
    <3>1. CASE o = PostImage
      BY <3>1 DEF I!PostImageView, I!PhotosOf, I!FindImage
    <3>2. CASE o # PostImage
      <4>1. Sizes[o] = <<"main">>
        BY <3>2 DEF Sizes, ImageOwners
      <4>2. size = "main"
        BY <4>1 DEF I!SizeOf
      <4> QED BY <3>2, <4>2 DEF I!BlogImageView, I!PhotosOf, I!FindImage
    <3> QED BY <3>1, <3>2
  <2>3. ASSUME NEW size \in I!SizeOf(o)
        PROVE  \E i \in view :
                  /\ {k \in view : photos[k].size = size} = {i}
                  /\ I!PhotoSizeView(i) = [size |-> size, url |-> x, measures |-> x]
    <3>1. PICK i \in I!FindImage(o, size) :
             photos[i].image = x /\ objects[<<o, size, photos[i].format>>] = x
      BY <2>1 DEF OwnerInv, UploadStays, ShownIn
    <3>2. I!FindImage(o, size) = {i}
      BY <2>1, <3>1 DEF OwnerInv, OnePhoto
    <3>3. photos[i].owner = o /\ photos[i].size = size
      BY <3>1 DEF I!FindImage
    <3>4. i \in view
      BY <2>2, <3>1
    <3>5. I!PhotoSizeView(i) = [size |-> size, url |-> x, measures |-> x]
      BY <3>1, <3>3 DEF I!PhotoSizeView
    <3> QED BY <2>2, <3>2, <3>4, <3>5
  <2> QED BY <2>3 DEF I!Shows
<1> QED BY <1>1, Invariance, PTL

\* A user who unsubscribed, alone, is handed no message of a post announced later, for any
\* number of subscribers, posts and listeners.
THEOREM UnsubscribedStayQuiet == Spec => QuietAfterUnsubscribe
<1>1. ASSUME IInv, [Next]_outsideVars
      PROVE  [QuietStep]_<<part, outbox, quiet>>
  <2>1. CASE SubscriptionStep
    BY <1>1, <2>1, SubscriptionStepQuiet DEF IInv, SubscriptionStep
  <2>2. CASE QuestionStep \/ TelegramStep \/ ImageStep
    BY <2>2 DEF QuestionStep, TelegramStep, ImageStep, QuietStep
  <2>3. CASE UNCHANGED outsideVars
    BY <2>3 DEF outsideVars, subscriptionVars
  <2> QED BY <1>1, <2>1, <2>2, <2>3 DEF Next
<1>2. [QuietStep]_<<part, outbox, quiet>> =>
         [part = "subscriptions" => (outbox' \cap quiet) \subseteq outbox]_<<part, outbox, quiet>>
  BY DEF QuietStep
<1> QED BY <1>1, <1>2, Invariance, PTL DEF Spec, outsideVars, QuietAfterUnsubscribe


=============================================================================
