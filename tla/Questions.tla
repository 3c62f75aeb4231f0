------------------------------ MODULE Questions ------------------------------
(***************************************************************************)
(* The questions of the pair quiz game (src/src/feature/questions): each   *)
(* request finds the whole entity, changes a part of it, and saves it.     *)
(* A game deals published questions, and keeps them from deletion.         *)
(***************************************************************************)
EXTENDS Integers, Saves

CONSTANTS
    Answers,      \* lists of correct answers
    MaxQuestion,  \* bound on the ids of "Question"
    Requests,     \* requests in flight at once
    Faulty,       \* requests whose statements may fail
    None          \* answers of a row that is not there

QuestionsConstants ==
    /\ MaxQuestion \in Nat \ {0}
    /\ Faulty \subseteq Requests
    /\ None \notin Answers

VARIABLES
    questions,     \* rows of "Question", by id
    lastQuestion,  \* last id of the table
    dealt,         \* questions that rows of "PairQuizGameProgress" name
    req            \* handler state of each request

tables == <<questions, lastQuestion, dealt>>
vars == <<tables, req>>

QuestionId == 1..MaxQuestion
QuestionRow == [correctAnswers: Answers, published: BOOLEAN]
NoQuestion == [correctAnswers |-> None, published |-> FALSE]

Request ==
    [pc: {"idle"}]
    \cup [pc: {"create"}, ent: QuestionRow]
    \cup [pc: {"update", "publish"}, id: QuestionId, ent: QuestionRow,
          changed: SUBSET {"correctAnswers", "published"}]
    \cup [pc: {"deal"}, ids: SUBSET QuestionId]
Idle == [pc |-> "idle"]

TypeOK ==
    /\ questions \in [QuestionId -> QuestionRow \cup {NoQuestion}]
    /\ lastQuestion \in 0..MaxQuestion
    /\ dealt \subseteq QuestionId
    /\ req \in [Requests -> Request]

Init ==
    /\ questions = [q \in QuestionId |-> NoQuestion]
    /\ lastQuestion = 0
    /\ dealt = {}
    /\ req = [r \in Requests |-> Idle]

Exists(q) == questions[q] # NoQuestion
Await(r, state) == req' = [req EXCEPT ![r] = state]
Answer(r) == Await(r, Idle)
At(r, pc) == req[r].pc = pc

CreateQuestion(r, answers) ==
    /\ At(r, "idle")
    /\ Await(r, [pc |-> "create", ent |-> [correctAnswers |-> answers, published |-> FALSE]])
    /\ UNCHANGED tables

InsertQuestion(r) ==
    /\ At(r, "create") /\ lastQuestion < MaxQuestion
    /\ lastQuestion' = lastQuestion + 1
    /\ questions' = [questions EXCEPT ![lastQuestion'] = req[r].ent]
    /\ Answer(r)
    /\ UNCHANGED dealt

QuestionUpdate(r, q, answers) ==
    LET ent == [questions[q] EXCEPT !.correctAnswers = answers] IN
    /\ At(r, "idle") /\ Exists(q)
    /\ Await(r, [pc |-> "update", id |-> q, ent |-> ent, changed |-> Differing(questions[q], ent)])
    /\ UNCHANGED tables

QuestionPublishUnpublish(r, q, published) ==
    LET ent == [questions[q] EXCEPT !.published = published] IN
    /\ At(r, "idle") /\ Exists(q)
    /\ Await(r, [pc |-> "publish", id |-> q, ent |-> ent, changed |-> Differing(questions[q], ent)])
    /\ UNCHANGED tables

\* A question deleted meanwhile is inserted again, unless save() has still read its row.
SavedQuestion(q, ent, changed) ==
    IF Exists(q) THEN Saved(questions[q], ent, changed) ELSE {ent, NoQuestion}

SaveQuestion(r) ==
    /\ At(r, "update") \/ At(r, "publish")
    /\ \E row \in SavedQuestion(req[r].id, req[r].ent, req[r].changed) :
            questions' = [questions EXCEPT ![req[r].id] = row]
    /\ Answer(r)
    /\ UNCHANGED <<lastQuestion, dealt>>

\* One statement; refused by the foreign key of a game that was dealt the question.
QuestionDelete(q) ==
    /\ Exists(q) /\ q \notin dealt
    /\ questions' = [questions EXCEPT ![q] = NoQuestion]
    /\ UNCHANGED <<lastQuestion, dealt, req>>

\* CreatePairQuizGame (module PairQuizGame): random published questions are read, and
\* their rows inserted after; a question deleted in between fails the transaction.
RandomQuestions(r) ==
    /\ At(r, "idle")
    /\ \E ids \in SUBSET {q \in QuestionId : questions[q].published} :
            ids # {} /\ Await(r, [pc |-> "deal", ids |-> ids])
    /\ UNCHANGED tables

AddQuestionsForGame(r) ==
    /\ At(r, "deal")
    /\ dealt' = IF \A q \in req[r].ids : Exists(q) THEN dealt \cup req[r].ids ELSE dealt
    /\ Answer(r)
    /\ UNCHANGED <<questions, lastQuestion>>

Fail(r) ==
    /\ ~At(r, "idle") /\ r \in Faulty
    /\ Answer(r)
    /\ UNCHANGED tables

Begin(r) ==
    \/ \E answers \in Answers : CreateQuestion(r, answers)
    \/ \E q \in QuestionId, answers \in Answers : QuestionUpdate(r, q, answers)
    \/ \E q \in QuestionId, published \in BOOLEAN : QuestionPublishUnpublish(r, q, published)
    \/ RandomQuestions(r)
Save(r) == InsertQuestion(r) \/ SaveQuestion(r) \/ AddQuestionsForGame(r)

Next ==
    \/ \E r \in Requests : Begin(r) \/ Save(r) \/ Fail(r)
    \/ \E q \in QuestionId : QuestionDelete(q)

Spec == Init /\ [][Next]_vars

HoldsQuestion(r, q) == req[r].pc \in {"update", "publish"} /\ req[r].id = q

=============================================================================
