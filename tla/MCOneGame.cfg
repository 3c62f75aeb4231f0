SPECIFICATION OneGameSpec
CONSTANTS
    None = None
    ann = ann
    bob = bob
    cid = cid
    g1 = g1
    g2 = g2
    Users = {ann, bob}
    Workers = {w1, w2}
    Crons = {c1, c2}
    GameIds = {g1}
    Last = 2
    QuestionCounts = {2}
    Outcomes = {"Correct", "Incorrect"}
    Window = 1
    MaxClock = 2
    Faulty = {w1, c1}
    CronKeepsUp = FALSE
INVARIANTS TypeOK AnswersInOrder ScoreMatchesAnswer FinishedGameIsAnswered BonusToFastest
PROPERTIES AnswersAreFinal
CHECK_DEADLOCK FALSE
