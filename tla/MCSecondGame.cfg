SPECIFICATION SecondGameSpec
CONSTANTS
    None = None
    ann = ann
    bob = bob
    cid = cid
    g1 = g1
    g2 = g2
    Users = {ann, bob}
    Workers = {w1}
    Crons = {c1}
    GameIds = {g1, g2}
    Last = 2
    QuestionCounts = {2}
    Outcomes = {"Correct"}
    Window = 2
    MaxClock = 3
    Faulty = {}
    CronKeepsUp = FALSE
INVARIANTS FirstToFinishIsCharged


CHECK_DEADLOCK FALSE
