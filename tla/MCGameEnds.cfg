SPECIFICATION OneGameFairSpec
CONSTANTS
    None = None
    ann = ann
    bob = bob
    cid = cid
    g1 = g1
    g2 = g2
    Users = {ann, bob}
    Workers = {w1, w2}
    Crons = {c1}
    GameIds = {g1}
    Last = 2
    QuestionCounts = {2}
    Outcomes = {"Correct"}
    Window = 2
    MaxClock = 4
    Faulty = {}
    CronKeepsUp = TRUE
PROPERTIES GameEnds

CHECK_DEADLOCK FALSE
