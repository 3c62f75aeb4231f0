SPECIFICATION TwoGamesSpec
CONSTANTS
    None = None
    ann = ann
    bob = bob
    cid = cid
    g1 = g1
    g2 = g2
    Users = {ann, bob, cid}
    Workers = {w1, w2}
    Crons = {c1}
    GameIds = {g1, g2}
    Last = 1
    QuestionCounts = {1}
    Outcomes = {"Correct"}
    Window = 1
    MaxClock = 1
    Faulty = {c1}
    CronKeepsUp = FALSE
INVARIANTS OneBonusPerGame NoDoubleAnswer GameWritesAreIsolated


CHECK_DEADLOCK FALSE
