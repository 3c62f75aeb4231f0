SPECIFICATION MatchmakingSpec
CONSTANTS
    None = None
    Users = {ann, bob, cid}
    Workers = {w1, w2, w3}
    Crons = {}
    GameIds = {g1, g2, g3}
    Last = 2
    QuestionCounts = {0, 2}
    Outcomes = {}
    Window = 1
    MaxClock = 1
    Faulty = {w1, w2, w3}
    CronKeepsUp = FALSE
SYMMETRY Symmetry
PROPERTIES RefinesLifecycle
CHECK_DEADLOCK FALSE
