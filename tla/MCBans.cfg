SPECIFICATION BanSpec
CONSTANTS
    None = None
    Users = {ann}
    Devices = {d1, d2}
    Requests = {r1, r2}
    Admins = {a1}
    MaxClock = 2
    Faulty = {a1}
SYMMETRY Symmetry
INVARIANTS BanEndsSessions
CHECK_DEADLOCK FALSE
