SPECIFICATION Spec
CONSTANTS
    None = None
    Users = {ann, bob}
    Devices = {d1, d2}
    Requests = {r1, r2}
    Admins = {}
    MaxClock = 3
    Faulty = {r1, r2}
SYMMETRY Symmetry
INVARIANTS TypeOK SessionsStayUsable IssuedTokenHasDate SessionKeepsOwner
PROPERTIES OthersUntouched
CHECK_DEADLOCK FALSE
