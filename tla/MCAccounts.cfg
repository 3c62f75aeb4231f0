SPECIFICATION HSpec
CONSTANTS
    None = None
    Names = {ann}
    MaxId = 1
    MaxCode = 3
    Requests = {r1, r2}
    Faulty = {r1, r2}
SYMMETRY Symmetry
INVARIANTS TypeOK CodesReachOwner PasswordFromOwner BanLasts ConfirmedByOwner
CHECK_DEADLOCK FALSE
