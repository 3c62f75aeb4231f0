SPECIFICATION Spec
CONSTANTS
    Requests = {r1, r2, r3}
    PoolSize = 2
    Nobody = Nobody
INVARIANTS PoolAccounted NoOtherJam
PROPERTIES ServedUnlessExhausted
CHECK_DEADLOCK FALSE
