SPECIFICATION Spec
CONSTANTS
    Users = {u1}
    Callers = {c1, c2}
    Listeners = {l1, l2}
INVARIANTS
    TypeOK
    OwnCall
    OwnMedia
    NoInternalError
CHECK_DEADLOCK FALSE
