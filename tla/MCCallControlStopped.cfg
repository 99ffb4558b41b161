SPECIFICATION Spec
CONSTANTS
    Users = {u1}
    Callers = {c1, c2}
    Listeners = {l1, l2}
INVARIANTS
    StoppedListenerIsClosed
CHECK_DEADLOCK FALSE
