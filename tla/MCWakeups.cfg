SPECIFICATION Spec
SYMMETRY Symmetry
CONSTANTS
    w1 = w1
    w2 = w2
    c1 = c1
    c2 = c2
    Wakes = {w1, w2}
    Callers = {c1, c2}
    Env = {"cancel", "cancelAll", "end", "finish", "kill", "restore", "restart"}
    MaxRestarts = 1
INVARIANT SentOnce
INVARIANT ShownWillFire
CHECK_DEADLOCK FALSE
