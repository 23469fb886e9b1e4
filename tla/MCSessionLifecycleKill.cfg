SPECIFICATION Spec
CONSTANTS
    c1 = c1
    c2 = c2
    p1 = p1
    p2 = p2
    Callers = {c1}
    Prompters = {p1}
    Env = {"cancel", "sent"}
    MaxExecs = 1
    MaxTurns = 2
INVARIANT EndKills
CHECK_DEADLOCK FALSE
