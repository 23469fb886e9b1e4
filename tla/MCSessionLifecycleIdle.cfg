SPECIFICATION Spec
CONSTANTS
    c1 = c1
    c2 = c2
    p1 = p1
    p2 = p2
    Callers = {c1}
    Prompters = {p1, p2}
    Env = {"pause", "resume", "interrupt", "cancel", "end", "sent", "drained", "exit", "maxTurns", "fail"}
    MaxExecs = 3
    MaxTurns = 5
ACTION_CONSTRAINT Orderly
SYMMETRY Calls
INVARIANT OneReader
INVARIANT IdleIsFree
CHECK_DEADLOCK FALSE
