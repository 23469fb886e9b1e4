SPECIFICATION Spec
CONSTANTS
    Prompts = {x1, x2}
    Senders = {s1, s2}
    Drainer = Drainer
    NoJob = NoJob
    MaxGen = 2
    Env = {"cancel","refuse","crash","exit","end","pause"}
SYMMETRY Perms
INVARIANTS CancelHonoured RowHasFiles AtMostOnce NoSilentLoss MirrorFaithful
PROPERTIES ImplementsContract
CHECK_DEADLOCK FALSE
