SPECIFICATION FairSpec
CONSTANTS
    a1 = a1
    a2 = a2
    r1 = r1
    r2 = r2
    Archivers = {a1}
    Restorers = {r1}
    Cap = 3
    Env = {"restore","shutdown","crash"}
    MaxSeq = 3
    MaxObjs = 3
    MaxStarts = 1
PROPERTY EndedLeaves
CHECK_DEADLOCK FALSE
