SPECIFICATION Spec
CONSTANTS
    a1 = a1
    a2 = a2
    r1 = r1
    r2 = r2
    Archivers = {a1, a2}
    Restorers = {r1}
    Cap = 4
    Env = {"late","again","fail","crash"}
    MaxSeq = 4
    MaxObjs = 1
    MaxStarts = 1
SYMMETRY Symmetry
PROPERTIES StoredStays ArchivedWhole
CHECK_DEADLOCK FALSE
