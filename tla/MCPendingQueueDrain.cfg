SPECIFICATION FairSpec
CONSTANTS
    Prompts = {x1, x2}
    Senders = {s1, s2}
    Drainer = Drainer
    NoJob = NoJob
    MaxGen = 1
    Env = {"edit", "wake"}
PROPERTIES EditHonoured TurnEndDrains
CHECK_DEADLOCK FALSE
