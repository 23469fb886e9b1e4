SPECIFICATION FairSpec
CONSTANTS
    c1 = c1
    c2 = c2
    p1 = p1
    p2 = p2
    Callers = {c1, c2}
    Prompters = {p1}
    Env = {"cancel", "end", "pause", "interrupt", "resume", "ask", "answer", "timeout", "maxTurns", "exit", "fail", "sent", "llm", "llmFail", "noKey"}
    MaxExecs = 2
    MaxTurns = 2
ACTION_CONSTRAINT CallsOneAgent
PROPERTIES KeepsContract CallsReturn
CHECK_DEADLOCK FALSE
