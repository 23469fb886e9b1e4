SPECIFICATION Spec
CONSTANTS
    MaxHistory = 4
    \* TurnAgents
    MaxTurnTasks = 3
    MaxExecutors = 2
    AgentEnv = {"pause", "interrupt", "cancel", "end"}
    \* OutputStream
    Viewers = {"v1"}
    HistoryCap = 1
    MaxPushes = 2
    MaxObjects = 2
    MaxNews = 1
    \* AgenticLoop
    MaxPrompts = 3
    MaxCalls = 1
    MaxLoopTurns = 1
    LoopEnv = {"end", "crash", "overtake"}
    \* AgentStream
    MaxAsked = 2
    MaxTasks = 2
    MaxStops = 2
    \* Worktrees
    Branches <- TwoBranches
    MaxTreeOps = 3
    TreeEnv = {"http", "patch", "lifecycle", "tracking"}
INVARIANTS SettlesFree MarkerSplits HistoryPaired WatchEndsOnce
PROPERTY TrackedDeepest
CHECK_DEADLOCK FALSE
