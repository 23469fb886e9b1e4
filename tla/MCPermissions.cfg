SPECIFICATION FairSpec
CONSTANTS
    inner = inner
    outer = outer
    bridge = bridge
    Requests <- MCRequests
    Bridged = {bridge}
    ToolOf <- MCToolOf
    PathOf <- MCPathOf
    PathPrefixes = {"project"}
    Above <- MCAbove
    MaxAnswers = 2
    Timers = TRUE
CHECK_DEADLOCK FALSE
INVARIANTS AllowedOnWord WaitingReachable
PROPERTY EveryCallReturns
