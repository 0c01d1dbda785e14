CONSTANTS
    c1 = c1
    r1 = r1
    x1 = x1
    s1 = s1
    Commands <- MCCommands
    Refreshes <- MCRefreshes
    Executions <- MCExecutions
    Scans <- MCScans
    MaxPresses = 2
    MaxTroubles = 1
SPECIFICATION FairSpec
INVARIANTS ListsAreCurrent
  
