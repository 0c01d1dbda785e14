SPECIFICATION Spec
CONSTANTS
    Scans = {s1, s2}
    Slips = {t1}
    Commands = {c1}
    Refreshes = {f1}
    Executions = {x1}
    Dismissals = {d1}
    Insights = {i1}
    Concurrency = 3
    MaxFaults = 1
SYMMETRY Symmetry
INVARIANTS
    TypeOK
    ActiveIsCurrent
    ReplacementsLead
    LedgerExplains
    SlipReportsItself
CHECK_DEADLOCK FALSE
