SPECIFICATION Spec
CONSTANTS
    Scans = {s1, s2}
    Slips = {t1}
    Commands = {c1}
    Refreshes = {f1}
    Executions = {x1, x2}
    Dismissals = {d1}
    Insights = {i1}
    Concurrency = 1
    MaxFaults = 0
SYMMETRY Symmetry
  
PROPERTIES ImplementsBook
CHECK_DEADLOCK FALSE
