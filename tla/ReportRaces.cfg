SPECIFICATION FairSpec
CONSTANTS
    Scanned = {p1}
    Derived = {d1}
    Handlers = {r1, r2}
    Workers = {w1, w2}
    NoSnapshot = NoSnapshot
    MaxRequests = 2
    MaxFaults = 1
INVARIANTS TypeOK ReadyIsComplete ProcessingIsAwaited
PROPERTIES ReportsSettle
CHECK_DEADLOCK FALSE
