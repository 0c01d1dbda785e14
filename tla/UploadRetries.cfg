SPECIFICATION Spec
CONSTANTS
    Holdings = {u1}
    TradeSlips = {t1}
    Handlers = {r1, r2}
    Workers = {w1, w2}
    NoJob = NoJob
    MaxCompletes = 2
    MaxReviews = 2
    MaxFaults = 1
SYMMETRY Symmetry
INVARIANTS ProcessingHasOwner StagesConnect
CHECK_DEADLOCK FALSE
