SPECIFICATION FairSpec
CONSTANTS
    Holdings = {u1, u2}
    TradeSlips = {t1}
    Handlers = {r1, r2}
    Workers = {w1, w2}
    NoJob = NoJob
    MaxCompletes = 1
    MaxReviews = 1
    MaxFaults = 2
INVARIANTS TypeOK UploadsCountOnce
PROPERTIES ImplementsLifecycle StagesEnd
CHECK_DEADLOCK FALSE
