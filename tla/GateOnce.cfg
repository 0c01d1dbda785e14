SPECIFICATION Spec
CONSTANTS
    Requests = {r1, r2, r3}
    Keys = {k1}
    NoKey = NoKey
    Holdings = {h1}
    Slips = {s1}
    Midnights = {0, 2, 5}
    WindowHours = 2
    RecordHours = 2
    holdingsDailyLimit = 2
    WriteLimit = 2
    QuotaIds = {1, 2, 3}
    LastHour = 4
    MaxFaults = 1
SYMMETRY Symmetry
INVARIANTS AnswersAgree GateHolds
CHECK_DEADLOCK FALSE
