CONSTANTS
    crypto = crypto
    novice = novice
    swing = swing
    fomo = fomo
    steady = steady
    None = None
    Options <- MCOptions
    MaxPresses = 2
    MaxTroubles = 1
    MaxEvents = 2
SPECIFICATION FairSpec
INVARIANTS ProfileIsCached
PROPERTIES ChoicesAreKept 
