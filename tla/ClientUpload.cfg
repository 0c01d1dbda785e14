CONSTANTS
    p1 = p1
    p2 = p2
    a1 = a1
    a2 = a2
    s1 = s1
    b1 = b1
    b2 = b2
    NoBatch = NoBatch
    Holdings <- MCHoldings
    TradeSlips <- MCTradeSlips
    NoPicture = NoPicture
    Pictures <- MCPictures
    Assets <- MCAssets
    Symbols <- MCSymbols
    SymbolOf <- MCSymbolOf
    Ambiguous <- MCSymbols
    MaxImages = 2
    MaxConfirms = 1
    MaxTroubles = 1
SPECIFICATION FairSpec
INVARIANTS ScansAreFaithful
PROPERTIES ScreensKeepStep WaitsEnd
CHECK_DEADLOCK FALSE
