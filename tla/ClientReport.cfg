CONSTANTS
    old = old
    new = new
    None = None
    Nothing = Nothing
    Garbage = Garbage
    Snapshots <- MCSnapshots
    Scan = new
    MaxDepth = 2
    MaxTroubles = 2
SPECIFICATION MCSpec
INVARIANTS PlansReadAlike ChartsAreTrue ScreensAgree 
PROPERTIES ScreensAreReady WaitsEnd
