CONSTANTS
    TileCount = 1
    TilesPerRow = 1
    Previews = {}
    Clients = {c1}
    UpperLimit = 1
    Persistent = TRUE
    Contents = {1, 2}
    MaxEdits = 2
    MaxRequests = 3
    Cancellers = {}
    Timeouts = TRUE
SPECIFICATION Spec
INVARIANT ScreensAreCurrent
