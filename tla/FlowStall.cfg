CONSTANTS
    TileCount = 2
    TilesPerRow = 2
    Previews = {}
    Clients = {c1}
    UpperLimit = 1
    Persistent = TRUE
    Contents = {1, 2}
    MaxEdits = 3
    MaxRequests = 0
    Cancellers = {}
    Timeouts = FALSE
SPECIFICATION Spec
INVARIANT RequestsAreServed
