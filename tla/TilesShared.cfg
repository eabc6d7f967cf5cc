CONSTANTS
    TileCount = 2
    TilesPerRow = 2
    Previews = {1}
    Clients = {c1, c2}
    UpperLimit = 2
    Persistent = TRUE
    Contents = {1, 2}
    MaxEdits = 1
    MaxRequests = 2
    Cancellers = {c2}
    Timeouts = FALSE
SPECIFICATION Spec
INVARIANT CacheIsCurrent
INVARIANT SessionsCountTheirTiles
