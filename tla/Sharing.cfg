CONSTANTS
    Sessions = {1, 2}
    Edits = {e1, e2}
    Faults = {}
    FromTemplate = FALSE
    AlwaysSaveOnExit = FALSE
    Commands = {"save"}
    Roles = {{}}
    MaxQueue = 3
SPECIFICATION Spec
SYMMETRY EditSymmetry
INVARIANT NoEditLost
INVARIANT CleanMeansStored
PROPERTY SaveStopsEmptyBroker
