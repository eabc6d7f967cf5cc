CONSTANTS
    Sessions = {1, 2}
    Edits = {e1}
    Faults = {"crash", "join", "load", "save", "upload", "kill"}
    FromTemplate = FALSE
    AlwaysSaveOnExit = FALSE
    Commands = {"close"}
    Roles = {{"owner"}, {"readonly"}}
    MaxQueue = 2
SPECIFICATION Spec
INVARIANT TypeOK
INVARIANT NoEditLost
INVARIANT StorageChain
INVARIANT MarkedIsLast
INVARIANT KitFollowsBroker
PROPERTY MarkIsFinal
PROPERTY ImplementsDurable
