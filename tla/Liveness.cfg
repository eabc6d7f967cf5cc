CONSTANTS
    Sessions = {1, 2}
    Edits = {e1}
    Faults = {"timeout", "crash"}
    FromTemplate = FALSE
    AlwaysSaveOnExit = FALSE
    Commands = {}
    Roles = {{}}
    MaxQueue = 2
SPECIFICATION FairSpec
PROPERTY BrokerEnds
PROPERTY EditsReachStorage
