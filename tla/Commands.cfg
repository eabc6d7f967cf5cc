CONSTANTS
    Sessions = {1}
    Edits = {e1}
    Faults = {"conflict", "tick"}
    FromTemplate = TRUE
    AlwaysSaveOnExit = TRUE
    Commands = {"activity", "save", "savetostorage", "saveas", "setmodified", "close", "discard",
                "removesession", "shutdown"}
    Roles = {{}}
    MaxQueue = 2
SPECIFICATION Spec
PROPERTY StoreGrows
