CONSTANTS
    Brokers = {c1, c2}
    Docs = {d1, d2}
    NumPreSpawnedChildren = 1
    MaxFailures = 1
    MaxEarlyTimeouts = 1
SPECIFICATION Spec
SYMMETRY DocSymmetry
INVARIANT OneBrokerPerDocument
INVARIANT SessionsAreRegistered
INVARIANT SpareKitsAreBounded
