CONSTANTS
    Brokers = {c1, c2}
    Docs = {d1}
    NumPreSpawnedChildren = 1
    MaxFailures = 2
    MaxEarlyTimeouts = 0
SPECIFICATION Spec
PROPERTY PoolRecovers
PROPERTY FinishedBrokersGo
