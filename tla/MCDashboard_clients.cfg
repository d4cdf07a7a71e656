SPECIFICATION FairSpec
CONSTANTS
    Browsers = {b1, b2}
    Updaters = {u1, u2}
    Nobody = Nobody
    Cap = 1
    MaxUpdates = 2
INVARIANTS LatestSent LastIsLatest OneBroadcastWriter
PROPERTIES LockFreed
CHECK_DEADLOCK FALSE
