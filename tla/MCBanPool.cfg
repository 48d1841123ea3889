CONSTANTS
    MaxBans = 3
    Data = {"a", "b", "c", "d", "lo"}
    Localhost = {"lo"}
    Buckets = {0, 1}
    Bucket <- MCBucket
    Durations = {0, 1, 2}
    MaxNow = 2
    NoData = "none"
SPECIFICATION Spec
INVARIANTS TypeOK ListsConsistent HashFindsEveryBan OrderedByExpiry
PROPERTY ImplementsBanList
CHECK_DEADLOCK FALSE
