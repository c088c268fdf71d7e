SPECIFICATION ScheduleSpec
CONSTANTS
    Orders = {o1, o2, o3}
    Batch = 3
    Interval = 2
    Backoff <- HalfAsLong
    MaxFailures = 3
    PollTicks = {1, 2}
    EnablePositionSync = TRUE
    SyncInterval = 4
    SyncTicks = {1, 3}
INVARIANTS
    ScheduleTypeOK
    KeepsUp
