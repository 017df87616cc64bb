SPECIFICATION TimeoutSpec
CONSTANTS
    Buckets = 2
    MaxTimeout = 5
    Timeout = 1
    Parts = 3
    Kicks = {"kick1", "kick2"}
    Entries = {"kick1", "kick2", "ping", "idle"}
INVARIANTS
    EntriesOnTime
    TimeoutsInTime
CHECK_DEADLOCK FALSE
