SPECIFICATION BoundedSpec
CONSTANTS
    Workers = {w1, w2}
    Entries = {e1}
    JobIds = {j1}
    NoWorker = NoWorker
    NoEntry = NoEntry
    NoJob = NoJob
    MaxAttempts = 2
    ReviveLimit = 2
    Faults = {"panic"}
    Admin = TRUE
    MaxEvents = 2
PROPERTY AbandonedJobTakenOver
CHECK_DEADLOCK FALSE
