SPECIFICATION BoundedSpec
CONSTANTS
    Workers = {w1, w2}
    Entries = {e1, e2}
    JobIds = {j1, j2}
    NoWorker = NoWorker
    NoEntry = NoEntry
    NoJob = NoJob
    MaxAttempts = 2
    ReviveLimit = 2
    Faults = {"crash", "renewer", "lost_write"}
    Admin = TRUE
    MaxEvents = 3
PROPERTIES RequestsSettle AbandonedJobTakenOver QueueDrains
CHECK_DEADLOCK FALSE
