SPECIFICATION RegimeSpec
CONSTANTS
    Workers = {w1, w2}
    Entries = {e1, e2}
    DelayEntries = {e1}
    JobIds = {j1, j2}
    NoWorker = NoWorker
    NoEntry = NoEntry
    NoJob = NoJob
    MaxAttempts = 2
    ReviveLimit = 2
    Faults = {"crash", "lost_write", "stall", "renewer", "save_error"}
    Admin = TRUE
SYMMETRY Symmetry
INVARIANTS FetchesAreExclusive DeathsAreMarked
