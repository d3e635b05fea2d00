SPECIFICATION Spec
CONSTANTS
    Workers = {w1, w2}
    Entries = {e1}
    JobIds = {j1, j2}
    NoWorker = NoWorker
    NoEntry = NoEntry
    NoJob = NoJob
    MaxAttempts = 2
    ReviveLimit = 2
    Faults = {"crash", "panic", "stall", "renewer", "lost_write"}
    Admin = TRUE
SYMMETRY Symmetry
INVARIANTS OneActiveJob AttemptsAgree RequestNotLost
PROPERTIES LeaseRespected ImplementsPromise
