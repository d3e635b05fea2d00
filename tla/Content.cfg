SPECIFICATION FairSpec
CONSTANTS
    Fetchers = {f1, f2}
    Editors = {r1}
    Flaggers = {r2}
    Permits = {p1, p2}
    MaxRetries = 1
    MaxPages = 2
    Faults = {"crash", "update", "download", "insert", "lost_mark"}
INVARIANTS OneHandPerJob RunsBounded SettledIsLocal ProcessingIsHeld
PROPERTY EditKept JobsSettle
