SPECIFICATION FairSpec
CONSTANTS
    Fetchers = {f1}
    Editors = {r1}
    Flaggers = {r2}
    Permits = {p1, p2}
    MaxRetries = 1
    MaxPages = 1
    Faults = {"crash"}
PROPERTY KilledJobsRetried
