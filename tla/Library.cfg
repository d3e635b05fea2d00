SPECIFICATION FairSpec
CONSTANTS
    Urls = {u1}
    NoUrl = NoUrl
    r1 = r1
    r2 = r2
    Requests <- MCRequests
    Ops <- MCOps
    MaxEntries = 1
    MaxTexts = 2
    MaxEvents = 1
    FailingSql = TRUE
INVARIANTS TypeOK TextIsIndexed NoEntryForgotten PurgeReachesDisk
PROPERTY TextReachesDisk
