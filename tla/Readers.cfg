SPECIFICATION Spec
CONSTANTS
    u1 = u1
    u2 = u2
    t1 = t1
    Users = {u1, u2}
    Ids = {1, 2, 3}
    Tags = {t1}
    Flags = {"archived"}
    Owner <- MCOwner
    Created <- MCCreated
    MaxEvents = 3
    Requests = {r1}
    Filters <- MCFilters
    PerPage = 1
    MaxPage = 2
    Scopes = {"unread"}
    Faults = {"disconnect"}
INVARIANTS TypeOK FlagsAgree WalkComplete FileIsClosed
PROPERTY RestoreBringsBack
