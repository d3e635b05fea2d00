SPECIFICATION Spec
CONSTANTS
    u1 = u1
    u2 = u2
    r1 = r1
    r2 = r2
    Users = {u1, u2}
    NoUser = NoUser
    Requests = {r1, r2}
    Ops <- MCOps
    MaxTokens = 3
    Pats = {p1}
    MaxPass = 2
    MaxEvents = 2
    Faults = {"drop", "restore"}
SYMMETRY Symmetry
INVARIANTS OneTokenPerFamily RevokedFamilyIsOver OldSessionsEnd SomeoneIsAdmin
