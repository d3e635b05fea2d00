SPECIFICATION Spec
CONSTANTS
    p1 = p1
    p2 = p2
    u0 = u0
    u1 = u1
    u2 = u2
    r1 = r1
    r2 = r2
    x1 = x1
    x2 = x2
    Slugs = {p1, p2}
    Uploads = {u0, u1, u2}
    NoUpload = NoUpload
    NoName = NoName
    Hidden = {".git", "._index.html"}
    MacOS = "__MACOSX"
    MacLike = {"__MACOSX", "my__MACOSX"}
    Html = {"index.html"}
    Names <- MCNames
    Source <- MCSource
    Requests = {r1, r2}
    Ops <- MCOps
    Old <- MCOld
    Passwords = {x1, x2}
    NoPassword = NoPassword
    Edits <- MCEdits
    MaxEvents = 3
    Storages = {"local", "oss"}
    Faults = {"upload", "error", "crash"}
INVARIANTS TypeOK  EditStays
