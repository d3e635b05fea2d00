SPECIFICATION Spec
CONSTANTS
    e1 = e1
    t1 = t1
    t2 = t2
    r1 = r1
    r2 = r2
    Entries = {e1}
    TagIds = {t1, t2}
    NoTag = NoTag
    Labels <- MCLabels
    Slug <- MCSlug
    Batches <- MCBatches
    Rules <- MCRules
    Articles <- MCArticles
    Requests <- MCRequests
    Ops <- MCOps
SYMMETRY Symmetry
INVARIANTS TypeOK ListsAreCurrent TaggingIsDone UntaggingIsDone
