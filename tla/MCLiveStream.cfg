SPECIFICATION FairSpec
CONSTANTS
    n1 = n1
    Nodes = {n1}
    Kinds = {n1, "other", "bookkeeping"}
    Pages = {p1}
    History <- MCHistory
    Reached = {0, 1}
    Started = 3
    MaxLog = 6
    Cuts = {2, 4, 5}
    PageSize = 2
    BatchPages = 2
    ReplayPages = 2
    Buffer = 2
    Bounds <- MCBounds
INVARIANTS NoGap NoDuplicate GraphAgrees
PROPERTY CatchesUp
