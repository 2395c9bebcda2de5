SPECIFICATION Spec
CONSTANTS
    w1 = w1
    w2 = w2
    NoOne = NoOne
    Pruner = Pruner
    Closed = Closed
    Writers <- MCWriters
    Backends <- MCBoth
    MaxAge = 1
    MaxRows = 2
    MaxTime = 4
    MaxSeqs = 5
INVARIANTS
    MarkExact
PROPERTIES
    PrunesUpToExpired
    RowCapKept
