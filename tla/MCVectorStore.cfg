SPECIFICATION Spec
CONSTANTS
    Ids <- MCIds
    Batches <- MCBatches
    Deletes <- MCDeletes
    Vecs = {v1, v2}
    None = None
    Tomb = Tomb
    Callers = {c1, c2}
    Kinds = {"upsert", "delete", "deleteDoc", "clearDocs", "deleteBatch", "deleteFilter", "deleteCollection", "deleteDocument", "tx", "close"}
    Margin = 1
    MinChanges = 1
    MaxClock = 2
    Bounds <- MCBounds
INVARIANTS IndexAgrees CleanMeansSaved
SYMMETRY MCSymmetry
CHECK_DEADLOCK FALSE
