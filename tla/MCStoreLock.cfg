SPECIFICATION FairSpec
CONSTANTS
    Kinds = {"upsert", "hybridSearch", "deleteBatch", "ingest", "close"}
    MaxCalls = 3
    MaxTicks = 2
INVARIANTS ClosedIsQuiet NothingLeftLocked
PROPERTY OnlyNestingBlocks
CHECK_DEADLOCK FALSE
