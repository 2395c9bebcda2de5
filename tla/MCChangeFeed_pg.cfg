SPECIFICATION Spec
CONSTANTS
    w1 = w1
    w2 = w2
    c1 = c1
    r1 = r1
    r2 = r2
    new = new
    Absent = Absent
    Unwritten = Unwritten
    NoOne = NoOne
    Writers <- MCWriters
    Consumers <- MCConsumers
    Entities <- MCEntities
    Values <- MCValues
    Postgres = TRUE
    BatchSize = 2
    MaxWrites = 4
INVARIANTS
    TypeOK
    NoGap
    NoRepeat
    LogExplainsRows
    ReplicaRight
PROPERTIES
    PrefixGrows
    ImplementsCommittedLog
SYMMETRY MCSymmetry
