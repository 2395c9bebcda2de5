SPECIFICATION FairSpec
CONSTANTS
    w1 = w1
    w2 = w2
    c1 = c1
    r1 = r1
    r2 = r2
    new = new
    Absent = Absent
    Unwritten = Unwritten
    NoOne = NoOne
    Writers <- MCWriters
    Consumers <- MCConsumers
    Entities <- MCEntities
    Values <- MCValues
    Postgres = FALSE
    BatchSize = 2
    MaxWrites = 4
PROPERTIES
    ImplementsCommittedLog
    Delivered
