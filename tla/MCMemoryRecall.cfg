SPECIFICATION FairSpec
CONSTANTS
    i1 = i1
    i2 = i2
    w1 = w1
    w2 = w2
    Ids = {i1, i2}
    Texts = {t1}
    Buckets = {b1, b2}
    Writers = {w1, w2}
    Callers = {c1, c2}
    None = None
    HealBatch = 1
    MaxCached = 1
    Settings <- MCSettings
INVARIANTS TypeOK CacheCurrent AnswerOfItsTime WaitersServed
PROPERTY Healed
CHECK_DEADLOCK FALSE
