SPECIFICATION Spec
CONSTANTS
    m1 = m1
    m2 = m2
    schema = schema
    rule = rule
    fact = fact
    implied = implied
    Nobody = Nobody
    Dead = Dead
    Maintainers <- MCMaintainers
    Statements <- MCStatements
    Vocabulary <- MCVocabulary
    Derived <- MCDerived
    LeaseTTL = 1
    MaxTime = 2
    Settings <- MCOne
INVARIANTS
    WatermarkSound
PROPERTIES
    ExplicitKept
