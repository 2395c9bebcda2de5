SPECIFICATION WTFairSpec
CONSTANTS
    g1 = g1
    g2 = g2
    g3 = g3
    k1 = k1
    k2 = k2
    k3 = k3
    NoOne = NoOne
    Users <- MCUsers
    Conns <- MCConns
INVARIANTS
    OneWriter
    TurnAccounted
PROPERTIES
    Served
