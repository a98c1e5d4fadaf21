CONSTANTS
    Keys = {k1, k2, k3, k4}
    Values = {u, v}
    NoValue = NoValue
    Nodes = {n1, n2, n3, n4}
    Capacity = 3
SPECIFICATION CacheSpec
INVARIANTS
    CacheTypeOK
    IteratorsValid
PROPERTY ImplementsStore
