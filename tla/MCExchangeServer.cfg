CONSTANTS
    Clients = {c1, c2, c3}
    None = None
    MaxChildren = 2
SPECIFICATION FairServerSpec
INVARIANTS
    ServerTypeOK
    CreatesExclusive
    NoLeakedWork
    
PROPERTY ClientServed
CHECK_DEADLOCK FALSE
