CONSTANTS
    Threads = {t1, t2}
    Lines = {l1, l2}
    Heads <- MCHeads
    NoEntry = NoEntry
    None = None
    CACHE_CAPACITY = 1
SPECIFICATION FairSpec
INVARIANTS
    TypeOK
    NoCacheAsked
PROPERTY KeptOnlyByHit
CHECK_DEADLOCK FALSE
