CONSTANTS
    Threads = {t1}
    Lines = {l1, l2}
    Heads <- MCHeads
    NoEntry = NoEntry
    None = None
    CACHE_CAPACITY = 1
SPECIFICATION FairPeers
PROPERTY HitIsServed
CHECK_DEADLOCK FALSE
