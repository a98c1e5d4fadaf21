\* One package, every message received up to twice, one new address.
CONSTANTS
    p1 = p1
    p2 = p2
    home = home
    away = away
    Packages = {p1}
    NoPkg = NoPkg
    Addrs = {home, away}
    Home = home
    AmazonFirst = 0
    WorldFirst = 100
    MaxAmazon = 3
    MaxWorld = 4
    MaxCopies = 2
    MaxResent = 1
    MaxEdits = 1
SPECIFICATION USpec
INVARIANTS
    TypeOK
    OnePickupPerPackage
    DroppedWhereTold
    DeliveredWasDropped
PROPERTY FollowsJourney
CHECK_DEADLOCK FALSE
