\* Two orders for one truck; the numbers of the peers meet.
CONSTANTS
    p1 = p1
    p2 = p2
    home = home
    away = away
    Packages = {p1, p2}
    NoPkg = NoPkg
    Addrs = {home}
    Home = home
    AmazonFirst = 0
    WorldFirst = 1
    MaxAmazon = 4
    MaxWorld = 4
    MaxCopies = 1
    MaxResent = 0
    MaxEdits = 0
SPECIFICATION UFairSpec
INVARIANTS
    TruckIsExpected
PROPERTIES
    OrderGetsTruck
    DeliveryIsRecorded
CHECK_DEADLOCK FALSE
