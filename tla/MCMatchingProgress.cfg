CONSTANTS
    Accounts = {a1}
    Symbols = {X, Y}
    Amounts <- TwoAmounts
    Limits <- OneLimit
    Balances = {6}
    ShareCounts = {2}
    MaxOrders = 3
    MaxRequests = 3
    MaxOps = 2
SPECIFICATION FairSpec
PROPERTIES
    KeepsPromise
    MatchTerminates
CHECK_DEADLOCK FALSE
