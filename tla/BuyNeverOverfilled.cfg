CONSTANTS
    Accounts = {a1, a2}
    Symbols = {X}
    Amounts <- MCAmounts
    Limits <- MCLimits
    Balances = {6}
    ShareCounts = {2}
    MaxOrders = 4
    MaxRequests = 4
    MaxOps = 2
SPECIFICATION Spec
INVARIANT BuyNeverOverfilled
CHECK_DEADLOCK FALSE
