CONSTANTS
    Accounts = {a1, a2}
    Symbols = {X}
    Amounts <- MCAmounts
    Limits <- MCLimits
    Balances = {6}
    ShareCounts = {2}
    MaxOrders = 3
    MaxRequests = 3
    MaxOps = 2
SPECIFICATION Spec
SYMMETRY MCSymmetry
INVARIANTS
    TypeOK
    RowsConserveAmount
    OneOpenSellRow
    TradesWithinLimits
    SellSideLedger
    CrossedOnlyAfterRetrade
PROPERTIES
    CancelledIsFinal
CHECK_DEADLOCK FALSE
