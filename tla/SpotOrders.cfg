CONSTANTS
    a = a
    b = b
    c1 = c1
    Orders = {a, b}
    Cancellers = {c1}
    Portfolios <- MCPortfolios
    Quantity <- MCQuantity
    Price = 2
    MaxPrice = 2
    Slippage = 0
    MaxTriggers = 2
    MaxRestarts = 1
    ReplayTries = 1

CONSTRAINTS SomeOrderFirm OneKindOfFault RoundsUpOne FilledAtWorst

SPECIFICATION Spec

INVARIANTS
    TypeOK
    
    FirmOrdersNeverOverfill
    OpenSellsAreLocked
    FinishedSellsHoldNothing

CHECK_DEADLOCK FALSE
