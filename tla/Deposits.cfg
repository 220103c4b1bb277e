CONSTANTS
    e1 = e1
    e2 = e2
    n1 = n1
    l1 = l1
    l2 = l2
    Evm = {e1, e2}
    NonEvm = {n1}
    Legacy = {l1, l2}
    Reverted = {e2}
    Histories <- MCHistories
    Amount <- MCAmount
    Grain = 2
    CheckInstalled = TRUE
    PageSize = 1
    Confirmations = 1
    Required = 2
    Scanners = {"s1", "s2"}
    Ticks = {"k1", "k2"}
    Sweeps = {"j1"}
    MaxHead = 3
    MaxReorgs = 1
    ReorgDepth = 1
    MaxRestarts = 1
    NoTransfer = NoTransfer

CONSTRAINTS ScansForEvm ScansOverlap TicksOverlap PageIsShared

SPECIFICATION Spec

PROPERTIES RecordedIsCredited

INVARIANTS
    EachDepositCreditedOnce
    CreditedIsCompleted
    PolledDepositStaysInItsBlock
    ScannedTransferIsRecorded

