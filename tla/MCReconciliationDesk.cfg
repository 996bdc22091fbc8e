CONSTANTS
    c1 = c1  c2 = c2  s1 = s1
    d1 = d1  d2 = d2
    Desk <- TwoDesks
    Customer <- TwoCustomers
    Shift <- OneShift
    Limit <- TwoLimits
    Amount <- OneUnit
    Start <- CreditAndFleet
    None = None
    MaxSold = 2
    MaxReceived = 1
    MaxUpdates = 1
SPECIFICATION DeskSpec
SYMMETRY DesksAlike
INVARIANTS LocksWhatWasShown ReceivableIsLedger AssignedCreditIsOwedOnce RecordedShiftCanLock
PROPERTIES DebtGrowsWithinLimit
\* Every shift is locked and every bound is reached in the end.
CHECK_DEADLOCK FALSE
