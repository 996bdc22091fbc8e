CONSTANTS
    n1 = n1  s1 = s1  s2 = s2
    Nozzle <- OneNozzle
    SaleId <- TwoSales
    None = None
    ClockSkew = 1
    MaxShift = 2
    MaxMeter = 3
    MaxTime = 1
    MaxRequests = 2
SPECIFICATION Spec
SYMMETRY SalesAlike
INVARIANTS SalesTileTheMeter ClosedMetersAreSold LockedTotalStands
\* Every shift may be locked and the bounds reached.
CHECK_DEADLOCK FALSE
