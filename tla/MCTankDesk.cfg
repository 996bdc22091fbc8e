CONSTANTS
    OpeningStock = 1
    ClockSkew = 1
    Unset = Unset
    MaxShift = 2
    MaxTime = 2
    MaxQuantity = 1
    MaxEvents = 3
SPECIFICATION TankSpec
INVARIANTS LedgerCountsEachLitreOnce BookNeverNegative VarianceIsTheLoss
PROPERTIES OpeningFollowsClose
\* Time and the shifts run out.
CHECK_DEADLOCK FALSE
