CONSTANTS
    k1 = k1  c1 = c1  c2 = c2  d1 = d1
    Key <- OneKey
    Call <- TwoCalls
    Device <- OneDevice
    None = None
    MaxFaults = 2
    MaxCrashes = 1
    MaxTouches = 1
    MaxCalls = 3
SPECIFICATION FairSpec
INVARIANTS TextedOnce RingsAgainOnlyInDoubt
PROPERTIES TextSettles
\* Every call may have ended and every bound be reached.
CHECK_DEADLOCK FALSE
