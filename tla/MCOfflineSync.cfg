CONSTANTS
    r1 = r1  r2 = r2  t1 = t1  t2 = t2  u1 = u1  u2 = u2
    Record <- TwoRecords
    Tab <- TwoTabs
    User <- TwoUsers
    None = None
    MaxFaults = 1
    MaxSwitches = 2
    MaxRetries = 1
SPECIFICATION FirstSpec
INVARIANTS NothingLost QueueKeepsOrder
PROPERTIES PendingIsSettled
\* Every record may be posted and every bound reached.
CHECK_DEADLOCK FALSE
