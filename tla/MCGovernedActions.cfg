CONSTANTS
    olga = olga  arun = arun  a1 = a1
    k1 = k1  k2 = k2  j1 = j1  j2 = j2
    Person <- TwoPeople
    RolesOf <- Roles
    RoleSets <- OwnerAndAccountant
    ApprovalId <- OneApproval
    Key <- TwoKeys
    Job <- TwoJobs
    None = None
    Lifetime = 1
    Window = 1
    MaxTime = 1
    MaxCrashes = 1
SPECIFICATION Spec
SYMMETRY Alike
INVARIANTS ActsOncePerKey EveryRoleApproved SpentTwiceOnlyInRace
\* Everything may be decided, spent or expired.
CHECK_DEADLOCK FALSE
