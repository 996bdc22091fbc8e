CONSTANTS
    owner = owner
    manager = manager
    asha = asha
    home = home
    away = away
    n1 = n1
    NoOne = NoOne
    Person <- MCPerson
    Role <- MCRole
    Owner = owner
    Known <- MCKnown
    Station <- MCStation
    Home = home
    Nozzle <- MCNozzle
    Postings <- MCPostings
    MaxShift = 1
    MaxRequests = 2
SPECIFICATION DeskSpec
INVARIANTS CustodianOnTeam RemovedIsNoDefault ManagerHasOnePump
\* Shifts and requests run out.
CHECK_DEADLOCK FALSE
