------------------------------- MODULE MCStaffDesk -------------------------------
\* An owner, a manager and an attendant hired later, one nozzle, a second pump
\* to move to, one shift, two requests at a time.
EXTENDS StaffDesk, TLC

CONSTANTS owner, manager, asha, home, away, n1

MCPerson == {owner, manager, asha}
MCRole == owner :> "OWNER" @@ manager :> "MANAGER" @@ asha :> "STAFF"
MCKnown == {owner, manager}
MCStation == {home, away}
MCPostings == {{away}, {home, away}}
MCNozzle == {n1}
=============================================================================
