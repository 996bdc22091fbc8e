----------------------- MODULE MCReconciliationDesk -----------------------
(* A credit and a fleet account, the second perhaps not created yet, one    *)
(* shift, and two browsers.                                                 *)
EXTENDS ReconciliationDesk, TLC
CONSTANTS c1, c2, s1, d1, d2

TwoCustomers == {c1, c2}
OneShift == {s1}
TwoDesks == {d1, d2}
TwoLimits == {1, 2}
OneUnit == {1}
CreditAndFleet ==
    {f \in [TwoCustomers -> [active : BOOLEAN, type : {"CREDIT", "FLEET"}, limit : TwoLimits]] :
        /\ f[c1] = [active |-> TRUE, type |-> "CREDIT", limit |-> 1]
        /\ f[c2].type = "FLEET" /\ f[c2].limit = 2}
DesksAlike == Permutations(TwoDesks)
=============================================================================
