------------------------- MODULE MCGovernedActions -------------------------
(* An inventory adjustment: an owner and an accountant must both approve.   *)
EXTENDS GovernedActions, TLC
CONSTANTS olga, arun, a1, k1, k2, j1, j2

OwnerAndAccountant == <<{"OWNER"}, {"ACCOUNTANT"}>>
TwoPeople == {olga, arun}
Roles == olga :> {"OWNER"} @@ arun :> {"ACCOUNTANT"}
OneApproval == {a1}
TwoKeys == {k1, k2}
TwoJobs == {j1, j2}
Alike == Permutations(TwoKeys) \cup Permutations(TwoJobs)
=============================================================================
