--------------------------- MODULE MCShiftMeters ---------------------------
(* A nozzle, two sale submissions, two shifts.                              *)
EXTENDS ShiftMeters, TLC
CONSTANTS n1, s1, s2

OneNozzle == {n1}
TwoSales == {s1, s2}

\* Sale submissions are alike, and the bounds keep them so.
SalesAlike == Permutations(TwoSales)
=============================================================================
