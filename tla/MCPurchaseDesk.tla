-------------------------- MODULE MCPurchaseDesk --------------------------
(* An invoice of one or two units at one of two prices, and two browsers.   *)
EXTENDS PurchaseDesk, TLC
CONSTANTS d1, d2
TwoDesks == {d1, d2}
DesksAlike == Permutations(TwoDesks)
=============================================================================
