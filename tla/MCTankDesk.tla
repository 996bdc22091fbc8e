----------------------------- MODULE MCTankDesk -----------------------------
(* A tank that starts with one litre, over two shifts.                      *)
EXTENDS TankDesk
=============================================================================
