---- MODULE MCProductDesk ----
(* Symmetry of the invoices, for runs without liveness.                     *)
EXTENDS ProductDesk, TLC

Alike == Permutations(Invoices)
====
