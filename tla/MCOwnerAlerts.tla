---- MODULE MCOwnerAlerts ----
(* One event told by two calls side by side and a third after them, to one  *)
(* telephone; other events have rows of their own.                          *)
EXTENDS OwnerAlerts
CONSTANTS k1, c1, c2, d1

OneKey == {k1}
TwoCalls == {c1, c2}
OneDevice == {d1}
====
