---- MODULE MCNerveEvents ----
(* Two positions, the second carried by two events that say they happened   *)
(* before the first.                                                        *)
EXTENDS NerveEvents

CONSTANTS opening, sale, resent

MCEvents == {opening, sale, resent}
MCPosition == [e \in MCEvents |-> IF e = opening THEN 1 ELSE 2]
MCOccurredAt == [e \in MCEvents |-> IF e = opening THEN 2 ELSE 1]
====
