--------------------------- MODULE MCOfflineSync ---------------------------
(* Two tabs of one browser, two people, two records.                        *)
EXTENDS OfflineSync
CONSTANTS r1, r2, t1, t2, u1, u2

TwoRecords == {r1, r2}
TwoTabs == {t1, t2}
TwoUsers == {u1, u2}

\* The two are alike: let the first be signed in at the start.
FirstSignedIn == Init /\ cookie = u1
FirstSpec == FirstSignedIn /\ [][Next]_vars /\ Fairness
=============================================================================
