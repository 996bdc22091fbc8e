------------------------------ MODULE SaveOnce ------------------------------
(***************************************************************************)
(* What the retry receipts of apps/api/src/lib/safe-save.ts promise to the *)
(* person who presses "Save": a save identifier is spent on at most one    *)
(* set of details and never given back, and the person is told "saved"     *)
(* only of details that some identifier was spent on.                      *)
(***************************************************************************)
CONSTANTS Save, Key, None

VARIABLES committed,   \* for each identifier, the save it was spent on
          told         \* what the person has been told of each save

vars == <<committed, told>>

Init == /\ committed = [k \in Key |-> None]
        /\ told = [s \in Save |-> "nothing"]

Commit(k, s) == /\ committed[k] = None
                /\ committed' = [committed EXCEPT ![k] = s]
                /\ UNCHANGED told

TellSaved(s) == /\ \E k \in Key : committed[k] = s
                /\ told' = [told EXCEPT ![s] = "saved"]
                /\ UNCHANGED committed

TellRefused(s) == /\ told[s] = "nothing"
                  /\ told' = [told EXCEPT ![s] = "refused"]
                  /\ UNCHANGED committed

\* A refused save may be tried again; one reported as saved never is.
TryAgain(s) == /\ told[s] = "refused"
               /\ told' = [told EXCEPT ![s] = "nothing"]
               /\ UNCHANGED committed

Next == \E s \in Save : \/ \E k \in Key : Commit(k, s)
                        \/ TellSaved(s)
                        \/ TellRefused(s)
                        \/ TryAgain(s)

Spec == Init /\ [][Next]_vars
=============================================================================
