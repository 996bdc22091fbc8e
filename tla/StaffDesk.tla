----------------------------- MODULE StaffDesk -----------------------------
(***************************************************************************)
(* Team behind the owner's staff page (apps/web/src/pages/StaffPage.tsx):  *)
(* people are added and removed, and nozzles handed out by default, from   *)
(* what that page shows, which may be older than the team.  Pumps are      *)
(* changed on the access page, custody and shifts as in Team.              *)
(***************************************************************************)
EXTENDS Team

VARIABLE staff   \* what the staff page shows

\* Whom each nozzle is handed to on the form.  The roster beside it may be as
\* old as can be: whoever was ever added may still be listed.
Form == [assign : Handed]
Roster == {p \in Person \ {Owner} : status[p] # "absent"}

DeskTypeOK == TypeOK /\ staff \in {Blank} \cup Form

deskVars == <<vars, staff>>

DeskInit == Init /\ staff = Blank

-----------------------------------------------------------------------------
Shown == staff # Blank

\* The form starts from a nozzle's default, else from whoever has it in the
\* open shift.
Preset(n) ==
    IF defaults[n] # NoOne \/ OpenShifts = {} THEN defaults[n]
    ELSE LET s == CHOOSE s \in OpenShifts : TRUE IN shifts[s].custody[n]

\* load: its two reads are taken as one.
LoadStaff ==
    /\ staff' = [assign |-> [n \in Nozzle |-> Preset(n)]]
    /\ UNCHANGED vars

\* The attendants listed can be chosen; whoever was preset stays until another
\* is chosen.
ChooseDefault(n, p) ==
    /\ Shown
    /\ p \in {q \in Roster : Role[q] = "STAFF"} \cup {NoOne}
    /\ staff' = [staff EXCEPT !.assign[n] = p]
    /\ UNCHANGED vars

\* create and createManager: at this pump.
Create(p) == Shown /\ AddMember(p, {Home}) /\ UNCHANGED staff

\* remove.
Remove(p) == Shown /\ p \in Roster /\ ReadRemoval(p) /\ UNCHANGED staff

\* saveCustody: all the nozzles, as the form has them.
SaveCustody == Shown /\ ReadSave(staff.assign) /\ UNCHANGED staff

\* The access page, the shift page, changes of custody (which no page asks
\* for) and the commits.
Others ==
    /\ \/ \E p \in Person, S \in Postings : ReadTransfer(p, S)
       \/ \E s \in DOMAIN shifts, a \in Handed : ReadCustody(s, a)
       \/ \E r \in requests : \/ CommitTransfer(r) \/ CommitRemoval(r) \/ CommitSave(r)
       \/ LoadPage \/ OpenShift
       \/ \E n \in Nozzle, p \in Person \cup {NoOne} : ChooseAttendant(n, p)
       \/ \E moved \in SUBSET Nozzle : CloseShift(moved)
    /\ UNCHANGED staff

DeskNext ==
    \/ LoadStaff \/ SaveCustody
    \/ \E n \in Nozzle, p \in Person \cup {NoOne} : ChooseDefault(n, p)
    \/ \E p \in Person : Create(p) \/ Remove(p)
    \/ Others

DeskSpec == DeskInit /\ [][DeskNext]_deskVars
=============================================================================
