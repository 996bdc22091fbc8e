-------------------------------- MODULE Team --------------------------------
(***************************************************************************)
(* The people of one fuel station: who is active, which pumps they work    *)
(* at, whom a nozzle is handed to by default and in each shift             *)
(* (apps/api/src/modules/access, modules/shifts), and the shift page of    *)
(* the browser that proposes the next team and closes the shift            *)
(* (apps/web/src/pages/OperationsPage.tsx).                                *)
(*                                                                         *)
(* The handlers of modules/access read, then write in a transaction at     *)
(* the database's default isolation (READ COMMITTED), so each is two       *)
(* actions: its reads, and the commit, which deletes the rows its          *)
(* deleteMany found and inserts its own.  A request overtaken by another   *)
(* (raced) may have started its deleteMany before the other committed:     *)
(* it then misses rows, and fails on the unique key when one of them is in *)
(* the way of its own.  Opening and closing a shift are serializable       *)
(* transactions: one action each.  Meters, dips and sales are left to      *)
(* ShiftMeters and TankStock.                                              *)
(***************************************************************************)
EXTENDS Integers, Sequences, FiniteSets, Functions

CONSTANTS Person,      \* people who have, or will have, a user row
          Role,        \* the role each has
          Owner,       \* the organization's owner
          Known,       \* the people with a user row at the start
          Station,     \* the organization's pumps
          Home,        \* the pump whose nozzles and shifts are modelled
          Nozzle,      \* its active nozzles
          NoOne,       \* a nozzle handed to nobody
          Postings,    \* the sets of pumps a person is given
          MaxShift,    \* bound: shifts ever opened
          MaxRequests  \* bound: requests between their reads and their commit

ASSUME TeamAssumption ==
    /\ Role \in [Person -> {"OWNER", "MANAGER", "STAFF"}]
    /\ Owner \in Known /\ Known \subseteq Person
    /\ \A p \in Person : Role[p] = "OWNER" <=> p = Owner
    /\ Home \in Station
    /\ NoOne \notin Person
    /\ Postings \subseteq SUBSET Station
    /\ MaxShift \in Nat /\ MaxRequests \in Nat

VARIABLES status,      \* of each person: no row yet, active, removed
          stationsOf,  \* UserStationAccess
          defaults,    \* NozzleAttendantAssignment: who has the nozzle by default
          shifts,      \* the station's shifts, by number
          requests,    \* requests between their reads and their commit
          page,        \* what the manager's shift page shows
          overlapped   \* history: people two overlapping requests were about

vars == <<status, stationsOf, defaults, shifts, requests, page, overlapped>>

\* Who each nozzle is handed to.
Handed == [Nozzle -> Person \cup {NoOne}]
Nobody == [n \in Nozzle |-> NoOne]
HandedTo(a) == Range(a) \ {NoOne}
Rows(a) == {n \in Nozzle : a[n] # NoOne}

Shift == [open : BOOLEAN, manager : Person, users : SUBSET Person,
          custody : Handed, collected : SUBSET Nozzle]

ShiftNo == 0..MaxShift   \* 0: the request found no open shift

\* saveNozzleAssignments, with the attendants its shift's team lacked, and
\* updateNozzleCustody.
SaveRequest == [kind : {"defaults", "custody"}, assign : Handed, shift : ShiftNo,
                missing : SUBSET Person, raced : BOOLEAN]

\* assign: a person's pumps are replaced.
TransferRequest == [kind : {"transfer"}, who : Person, to : SUBSET Station, raced : BOOLEAN]

\* deactivateStaff.
RemovalRequest == [kind : {"removal"}, who : Person]

\* The shift page: nothing loaded yet, the form that opens a shift, or the
\* form that closes the open one, with a collection for each nozzle.
Blank == [kind |-> "blank"]
Page == {Blank}
        \cup [kind : {"opening"}, manager : Person, users : SUBSET Person, custody : Handed]
        \cup [kind : {"closing"}, shift : 1..MaxShift, collections : SUBSET Nozzle]

TypeOK == /\ status \in [Person -> {"absent", "active", "removed"}]
          /\ stationsOf \in [Person -> SUBSET Station]
          /\ defaults \in Handed
          /\ shifts \in Seq(Shift) /\ Len(shifts) <= MaxShift
          /\ requests \subseteq SaveRequest \cup TransferRequest \cup RemovalRequest
          /\ page \in Page
          /\ overlapped \subseteq Person

Init == /\ status = [p \in Person |-> IF p \in Known THEN "active" ELSE "absent"]
        /\ stationsOf = [p \in Person |-> IF p \in Known \ {Owner} THEN {Home} ELSE {}]
        /\ defaults = Nobody
        /\ shifts = <<>>
        /\ requests = {}
        /\ page = Blank
        /\ overlapped = {}

-----------------------------------------------------------------------------
Active == {p \in Person : status[p] = "active"}
OpenShifts == {s \in DOMAIN shifts : shifts[s].open}
RoomForRequest == Cardinality(requests) < MaxRequests

TeamOf(s) == shifts[s].users \cup {shifts[s].manager}

\* Those a nozzle of this pump may be handed to.
Attendants == {p \in Active : Role[p] = "STAFF" /\ Home \in stationsOf[p]}

-----------------------------------------------------------------------------
(* People.                                                                 *)

\* Slip: a manager is given pumps like any other member of the team.
SlipPumpsFit(p, S) == S # {}

\* A manager works at exactly one pump.
PumpsFit(p, S) == Role[p] = "MANAGER" => Cardinality(S) = 1

\* createStaff and createManager: both need a pump.
AddMember(p, S) ==
    /\ status[p] = "absent"
    /\ S # {} /\ PumpsFit(p, S)
    /\ status' = [status EXCEPT ![p] = "active"]
    /\ stationsOf' = [stationsOf EXCEPT ![p] = S]
    /\ UNCHANGED <<defaults, shifts, requests, page, overlapped>>

\* assign reads the person and the pumps.  Staff may be left without a pump.
ReadTransfer(p, S) ==
    /\ RoomForRequest
    /\ p \in Active \ {Owner}
    /\ PumpsFit(p, S)
    /\ requests' = requests \cup
           {[kind |-> "transfer", who |-> p, to |-> S, raced |-> FALSE]}
    /\ UNCHANGED <<status, stationsOf, defaults, shifts, page, overlapped>>

\* The transaction is rolled back and the request refused.
FailRequest(r) ==
    /\ requests' = requests \ {r}
    /\ UNCHANGED <<status, stationsOf, defaults, shifts, page, overlapped>>

\* What a deleteMany finds of rows: all, unless it was overtaken.
Found(rows, r) == IF r.raced THEN SUBSET rows ELSE {rows}

CommitTransfer(r) ==
    LET p == r.who
        others == {q \in requests \ {r} : q.kind = "transfer" /\ q.who = p}
    IN /\ r.kind = "transfer"
       /\ \E gone \in Found(stationsOf[p], r) :
            IF (stationsOf[p] \ gone) \cap r.to # {}
            THEN FailRequest(r)
            ELSE /\ stationsOf' = [stationsOf EXCEPT ![p] = (@ \ gone) \cup r.to]
                 /\ requests' = ((requests \ {r}) \ others) \cup
                                 {[q EXCEPT !.raced = TRUE] : q \in others}
                 /\ overlapped' = IF r.raced THEN overlapped \cup {p} ELSE overlapped
                 /\ UNCHANGED <<status, defaults, shifts, page>>

\* Slip: only the open shift is asked who holds its nozzles.
SlipHoldsNozzle(p) == \E s \in OpenShifts : p \in HandedTo(shifts[s].custody)

\* The nozzles deactivateStaff counts before it removes somebody.
HoldsNozzle(p) == \/ p \in HandedTo(defaults)
                  \/ \E s \in OpenShifts : p \in HandedTo(shifts[s].custody)

ReadRemoval(p) ==
    /\ RoomForRequest
    /\ p \in Active \ {Owner}
    /\ ~HoldsNozzle(p)
    /\ requests' = requests \cup {[kind |-> "removal", who |-> p]}
    /\ UNCHANGED <<status, stationsOf, defaults, shifts, page, overlapped>>

\* Nozzles handed to somebody by requests not committed yet.
BeingHanded == UNION {HandedTo(q.assign) : q \in {q \in requests : q.kind = "defaults"}}

CommitRemoval(r) ==
    /\ r.kind = "removal"
    /\ status' = [status EXCEPT ![r.who] = "removed"]
    /\ requests' = requests \ {r}
    /\ overlapped' = overlapped \cup ({r.who} \cap BeingHanded)
    /\ UNCHANGED <<stationsOf, defaults, shifts, page>>

-----------------------------------------------------------------------------
(* Nozzles.                                                                *)

\* Slip: the open shift's team is taken to know every attendant.
SlipMissing(a, s) == {}

\* Attendants the open shift's team lacks.
Missing(a, s) == IF s = 0 THEN {} ELSE HandedTo(a) \ TeamOf(s)

\* saveNozzleAssignments reads the pump, its open shift and the attendants.
\* The owner's page sends the nozzles that are handed to somebody.
ReadSave(a) ==
    /\ RoomForRequest
    /\ HandedTo(a) \subseteq Attendants
    /\ \E s \in (IF OpenShifts = {} THEN {0} ELSE OpenShifts) :
         requests' = requests \cup
             {[kind |-> "defaults", assign |-> a, shift |-> s, missing |-> Missing(a, s),
               raced |-> FALSE]}
    /\ UNCHANGED <<status, stationsOf, defaults, shifts, page, overlapped>>

\* updateNozzleCustody reads the shift and its team; whether they are still
\* active is not asked.
ReadCustody(s, a) ==
    /\ RoomForRequest
    /\ s \in OpenShifts
    /\ HandedTo(a) \subseteq TeamOf(s)
    /\ requests' = requests \cup
           {[kind |-> "custody", assign |-> a, shift |-> s, missing |-> {},
             raced |-> FALSE]}
    /\ UNCHANGED <<status, stationsOf, defaults, shifts, page, overlapped>>

IsSave(r) == r.kind \in {"defaults", "custody"}

\* What deleting gone and inserting a makes of the rows of b, and whether a
\* row that was not deleted is in the way.
Replaced(b, gone, a) ==
    [n \in Nozzle |-> IF a[n] # NoOne THEN a[n] ELSE IF n \in gone THEN NoOne ELSE b[n]]
InTheWay(b, gone, a) == (Rows(b) \ gone) \cap Rows(a) # {}

\* The shift may have been closed meanwhile; then rows lose the collections
\* its closing recorded.
CommitSave(r) ==
    LET others == {q \in requests \ {r} : IsSave(q)}
        custody == IF r.shift = 0 THEN Nobody ELSE shifts[r.shift].custody
        rows == IF r.kind = "defaults" THEN Rows(defaults) ELSE {}
        removing == {q \in requests : q.kind = "removal"}
    IN /\ IsSave(r)
       /\ \E goneDefaults \in Found(rows, r), goneCustody \in Found(Rows(custody), r) :
            IF \/ r.kind = "defaults" /\ InTheWay(defaults, goneDefaults, r.assign)
               \/ InTheWay(custody, goneCustody, r.assign)
            THEN FailRequest(r)
            ELSE /\ defaults' = IF r.kind = "defaults"
                                THEN Replaced(defaults, goneDefaults, r.assign) ELSE defaults
                 /\ shifts' = IF r.shift = 0 THEN shifts
                              ELSE [shifts EXCEPT
                                      ![r.shift].users = @ \cup r.missing,
                                      ![r.shift].custody = Replaced(@, goneCustody, r.assign),
                                      ![r.shift].collected = @ \ (goneCustody \cup Rows(r.assign))]
                 /\ requests' = ((requests \ {r}) \ others) \cup
                                {[q EXCEPT !.raced = TRUE] : q \in others}
                 /\ overlapped' = overlapped \cup
                        ({q.who : q \in removing} \cap HandedTo(r.assign))
                 /\ UNCHANGED <<status, stationsOf, page>>

-----------------------------------------------------------------------------
(* The shift page and the shifts it opens and closes.                      *)

\* The users the page offers for this pump.
StationUsers == {p \in Active : p = Owner \/ Home \in stationsOf[p]}

\* The last shift closed, as bootstrap returns it; shifts are closed in order.
LastClosed == {s \in DOMAIN shifts : ~shifts[s].open /\ s + 1 \notin DOMAIN shifts}

\* Whom the page proposes for a nozzle: whoever had it in the last shift,
\* else its default, else the manager.
Proposed(n, manager) ==
    LET prior == {shifts[s].custody[n] : s \in LastClosed} \ {NoOne}
        candidate == IF prior # {} THEN prior ELSE {defaults[n]}
    IN IF candidate \subseteq StationUsers THEN CHOOSE p \in candidate : TRUE ELSE manager

\* selectStation: the form that opens a shift, its team those it proposes.
OpeningForm(manager) ==
    LET custody == [n \in Nozzle |-> Proposed(n, manager)]
    IN [kind |-> "opening", manager |-> manager, custody |-> custody,
        users |-> {manager} \cup HandedTo(custody)]

\* The form that closes the open shift, filled once for each shift.
ClosingForm(s) ==
    [kind |-> "closing", shift |-> s, collections |-> Rows(shifts[s].custody)]

\* load.  A closing form already shown for this shift is left as it is,
\* whatever happened to the shift's custody, until the page is visited anew.
LoadPage ==
    /\ IF OpenShifts # {}
       THEN \E s \in OpenShifts :
              \/ page' = ClosingForm(s)
              \/ page.kind = "closing" /\ page.shift = s /\ page' = page
       ELSE LET managers == {p \in StationUsers : Role[p] = "MANAGER"}
            IN \E m \in (IF managers = {} THEN {Owner} ELSE managers) : page' = OpeningForm(m)
    /\ UNCHANGED <<status, stationsOf, defaults, shifts, requests, overlapped>>

\* assignAttendant: somebody handed a nozzle joins the team, and stays on it.
ChooseAttendant(n, p) ==
    /\ page.kind = "opening"
    /\ p \in Attendants \cup {NoOne}
    /\ page' = [page EXCEPT !.custody[n] = p, !.users = @ \cup ({p} \ {NoOne})]
    /\ UNCHANGED <<status, stationsOf, defaults, shifts, requests, overlapped>>

\* Everybody on the form is still active and the custodians are on its team.
\* The page loads anew.
OpenShift ==
    /\ Len(shifts) < MaxShift
    /\ page.kind = "opening"
    /\ page.users \cup {page.manager} \subseteq Active
    /\ HandedTo(page.custody) \subseteq page.users
    /\ OpenShifts = {}
    /\ shifts' = Append(shifts, [open |-> TRUE, manager |-> page.manager, users |-> page.users,
                                 custody |-> page.custody, collected |-> {}])
    /\ page' = Blank
    /\ UNCHANGED <<status, stationsOf, defaults, requests, overlapped>>

\* One collection for every nozzle handed to somebody.
CollectionsFit(s, C) == C = Rows(shifts[s].custody)

\* The nozzles whose meter moved need a custodian: the sales posted for them
\* carry his name.
CloseShift(moved) ==
    /\ page.kind = "closing"
    /\ LET s == page.shift
       IN /\ s \in OpenShifts
          /\ CollectionsFit(s, page.collections)
          /\ moved \subseteq Rows(shifts[s].custody)
          /\ shifts' = [shifts EXCEPT ![s].open = FALSE, ![s].collected = page.collections]
    /\ page' = Blank
    /\ UNCHANGED <<status, stationsOf, defaults, requests, overlapped>>

-----------------------------------------------------------------------------
Next ==
    \/ \E p \in Person, S \in Postings \cup {{Home}} : AddMember(p, S) \/ ReadTransfer(p, S)
    \/ \E p \in Person : ReadRemoval(p)
    \/ \E a \in Handed : ReadSave(a)
    \/ \E s \in DOMAIN shifts, a \in Handed : ReadCustody(s, a)
    \/ \E r \in requests : \/ CommitTransfer(r) \/ CommitRemoval(r) \/ CommitSave(r)
    \/ LoadPage \/ OpenShift
    \/ \E n \in Nozzle, p \in Person \cup {NoOne} : ChooseAttendant(n, p)
    \/ \E moved \in SUBSET Nozzle : CloseShift(moved)

Spec == Init /\ [][Next]_vars

-----------------------------------------------------------------------------
\* Whoever holds a nozzle in a shift is on that shift's team, however saves
\* of the owner's defaults, changes of custody and closings interleave:
\* handing an outsider a nozzle of the open shift puts him on its team.
CustodianOnTeam ==
    \A s \in DOMAIN shifts : HandedTo(shifts[s].custody) \subseteq TeamOf(s)

\* Nobody removed is still a nozzle's default attendant, unless his removal
\* overlapped the save that handed it to him.
RemovedIsNoDefault ==
    \A p \in HandedTo(defaults) : status[p] = "active" \/ p \in overlapped

\* A manager works at exactly one pump, unless two changes of his pumps
\* overlapped.
ManagerHasOnePump ==
    \A p \in Person : (Role[p] = "MANAGER" /\ status[p] # "absent") =>
        (Cardinality(stationsOf[p]) = 1 \/ p \in overlapped)
=============================================================================
