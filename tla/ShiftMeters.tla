---------------------------- MODULE ShiftMeters ----------------------------
(***************************************************************************)
(* One fuel station's shifts and the litres its nozzles' meters account    *)
(* for: opening and closing a shift (apps/api/src/modules/shifts), metered *)
(* sales (modules/sales), nozzle custody and staff collections, changes of *)
(* the equipment (modules/stations) and the reconciliation lock            *)
(* (modules/reconciliation).                                               *)
(*                                                                         *)
(* Each handler that reads before its transaction is two actions: the      *)
(* check, on what it read, and the write, on what the database then holds. *)
(* Serializable transactions are single actions.  The tank side of these   *)
(* handlers (dips, book stock) is the subject of TankStock; money and      *)
(* customers are left out.  Quantities are whole litres, so the code's     *)
(* 0.001 tolerance is equality.                                            *)
(***************************************************************************)
EXTENDS Integers, Sequences, FiniteSets, FiniteSetsExt

CONSTANTS Nozzle,       \* the nozzles of the station's configuration
          SaleId,       \* sale submissions; each is posted at most once
          None,         \* a reading not taken yet, a shift not closed yet
          ClockSkew,    \* how far a device clock may run ahead (5 minutes)
          MaxShift,     \* bound: shifts ever opened
          MaxMeter,     \* bound: the largest meter reading
          MaxTime,      \* bound: the last instant
          MaxRequests   \* bound: requests between their reads and their write

ASSUME BoundsAssumption ==
    /\ ClockSkew \in Nat /\ MaxShift \in Nat /\ MaxMeter \in Nat /\ MaxTime \in Nat
    /\ MaxRequests \in Nat
    /\ None \notin Nat

ASSUME NozzleAssumption == IsFiniteSet(Nozzle)

VARIABLES now,        \* the server's clock
          active,     \* nozzles whose status is ACTIVE
          shifts,     \* the station's shifts, by shift number
          sales,      \* metered sales
          checked,    \* sale requests that passed the reads of createSale
          custody,    \* custody changes that passed their reads
          equipment   \* equipment changes that passed their reads

vars == <<now, active, shifts, sales, checked, custody, equipment>>

ConfiguredMeter == 0    \* every nozzle's openingMeter
Meter == 0..MaxMeter
Time == 0..(MaxTime + ClockSkew)
ShiftNo == 1..MaxShift

Status == {"OPEN", "RECONCILIATION_REQUIRED", "LOCKED"}

\* One reading of each of some nozzles.
Readings == UNION {[S -> Meter] : S \in SUBSET Nozzle}

\* A shift: its nozzles are the domain of opening.  assigned are the nozzles
\* with a custodian (their staff collections are left out), and total the
\* litres its reconciliation was struck for.
Shift == [status : Status, openedAt : Time, closedAt : Time \cup {None},
          opening : Readings, closing : Readings \cup {None}, tested : Readings \cup {None},
          assigned : SUBSET Nozzle,
          total : Nat \cup {None}]

\* A sale covers the meter from one reading to the next.  auto marks the one
\* posted by closing the shift.
Sale == [id : SaleId \cup {None}, shift : ShiftNo, nozzle : Nozzle,
         from : Meter, to : Meter, at : Time, auto : BOOLEAN]

TypeOK == /\ now \in Time
          /\ active \in SUBSET Nozzle
          /\ shifts \in Seq(Shift) /\ Len(shifts) <= MaxShift
          /\ sales \in SUBSET Sale
          /\ checked \in SUBSET Sale
          /\ custody \in SUBSET [shift : ShiftNo, assigned : SUBSET Nozzle]
          /\ equipment \in SUBSET SUBSET Nozzle

Init == /\ now = 0
        /\ active = Nozzle
        /\ shifts = <<>>
        /\ sales = {} /\ checked = {}
        /\ custody = {} /\ equipment = {}

-----------------------------------------------------------------------------
NozzlesOf(s) == DOMAIN shifts[s].opening
IsOpen(s) == shifts[s].status = "OPEN"
OpenShifts == {s \in DOMAIN shifts : IsOpen(s)}

SalesOf(s, n) == {x \in sales : x.shift = s /\ x.nozzle = n}
Litres(S) == MapThenSumSet(LAMBDA x : x.to - x.from, S)

\* The shift closed last, if any.
ClosedShifts == {s \in DOMAIN shifts : shifts[s].closedAt # None}
Previous == {s \in ClosedShifts : \A t \in ClosedShifts : t <= s}

\* The reading a nozzle must open at: the previous shift's closing reading,
\* or the configured meter when that shift did not have the nozzle.
OpeningReading(n) ==
    IF \E s \in Previous : n \in NozzlesOf(s)
    THEN LET s == CHOOSE s \in Previous : TRUE IN shifts[s].closing[n]
    ELSE ConfiguredMeter

\* One shift at a time.
MayOpen == OpenShifts = {}

OpenShift(assigned) ==
    /\ Len(shifts) < MaxShift
    /\ MayOpen
    /\ assigned \subseteq active
    /\ shifts' = Append(shifts,
           [status |-> "OPEN", openedAt |-> now, closedAt |-> None,
            opening |-> [n \in active |-> OpeningReading(n)],
            closing |-> None, tested |-> None,
            assigned |-> assigned, total |-> None])
    /\ UNCHANGED <<now, active, sales, checked, custody, equipment>>

-----------------------------------------------------------------------------
Requests == Cardinality(checked) + Cardinality(custody) + Cardinality(equipment)
RoomForRequest == Requests < MaxRequests

(* Metered sales.                                                          *)

\* What createMeteredSale calls the next opening reading: the closing
\* reading of the sale with the latest sale time (any of them, on a tie).
NextReading(s, n) ==
    IF SalesOf(s, n) = {} THEN {shifts[s].opening[n]}
    ELSE {x.to : x \in {y \in SalesOf(s, n) : \A z \in SalesOf(s, n) : z.at <= y.at}}

\* createSale reads the open shift, the active nozzle and the previous sale,
\* and asks for that reading.  The sale time is the device's: offline sales
\* arrive late, and a device clock may run ahead.
CheckSale(i, s, n, to, at) ==
    /\ RoomForRequest
    /\ IsOpen(s) /\ n \in NozzlesOf(s) \cap active
    /\ \A x \in sales \cup checked : x.id # i
    /\ \E from \in NextReading(s, n) :
         /\ to > from
         /\ checked' = checked \cup
                {[id |-> i, shift |-> s, nozzle |-> n, from |-> from, to |-> to,
                  at |-> at, auto |-> FALSE]}
    /\ UNCHANGED <<now, active, shifts, sales, custody, equipment>>

\* Slip: the reading checked before the transaction is trusted.
SlipTrustChecked(x) == x.from < x.to

\* The largest closing reading recorded, if any, is where this sale starts.
ContinuesMeter(x) ==
    \A y \in SalesOf(x.shift, x.nozzle) :
        (\A z \in SalesOf(x.shift, x.nozzle) : z.to <= y.to) => y.to = x.from

\* Slip: the shift's status is not read again inside the transaction.
SlipSaleIntoAnyShift(x) == /\ shifts[x.shift].openedAt <= x.at
                           /\ x.at <= now + ClockSkew
                           /\ ContinuesMeter(x)

SaleAccepted(x) == /\ IsOpen(x.shift)
                   /\ shifts[x.shift].openedAt <= x.at
                   /\ x.at <= now + ClockSkew
                   /\ ContinuesMeter(x)

PersistSale(x) == /\ SaleAccepted(x)
                  /\ sales' = sales \cup {x}
                  /\ checked' = checked \ {x}
                  /\ UNCHANGED <<now, active, shifts, custody, equipment>>

\* Refused inside the transaction, or the request died before it.
DropSale(x) == /\ checked' = checked \ {x}
               /\ UNCHANGED <<now, active, shifts, sales, custody, equipment>>

-----------------------------------------------------------------------------
(* Closing and locking.                                                    *)

Sold(s, closing, tested, n) == closing[n] - shifts[s].opening[n] - tested[n]
Recorded(s, n) == Litres(SalesOf(s, n))

\* Slip: what was sold already is posted again.
SlipMissingIsAll(s, closing, tested, n) == Sold(s, closing, tested, n)

Missing(s, closing, tested, n) == Sold(s, closing, tested, n) - Recorded(s, n)

\* The sale that covers what the meter moved beyond the recorded sales.
AutomaticSale(s, closing, tested, n) ==
    [id |-> None, shift |-> s, nozzle |-> n,
     from |-> closing[n] - tested[n] - Missing(s, closing, tested, n),
     to |-> closing[n] - tested[n], at |-> now, auto |-> TRUE]

MayClose(s) == IsOpen(s)

\* closing and tested are the readings entered, returned the nozzles whose
\* tested fuel went back to the tank.  A nozzle that needs a posting but has
\* no custodian makes the handler fail, and nothing is written.
CloseShift(s, closing, tested, returned) ==
    /\ MayClose(s)
    /\ \A n \in NozzlesOf(s) :
         /\ closing[n] >= shifts[s].opening[n]
         /\ tested[n] <= closing[n] - shifts[s].opening[n]
         /\ Missing(s, closing, tested, n) >= 0
         /\ Missing(s, closing, tested, n) > 0 \/ (tested[n] > 0 /\ n \notin returned)
                => n \in shifts[s].assigned
    /\ sales' = sales \cup
           {AutomaticSale(s, closing, tested, n) :
                n \in {m \in NozzlesOf(s) : Missing(s, closing, tested, m) > 0}}
    /\ shifts' = [shifts EXCEPT ![s].status = "RECONCILIATION_REQUIRED",
                                ![s].closedAt = now,
                                ![s].closing = closing,
                                ![s].tested = tested]
    /\ UNCHANGED <<now, active, checked, custody, equipment>>

\* The claim, the snapshot of the expected total and the lock are one
\* transaction.
Reconcile(s) ==
    /\ shifts[s].status = "RECONCILIATION_REQUIRED"
    /\ shifts' = [shifts EXCEPT ![s].status = "LOCKED",
                     ![s].total = Litres({x \in sales : x.shift = s})]
    /\ UNCHANGED <<now, active, sales, checked, custody, equipment>>

-----------------------------------------------------------------------------
(* Custody and equipment.                                                  *)

\* updateNozzleCustody reads the shift, and sees it open ...
CheckCustody(s, assigned) ==
    /\ RoomForRequest
    /\ IsOpen(s)
    /\ assigned \subseteq NozzlesOf(s)
    /\ custody' = custody \cup {[shift |-> s, assigned |-> assigned]}
    /\ UNCHANGED <<now, active, shifts, sales, checked, equipment>>

\* ... then replaces its assignment rows, whatever the shift has become.
ApplyCustody(c) ==
    /\ custody' = custody \ {c}
    /\ shifts' = [shifts EXCEPT ![c.shift].assigned = c.assigned]
    /\ UNCHANGED <<now, active, sales, checked, equipment>>

\* updateStationEquipment reads that no shift is open ...
CheckEquipment(N) ==
    /\ RoomForRequest
    /\ OpenShifts = {}
    /\ N # active
    /\ equipment' = equipment \cup {N}
    /\ UNCHANGED <<now, active, shifts, sales, checked, custody>>

\* ... then writes the nozzles' statuses, whatever has happened since.
ApplyEquipment(N) ==
    /\ active' = N
    /\ equipment' = equipment \ {N}
    /\ UNCHANGED <<now, shifts, sales, checked, custody>>

Tick == /\ now < MaxTime
        /\ now' = now + 1
        /\ UNCHANGED <<active, shifts, sales, checked, custody, equipment>>

-----------------------------------------------------------------------------
Next ==
    \/ \E A \in SUBSET Nozzle : OpenShift(A)
    \/ \E i \in SaleId, s \in DOMAIN shifts, n \in Nozzle, to \in Meter, at \in Time :
           CheckSale(i, s, n, to, at)
    \/ \E x \in checked : PersistSale(x) \/ DropSale(x)
    \/ \E s \in DOMAIN shifts :
           \E closing, tested \in [NozzlesOf(s) -> Meter], R \in SUBSET Nozzle :
               CloseShift(s, closing, tested, R)
    \/ \E s \in DOMAIN shifts : Reconcile(s)
    \/ \E s \in DOMAIN shifts, A \in SUBSET Nozzle : CheckCustody(s, A)
    \/ \E c \in custody : ApplyCustody(c)
    \/ \E N \in SUBSET Nozzle : CheckEquipment(N)
    \/ \E N \in equipment : ApplyEquipment(N)
    \/ Tick

Spec == Init /\ [][Next]_vars

-----------------------------------------------------------------------------
(* What must hold.                                                         *)

IsClosed(s) == ~IsOpen(s)

\* However sales are interleaved, delayed or stamped with strange times, the
\* sales of a nozzle cover its meter without a gap or an overlap, from the
\* shift's opening reading on (sales/service.ts:88-102); and every variable
\* keeps its type.
SalesTileTheMeter ==
    /\ TypeOK
    /\ \A x \in sales :
         /\ x.from < x.to
         /\ \/ x.from = shifts[x.shift].opening[x.nozzle]
            \/ \E y \in SalesOf(x.shift, x.nozzle) : y.to = x.from
         /\ \A y \in SalesOf(x.shift, x.nozzle) \ {x} : x.to <= y.from \/ y.to <= x.from

\* Closing accounts for every litre: the shift's sales add up to what each
\* meter moved less what was tested (closeShift, shifts/service.ts:529-658).
ClosedMetersAreSold ==
    \A s \in DOMAIN shifts : IsClosed(s) =>
        \A n \in NozzlesOf(s) :
            Recorded(s, n) = Sold(s, shifts[s].closing, shifts[s].tested, n)

\* The total a reconciliation was struck for stays the total of its shift's
\* sales: no request that was under way slips a sale in afterwards.
LockedTotalStands ==
    \A s \in DOMAIN shifts : shifts[s].status = "LOCKED" =>
        shifts[s].total = Litres({x \in sales : x.shift = s})

=============================================================================
