----------------------------- MODULE TankStock -----------------------------
(***************************************************************************)
(* One tank, the nozzle that draws on it, and what the books and the dips  *)
(* of its shifts say of it: lib/stock.ts, receive and adjustInTransaction  *)
(* of modules/inventory, persistSale of modules/sales, and the stock side  *)
(* of openShift, closeShift and stockBridge in modules/shifts.             *)
(*                                                                         *)
(* Every handler is a serializable transaction, so one step.  The tank     *)
(* itself is modelled beside them: a delivery is entered some time after   *)
(* it came, with the time it came, and fuel may be lost without anybody    *)
(* seeing it.  The ledger's rows are summed by type and instant, as every  *)
(* reader sums them.  Quantities are whole litres; the notes a difference  *)
(* asks for are left out.  TankDesk puts the browsers before the handlers  *)
(* and has the next-state relation.                                        *)
(***************************************************************************)
EXTENDS Integers, Sequences, LedgerSums

CONSTANTS OpeningStock,   \* the tank's configured openingStock
          ClockSkew,      \* how far a device clock may run ahead (5 minutes)
          Unset,
          MaxShift,       \* bound: shifts ever opened
          MaxTime,        \* bound: the last instant
          MaxQuantity,    \* bound: litres of one delivery or sale
          MaxEvents       \* bound: deliveries, draws, losses and adjustments

ASSUME StockAssumption ==
    /\ {OpeningStock, ClockSkew, MaxShift, MaxTime, MaxQuantity, MaxEvents} \subseteq Nat
    /\ Unset \notin Nat

VARIABLES now,
          level,      \* what is in the tank
          meter,      \* what the nozzle's meter reads
          outstanding,   \* deliveries not entered yet, by the instant they came
          lost,       \* litres lost so far
          rows,       \* inventory_ledger: quantityDelta by type and occurredAt
          shifts,
          metered,    \* the open shift's metered sales, in litres
          tested,     \* litres the open shift drew for testing
          poured,     \* they were poured back
          ahead,      \* history: litres sold by stamps that lay ahead when they were saved
          events

stockVars == <<now, level, meter, outstanding, lost, rows, shifts, metered, tested, poured, ahead,
               events>>
tank == <<level, meter, outstanding, lost, tested, poured>>

Time == 0..(MaxTime + ClockSkew)
\* "TESTING" rows are ADJUSTMENT rows too, written by closeShift.
RowType == {"RECEIPT", "SALE", "ADJUSTMENT", "TESTING"}

\* lostBefore, lostAfter and still are history: losses before each dip, and
\* that nothing was delivered between a dip and its submission.
ShiftRow == [openedAt : Time, closedAt : Time \cup {Unset},
             openingDip : Nat, closingDip : Nat \cup {Unset},
             openingMeter : Nat, closingMeter : Nat \cup {Unset},
             testing : Nat, returned : BOOLEAN,
             lostBefore : Nat, lostAfter : Nat, still : BOOLEAN]

StockTypeOK ==
    /\ now \in 0..MaxTime /\ {level, meter, lost, metered, tested, events} \subseteq Nat
    /\ outstanding \in [Time -> Nat]
    /\ rows \in [RowType -> [Time -> Int]]
    /\ \A t \in Time : /\ rows["RECEIPT"][t] >= 0
                       /\ rows["SALE"][t] <= 0 /\ rows["TESTING"][t] <= 0
    /\ shifts \in Seq(ShiftRow) /\ Len(shifts) <= MaxShift
    /\ metered <= meter /\ poured \in BOOLEAN /\ ahead \in [Time -> Nat]

StockInit ==
    /\ now = 0 /\ level = OpeningStock /\ meter = 0 /\ lost = 0
    /\ outstanding = [t \in Time |-> 0]
    /\ rows = [k \in RowType |-> [t \in Time |-> 0]]
    /\ shifts = <<>> /\ metered = 0 /\ tested = 0 /\ poured = FALSE
    /\ ahead = [t \in Time |-> 0] /\ events = 0

-----------------------------------------------------------------------------
(* The sums the code takes over the ledger.                                *)
Sum(kinds, instants) ==
    SumOf([k \in kinds |-> SumOf([t \in instants |-> rows[k][t]])])

BookStockAt(at) == OpeningStock + Sum(RowType, 0..at)

\* tankMovementDeltasBetween: after one instant and through another.
MovementsBetween(after, through) == Sum(RowType, (after + 1)..through)

\* stockBridge: receipts and adjustments from the opening, before the close.
SlipBridgeInstants(from, until) == from..until
BridgeInstants(from, until) == from..(until - 1)

BridgeKinds == {"RECEIPT", "ADJUSTMENT", "TESTING"}
Bridge(from, until) == Sum(BridgeKinds, BridgeInstants(from, until))

SlipAssertStockAvailable(quantity, at) == TRUE
AssertStockAvailable(quantity, at) == BookStockAt(at) >= quantity

Post(kind, delta, at) == rows' = [rows EXCEPT ![kind][at] = @ + delta]

Last == shifts[Len(shifts)]
ShiftOpen == shifts # <<>> /\ Last.closedAt = Unset

-----------------------------------------------------------------------------
(* What happens to the tank.                                               *)
Event == events < MaxEvents /\ events' = events + 1

Deliver(q) == /\ Event /\ level' = level + q
              /\ outstanding' = [outstanding EXCEPT ![now] = @ + q]
              /\ UNCHANGED <<now, meter, lost, rows, shifts, metered, tested, poured, ahead>>

Lose == /\ Event /\ level > 0 /\ level' = level - 1 /\ lost' = lost + 1
        /\ UNCHANGED <<now, meter, outstanding, rows, shifts, metered, tested, poured, ahead>>

Draw == /\ Event /\ ShiftOpen /\ level > 0
        /\ level' = level - 1 /\ meter' = meter + 1
        /\ UNCHANGED <<now, outstanding, lost, rows, shifts, metered, tested, poured, ahead>>

\* Fuel drawn to test the nozzle, which is poured back or kept.
Test == /\ Event /\ ShiftOpen /\ ~poured /\ level > 0
        /\ level' = level - 1 /\ meter' = meter + 1 /\ tested' = tested + 1
        /\ UNCHANGED <<now, outstanding, lost, rows, shifts, metered, poured, ahead>>

PourBack == /\ tested > 0 /\ ~poured
            /\ level' = level + tested /\ poured' = TRUE
            /\ UNCHANGED <<now, meter, outstanding, lost, rows, shifts, metered, tested, ahead, events>>

Tick == now < MaxTime /\ now' = now + 1
        /\ UNCHANGED <<tank, rows, shifts, metered, ahead, events>>

-----------------------------------------------------------------------------
(* The handlers.                                                           *)
\* receive enters a delivery with the time it came.
Receive(at) ==
    /\ outstanding[at] > 0
    /\ Post("RECEIPT", outstanding[at], at)
    /\ outstanding' = [outstanding EXCEPT ![at] = 0]
    /\ UNCHANGED <<now, level, meter, lost, shifts, metered, tested, poured, ahead, events>>

\* An approved adjustment is stamped when it is made.
Adjust(delta) ==
    /\ Event
    /\ delta < 0 => AssertStockAvailable(-delta, now)
    /\ Post("ADJUSTMENT", delta, now)
    /\ UNCHANGED <<now, tank, shifts, metered, ahead>>

\* persistSale: the device says when the sale happened, the stock is that of now.
SellMetered(q, at) ==
    /\ ShiftOpen /\ at >= Last.openedAt /\ at <= now + ClockSkew
    /\ metered + q <= meter - Last.openingMeter - tested
    /\ AssertStockAvailable(q, now)
    /\ Post("SALE", -q, at)
    /\ metered' = metered + q
    /\ ahead' = IF at > now THEN [ahead EXCEPT ![at] = @ + q] ELSE ahead
    /\ UNCHANGED <<now, tank, shifts, events>>

ExpectedOpening ==
    IF shifts = <<>> THEN BookStockAt(now)
    ELSE Last.closingDip + MovementsBetween(Last.closedAt, now)

\* Slip: whatever meter reading the form shows is taken.
SlipOpensAt(reading) == TRUE

\* The meter opens where the last shift closed it: a form older than that is
\* refused.
OpeningMeter == IF shifts = <<>> THEN 0 ELSE Last.closingMeter
OpensAt(reading) == reading = OpeningMeter

\* A dip comes with the losses before it, and whether anything came since.
OpenShift(dip, reading, lostThen, still) ==
    /\ ~ShiftOpen /\ Len(shifts) < MaxShift
    /\ OpensAt(reading)
    /\ shifts' = Append(shifts,
         [openedAt |-> now, closedAt |-> Unset, openingDip |-> dip, closingDip |-> Unset,
          openingMeter |-> reading, closingMeter |-> Unset, testing |-> 0, returned |-> FALSE,
          lostBefore |-> lostThen, lostAfter |-> 0, still |-> still])
    /\ UNCHANGED <<now, tank, rows, metered, ahead, events>>

\* What is expected in the tank: the opening dip, what the bridge says came
\* in, less what the meter sold and what testing kept.
ExpectedClosing(s, bridge, closingMeter, testing, returned) ==
    s.openingDip + bridge - (closingMeter - s.openingMeter - testing)
        - (IF returned THEN 0 ELSE testing)

\* What the closing form sends of the nozzle: its meter, what was tested and
\* whether it went back.
Nozzle == [meter : Nat, tested : Nat, returned : BOOLEAN]
NozzleShows == [meter |-> meter, tested |-> tested, returned |-> poured]

Kept(nozzle) == IF nozzle.returned THEN 0 ELSE nozzle.tested
Sold(nozzle) == nozzle.meter - Last.openingMeter - nozzle.tested

\* A dip that has not moved although fuel was sold is taken for a copy.
DipLooksCopied(dip, nozzle, bridge) ==
    /\ Sold(nozzle) + Kept(nozzle) > 0
    /\ dip = Last.openingDip
    /\ dip # ExpectedClosing(Last, bridge, nozzle.meter, nozzle.tested, nozzle.returned)

SlipLeftToSell(nozzle) == nozzle.meter - Last.openingMeter - metered
LeftToSell(nozzle) == Sold(nozzle) - metered

\* The sale the meter shows beyond those recorded, then the testing that was
\* not returned, both stamped with the close.
CloseTankShift(dip, nozzle, lostThen, still) ==
    LET left == LeftToSell(nozzle)
        kept == Kept(nozzle)
    IN /\ ShiftOpen
       /\ ~DipLooksCopied(dip, nozzle, Bridge(Last.openedAt, now))
       /\ left >= 0
       /\ left > 0 => AssertStockAvailable(left, now)
       /\ kept > 0 => AssertStockAvailable(left + kept, now)
       /\ rows' = [rows EXCEPT !["SALE"][now] = @ - left, !["TESTING"][now] = @ - kept]
       /\ shifts' = [shifts EXCEPT ![Len(shifts)] =
            [Last EXCEPT !.closedAt = now, !.closingDip = dip, !.closingMeter = nozzle.meter,
                         !.testing = nozzle.tested, !.returned = nozzle.returned,
                         !.lostAfter = lostThen, !.still = @ /\ still]]
       /\ metered' = 0 /\ tested' = 0 /\ poured' = FALSE
       /\ UNCHANGED <<now, level, meter, outstanding, lost, ahead, events>>

-----------------------------------------------------------------------------
NoneAhead == \A t \in Time : ahead[t] = 0
SoldAhead == SumOf([t \in 0..now |-> ahead[t]])
AllEntered == \A t \in Time : outstanding[t] = 0
NothingMoved(t) == outstanding[t] = 0 /\ \A k \in BridgeKinds : rows[k][t] = 0

\* Between shifts, once the deliveries are entered, every litre that came,
\* was sold or was kept by testing is in the ledger exactly once: the book
\* differs from the tank by the losses and the adjustments made by hand.
LedgerCountsEachLitreOnce ==
    /\ StockTypeOK
    /\ ~ShiftOpen /\ AllEntered =>
           BookStockAt(MaxTime + ClockSkew) = level + lost + Sum({"ADJUSTMENT"}, Time)

\* No order of sales, closings, adjustments and late receipts takes the present
\* book stock below zero by more than what was sold with stamps that lay ahead:
\* their litres leave the book only when their instant comes, and the stock
\* checks made until then do not see them.
BookNeverNegative == BookStockAt(now) + SoldAhead >= 0

\* The variance of a closed shift, recomputed whenever a late receipt changes
\* its bridge, is what was lost in it less what was adjusted in it by hand,
\* as long as nothing was delivered between a dip and its submission, or moved
\* at the very instants of the opening and the closing.
VarianceIsTheLoss ==
    \A i \in DOMAIN shifts :
        LET s == shifts[i] IN
        /\ s.closedAt # Unset /\ s.still /\ AllEntered
        /\ NothingMoved(s.openedAt) /\ s.openedAt # s.closedAt
        /\ rows["RECEIPT"][s.closedAt] = 0 /\ rows["ADJUSTMENT"][s.closedAt] = 0
        => s.closingDip - ExpectedClosing(s, Bridge(s.openedAt, s.closedAt), s.closingMeter,
                                          s.testing, s.returned)
             = s.lostBefore - s.lostAfter
                 - Sum({"ADJUSTMENT"}, BridgeInstants(s.openedAt, s.closedAt))

\* The dip a shift opens with is the one the previous close and the movements
\* since lead to, less the losses and adjustments in between, unless something
\* was delivered between a dip and its submission, moved at the instant of the
\* close or was sold with a later stamp.
OpeningFollowsClose ==
    [][LET opened == shifts'[Len(shifts')] IN
       Len(shifts') > Len(shifts) /\ shifts # <<>> /\ AllEntered /\ NoneAhead
         /\ Last.still /\ opened.still
         /\ rows["RECEIPT"][Last.closedAt] = 0 /\ rows["ADJUSTMENT"][Last.closedAt] = 0
       => opened.openingDip - ExpectedOpening
            = Last.lostAfter - opened.lostBefore
                - Sum({"ADJUSTMENT"}, (Last.closedAt + 1)..now)]_stockVars
=============================================================================
