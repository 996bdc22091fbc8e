------------------------------ MODULE TankDesk ------------------------------
(***************************************************************************)
(* TankStock behind the shift page of a browser                            *)
(* (apps/web/src/pages/OperationsPage.tsx).  The page shows the stock      *)
(* bridge as it was when the page was loaded, the dip is taken, and the    *)
(* form is sent some time later; a second browser, whose page is always    *)
(* fresh, opens and closes shifts too.  Readings are honest, and the pump  *)
(* stands still once the closing readings are taken.                       *)
(***************************************************************************)
EXTENDS TankStock

VARIABLE page   \* what the manager's browser shows

\* The form that opens a shift, or closes the open one.  nozzle: the meter the
\* page was told, later the one read, with the testing; bridge: received and
\* adjusted since the opening, as the page was told.  dip, lost and still: the
\* reading, the losses before it, and that nothing came since.
Away == [kind |-> "away"]
Form == [kind : {"opening", "closing"}, shift : 0..MaxShift, nozzle : Nozzle, bridge : Int,
         dip : Nat \cup {Unset}, lost : Nat, still : BOOLEAN]

TankTypeOK == StockTypeOK /\ page \in {Away} \cup Form

tankVars == <<stockVars, page>>

TankInit == StockInit /\ page = Away

-----------------------------------------------------------------------------
\* bootstrap: the open shift with the bridge of this moment, or where the last
\* shift left the meter; the form it fills in has no dip yet.
Bootstrap ==
    [kind |-> IF ShiftOpen THEN "closing" ELSE "opening", shift |-> Len(shifts),
     nozzle |-> [meter |-> IF ShiftOpen THEN Last.openingMeter ELSE OpeningMeter,
                 tested |-> 0, returned |-> TRUE],
     bridge |-> IF ShiftOpen THEN Bridge(Last.openedAt, now) ELSE 0,
     dip |-> Unset, lost |-> 0, still |-> TRUE]

\* load: the form shows what bootstrap said.
LoadPage == page' = Bootstrap /\ UNCHANGED stockVars

DipTaken == page.kind # "away" /\ page.dip # Unset
Measured(form) == [form EXCEPT !.dip = level, !.lost = lost]

\* The opening form asks for the dip alone; its meter cannot be edited.
TypeOpening == /\ page.kind = "opening" /\ ~DipTaken
               /\ page' = Measured(page)
               /\ UNCHANGED stockVars

\* The closing form asks for the meter's reading and the testing as well.
WithMeters(form) == [form EXCEPT !.nozzle = NozzleShows]

TypeClosing == /\ page.kind = "closing" /\ ~DipTaken
               /\ page' = WithMeters(Measured(page))
               /\ UNCHANGED stockVars

\* The closing readings of the open shift are taken.
PumpStands == DipTaken /\ page.kind = "closing" /\ page.shift = Len(shifts) /\ ShiftOpen

\* bridgeValues: the page judges the dip by the bridge it was told.
PageRefuses == DipLooksCopied(page.dip, page.nozzle, page.bridge)

\* open.
SubmitOpening ==
    /\ DipTaken /\ page.kind = "opening"
    /\ OpenShift(page.dip, page.nozzle.meter, page.lost, page.still)
    /\ page' = Away

\* close: the page has no objection, then the API judges by the bridge of the
\* moment.
SubmitClosing ==
    /\ PumpStands
    /\ ~PageRefuses
    /\ CloseTankShift(page.dip, page.nozzle, page.lost, page.still)
    /\ page' = Away

\* A lorry that comes after the dip makes it old.
Arrive(q) ==
    /\ Deliver(q)
    /\ page' = IF DipTaken THEN [page EXCEPT !.still = FALSE] ELSE page

\* Everything else leaves the page as it is.
Others ==
    /\ \/ Lose \/ Tick
       \/ ~PumpStands /\ (Draw \/ Test \/ PourBack)
       \/ \E at \in Time : Receive(at)
       \/ \E delta \in {-1, 1} : Adjust(delta)
       \/ \E q \in 1..MaxQuantity, at \in Time : SellMetered(q, at)
       \/ OpenShift(level, meter, lost, TRUE)
       \/ CloseTankShift(level, NozzleShows, lost, TRUE)
    /\ UNCHANGED page

TankNext == \/ LoadPage \/ TypeOpening \/ TypeClosing
            \/ SubmitOpening \/ SubmitClosing
            \/ \E q \in 1..MaxQuantity : Arrive(q)
            \/ Others

TankSpec == TankInit /\ [][TankNext]_tankVars
=============================================================================
