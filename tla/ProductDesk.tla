---------------------------- MODULE ProductDesk ----------------------------
(***************************************************************************)
(* The products page (web/src/pages/ProductsPage.tsx) in the owner's       *)
(* browser, on top of ProductPrices: the catalog it loaded, the form       *)
(* opened on one of its rows, and the save it waits for.                   *)
(*                                                                         *)
(* The page reloads its catalog under an open form, and compares the form  *)
(* with the catalog of the moment: a price that differs from it goes out   *)
(* with the date on the form, one that does not goes out without.  What is *)
(* typed is sent at once: nothing reads a form that is not saved.          *)
(***************************************************************************)
EXTENDS ProductPrices

VARIABLE page    \* the prices in the catalog and in the form, the save under way

deskVars == <<vars, page>>

\* The two prices of a product, as a row of the catalog shows them.
Shown == [cost : Price, selling : Price]

\* A save under way: what the page compared the form with, and the form's date.
Sent == [catalog : Shown, date : Times]

Page == [catalog : Shown \cup {None}, form : Shown \cup {None}, sent : Sent \cup {None}]

DeskInit == Init /\ page = [catalog |-> None, form |-> None, sent |-> None]

-----------------------------------------------------------------------------
\* listCatalog shows the prices in force, not the row's.
PricesNow == [cost |-> CostNow, selling |-> SellingNow]

\* Bound: a page from which nothing more is saved is not looked at.
InUse == edits < MaxEdits

\* load: when the page opens, every thirty seconds, on focus, and when
\* something was recorded, whether or not a form is open.
Load ==
  /\ InUse
  /\ page' = [page EXCEPT !.catalog = PricesNow]
  /\ UNCHANGED vars

\* "Edit": the form starts with the prices of the row.
EditRow ==
  /\ InUse /\ page.catalog # None
  /\ page' = [page EXCEPT !.form = page.catalog]
  /\ UNCHANGED vars

\* The form with its prices as they are or typed over.
Typed == [cost : Costs \cup {page.form.cost}, selling : Sellings \cup {page.form.selling}]

\* Mutant: the date goes with every price of the form.
SlipDateSent(price, shown, date) == date

\* The date goes with a price that is not the one the catalog shows now.
DateSent(price, shown, date) == IF price # shown THEN date ELSE None

Save(typed, date) ==
  /\ page.sent = None
  /\ OpenEdit(typed.cost, typed.selling,
              DateSent(typed.cost, page.catalog.cost, date),
              DateSent(typed.selling, page.catalog.selling, date))
  /\ page' = [page EXCEPT !.sent = [catalog |-> page.catalog, date |-> date]]

\* The API's transaction goes on.
Saving == (ReadSelling \/ ReadCost) /\ UNCHANGED page

\* The form closes when the save is answered, and stays open if the answer is
\* lost.  A save that was refused is one that was not made.
Saved ==
  /\ SaveEdit
  /\ \E form \in {None, page.form} : page' = [page EXCEPT !.form = form, !.sent = None]

-----------------------------------------------------------------------------
\* Time passes; invoices are priced and the owner decides on their requests.
Elsewhere == Others /\ UNCHANGED page

Dates == FormDates \ {None}

DeskNext ==
  \/ Elsewhere \/ Saving \/ Saved
  \/ Load \/ EditRow
  \/ page.form # None /\ \E typed \in Typed, date \in Dates : Save(typed, date)

DeskSpec == DeskInit /\ [][DeskNext]_deskVars

-----------------------------------------------------------------------------
(* Properties *)

\* A form was opened on a row of a catalog.
PageTypeOK == page \in Page /\ (page.form # None => page.catalog \in Shown)

DeskTypeOK == TypeOK /\ PageTypeOK

\* A price put at a date is in force from then to the next dated price.
Reaches(history, date, t) == date <= t /\ \A x \in Begun(history, t) : x <= date

\* The prices are still the ones the page compared with and the API read.
PageStands ==
  /\ page.sent.catalog = PricesNow /\ cost = CostNow
  /\ edit.now = clock /\ edit.seenCost = cost /\ edit.seenSelling = SellingNow

\* What each history shows at t once the form is saved: the price on the form
\* where it was typed over and its date reaches, and what it showed before
\* everywhere else.
ShowsTyped(before, row, after, rowAfter, typed, t) ==
  InForce(after, rowAfter, t) =
    IF typed # InForce(before, row, clock) /\ Reaches(before, page.sent.date, t)
    THEN typed ELSE InForce(before, row, t)

\* A form saved on prices nobody else touched changes what the owner typed over
\* and nothing else, at any time past or to come: the page compares with the
\* catalog it holds, the API again with its row, a purchase price without a
\* date takes the selling price's, and the row is read back from the histories
\* (ProductsPage.tsx:177-193, products/service.ts:43-51).
FormChangesWhatWasTyped ==
  [][edit # None /\ edit' = None /\ PageStands =>
       \A t \in Times :
         /\ ShowsTyped(costs, cost, costs', cost', edit.cost, t)
         /\ ShowsTyped(sellings, selling, sellings', selling', edit.selling, t)]_deskVars
=============================================================================
