--------------------------- MODULE PurchaseDesk ---------------------------
(***************************************************************************)
(* The purchases page (web/src/pages/PurchasesPage.tsx) in several         *)
(* browsers, on top of PurchaseInvoice: the row it loaded, the form opened *)
(* on that row, and what its buttons send.                                 *)
(*                                                                         *)
(* The forms of PurchaseInvoice are here every row a page ever loaded, so  *)
(* a desk shows one of them and each step is a step of PurchaseInvoice.    *)
(* One button saves the new and the edited invoice alike; which of the two *)
(* it does is decided by the row still held for editing, not by the form   *)
(* on the screen.  What is typed is sent at once: nothing reads a form     *)
(* that is not saved.                                                      *)
(***************************************************************************)
EXTENDS PurchaseInvoice

CONSTANT Desk    \* browsers that show the page

VARIABLE desk    \* of each browser: the row shown, and the row being edited

deskVars == <<vars, desk>>

Held == Form \cup {None}
Page == [row : Held, editing : Held]

\* The line of a new invoice: its price is filled in from the products and can
\* be changed.
Line == [quantity : Quantity, price : Price]

\* The ticks of a new invoice.
Option == [receiveNow : BOOLEAN, paidNow : BOOLEAN]

\* What the edit form holds: the corrected quantity, whether prices were
\* checked, and the price the API will find in that case.
Correction == [quantity : Quantity, price : Price, refresh : BOOLEAN, markPaid : BOOLEAN]

DeskTypeOK ==
    /\ TypeOK
    /\ desk \in [Desk -> Page]
    /\ \A d \in Desk : {desk[d].row, desk[d].editing} \subseteq forms \cup {None}

\* The page before its first load.
DeskInit == Init /\ desk = [d \in Desk |-> [row |-> None, editing |-> None]]

-----------------------------------------------------------------------------
\* bootstrap: the invoice with its version, total and payments.
Listed == IF Posted THEN [version |-> invoice.version, total |-> invoice.total, paid |-> paid]
          ELSE None

\* load, when the page is opened or something was saved.  Opening it, and
\* saving an invoice, let go of the row being edited; a payment does not.
Load(d) ==
    /\ \E held \in {None, desk[d].editing} :
           desk' = [desk EXCEPT ![d] = [row |-> Listed, editing |-> held]]
    /\ IF Posted THEN OpenForm ELSE UNCHANGED vars

\* "View / Edit".  Cancelling the form keeps the row.
View(d) ==
    /\ desk[d].row # None
    /\ desk' = [desk EXCEPT ![d].editing = desk[d].row]
    /\ UNCHANGED vars

\* saveInvoice creates an invoice only when no row is held for editing ...
SavesNew(d) == desk[d].editing = None

SaveNew(d, line, option) ==
    /\ SavesNew(d)
    /\ Create(line.quantity, line.price, option.receiveNow, option.paidNow)
    /\ UNCHANGED desk

\* "Mark remaining as fully paid" is on the form when a rest is left, of the
\* total loaded or of the one a price check came to.
MayMarkPaid(row, refresh) == refresh \/ row.paid < row.total

\* ... and corrects that row otherwise.
SaveCorrection(d, c) ==
    /\ ~SavesNew(d)
    /\ c.markPaid => MayMarkPaid(desk[d].editing, c.refresh)
    /\ ReadForUpdate(desk[d].editing, c.quantity, c.price, c.refresh, c.markPaid)
    /\ UNCHANGED desk

\* "Pay" is on every row with a balance; the amount can be changed.
PayRow(d, amount) ==
    /\ desk[d].row # None /\ desk[d].row.paid < desk[d].row.total
    /\ Pay(amount)
    /\ UNCHANGED desk

-----------------------------------------------------------------------------
\* The API carries out or refuses what was sent, stock is received and sold.
Elsewhere ==
    /\ \/ ReadForReceive
       \/ \E r \in receives : CommitReceive(r) \/ Abandon(r)
       \/ \E u \in updates : CommitUpdate(u) \/ Abandon(u)
       \/ \E q \in Quantity : Sell(q)
    /\ UNCHANGED desk

AtDesk(d) ==
    \/ Load(d) \/ View(d)
    \/ \E line \in Line, option \in Option : SaveNew(d, line, option)
    \/ \E c \in Correction : SaveCorrection(d, c)
    \/ \E amount \in Total : PayRow(d, amount)

DeskNext == Elsewhere \/ \E d \in Desk : AtDesk(d)

DeskSpec == DeskInit /\ [][DeskNext]_deskVars
=============================================================================
