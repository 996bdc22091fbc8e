-------------------------- MODULE PurchaseInvoice --------------------------
(***************************************************************************)
(* One supplier invoice with one stock line, from posting to settlement    *)
(* (apps/api/src/modules/purchases/service.ts): posting it, receiving its  *)
(* stock, paying it, and correcting it from an edit form that may have     *)
(* been open for long.                                                     *)
(*                                                                         *)
(* updateInvoice and receiveInvoiceStock read the invoice before their     *)
(* transaction, so each is two actions: the read, with the checks made on  *)
(* it, and the write.  payInvoice reads inside its serializable            *)
(* transaction and is one action.  Tax, dates and several lines are left   *)
(* out: the total is quantity times price.                                 *)
(***************************************************************************)
EXTENDS Integers, Sequences, FiniteSets

CONSTANTS Quantity,     \* stock quantities people enter
          Price,        \* unit prices the product ever had
          None,         \* no invoice yet
          MaxVersion,   \* bound: the invoice's last version
          MaxForms,     \* bound: edit forms open at once
          MaxRequests   \* bound: requests between their reads and their write

ASSUME DataAssumption == /\ Quantity \subseteq Nat \ {0}
                         /\ Price \subseteq Nat \ {0}
                         /\ MaxVersion \in Nat /\ MaxForms \in Nat
                         /\ MaxRequests \in Nat

VARIABLES invoice,      \* the PurchaseInvoice row
          paid,         \* sum of its SupplierPayment rows
          receipts,     \* quantities of its receipt lines and ledger rows
          sold,         \* what sales took of the received stock
          purchase,     \* its PURCHASE_INVOICE journal: debited account, amount
          goods,        \* what PURCHASE_RECEIPT journals moved out of transit
          corrections,  \* its PurchaseInvoiceCorrection rows
          forms,        \* edit forms people have open
          updates,      \* updateInvoice requests that made their reads
          receives      \* receiveInvoiceStock requests that made their reads

requests == <<forms, updates, receives>>
stock == <<receipts, sold>>
books == <<purchase, goods>>
vars == <<invoice, paid, stock, books, corrections, requests>>

Version == 0..MaxVersion
Total == {q * p : q \in Quantity, p \in Price}
Statuses == {"OPEN", "PART_PAID", "PAID"}

Invoice == [version : Version, quantity : Quantity, total : Total, status : Statuses]
ASSUME NoneAssumption == None \notin Invoice

Form == [version : Version, total : Total, paid : Nat]
Read == [version : Version, quantity : Quantity, total : Total,
         paid : Nat, received : Seq(Quantity)]
Update == [form : Form, read : Read, quantity : Quantity, total : Total,
           recalculate : BOOLEAN, markPaid : BOOLEAN]

TypeOK ==
    /\ invoice \in Invoice \cup {None}
    /\ paid \in Nat /\ sold \in Nat /\ goods \in Nat
    /\ receipts \in Seq(Quantity)
    /\ purchase \in [account : {"inventory", "transit"}, amount : Total] \cup {None}
    /\ corrections \in Seq([previous : Total, corrected : Total])
    /\ forms \in SUBSET Form
    /\ updates \in SUBSET Update
    /\ receives \in SUBSET [quantity : Quantity, subtotal : Total]

Init == /\ invoice = None /\ purchase = None
        /\ paid = 0 /\ sold = 0 /\ goods = 0
        /\ receipts = <<>> /\ corrections = <<>>
        /\ forms = {} /\ updates = {} /\ receives = {}

-----------------------------------------------------------------------------
Posted == invoice # None
RoomForRequest == Cardinality(updates) + Cardinality(receives) < MaxRequests
RoomForVersion == invoice.version < MaxVersion

\* The status for a total of which an amount is paid.
StatusFor(total, amount) ==
    IF amount >= total THEN "PAID" ELSE IF amount > 0 THEN "PART_PAID" ELSE "OPEN"

\* createInvoice, with its options to receive the stock and to declare the
\* invoice paid at once.
Create(q, p, receiveNow, paidNow) ==
    /\ ~Posted
    /\ invoice' = [version |-> 0, quantity |-> q, total |-> q * p,
                   status |-> IF paidNow THEN "PAID" ELSE "OPEN"]
    /\ purchase' = [account |-> IF receiveNow THEN "inventory" ELSE "transit",
                    amount |-> q * p]
    /\ receipts' = IF receiveNow THEN <<q>> ELSE <<>>
    /\ paid' = IF paidNow THEN q * p ELSE 0
    /\ UNCHANGED <<sold, goods, corrections, requests>>

\* Slip: paying leaves the version as it is.
SlipPayKeepsVersion(amount) ==
    [invoice EXCEPT !.status = StatusFor(invoice.total, paid + amount)]

\* The invoice after a payment.  Its version moves on.
AfterPayment(amount) ==
    [invoice EXCEPT !.status = StatusFor(invoice.total, paid + amount),
                    !.version = @ + 1]

\* payInvoice: never more than is outstanding.
Pay(amount) ==
    /\ Posted /\ RoomForVersion
    /\ invoice.status \in {"OPEN", "PART_PAID"}
    /\ amount \in 1..(invoice.total - paid)
    /\ paid' = paid + amount
    /\ invoice' = AfterPayment(amount)
    /\ UNCHANGED <<stock, books, corrections, requests>>

-----------------------------------------------------------------------------
(* Receiving the stock later.                                              *)

ReadForReceive ==
    /\ Posted /\ RoomForRequest
    /\ receipts = <<>>
    /\ receives' = receives \cup {[quantity |-> invoice.quantity, subtotal |-> invoice.total]}
    /\ UNCHANGED <<invoice, paid, stock, books, corrections, forms, updates>>

\* PurchaseReceipt.invoiceId is unique.
ReceiptAllowed == receipts = <<>>

\* The receipt moves what was read, out of transit and into the tank.
CommitReceive(r) ==
    /\ ReceiptAllowed
    /\ receipts' = Append(receipts, r.quantity)
    /\ goods' = goods + r.subtotal
    /\ receives' = receives \ {r}
    /\ UNCHANGED <<invoice, paid, sold, purchase, corrections, forms, updates>>

Received == IF receipts = <<>> THEN 0 ELSE receipts[1]
BookStock == Received - sold

\* A sale of this stock; it checks the book stock in its own transaction.
Sell(q) == /\ q <= BookStock
           /\ sold' = sold + q
           /\ UNCHANGED <<invoice, paid, receipts, books, corrections, requests>>

-----------------------------------------------------------------------------
(* Correcting the invoice.                                                 *)

\* Somebody opens the edit form; it holds the version shown.
OpenForm == /\ Posted /\ Cardinality(forms) < MaxForms
            /\ forms' = forms \cup {[version |-> invoice.version, total |-> invoice.total,
                                     paid |-> paid]}
            /\ UNCHANGED <<invoice, paid, stock, books, corrections, updates, receives>>

\* updateInvoice reads the invoice and prices the corrected quantity.  The
\* new total may not fall below what is paid.
ReadForUpdate(f, q, p, refresh, markPaid) ==
    LET recalculate == refresh \/ q # invoice.quantity
        total == IF recalculate THEN q * p ELSE invoice.total
    IN  /\ RoomForRequest
        /\ recalculate => paid <= total
        /\ updates' = updates \cup
              {[form |-> f,
                read |-> [version |-> invoice.version, quantity |-> invoice.quantity,
                          total |-> invoice.total, paid |-> paid, received |-> receipts],
                quantity |-> q, total |-> total,
                recalculate |-> recalculate, markPaid |-> markPaid]}
        /\ UNCHANGED <<invoice, paid, stock, books, corrections, forms, receives>>

\* Slip: the version the handler read itself is claimed.
SlipClaimOwnRead(u) == invoice.version = u.read.version

\* The claim: the invoice still has the version the form showed.
Claim(u) == invoice.version = u.form.version

\* A receipt may only shrink by what the book stock still holds.
ReductionAllowed(u) ==
    u.read.received # <<>> => u.read.received[1] - u.quantity <= BookStock

\* The purchase journal is deleted and posted again, to the account that the
\* read receipt calls for.
Reposted(u) ==
    [account |-> IF u.read.received # <<>> THEN "inventory" ELSE "transit",
     amount |-> u.total]

\* markPaid pays what the read left outstanding.
PaidAfter(u) == IF u.markPaid THEN paid + (u.total - u.read.paid) ELSE paid

CommitUpdate(u) ==
    /\ Claim(u) /\ RoomForVersion
    /\ u.recalculate => ReductionAllowed(u)
    /\ invoice' = [version |-> invoice.version + 1,
                   quantity |-> IF u.recalculate THEN u.quantity ELSE invoice.quantity,
                   total |-> IF u.recalculate THEN u.total ELSE invoice.total,
                   status |-> IF u.markPaid THEN "PAID" ELSE StatusFor(u.total, u.read.paid)]
    /\ paid' = PaidAfter(u)
    /\ corrections' = Append(corrections, [previous |-> u.read.total, corrected |-> u.total])
    /\ purchase' = IF u.recalculate THEN Reposted(u) ELSE purchase
    /\ receipts' = IF u.recalculate /\ u.read.received # <<>>
                   THEN [receipts EXCEPT ![1] = u.quantity] ELSE receipts
    /\ updates' = updates \ {u}
    /\ UNCHANGED <<sold, goods, forms, receives>>

\* A request is refused in its transaction or dies, a form is closed.
Abandon(req) == /\ req \in forms \cup updates \cup receives
                /\ forms' = forms \ {req}
                /\ updates' = updates \ {req}
                /\ receives' = receives \ {req}
                /\ UNCHANGED <<invoice, paid, stock, books, corrections>>

-----------------------------------------------------------------------------
Next ==
    \/ \E q \in Quantity, p \in Price, receiveNow, paidNow \in BOOLEAN :
           Create(q, p, receiveNow, paidNow)
    \/ \E amount \in Total : Pay(amount)
    \/ ReadForReceive
    \/ \E r \in receives : CommitReceive(r)
    \/ \E q \in Quantity : Sell(q)
    \/ OpenForm
    \/ \E f \in forms, q \in Quantity, p \in Price, refresh, markPaid \in BOOLEAN :
           ReadForUpdate(f, q, p, refresh, markPaid)
    \/ \E u \in updates : CommitUpdate(u)
    \/ \E f \in forms : Abandon(f)
    \/ \E u \in updates : Abandon(u)
    \/ \E r \in receives : Abandon(r)

Spec == Init /\ [][Next]_vars

-----------------------------------------------------------------------------
(* What must hold.                                                         *)

\* However payments, corrections and markPaid interleave, the supplier is
\* never paid more than the invoice's total, not even when a correction
\* lowers it (updateInvoice:706 and 843, payInvoice:902).
PaidWithinTotal == Posted => paid <= invoice.total

\* The status shown is the one the payments call for, after any correction
\* of the total (updateInvoice:725 and 874, payInvoice:918).
StatusTellsPayments == Posted => invoice.status = StatusFor(invoice.total, paid)

\* The correction history has no gap: each correction starts from the total
\* the one before it left, and the last one left the present total
\* (updateInvoice:717-724).
CorrectionsChain ==
    /\ \A i \in 2..Len(corrections) :
           corrections[i].previous = corrections[i - 1].corrected
    /\ corrections # <<>> => corrections[Len(corrections)].corrected = invoice.total

\* The payable in the books is the payable on the invoice: replacing the
\* purchase journal never lags behind the total (updateInvoice:777-802).
JournalIsTotal == Posted => purchase.amount = invoice.total

\* The stock of one invoice is received at most once, however many receive
\* requests passed their reads (receiveInvoiceStock:517 and 537).
ReceivedOnce == Len(receipts) <= 1

\* Correcting a received quantity downwards never takes back stock that was
\* sold meanwhile (updateInvoice:758-759).
StockNeverNegative == BookStock >= 0

\* A correction is committed only if the total and the payments are still
\* those the person's form showed (updateInvoice:717-718).
CorrectsWhatWasSeen ==
    [][corrections' # corrections =>
         \A u \in updates \ updates' : /\ u.form.total = invoice.total
                                       /\ u.form.paid = paid]_vars
=============================================================================
