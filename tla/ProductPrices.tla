---------------------------- MODULE ProductPrices ----------------------------
(***************************************************************************)
(* The prices of one product: the two prices on the product's row, the     *)
(* dated histories that decide which price is in force, and the three      *)
(* writers that share them: the owner's product form, the owner's approval *)
(* of a price request, and the automatic pricing of a supplier invoice     *)
(* once the owner has confirmed a dealer margin.                           *)
(*                                                                         *)
(* A write shows when its transaction commits.  The pricing of an invoice  *)
(* has read the product before its transaction; that of the product form   *)
(* reads the prices in force, one after the other, and writes them on the  *)
(* row: it is not serializable, and another writer may commit in between.  *)
(* An approval is serializable, and fails where another wrote the row.     *)
(***************************************************************************)
EXTENDS Integers, FiniteSets, FiniteSetsExt

CONSTANTS
  Invoices,
  MaxTime,       \* bound: the clock stops there
  Costs,         \* prices per unit an invoice or the owner may bring
  Sellings,      \* selling prices the owner may choose
  OpeningCost, OpeningSelling,
  MaxEdits,      \* bound: saves of the product form
  FormDates,     \* the dates the form may give a price, None for none
  None

ASSUME PricesAssumption ==
  /\ MaxTime \in Nat /\ MaxEdits \in Nat
  /\ Costs \subseteq Nat /\ Sellings \subseteq Nat
  /\ OpeningCost \in Nat /\ OpeningSelling \in Nat
  /\ None \notin Nat
  /\ None \notin [price : Costs, date : 0..MaxTime, received : BOOLEAN]
  /\ FormDates \subseteq 0..MaxTime \cup {None}

VARIABLES
  clock,
  cost, selling,      \* the prices on the product's row
  costs, sellings,    \* the histories: the price that starts at each time
  invoice,            \* each invoice's date, price and receipt, once saved
  pricing,            \* each invoice's pricing under way
  request,            \* the price request of each invoice
  edit,               \* the product form being saved
  found,              \* the prices in force its transaction has read so far
  edits,              \* forms saved so far
  settled             \* ghost: no price was dated ahead or written late, or
                      \* while the form's transaction was open

vars == <<clock, cost, selling, costs, sellings, invoice, pricing, request,
          edit, found, edits, settled>>
prices == <<cost, selling, costs, sellings, settled>>

Times == 0..MaxTime

-----------------------------------------------------------------------------
(* Histories *)

Put(history, t, price) ==
  [x \in DOMAIN history \cup {t} |-> IF x = t THEN price ELSE history[x]]

Begun(history, t) == {x \in DOMAIN history : x <= t}

\* The price in force at t: the latest that has begun, else the row's own.
InForce(history, row, t) ==
  IF Begun(history, t) = {} THEN row ELSE history[Max(Begun(history, t))]

CostNow == InForce(costs, cost, clock)
SellingNow == InForce(sellings, selling, clock)

Later(a, b) == IF a >= b THEN a ELSE b

\* A write that began at now and puts prices at these times.
Settles(now, times) == settled /\ now = clock /\ \A t \in times : t <= clock

NotRead == [cost |-> None, selling |-> None]

Init ==
  /\ clock = 0
  /\ cost = OpeningCost /\ selling = OpeningSelling
  /\ costs = [t \in {0} |-> OpeningCost]
  /\ sellings = [t \in {0} |-> OpeningSelling]
  /\ invoice = [i \in Invoices |-> None]
  /\ pricing = [i \in Invoices |-> None]
  /\ request = [i \in Invoices |-> None]
  /\ edit = None /\ edits = 0
  /\ found = NotRead
  /\ settled = TRUE

Tick == /\ clock < MaxTime
        /\ clock' = clock + 1
        /\ UNCHANGED <<prices, invoice, pricing, request, edit, found, edits>>

-----------------------------------------------------------------------------
(* The form's transaction *)

\* A date left out is now; the purchase price's defaults to the selling price's.
SellingFrom == IF edit.sellingFrom = None THEN edit.now ELSE edit.sellingFrom
CostFrom == IF edit.costFrom = None THEN SellingFrom ELSE edit.costFrom

EditsSelling == edit.selling # edit.seenSelling \/ edit.sellingFrom # None
EditsCost == edit.cost # edit.seenCost \/ edit.costFrom # None

\* The histories as its transaction sees them, with the prices it put.
FormSellings == IF EditsSelling THEN Put(sellings, SellingFrom, edit.selling) ELSE sellings
FormCosts == IF EditsCost THEN Put(costs, CostFrom, edit.cost) ELSE costs

FormReading == found.selling # None

\* Whoever puts a price at a date the open transaction has put one at waits.
Unlocked(costTimes, sellingTime) ==
  FormReading => /\ EditsCost => CostFrom \notin costTimes
                 /\ EditsSelling => SellingFrom # sellingTime

-----------------------------------------------------------------------------
(* Invoices and their pricing *)

\* The product as the pricing of an invoice reads it.
Reading == [stage |-> "read", cost |-> cost, selling |-> selling, now |-> None]

\* Saving an invoice, or receiving its stock later, prices it afterwards.
SaveInvoice(i, price, date, received) ==
  /\ invoice[i] = None
  /\ invoice' = [invoice EXCEPT ![i] = [price |-> price, date |-> date, received |-> received]]
  /\ pricing' = [pricing EXCEPT ![i] = Reading]
  /\ UNCHANGED <<clock, prices, request, edit, found, edits>>

ReceiveStock(i) ==
  /\ invoice[i] # None /\ ~invoice[i].received
  /\ pricing[i] = None
  /\ invoice' = [invoice EXCEPT ![i].received = TRUE]
  /\ pricing' = [pricing EXCEPT ![i] = Reading]
  /\ UNCHANGED <<clock, prices, request, edit, found, edits>>

Suggested(i) == Later(0, invoice[i].price + pricing[i].selling - pricing[i].cost)

MarginConfirmed == \E j \in Invoices : request[j] # None /\ request[j].status = "APPROVED"

\* The price did not move, or the save's answer was lost on the way here.
LeavePrice(i) ==
  /\ pricing[i] # None /\ pricing[i].stage = "read"
  /\ pricing' = [pricing EXCEPT ![i] = None]
  /\ UNCHANGED <<clock, prices, invoice, request, edit, found, edits>>

Moved(i) == pricing[i].cost # invoice[i].price

\* No margin is confirmed yet: the owner is asked, once for each invoice.
RequestPrice(i) ==
  /\ pricing[i] # None /\ pricing[i].stage = "read"
  /\ Moved(i) /\ ~MarginConfirmed
  /\ request' = IF request[i] # None THEN request
                ELSE [request EXCEPT ![i] = [status |-> "PENDING", cost |-> pricing[i].cost,
                                             selling |-> pricing[i].selling]]
  /\ pricing' = [pricing EXCEPT ![i] = None]
  /\ UNCHANGED <<clock, prices, invoice, edit, found, edits>>

\* A margin is confirmed: the prices follow the invoice without asking.
BeginReprice(i) ==
  /\ pricing[i] # None /\ pricing[i].stage = "read"
  /\ Moved(i) /\ MarginConfirmed
  /\ pricing' = [pricing EXCEPT ![i].stage = "write", ![i].now = clock]
  /\ UNCHANGED <<clock, prices, invoice, request, edit, found, edits>>

\* Mutant: the price starts on the invoice's date.
SlipActivation(i, now) == invoice[i].date

Activation(i, now) == Later(invoice[i].date, now)

Reprice(i) ==
  /\ pricing[i] # None /\ pricing[i].stage = "write"
  /\ LET now == pricing[i].now
         price == invoice[i].price
         from == Activation(i, now)
     IN /\ Unlocked({invoice[i].date, from}, from)
        /\ costs' = Put(Put(costs, invoice[i].date, price), from, price)
        /\ sellings' = Put(sellings, from, Suggested(i))
        /\ cost' = IF from <= now THEN price ELSE cost
        /\ selling' = IF from <= now THEN Suggested(i) ELSE selling
        /\ settled' = (Settles(now, {from}) /\ ~FormReading)
  /\ pricing' = [pricing EXCEPT ![i] = None]
  /\ UNCHANGED <<clock, invoice, request, edit, found, edits>>

-----------------------------------------------------------------------------
(* The owner's decision *)

Pending(i) == request[i] # None /\ request[i].status = "PENDING"

Reject(i) ==
  /\ Pending(i)
  /\ request' = [request EXCEPT ![i].status = "REJECTED"]
  /\ UNCHANGED <<clock, prices, invoice, pricing, edit, found, edits>>

Confirmable(i, price, from) ==
  /\ from >= invoice[i].date
  /\ price # request[i].selling
  /\ price >= invoice[i].price

\* Mutant: only the selling price is compared.
SlipEvidence(i) == selling = request[i].selling

\* The product's row still shows the prices the request was made on.
EvidenceStands(i) == cost = request[i].cost /\ selling = request[i].selling

\* Mutant: any selling date that has begun updates the row.
SlipLatest(from) == from <= clock

\* No selling price that has begun is dated after this one.
Latest(from) == from <= clock /\ \A t \in Begun(sellings, clock) : t <= from

\* The times the invoice's price is put at: its own date, and now if that is past.
CostDates(i) == {invoice[i].date, Activation(i, clock)}

PutAll(history, times, price) ==
  [x \in DOMAIN history \cup times |-> IF x \in times THEN price ELSE history[x]]

Approve(i, price, from) ==
  /\ Pending(i)
  /\ Confirmable(i, price, from)
  /\ EvidenceStands(i)
  /\ Unlocked(CostDates(i), from)
  /\ costs' = PutAll(costs, CostDates(i), invoice[i].price)
  /\ sellings' = Put(sellings, from, price)
  /\ cost' = IF invoice[i].date <= clock THEN invoice[i].price ELSE cost
  /\ selling' = IF Latest(from) THEN price ELSE selling
  /\ request' = [request EXCEPT ![i].status = "APPROVED"]
  /\ settled' = (Settles(clock, {from, Activation(i, clock)}) /\ ~FormReading)
  /\ UNCHANGED <<clock, invoice, pricing, edit, found, edits>>

-----------------------------------------------------------------------------
(* The product form *)

\* What the form brings: prices, and the dates they start on or None.
OpenEdit(newCost, newSelling, costFrom, sellingFrom) ==
  /\ edit = None /\ edits < MaxEdits
  /\ edit' = [cost |-> newCost, selling |-> newSelling,
              costFrom |-> costFrom, sellingFrom |-> sellingFrom,
              now |-> clock, seenCost |-> cost, seenSelling |-> SellingNow]
  /\ edits' = edits + 1
  /\ UNCHANGED <<clock, prices, invoice, pricing, request, found>>

\* The prices are put, and the selling price in force is read.
ReadSelling ==
  /\ edit # None /\ found.selling = None
  /\ found' = [found EXCEPT !.selling = InForce(FormSellings, edit.selling, edit.now)]
  /\ UNCHANGED <<clock, prices, invoice, pricing, request, edit, edits>>

ReadCost ==
  /\ FormReading /\ found.cost = None
  /\ found' = [found EXCEPT !.cost = InForce(FormCosts, edit.cost, edit.now)]
  /\ UNCHANGED <<clock, prices, invoice, pricing, request, edit, edits>>

\* The row is written and the transaction commits.
SaveEdit ==
  /\ found.cost # None
  /\ sellings' = FormSellings /\ costs' = FormCosts
  /\ selling' = found.selling /\ cost' = found.cost
  /\ settled' = Settles(edit.now, {SellingFrom, CostFrom})
  /\ edit' = None /\ found' = NotRead
  /\ UNCHANGED <<clock, invoice, pricing, request, edits>>

-----------------------------------------------------------------------------
Others ==
  \/ Tick
  \/ \E i \in Invoices :
       \/ \E price \in Costs, date \in Times, received \in BOOLEAN :
            SaveInvoice(i, price, date, received)
       \/ ReceiveStock(i) \/ LeavePrice(i) \/ RequestPrice(i)
       \/ BeginReprice(i) \/ Reprice(i)
       \/ Reject(i)
       \/ \E price \in Sellings, from \in Times : Approve(i, price, from)

Next ==
  \/ Others
  \/ \E newCost \in Costs, newSelling \in Sellings,
        costFrom, sellingFrom \in FormDates :
       OpenEdit(newCost, newSelling, costFrom, sellingFrom)
  \/ ReadSelling \/ ReadCost \/ SaveEdit

Spec == Init /\ [][Next]_vars

-----------------------------------------------------------------------------
(* Properties *)

Price == Nat
History(h) == DOMAIN h \subseteq Times /\ \A t \in DOMAIN h : h[t] \in Price

\* The types of the variables, checked with RowIsPriceInForce.
InvoiceRow == [price : Costs, date : Times, received : BOOLEAN]
PricingStep ==
  [stage : {"read"}, cost : Price, selling : Price, now : {None}]
    \cup [stage : {"write"}, cost : Price, selling : Price, now : Times]
Request == [status : {"PENDING", "APPROVED", "REJECTED"}, cost : Price, selling : Price]
Form == [cost : Price, selling : Price, costFrom : FormDates \cup {None},
         sellingFrom : FormDates \cup {None},
         now : Times, seenCost : Price, seenSelling : Price]

TypeOK ==
  /\ clock \in Times
  /\ cost \in Price /\ selling \in Price
  /\ History(costs) /\ History(sellings)
  /\ invoice \in [Invoices -> InvoiceRow \cup {None}]
  /\ pricing \in [Invoices -> PricingStep \cup {None}]
  /\ request \in [Invoices -> Request \cup {None}]
  /\ edit \in Form \cup {None} /\ edits \in 0..MaxEdits
  /\ settled \in BOOLEAN
  \* The selling price is read first, and only for a form being saved.
  /\ found \in [cost : Price \cup {None}, selling : Price \cup {None}]
  /\ (found.selling # None => edit # None) /\ (found.cost # None => found.selling # None)
  \* Only a saved invoice is priced or asked about.
  /\ \A i \in Invoices : pricing[i] # None \/ request[i] # None => invoice[i] # None

\* As long as no price was dated ahead, no write came later than the time it
\* took for now, and none was committed while the form's transaction was open,
\* the prices on the product's row, which requests are made on and checked
\* against, are the ones in force: whichever of the three writers came last, in
\* whatever order, with whatever past dates and on whatever they had read before
\* (approvals/service.ts:144-149 and 239-245, products/service.ts:49-51).
RowIsPriceInForce ==
  /\ TypeOK
  /\ settled => cost = CostNow /\ selling = SellingNow

\* What the owner decides takes effect.  An approval is given on the prices in
\* force, if the row shows them, however long the request waited and whoever
\* wrote meanwhile (approvals/service.ts:211-214), and puts the invoice's price
\* in force at once, or on the invoice's date if that is still to come, even
\* over a history row that is younger than the invoice (222-233); a form saved
\* without dates puts its prices in force, if those it read still stand and the
\* row agrees with them (products/service.ts:43-48).
ApprovalTakesEffect(i) ==
  Pending(i) /\ request'[i].status = "APPROVED" =>
    /\ settled => request[i].cost = CostNow /\ request[i].selling = SellingNow
    /\ InForce(costs', cost', Activation(i, clock)) = invoice[i].price

FormStands == /\ edit.now = clock /\ edit.seenCost = cost /\ edit.seenSelling = SellingNow
              /\ cost = CostNow
EditTakesEffect ==
  /\ edit # None /\ edit' = None
  /\ FormStands /\ edit.costFrom = None /\ edit.sellingFrom = None
  => CostNow' = edit.cost /\ SellingNow' = edit.selling

OwnerPriceTakesEffect ==
  [][EditTakesEffect /\ \A i \in Invoices : ApprovalTakesEffect(i)]_vars

\* Pricing by an invoice keeps the dealer margin the owner confirmed, if the
\* prices it read are those in force when it writes, and changes no selling
\* price that was in force before it began, however far back the invoice is
\* dated (approvals/service.ts:122-151).
Repriced(i) == pricing[i] # None /\ pricing[i].stage = "write" /\ pricing'[i] = None

Fresh(i) == /\ pricing[i].now = clock /\ invoice[i].date <= clock
            /\ pricing[i].cost = CostNow /\ pricing[i].selling = SellingNow

KeepsMargin(i) ==
  Fresh(i) => \/ SellingNow' - CostNow' = SellingNow - CostNow
              \/ SellingNow' = 0

LeavesPast(i) ==
  \A t \in Times : t < pricing[i].now =>
    InForce(sellings', selling', t) = InForce(sellings, selling, t)

InvoiceKeepsMargin ==
  [][\A i \in Invoices : Repriced(i) => KeepsMargin(i) /\ LeavesPast(i)]_vars

=============================================================================
