-------------------------- MODULE PurchaseDeskProofs --------------------------
(***************************************************************************)
(* Proofs about PurchaseInvoice for any quantities, prices and bounds, and,*)
(* in the second part, that every step of the purchases page is a step of  *)
(* PurchaseInvoice, because whatever a page shows or edits is a row it once*)
(* loaded: what is proved of PurchaseInvoice holds of any number of        *)
(* browsers.                                                               *)
(***************************************************************************)
EXTENDS PurchaseDesk, SequenceTheorems, TLAPS

\* Nothing hangs on an invoice that is not posted yet.
NothingYet == ~Posted => /\ paid = 0 /\ sold = 0
                         /\ receipts = <<>> /\ corrections = <<>>
                         /\ forms = {} /\ updates = {} /\ receives = {}

\* What was seen of an invoice is what it is, unless its version moved on.
Current(f) == /\ f.version <= invoice.version
              /\ f.version = invoice.version => /\ f.total = invoice.total
                                                /\ f.paid = paid

FormsCurrent == \A f \in forms : Current(f)

\* The same of what a correction read, which is no older than its form.  A
\* receipt it read is still the receipt.
ReadCurrent(u) ==
    /\ Current(u.form) /\ Current(u.read)
    /\ u.form.version <= u.read.version
    /\ u.read.version = invoice.version /\ u.read.received # <<>>
           => receipts = u.read.received
    /\ IF u.recalculate THEN u.read.paid <= u.total ELSE u.total = u.read.total

UpdatesCurrent == \A u \in updates : ReadCurrent(u)

IInv == /\ TypeOK
        /\ NothingYet
        /\ FormsCurrent
        /\ UpdatesCurrent
        /\ PaidWithinTotal
        /\ StatusTellsPayments
        /\ CorrectionsChain
        /\ JournalIsTotal
        /\ ReceivedOnce
        /\ StockNeverNegative

-----------------------------------------------------------------------------
\* Quantity times price is a natural number, and so is every total.
LEMMA TotalNat == Total \subseteq Nat
<1> SUFFICES ASSUME NEW q \in Nat, NEW p \in Nat PROVE q * p \in Nat
  BY DataAssumption DEF Total
<1> QED
  BY SMT

\* The data of a posted invoice.
LEMMA PostedInvoice ==
  ASSUME TypeOK, Posted
  PROVE  /\ invoice \in Invoice
         /\ invoice.version \in Nat /\ invoice.version <= MaxVersion
         /\ invoice.quantity \in Quantity /\ invoice.quantity \in Nat
         /\ invoice.total \in Total /\ invoice.total \in Nat
<1>1. invoice \in Invoice
  BY DEF TypeOK, Posted
<1>2. /\ invoice.version \in Version /\ invoice.quantity \in Quantity
      /\ invoice.total \in Total
  BY <1>1 DEF Invoice
<1>3. invoice.version \in Nat /\ invoice.version <= MaxVersion
  BY <1>2, DataAssumption DEF Version
<1> QED
  BY <1>1, <1>2, <1>3, TotalNat, DataAssumption

\* What was received is a quantity, or nothing.
LEMMA ReceivedNat == ASSUME TypeOK PROVE Received \in Nat
<1>1. CASE receipts = <<>>
  BY <1>1 DEF Received
<1>2. CASE receipts # <<>>
  <2>1. Len(receipts) \in Nat /\ Len(receipts) >= 1 /\ receipts \in Seq(Quantity)
    BY <1>2 DEF TypeOK
  <2>2. receipts[1] \in Quantity
    BY <2>1
  <2> QED
    BY <1>2, <2>2, DataAssumption DEF Received
<1> QED
  BY <1>1, <1>2

\* Before the invoice is posted nothing exists.
LEMMA InitIInv == ASSUME Init PROVE IInv
<1> USE DEF Init
<1>1. TypeOK
  BY DEF TypeOK
<1>2. NothingYet /\ FormsCurrent /\ UpdatesCurrent
  BY DEF NothingYet, FormsCurrent, UpdatesCurrent
<1>3. PaidWithinTotal /\ StatusTellsPayments /\ JournalIsTotal /\ ~Posted
  BY DEF PaidWithinTotal, StatusTellsPayments, JournalIsTotal, Posted
<1>4. CorrectionsChain /\ ReceivedOnce
  BY DEF CorrectionsChain, ReceivedOnce
<1>5. StockNeverNegative
  BY DEF StockNeverNegative, BookStock, Received
<1> QED
  BY <1>1, <1>2, <1>3, <1>4, <1>5 DEF IInv

\* Posting sets up an invoice whose payments, journal and stock agree.
LEMMA CreateStep ==
  ASSUME IInv, NEW q \in Quantity, NEW p \in Price,
         NEW receiveNow \in BOOLEAN, NEW paidNow \in BOOLEAN,
         Create(q, p, receiveNow, paidNow)
  PROVE  IInv'
<1> DEFINE t == q * p
<1>1. t \in Total /\ t \in Nat /\ q \in Nat
  BY TotalNat, DataAssumption DEF Total
<1>2. /\ ~Posted
      /\ invoice' = [version |-> 0, quantity |-> q, total |-> t,
                     status |-> IF paidNow THEN "PAID" ELSE "OPEN"]
      /\ purchase' = [account |-> IF receiveNow THEN "inventory" ELSE "transit",
                      amount |-> t]
      /\ receipts' = IF receiveNow THEN <<q>> ELSE <<>>
      /\ paid' = IF paidNow THEN t ELSE 0
      /\ UNCHANGED <<sold, goods, corrections, forms, updates, receives>>
  BY DEF Create, requests
<1>3. t > 0
  <2>1. q > 0 /\ p > 0 /\ q \in Nat /\ p \in Nat
    BY DataAssumption
  <2> QED
    BY <2>1, SMT
<1> HIDE DEF t
<1>4. /\ sold = 0 /\ corrections = <<>>
      /\ forms = {} /\ updates = {} /\ receives = {}
  BY <1>2 DEF IInv, NothingYet
<1>5. invoice' \in Invoice
  BY <1>1, <1>2, DataAssumption DEF Invoice, Version, Statuses
<1>6. Posted'
  BY <1>5, NoneAssumption DEF Posted
<1>7. receipts' \in Seq(Quantity) /\ Len(receipts') <= 1
  BY <1>2
<1>8. TypeOK'
  BY <1>1, <1>2, <1>5, <1>7 DEF IInv, TypeOK
<1>9. NothingYet' /\ FormsCurrent' /\ UpdatesCurrent'
  BY <1>2, <1>4, <1>6 DEF NothingYet, FormsCurrent, UpdatesCurrent
<1>10. PaidWithinTotal' /\ StatusTellsPayments' /\ JournalIsTotal'
  BY <1>1, <1>2, <1>3 DEF PaidWithinTotal, StatusTellsPayments, JournalIsTotal, StatusFor
<1>11. CorrectionsChain' /\ ReceivedOnce'
  BY <1>2, <1>4, <1>7 DEF CorrectionsChain, ReceivedOnce
<1>12. StockNeverNegative'
  BY <1>1, <1>2, <1>4 DEF StockNeverNegative, BookStock, Received
<1> QED
  BY <1>8, <1>9, <1>10, <1>11, <1>12 DEF IInv

\* A payment moves the version on, so everything seen before it is outdated.
LEMMA PayStep == ASSUME IInv, NEW amount \in Total, Pay(amount) PROVE IInv'
<1>1. /\ Posted /\ invoice \in Invoice /\ invoice.version + 1 \in Version
      /\ invoice.version \in Nat /\ invoice.total \in Nat /\ paid \in Nat
  BY PostedInvoice, DataAssumption DEF IInv, TypeOK, Pay, RoomForVersion, Version
<1>2. /\ amount \in Nat /\ amount <= invoice.total - paid
      /\ paid' = paid + amount
      /\ invoice' = [invoice EXCEPT !.status = StatusFor(invoice.total, paid + amount),
                                    !.version = @ + 1]
      /\ UNCHANGED <<receipts, sold, purchase, goods, corrections, forms, updates, receives>>
  BY <1>1 DEF Pay, AfterPayment, stock, books, requests
<1>3. /\ invoice' \in Invoice /\ invoice'.version = invoice.version + 1
      /\ invoice'.total = invoice.total
      /\ invoice'.status = StatusFor(invoice.total, paid + amount)
  BY <1>1, <1>2 DEF Invoice, StatusFor, Statuses
<1>4. Posted'
  BY <1>3, NoneAssumption DEF Posted
<1>5. TypeOK'
  BY <1>1, <1>2, <1>3 DEF IInv, TypeOK
<1>6. NothingYet'
  BY <1>4 DEF NothingYet
<1>7. FormsCurrent'
  BY <1>1, <1>2, <1>3 DEF IInv, TypeOK, FormsCurrent, Current, Form, Version
<1>8. UpdatesCurrent'
  BY <1>1, <1>2, <1>3
     DEF IInv, TypeOK, UpdatesCurrent, ReadCurrent, Current, Update, Form, Read, Version
<1>9. PaidWithinTotal' /\ StatusTellsPayments' /\ JournalIsTotal'
  BY <1>1, <1>2, <1>3 DEF IInv, PaidWithinTotal, StatusTellsPayments, JournalIsTotal
<1>10. CorrectionsChain' /\ ReceivedOnce' /\ StockNeverNegative'
  BY <1>2, <1>3
     DEF IInv, CorrectionsChain, ReceivedOnce, StockNeverNegative, BookStock, Received
<1> QED
  BY <1>5, <1>6, <1>7, <1>8, <1>9, <1>10 DEF IInv

\* A request's reads, or a form opened, are of the invoice as it is.
LEMMA ReadStep ==
  ASSUME IInv, ReadForReceive \/ OpenForm
  PROVE  IInv'
<1>1. /\ Posted
      /\ UNCHANGED <<invoice, paid, receipts, sold, purchase, goods, corrections, updates>>
  BY DEF ReadForReceive, OpenForm, stock, books
<1>2. /\ invoice.version \in Version /\ invoice.quantity \in Quantity
      /\ invoice.total \in Total /\ paid \in Nat /\ invoice.version \in Nat
  BY <1>1, PostedInvoice DEF IInv, TypeOK, Invoice
<1> DEFINE f == [version |-> invoice.version, total |-> invoice.total, paid |-> paid]
<1>3. f \in Form /\ Current(f)
  BY <1>2 DEF Form, Current
<1> HIDE DEF f
<1>4. forms' = forms \/ forms' = forms \cup {f}
  BY DEF ReadForReceive, OpenForm, f
<1>5. receives' \in SUBSET [quantity : Quantity, subtotal : Total]
  BY <1>2 DEF IInv, TypeOK, ReadForReceive, OpenForm
<1>6. TypeOK'
  BY <1>1, <1>3, <1>4, <1>5 DEF IInv, TypeOK
<1>7. NothingYet'
  BY <1>1 DEF NothingYet, Posted
<1>8. FormsCurrent'
  BY <1>1, <1>3, <1>4 DEF IInv, FormsCurrent, Current
<1>9. UpdatesCurrent'
  BY <1>1 DEF IInv, UpdatesCurrent, ReadCurrent, Current
<1>10. PaidWithinTotal' /\ StatusTellsPayments' /\ JournalIsTotal'
  BY <1>1 DEF IInv, PaidWithinTotal, StatusTellsPayments, JournalIsTotal, Posted
<1>11. CorrectionsChain' /\ ReceivedOnce' /\ StockNeverNegative'
  BY <1>1 DEF IInv, CorrectionsChain, ReceivedOnce, StockNeverNegative, BookStock, Received
<1> QED
  BY <1>6, <1>7, <1>8, <1>9, <1>10, <1>11 DEF IInv

\* The unique receipt of the invoice: it is written over none, so what a
\* correction read as received is not disturbed.
LEMMA CommitReceiveStep ==
  ASSUME IInv, NEW r \in receives, CommitReceive(r)
  PROVE  IInv'
<1>1. /\ receipts = <<>>
      /\ receipts' \in Seq(Quantity) /\ Len(receipts') = 1 /\ receipts'[1] = r.quantity
      /\ r.quantity \in Quantity /\ r.quantity \in Nat /\ r.subtotal \in Nat
  <2>1. r.quantity \in Quantity /\ r.subtotal \in Total
    BY DEF IInv, TypeOK
  <2>2. receipts = <<>> /\ receipts' = Append(<<>>, r.quantity)
    BY DEF CommitReceive, ReceiptAllowed
  <2>3. r.quantity \in Nat /\ r.subtotal \in Nat
    BY <2>1, TotalNat, DataAssumption
  <2>4. /\ Append(receipts, r.quantity) \in Seq(Quantity)
        /\ Len(Append(receipts, r.quantity)) = Len(receipts) + 1
        /\ Append(receipts, r.quantity)[Len(receipts) + 1] = r.quantity
    BY <2>1, AppendProperties DEF IInv, TypeOK
  <2> QED
    BY <2>1, <2>2, <2>3, <2>4
<1>2. /\ UNCHANGED <<invoice, paid, sold, purchase, corrections, forms, updates>>
      /\ goods' = goods + r.subtotal /\ receives' \subseteq receives
      /\ Posted /\ Posted'
  BY DEF IInv, NothingYet, CommitReceive, Posted
<1>3. TypeOK'
  BY <1>1, <1>2 DEF IInv, TypeOK
<1>4. NothingYet' /\ FormsCurrent'
  BY <1>2 DEF IInv, NothingYet, FormsCurrent, Current
<1>5. UpdatesCurrent'
  BY <1>1, <1>2 DEF IInv, UpdatesCurrent, ReadCurrent, Current
<1>6. PaidWithinTotal' /\ StatusTellsPayments' /\ JournalIsTotal' /\ CorrectionsChain'
  BY <1>2 DEF IInv, PaidWithinTotal, StatusTellsPayments, JournalIsTotal, CorrectionsChain
<1>7. ReceivedOnce'
  BY <1>1 DEF ReceivedOnce
<1>8. StockNeverNegative'
  BY <1>1, <1>2 DEF IInv, TypeOK, StockNeverNegative, BookStock, Received
<1> QED
  BY <1>3, <1>4, <1>5, <1>6, <1>7, <1>8 DEF IInv

\* A sale takes no more than the book stock.
LEMMA SellStep == ASSUME IInv, NEW q \in Quantity, Sell(q) PROVE IInv'
<1>1. /\ q \in Nat /\ q > 0 /\ q <= BookStock /\ sold' = sold + q
      /\ UNCHANGED <<invoice, paid, receipts, purchase, goods, corrections,
                     forms, updates, receives>>
  BY DataAssumption DEF Sell, books, requests
<1>2. Received \in Nat /\ sold \in Nat
  BY ReceivedNat DEF IInv, TypeOK
<1>3. Posted
  BY <1>1, <1>2 DEF IInv, NothingYet, BookStock, Received
<1>4. TypeOK'
  BY <1>1, <1>2 DEF IInv, TypeOK
<1>5. StockNeverNegative'
  BY <1>1, <1>2 DEF StockNeverNegative, BookStock, Received
<1>6. NothingYet' /\ FormsCurrent' /\ UpdatesCurrent'
  BY <1>1, <1>3
     DEF IInv, NothingYet, FormsCurrent, UpdatesCurrent, ReadCurrent, Current, Posted
<1>7. PaidWithinTotal' /\ StatusTellsPayments' /\ JournalIsTotal'
  BY <1>1 DEF IInv, PaidWithinTotal, StatusTellsPayments, JournalIsTotal, Posted
<1>8. CorrectionsChain' /\ ReceivedOnce'
  BY <1>1 DEF IInv, CorrectionsChain, ReceivedOnce
<1> QED
  BY <1>4, <1>5, <1>6, <1>7, <1>8 DEF IInv

\* A correction reads the invoice as it is, through a form no newer.
LEMMA ReadForUpdateStep ==
  ASSUME IInv, NEW f \in forms, NEW q \in Quantity, NEW p \in Price,
         NEW refresh \in BOOLEAN, NEW markPaid \in BOOLEAN,
         ReadForUpdate(f, q, p, refresh, markPaid)
  PROVE  IInv'
<1> DEFINE recalculate == refresh \/ q # invoice.quantity
           total == IF recalculate THEN q * p ELSE invoice.total
           read == [version |-> invoice.version, quantity |-> invoice.quantity,
                    total |-> invoice.total, paid |-> paid, received |-> receipts]
           u == [form |-> f, read |-> read, quantity |-> q, total |-> total,
                 recalculate |-> recalculate, markPaid |-> markPaid]
<1>1. Posted /\ f \in Form /\ Current(f)
  BY DEF IInv, TypeOK, NothingYet, FormsCurrent
<1>2. /\ invoice.version \in Version /\ invoice.quantity \in Quantity
      /\ invoice.total \in Total /\ paid \in Nat /\ invoice.version \in Nat
      /\ receipts \in Seq(Quantity)
  BY <1>1, PostedInvoice DEF IInv, TypeOK, Invoice
<1>3. total \in Total /\ recalculate \in BOOLEAN
  BY <1>2 DEF Total
<1>4. /\ updates' = updates \cup {u} /\ (recalculate => paid <= total)
      /\ UNCHANGED <<invoice, paid, receipts, sold, purchase, goods, corrections,
                     forms, receives>>
  BY DEF ReadForUpdate, stock, books
<1>5. read \in Read /\ Current(read)
  BY <1>2 DEF Read, Current
<1>6. ~recalculate => total = invoice.total
  OBVIOUS
<1> HIDE DEF total, recalculate
<1>7. u \in Update
  BY <1>1, <1>3, <1>5 DEF Update
<1>8. ReadCurrent(u)
  BY <1>1, <1>2, <1>4, <1>5, <1>6 DEF ReadCurrent, Current
<1> HIDE DEF u
<1>9. TypeOK'
  BY <1>4, <1>7 DEF IInv, TypeOK
<1>10. NothingYet' /\ FormsCurrent'
  BY <1>1, <1>4 DEF IInv, NothingYet, FormsCurrent, Current, Posted
<1>11. UpdatesCurrent'
  BY <1>4, <1>8 DEF IInv, UpdatesCurrent, ReadCurrent, Current
<1>12. PaidWithinTotal' /\ StatusTellsPayments' /\ JournalIsTotal'
  BY <1>4 DEF IInv, PaidWithinTotal, StatusTellsPayments, JournalIsTotal, Posted
<1>13. CorrectionsChain' /\ ReceivedOnce' /\ StockNeverNegative'
  BY <1>4 DEF IInv, CorrectionsChain, ReceivedOnce, StockNeverNegative, BookStock, Received
<1> QED
  BY <1>9, <1>10, <1>11, <1>12, <1>13 DEF IInv

\* The claim makes a correction's stale reads current: the version it shows is
\* the invoice's, and its reads lie between the two.
LEMMA ClaimMeansCurrent ==
  ASSUME IInv, NEW u \in updates, Claim(u)
  PROVE  /\ Posted
         /\ u.read.version = invoice.version
         /\ u.read.total = invoice.total /\ u.read.paid = paid
         /\ u.form.total = invoice.total /\ u.form.paid = paid
         /\ u.read.received # <<>> => receipts = u.read.received
<1>1. Posted
  BY DEF IInv, NothingYet
<1>2. /\ invoice.version \in Nat /\ u.read.version \in Nat /\ u.form.version \in Nat
      /\ ReadCurrent(u) /\ u.form.version = invoice.version
  BY <1>1, PostedInvoice, DataAssumption
     DEF IInv, TypeOK, UpdatesCurrent, Claim, Update, Form, Read, Version
<1>3. u.read.version = invoice.version
  BY <1>2 DEF ReadCurrent, Current
<1> QED
  BY <1>1, <1>2, <1>3 DEF ReadCurrent, Current

\* A correction that passed its claim replaces the journal, settles what is
\* left, and rewrites the one receipt it read, within the stock still there.
LEMMA CommitUpdateStep ==
  ASSUME IInv, NEW u \in updates, CommitUpdate(u)
  PROVE  IInv'
<1>1. /\ Posted
      /\ u.read.version = invoice.version
      /\ u.read.total = invoice.total /\ u.read.paid = paid
      /\ u.read.received # <<>> => receipts = u.read.received
  BY ClaimMeansCurrent DEF CommitUpdate
<1>2. /\ u.quantity \in Quantity /\ u.quantity \in Nat
      /\ u.total \in Total /\ u.total \in Nat
      /\ u.recalculate \in BOOLEAN /\ u.markPaid \in BOOLEAN
      /\ IF u.recalculate THEN paid <= u.total ELSE u.total = invoice.total
  BY <1>1, TotalNat, DataAssumption DEF IInv, TypeOK, UpdatesCurrent, ReadCurrent, Update
<1>3. /\ invoice \in Invoice /\ invoice.version \in Nat
      /\ invoice.version + 1 \in Version
      /\ invoice.quantity \in Quantity
      /\ invoice.total \in Total /\ invoice.total \in Nat /\ paid \in Nat
  BY <1>1, PostedInvoice, DataAssumption DEF IInv, TypeOK, CommitUpdate, RoomForVersion, Version
<1>4. paid <= u.total
  BY <1>1, <1>2, <1>3 DEF IInv, PaidWithinTotal
<1>5. /\ invoice' = [version |-> invoice.version + 1,
                     quantity |-> IF u.recalculate THEN u.quantity ELSE invoice.quantity,
                     total |-> u.total,
                     status |-> IF u.markPaid THEN "PAID" ELSE StatusFor(u.total, paid)]
      /\ paid' = IF u.markPaid THEN u.total ELSE paid
  BY <1>1, <1>2, <1>3 DEF CommitUpdate, PaidAfter
<1>6. /\ UNCHANGED <<sold, goods, forms, receives>> /\ updates' \subseteq updates
      /\ corrections' = Append(corrections, [previous |-> invoice.total, corrected |-> u.total])
      /\ purchase' = IF u.recalculate THEN Reposted(u) ELSE purchase
  BY <1>1 DEF CommitUpdate
<1>7. invoice' \in Invoice /\ paid' \in Nat /\ paid' <= u.total
  BY <1>2, <1>3, <1>4, <1>5 DEF Invoice, StatusFor, Statuses
<1>8. Posted'
  BY <1>7, NoneAssumption DEF Posted
<1>9. \/ receipts' = receipts
      \/ /\ receipts # <<>> /\ u.read.received = receipts /\ u.recalculate
         /\ receipts' = [receipts EXCEPT ![1] = u.quantity]
  BY <1>1 DEF CommitUpdate
<1>10. /\ receipts' \in Seq(Quantity) /\ Len(receipts') <= 1
       /\ receipts' # receipts => /\ receipts # <<>> /\ receipts' # <<>>
                                  /\ u.read.received = receipts /\ u.recalculate
                                  /\ receipts'[1] = u.quantity
  BY <1>2, <1>9 DEF IInv, TypeOK, ReceivedOnce
<1>11. TypeOK'
  <2>1. corrections' \in Seq([previous : Total, corrected : Total])
    BY <1>2, <1>3, <1>6 DEF IInv, TypeOK
  <2>2. purchase' \in [account : {"inventory", "transit"}, amount : Total] \cup {None}
    BY <1>2, <1>6 DEF IInv, TypeOK, Reposted
  <2> QED
    BY <1>6, <1>7, <1>10, <2>1, <2>2 DEF IInv, TypeOK
<1>12. NothingYet'
  BY <1>8 DEF NothingYet
<1>13. FormsCurrent'
  BY <1>3, <1>5, <1>6 DEF IInv, TypeOK, FormsCurrent, Current, Form, Version
<1>14. UpdatesCurrent'
  <2>1. ASSUME NEW w \in updates PROVE ReadCurrent(w)'
    <3>1. ReadCurrent(w)
      BY DEF IInv, UpdatesCurrent
    <3>2. w.form.version \in Nat /\ w.read.version \in Nat
      BY DEF IInv, TypeOK, Update, Form, Read, Version
    <3>3. /\ w.form.version <= invoice.version
          /\ w.read.version <= invoice.version
      BY <3>1 DEF ReadCurrent, Current
    <3>4. invoice'.version = invoice.version + 1
      BY <1>5
    <3>5. /\ w.form.version < invoice'.version
          /\ w.read.version < invoice'.version
      BY <1>3, <3>2, <3>3, <3>4
    <3>6. Current(w.form)' /\ Current(w.read)'
      BY <1>3, <3>2, <3>4, <3>5 DEF Current
    <3>7. w.read.version # invoice'.version
      BY <3>2, <3>5, <1>3, <3>4
    <3> QED
      BY <3>1, <3>6, <3>7 DEF ReadCurrent
  <2> QED
    BY <1>6, <2>1 DEF UpdatesCurrent
<1>15. PaidWithinTotal'
  BY <1>5, <1>7 DEF PaidWithinTotal
<1>16. StatusTellsPayments'
  BY <1>2, <1>3, <1>5 DEF StatusTellsPayments, StatusFor
<1>17. JournalIsTotal'
  BY <1>1, <1>2, <1>5, <1>6 DEF IInv, JournalIsTotal, Reposted
<1>18. CorrectionsChain'
  <2>1. corrections \in Seq([previous : Total, corrected : Total])
    BY DEF IInv, TypeOK
  <2>2. /\ Len(corrections') = Len(corrections) + 1 /\ Len(corrections) \in Nat
        /\ \A i \in 1..Len(corrections) : corrections'[i] = corrections[i]
        /\ corrections'[Len(corrections) + 1] = [previous |-> invoice.total,
                                                 corrected |-> u.total]
    BY <2>1, <1>6
  <2>3. corrections # <<>> => corrections[Len(corrections)].corrected = invoice.total
    BY DEF IInv, CorrectionsChain
  <2>4. \A i \in 2..Len(corrections) :
            corrections[i].previous = corrections[i - 1].corrected
    BY DEF IInv, CorrectionsChain
  <2>5. ASSUME NEW i \in 2..Len(corrections')
        PROVE  corrections'[i].previous = corrections'[i - 1].corrected
    <3>1. CASE i \in 2..Len(corrections)
      <4>1. corrections'[i] = corrections[i] /\ corrections'[i - 1] = corrections[i - 1]
        BY <2>2, <3>1
      <4> QED
        BY <2>4, <3>1, <4>1
    <3>2. CASE i = Len(corrections) + 1
      <4>1. corrections # <<>> /\ corrections'[i - 1] = corrections[Len(corrections)]
        BY <2>1, <2>2, <2>5, <3>2
      <4> QED
        BY <2>2, <2>3, <3>2, <4>1
    <3> QED
      BY <2>2, <2>5, <3>1, <3>2
  <2>6. corrections'[Len(corrections')].corrected = invoice'.total
    BY <2>2, <1>5
  <2> QED
    BY <2>5, <2>6 DEF CorrectionsChain
<1>19. ReceivedOnce'
  BY <1>10 DEF ReceivedOnce
<1>20. StockNeverNegative'
  <2>1. CASE receipts' = receipts
    BY <1>6, <2>1 DEF IInv, StockNeverNegative, BookStock, Received
  <2>2. CASE receipts' # receipts
    <3>1. receipts[1] - u.quantity <= receipts[1] - sold
      BY <1>10, <2>2 DEF CommitUpdate, ReductionAllowed, BookStock, Received
    <3>2. receipts[1] \in Nat /\ sold \in Nat
      BY <1>10, <2>2, ReceivedNat DEF IInv, TypeOK, Received
    <3>3. u.quantity - sold >= 0
      BY <1>2, <3>1, <3>2
    <3> QED
      BY <1>6, <1>10, <2>2, <3>3 DEF StockNeverNegative, BookStock, Received
  <2> QED
    BY <2>1, <2>2
<1> QED
  BY <1>11, <1>12, <1>13, <1>14, <1>15, <1>16, <1>17, <1>18, <1>19, <1>20 DEF IInv

\* A request or a form that goes away leaves everything else as it was.
LEMMA AbandonStep ==
  ASSUME IInv, NEW req, Abandon(req)
  PROVE  IInv'
<1>1. /\ UNCHANGED <<invoice, paid, receipts, sold, purchase, goods, corrections>>
      /\ forms' \subseteq forms /\ updates' \subseteq updates /\ receives' \subseteq receives
  BY DEF Abandon, stock, books
<1>2. TypeOK'
  BY <1>1 DEF IInv, TypeOK
<1>3. NothingYet' /\ FormsCurrent' /\ UpdatesCurrent'
  BY <1>1
     DEF IInv, NothingYet, FormsCurrent, UpdatesCurrent, ReadCurrent, Current, Posted
<1>4. PaidWithinTotal' /\ StatusTellsPayments' /\ JournalIsTotal'
  BY <1>1 DEF IInv, PaidWithinTotal, StatusTellsPayments, JournalIsTotal, Posted
<1>5. CorrectionsChain' /\ ReceivedOnce' /\ StockNeverNegative'
  BY <1>1 DEF IInv, CorrectionsChain, ReceivedOnce, StockNeverNegative, BookStock, Received
<1> QED
  BY <1>2, <1>3, <1>4, <1>5 DEF IInv

\* Every step keeps the invariant.
LEMMA NextIInv == ASSUME IInv, [Next]_vars PROVE IInv'
<1>1. CASE UNCHANGED vars
  <2>1. UNCHANGED <<invoice, paid, receipts, sold, purchase, goods, corrections,
                    forms, updates, receives>>
    BY <1>1 DEF vars, stock, books, requests
  <2>2. TypeOK' /\ NothingYet' /\ FormsCurrent' /\ UpdatesCurrent'
    BY <2>1 DEF IInv, TypeOK, NothingYet, FormsCurrent, UpdatesCurrent, ReadCurrent,
                Current, Posted
  <2>3. PaidWithinTotal' /\ StatusTellsPayments' /\ JournalIsTotal'
    BY <2>1 DEF IInv, PaidWithinTotal, StatusTellsPayments, JournalIsTotal, Posted
  <2>4. CorrectionsChain' /\ ReceivedOnce' /\ StockNeverNegative'
    BY <2>1 DEF IInv, CorrectionsChain, ReceivedOnce, StockNeverNegative, BookStock, Received
  <2> QED
    BY <2>2, <2>3, <2>4 DEF IInv
<1>2. CASE \E q \in Quantity, p \in Price, receiveNow, paidNow \in BOOLEAN :
               Create(q, p, receiveNow, paidNow)
  BY <1>2, CreateStep
<1>3. CASE \E amount \in Total : Pay(amount)
  BY <1>3, PayStep
<1>4. CASE ReadForReceive \/ OpenForm
  BY <1>4, ReadStep
<1>5. CASE \E r \in receives : CommitReceive(r)
  BY <1>5, CommitReceiveStep
<1>6. CASE \E q \in Quantity : Sell(q)
  BY <1>6, SellStep
<1>7. CASE \E f \in forms, q \in Quantity, p \in Price, refresh, markPaid \in BOOLEAN :
               ReadForUpdate(f, q, p, refresh, markPaid)
  BY <1>7, ReadForUpdateStep
<1>8. CASE \E u \in updates : CommitUpdate(u)
  BY <1>8, CommitUpdateStep
<1>9. CASE \/ \E f \in forms : Abandon(f)
           \/ \E u \in updates : Abandon(u)
           \/ \E r \in receives : Abandon(r)
  BY <1>9, AbandonStep
<1> QED
  BY <1>1, <1>2, <1>3, <1>4, <1>5, <1>6, <1>7, <1>8, <1>9 DEF Next

-----------------------------------------------------------------------------
\* The strengthened invariant holds in every reachable state.
THEOREM Inductive == Spec => []IInv
<1>1. Init => IInv
  BY InitIInv
<1>2. IInv /\ [Next]_vars => IInv'
  BY NextIInv
<1> QED
  BY <1>1, <1>2, PTL DEF Spec

\* Every variable keeps its type (the tables behind purchases/service.ts).
THEOREM TypeCorrect == Spec => []TypeOK
<1>1. IInv => TypeOK
  BY DEF IInv
<1> QED
  BY <1>1, Inductive, PTL

\* The supplier is never paid more than the invoice's total, whatever
\* payments, corrections and markPaid declarations interleave
\* (updateInvoice:706 and 843, payInvoice:902).
THEOREM NeverOverpaid == Spec => []PaidWithinTotal
<1>1. IInv => PaidWithinTotal
  BY DEF IInv
<1> QED
  BY <1>1, Inductive, PTL

\* The status shown is the one the payments call for (updateInvoice:725).
THEOREM StatusRight == Spec => []StatusTellsPayments
<1>1. IInv => StatusTellsPayments
  BY DEF IInv
<1> QED
  BY <1>1, Inductive, PTL

\* The correction history has no gap (updateInvoice:717-724).
THEOREM HistoryUnbroken == Spec => []CorrectionsChain
<1>1. IInv => CorrectionsChain
  BY DEF IInv
<1> QED
  BY <1>1, Inductive, PTL

\* The payable in the books is that on the invoice (updateInvoice:777-802).
THEOREM BooksAgree == Spec => []JournalIsTotal
<1>1. IInv => JournalIsTotal
  BY DEF IInv
<1> QED
  BY <1>1, Inductive, PTL

\* The stock is received once, and never corrected below what was sold
\* (receiveInvoiceStock:537, updateInvoice:758-759).
THEOREM StockSound == Spec => [](ReceivedOnce /\ StockNeverNegative)
<1>1. IInv => ReceivedOnce /\ StockNeverNegative
  BY DEF IInv
<1> QED
  BY <1>1, Inductive, PTL

\* A correction is committed only over the total and the payments its form
\* showed (updateInvoice:717-718).
THEOREM CorrectsOnlyWhatWasSeen == Spec => CorrectsWhatWasSeen
<1> DEFINE Seen == corrections' # corrections =>
                     \A u \in updates \ updates' : /\ u.form.total = invoice.total
                                                   /\ u.form.paid = paid
<1>1. ASSUME IInv, Next, corrections' # corrections
      PROVE  \E u \in updates : CommitUpdate(u)
  <2>1. corrections \in Seq([previous : Total, corrected : Total])
    BY <1>1 DEF IInv, TypeOK
  <2>2. ASSUME NEW q \in Quantity, NEW p \in Price, NEW receiveNow \in BOOLEAN,
               NEW paidNow \in BOOLEAN, Create(q, p, receiveNow, paidNow)
        PROVE  FALSE
    BY <1>1, <2>2 DEF Create
  <2>3. ~ \E amount \in Total : Pay(amount)
    BY <1>1 DEF Pay
  <2>4. ~ (ReadForReceive \/ OpenForm)
    BY <1>1 DEF ReadForReceive, OpenForm
  <2>5. ~ \E r \in receives : CommitReceive(r)
    BY <1>1 DEF CommitReceive
  <2>6. ~ \E q \in Quantity : Sell(q)
    BY <1>1 DEF Sell
  <2>7. ASSUME NEW f \in forms, NEW q \in Quantity, NEW p \in Price,
               NEW refresh \in BOOLEAN, NEW markPaid \in BOOLEAN,
               ReadForUpdate(f, q, p, refresh, markPaid)
        PROVE  FALSE
    BY <1>1, <2>7 DEF ReadForUpdate
  <2>8. ASSUME NEW req, Abandon(req) PROVE FALSE
    BY <1>1, <2>8 DEF Abandon
  <2> QED
    BY <1>1, <2>2, <2>3, <2>4, <2>5, <2>6, <2>7, <2>8 DEF Next
<1>2. IInv /\ [Next]_vars => [Seen]_vars
  <2> SUFFICES ASSUME IInv, Next, corrections' # corrections,
                      NEW u \in updates \ updates'
               PROVE  u.form.total = invoice.total /\ u.form.paid = paid
    BY DEF vars
  <2>1. PICK w \in updates : CommitUpdate(w)
    BY <1>1
  <2>2. u = w
    BY <2>1 DEF CommitUpdate
  <2> QED
    BY <2>1, <2>2, ClaimMeansCurrent DEF CommitUpdate
<1> QED
  BY <1>2, Inductive, PTL DEF Spec, CorrectsWhatWasSeen

-----------------------------------------------------------------------------
(* Behind the page.                                                       *)

\* Where the rows of the pages come from, which makes a save a step of
\* PurchaseInvoice.
DeskHolds ==
    /\ desk \in [Desk -> Page]
    /\ \A d \in Desk : {desk[d].row, desk[d].editing} \subseteq forms \cup {None}

\* Requests are not mistaken for rows.
LEMMA NotAForm ==
  ASSUME NEW x \in Update \cup [quantity : Quantity, subtotal : Total]
  PROVE  x \notin Form
<1>. SUFFICES ASSUME x \in Form PROVE FALSE
  OBVIOUS
<1>1. DOMAIN x = {"version", "total", "paid"}
  BY DEF Form
<1>2. CASE x \in Update
  <2>1. "form" \in DOMAIN x
    BY <1>2 DEF Update
  <2>. QED
    BY <1>1, <2>1
<1>3. CASE x \in [quantity : Quantity, subtotal : Total]
  <2>1. "quantity" \in DOMAIN x
    BY <1>3
  <2>. QED
    BY <1>1, <2>1
<1>. QED
  BY <1>2, <1>3

\* Changing one page leaves pages.
LEMMA HeldFunctions ==
  ASSUME NEW e \in [Desk -> Page], NEW d \in Desk, NEW page \in Page
  PROVE  /\ [e EXCEPT ![d] = page] \in [Desk -> Page]
         /\ [e EXCEPT ![d].editing = e[d].row] \in [Desk -> Page]
  BY DEF Page

\* A page loads, shows and keeps rows that were loaded.
LEMMA LoadStep ==
  ASSUME TypeOK, DeskHolds, NEW d \in Desk, Load(d)
  PROVE  DeskHolds' /\ [Next]_vars
<1>1. CASE Posted
  <2>1. OpenForm /\ Listed = [version |-> invoice.version, total |-> invoice.total,
                              paid |-> paid]
    BY <1>1 DEF Load, Listed
  <2>2. Next
    BY <2>1 DEF Next
  <2>3. forms' = forms \cup {Listed} /\ Listed \in Form
    BY <1>1, <2>1, PostedInvoice DEF OpenForm, TypeOK, Form, Invoice
  <2>4. PICK held \in {None, desk[d].editing} :
           desk' = [desk EXCEPT ![d] = [row |-> Listed, editing |-> held]]
    BY DEF Load
  <2>5. /\ [row |-> Listed, editing |-> held] \in Page
        /\ {Listed, held} \subseteq forms' \cup {None}
    BY <2>3 DEF DeskHolds, Page, Held
  <2>. QED
    BY <2>2, <2>3, <2>4, <2>5, HeldFunctions DEF DeskHolds
<1>2. CASE ~Posted
  <2>1. UNCHANGED vars /\ Listed = None
    BY <1>2 DEF Load, Listed
  <2>2. forms' = forms
    BY <2>1 DEF vars, requests
  <2>3. PICK held \in {None, desk[d].editing} :
           desk' = [desk EXCEPT ![d] = [row |-> None, editing |-> held]]
    BY <2>1 DEF Load
  <2>4. /\ [row |-> None, editing |-> held] \in Page
        /\ held \in forms \cup {None}
    BY DEF DeskHolds, Page, Held
  <2>. QED
    BY <2>1, <2>2, <2>3, <2>4, HeldFunctions DEF DeskHolds
<1>. QED
  BY <1>1, <1>2

\* A page takes the row it shows under edit.
LEMMA ViewStep ==
  ASSUME DeskHolds, NEW d \in Desk, View(d)
  PROVE  DeskHolds' /\ [Next]_vars
<1>1. /\ desk' = [desk EXCEPT ![d].editing = desk[d].row]
      /\ UNCHANGED vars /\ forms' = forms
  BY DEF View, vars, requests
<1>2. desk[d] \in Page /\ desk' \in [Desk -> Page]
  BY <1>1, HeldFunctions DEF DeskHolds
<1>3. \A x \in Desk : {desk'[x].row, desk'[x].editing} \subseteq forms \cup {None}
  BY <1>1 DEF DeskHolds, Page
<1>. QED
  BY <1>1, <1>2, <1>3 DEF DeskHolds

\* What the buttons send, and what the API makes of it.
LEMMA SaveNewStep ==
  ASSUME DeskHolds, NEW d \in Desk, NEW line \in Line, NEW option \in Option,
         SaveNew(d, line, option)
  PROVE  DeskHolds' /\ Next
<1>1. /\ line.quantity \in Quantity /\ line.price \in Price
      /\ option.receiveNow \in BOOLEAN /\ option.paidNow \in BOOLEAN
  BY DEF Line, Option
<1>2. /\ Create(line.quantity, line.price, option.receiveNow, option.paidNow)
      /\ desk' = desk
  BY DEF SaveNew
<1>3. forms' = forms
  BY <1>2 DEF Create, requests
<1>. QED
  BY <1>1, <1>2, <1>3 DEF DeskHolds, Next

\* A correction is sent of the row under edit.
LEMMA SaveCorrectionStep ==
  ASSUME DeskHolds, NEW d \in Desk, NEW c \in Correction, SaveCorrection(d, c)
  PROVE  DeskHolds' /\ Next
<1>1. /\ c.quantity \in Quantity /\ c.price \in Price
      /\ c.refresh \in BOOLEAN /\ c.markPaid \in BOOLEAN
  BY DEF Correction
<1>2. /\ desk[d].editing # None
      /\ ReadForUpdate(desk[d].editing, c.quantity, c.price, c.refresh, c.markPaid)
      /\ desk' = desk
  BY DEF SaveCorrection, SavesNew
<1>3. desk[d].editing \in forms
  BY <1>2 DEF DeskHolds
<1>4. forms' = forms
  BY <1>2 DEF ReadForUpdate
<1>. QED
  BY <1>1, <1>2, <1>3, <1>4 DEF DeskHolds, Next

\* A payment is sent of a row shown.
LEMMA PayStepAtDesk ==
  ASSUME DeskHolds, NEW d \in Desk, NEW amount \in Total, PayRow(d, amount)
  PROVE  DeskHolds' /\ Next
<1>1. Pay(amount) /\ desk' = desk /\ forms' = forms
  BY DEF PayRow, Pay, requests
<1>. QED
  BY <1>1 DEF DeskHolds, Next

\* What others do leaves what the pages hold.
LEMMA ElsewhereStep ==
  ASSUME TypeOK, DeskHolds, Elsewhere
  PROVE  DeskHolds' /\ Next
<1>1. desk' = desk
  BY DEF Elsewhere
<1>2. CASE ReadForReceive
  <2>1. forms' = forms
    BY <1>2 DEF ReadForReceive
  <2>. QED
    BY <1>1, <1>2, <2>1 DEF DeskHolds, Next
<1>3. ASSUME NEW q \in Quantity, Sell(q) PROVE DeskHolds' /\ Next
  <2>1. forms' = forms
    BY <1>3 DEF Sell, requests
  <2>. QED
    BY <1>1, <1>3, <2>1 DEF DeskHolds, Next
<1>4. ASSUME NEW r \in receives, CommitReceive(r) PROVE DeskHolds' /\ Next
  <2>1. forms' = forms
    BY <1>4 DEF CommitReceive
  <2>. QED
    BY <1>1, <1>4, <2>1 DEF DeskHolds, Next
<1>5. ASSUME NEW u \in updates, CommitUpdate(u) PROVE DeskHolds' /\ Next
  <2>1. forms' = forms
    BY <1>5 DEF CommitUpdate
  <2>. QED
    BY <1>1, <1>5, <2>1 DEF DeskHolds, Next
<1>6. ASSUME NEW u \in updates, Abandon(u) PROVE DeskHolds' /\ Next
  <2>1. u \notin forms
    BY <1>6, NotAForm DEF TypeOK
  <2>2. forms' = forms
    BY <1>6, <2>1 DEF Abandon
  <2>. QED
    BY <1>1, <1>6, <2>2 DEF DeskHolds, Next
<1>7. ASSUME NEW r \in receives, Abandon(r) PROVE DeskHolds' /\ Next
  <2>1. r \notin forms
    BY <1>7, NotAForm DEF TypeOK
  <2>2. forms' = forms
    BY <1>7, <2>1 DEF Abandon
  <2>. QED
    BY <1>1, <1>7, <2>2 DEF DeskHolds, Next
<1>. QED
  BY <1>1, <1>2, <1>3, <1>4, <1>5, <1>6, <1>7 DEF Elsewhere

\* Every step keeps the rows of the pages among those that were loaded, and is
\* a step of PurchaseInvoice or none.
LEMMA DeskStep ==
  ASSUME TypeOK, DeskHolds, [DeskNext]_deskVars
  PROVE  DeskHolds' /\ [Next]_vars
<1>1. CASE Elsewhere
  BY <1>1, ElsewhereStep
<1>2. ASSUME NEW d \in Desk, AtDesk(d) PROVE DeskHolds' /\ [Next]_vars
  <2>1. CASE Load(d)
    BY <2>1, LoadStep
  <2>2. CASE View(d)
    BY <2>2, ViewStep
  <2>3. CASE \E line \in Line, option \in Option : SaveNew(d, line, option)
    BY <2>3, SaveNewStep
  <2>4. CASE \E c \in Correction : SaveCorrection(d, c)
    BY <2>4, SaveCorrectionStep
  <2>5. CASE \E amount \in Total : PayRow(d, amount)
    BY <2>5, PayStepAtDesk
  <2>. QED
    BY <1>2, <2>1, <2>2, <2>3, <2>4, <2>5 DEF AtDesk
<1>3. CASE UNCHANGED deskVars
  <2>1. UNCHANGED vars /\ forms' = forms /\ desk' = desk
    BY <1>3 DEF deskVars, vars, requests
  <2>. QED
    BY <2>1 DEF DeskHolds
<1>. QED
  BY <1>1, <1>2, <1>3 DEF DeskNext

-----------------------------------------------------------------------------
\* The browsers together do what PurchaseInvoice allows: any number of pages,
\* however old their rows, are edit forms of various age.
THEOREM DesksImplement == DeskSpec => Spec /\ []DeskHolds
<1>1. DeskInit => Init /\ IInv /\ DeskHolds
  <2>1. DeskInit => Init /\ DeskHolds
    BY DEF DeskInit, DeskHolds, Page, Held
  <2>. QED
    BY <2>1, InitIInv
<1>2. IInv /\ DeskHolds /\ [DeskNext]_deskVars => [Next]_vars /\ DeskHolds' /\ IInv'
  <2>1. IInv => TypeOK
    BY DEF IInv
  <2>. QED
    BY <2>1, DeskStep, NextIInv
<1>. QED
  BY <1>1, <1>2, PTL DEF DeskSpec, Spec

\* Every variable keeps its type, and a page only shows rows it loaded.
THEOREM DeskTypeCorrect == DeskSpec => []DeskTypeOK
<1>1. TypeOK /\ DeskHolds => DeskTypeOK
  BY DEF DeskTypeOK, DeskHolds
<1>. QED
  BY <1>1, DesksImplement, TypeCorrect, PTL

\* Whatever any number of browsers send, and however old the rows they show,
\* the supplier is never paid more than the invoice's total (payInvoice:902,
\* updateInvoice:706 and 843).
THEOREM DesksNeverOverpay == DeskSpec => []PaidWithinTotal
  BY DesksImplement, NeverOverpaid, PTL

\* No browser corrects an invoice whose total or payments moved on since the
\* row it edits was loaded (updateInvoice:717-718).
THEOREM DesksCorrectWhatWasSeen == DeskSpec => CorrectsWhatWasSeen
  BY DesksImplement, CorrectsOnlyWhatWasSeen, PTL
=============================================================================
