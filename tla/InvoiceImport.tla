----------------------------- MODULE InvoiceImport -----------------------------
(***************************************************************************)
(* One supplier's paper invoice imported from several browsers:            *)
(* ConfirmedPurchaseDialog.tsx with confirmed-purchase-submission.ts, and  *)
(* the handlers of modules/purchases it calls.  The dialog works on the    *)
(* rows it loaded when it was opened, offers to add the supplier or the    *)
(* product it does not find, and posts what its user ticked.               *)
(*                                                                         *)
(* Every browser reads the same supplier and number from the document, but *)
(* may read another HSN code.  The document has one line.  An answer to a  *)
(* new supplier or product may be lost, and a dialog closed while one is   *)
(* awaited is closed before or after the row is made; that a lost answer   *)
(* to the invoice itself is replayed is SafeSave's subject.  Totals, dates *)
(* and capacities are left out: any posting may be refused.  Where the     *)
(* dialog is opened from, and its steps as a whole, are ImportTray's.      *)
(***************************************************************************)
EXTENDS Integers, FiniteSets

CONSTANTS Dialog,     \* browsers with the document
          Hsn,        \* HSN codes
          Tank,       \* tanks of the station that hold the tank-linked product
          Start,      \* what there may be at the start, with a bound on changes by hand
          Nothing,    \* no row, no code, no tank
          MaxCode,    \* bound: codes the suppliers of one name get
          MaxProduct  \* bound: codes the products of one name get

VARIABLES start,      \* the start, of which the document and the bound stay
          suppliers,  \* Supplier rows by code
          products,   \* Product rows by code
          invoices,   \* PurchaseInvoice rows of the document's number, by supplier
          dialogs,    \* the dialog of each browser
          byHand      \* what was chosen, added or edited by hand so far

\* uniqueCode: a name's code, then the same with a suffix.  0 is the code of
\* another name.
Code == 0..MaxCode
ProductCode == 1..MaxProduct

\* A supplier's name is the document's or not, its taxId the document's or none.
Supplier == [named : BOOLEAN, taxId : BOOLEAN, active : BOOLEAN]

\* A product's name or code is the one on the line or not.
Product == [named : BOOLEAN, hsn : Hsn \cup {Nothing}, tankLinked : BOOLEAN]

\* Rows by their keys.
Rows(K, R) == UNION {[D -> R] : D \in SUBSET K}

Invoice == [product : ProductCode \cup {Nothing}, hsn : Hsn \cup {Nothing},
            received : BOOLEAN, tank : Tank \cup {Nothing}]

\* What the dialog shows, and its user ticks.
Screen == [supplier : Code \cup {Nothing}, product : ProductCode \cup {Nothing},
           tank : Tank \cup {Nothing}, receiveNow : BOOLEAN]

\* A posting on its way: what was on the screen and what had been ticked, and
\* the HSN its handler plans to put on the product.
Posting == [kind : {"create", "receive"}, read : BOOLEAN, what : Screen,
            ticked : Screen \cup {Nothing}, planned : Hsn \cup {Nothing}]

Closed == [phase |-> "closed"]
Open == [phase : {"open"}, hsn : Hsn \cup {Nothing}, suppliers : Rows(Code, Supplier),
         products : Rows(ProductCode, Product),
         duplicates : Rows(Code, Invoice),
         screen : Screen, ticked : Screen \cup {Nothing},
         creating : {"no", "supplier", "product"}, posting : Posting \cup {Nothing}]

ASSUME ImportAssumption ==
    /\ MaxCode \in Nat \ {0} /\ MaxProduct \in Nat \ {0}
    /\ Nothing \notin Hsn \cup Tank \cup Nat
    /\ Nothing \notin Screen /\ Nothing \notin Posting
    /\ \A s \in Start : s.gstin \in BOOLEAN /\ s.byHand \subseteq {"supplier", "product"}
    /\ \A s \in Start : /\ s.suppliers \in Rows(Code, Supplier)
                       /\ s.products \in Rows(ProductCode, Product)

ImportTypeOK ==
    /\ start \in Start /\ byHand \subseteq start.byHand
    /\ suppliers \in Rows(Code, Supplier)
    /\ products \in Rows(ProductCode, Product)
    /\ DOMAIN invoices \subseteq DOMAIN suppliers
    /\ invoices \in Rows(Code, Invoice)
    /\ dialogs \in [Dialog -> Open \cup {Closed}]

\* A supplier is chosen, added or edited by hand, or a product edited: once.
ChangeByHand(what) == what \in start.byHand \ byHand /\ byHand' = byHand \cup {what}

Put(f, k, row) == [x \in DOMAIN f \cup {k} |-> IF x = k THEN row ELSE f[x]]

ImportInit ==
    /\ start \in Start
    /\ suppliers = start.suppliers /\ products = start.products
    /\ invoices = [s \in {} |-> Nothing]
    /\ dialogs = [d \in Dialog |-> Closed]
    /\ byHand = {}

-----------------------------------------------------------------------------
(* Opening the dialog.                                                     *)

\* The row that alone satisfies P, if there is one.
Only(S) == IF Cardinality(S) = 1 THEN CHOOSE c \in S : TRUE ELSE Nothing

\* findMatchingSupplier: by GSTIN, and by name when that does not settle it.
FindMatchingSupplier(rows) ==
    LET sameGstin == {c \in DOMAIN rows : start.gstin /\ rows[c].taxId}
        sameName == {c \in DOMAIN rows : rows[c].named}
    IN IF Only(sameGstin) # Nothing THEN Only(sameGstin) ELSE Only(sameName)

\* findMatchingProduct: by HSN, and by name or code.
FindMatchingProduct(rows, hsn) ==
    LET sameHsn == {c \in DOMAIN rows : hsn # Nothing /\ rows[c].hsn = hsn}
        sameName == {c \in DOMAIN rows : rows[c].named}
    IN IF Only(sameHsn) # Nothing THEN Only(sameHsn) ELSE Only(sameName)

CompatibleTanks(rows, p) == IF p # Nothing /\ rows[p].tankLinked THEN Tank ELSE {}
OnlyCompatibleTank(rows, p) == Only(CompatibleTanks(rows, p))

Active == [c \in {c \in DOMAIN suppliers : suppliers[c].active} |-> suppliers[c]]

IsOpen(d) == dialogs[d].phase = "open"

\* The effect that loads the dialog.  Of the invoices it gets the newest
\* hundred of the stations its user may see: perhaps not this one.
OpenDialog(d, hsn) ==
    /\ dialogs[d] = Closed
    /\ \E known \in {{}, DOMAIN invoices} :
         LET p == FindMatchingProduct(products, hsn)
         IN dialogs' = [dialogs EXCEPT ![d] =
                [phase |-> "open", hsn |-> hsn, suppliers |-> Active, products |-> products,
                 duplicates |-> [s \in known |-> invoices[s]],
                 screen |-> [supplier |-> FindMatchingSupplier(Active), product |-> p,
                             tank |-> OnlyCompatibleTank(products, p), receiveNow |-> TRUE],
                 ticked |-> Nothing, creating |-> "no", posting |-> Nothing]]
    /\ UNCHANGED <<start, suppliers, products, invoices, byHand>>

\* onClose, onBack.
CloseDialog(d) ==
    /\ IsOpen(d) /\ dialogs[d].posting = Nothing /\ dialogs[d].creating = "no"
    /\ dialogs' = [dialogs EXCEPT ![d] = Closed]
    /\ UNCHANGED <<start, suppliers, products, invoices, byHand>>

-----------------------------------------------------------------------------
(* Filling it in.                                                          *)

\* Every change of the screen takes the tick away.  The form can be changed
\* while the answer to a posting is awaited as well: that shows only after a
\* refusal, and is as good as a change made then.
Show(d, screen) ==
    /\ IsOpen(d) /\ dialogs[d].posting = Nothing
    /\ dialogs' = [dialogs EXCEPT ![d].screen = screen, ![d].ticked = Nothing]

ChooseSupplier(d, s) ==
    /\ IsOpen(d) /\ dialogs[d].creating = "no"
    /\ s \in DOMAIN dialogs[d].suppliers \cup {Nothing}
    /\ Show(d, [dialogs[d].screen EXCEPT !.supplier = s])
    /\ ChangeByHand("supplier")
    /\ UNCHANGED <<start, suppliers, products, invoices>>

ChooseProduct(d, p) ==
    LET rows == dialogs[d].products
    IN /\ IsOpen(d) /\ dialogs[d].creating = "no"
       /\ p \in DOMAIN rows \cup {Nothing}
       /\ Show(d, [dialogs[d].screen EXCEPT !.product = p, !.tank = OnlyCompatibleTank(rows, p)])
       /\ UNCHANGED <<start, suppliers, products, invoices, byHand>>

ChooseTank(d, t) ==
    LET screen == dialogs[d].screen
    IN /\ IsOpen(d) /\ screen.receiveNow
       /\ CompatibleTanks(dialogs[d].products, screen.product) # {}
       /\ Show(d, [screen EXCEPT !.tank = t])
       /\ UNCHANGED <<start, suppliers, products, invoices, byHand>>

ChooseReceiveNow(d) ==
    /\ IsOpen(d)
    /\ Show(d, [dialogs[d].screen EXCEPT !.receiveNow = ~@])
    /\ UNCHANGED <<start, suppliers, products, invoices, byHand>>

\* validateConfirmedPurchase, validateReceiptSelections.
Valid(d) ==
    LET screen == dialogs[d].screen
        rows == dialogs[d].products
    IN /\ screen.supplier # Nothing
       /\ screen.receiveNow =>
            /\ screen.product # Nothing
            /\ rows[screen.product].tankLinked => screen.tank \in Tank

\* findDuplicateInvoice, and whether its stock can still be received.
IsDuplicate(d) == dialogs[d].screen.supplier \in DOMAIN dialogs[d].duplicates
CanReceiveExisting(d) ==
    /\ IsDuplicate(d) /\ dialogs[d].screen.receiveNow
    /\ ~dialogs[d].duplicates[dialogs[d].screen.supplier].received
Submittable(d) == Valid(d) /\ (IsDuplicate(d) => CanReceiveExisting(d))

\* The box "I checked the supplier, products, tanks, dates and amount".
Tick(d) ==
    /\ IsOpen(d) /\ dialogs[d].posting = Nothing /\ Submittable(d)
    /\ dialogs' = [dialogs EXCEPT ![d].ticked =
                       IF @ = Nothing THEN dialogs[d].screen ELSE Nothing]
    /\ UNCHANGED <<start, suppliers, products, invoices, byHand>>

-----------------------------------------------------------------------------
(* Adding the supplier or the product it did not find.                     *)

LeastFree(used) ==
    CHOOSE c \in 1..Cardinality(used) + 1 : c \notin used /\ 1..c - 1 \subseteq used

\* Slip: the code is made unique by the server, as createCustomer does.
SlipUniqueCode(d) == LeastFree(DOMAIN suppliers)

\* uniqueCode: the first code none of the suppliers shown has.
UniqueCode(d) == LeastFree(DOMAIN dialogs[d].suppliers)

Create(d, what) ==
    /\ IsOpen(d) /\ dialogs[d].creating = "no"
    /\ \/ what = "supplier" /\ dialogs[d].screen.supplier = Nothing
       \/ what = "product" /\ dialogs[d].screen.product = Nothing
    /\ dialogs' = [dialogs EXCEPT ![d].creating = what]
    /\ UNCHANGED <<start, suppliers, products, invoices, byHand>>

\* The dialog that hears of its new supplier.
WithSupplier(dialog, c, row) ==
    [dialog EXCEPT !.creating = "no", !.ticked = Nothing,
                   !.suppliers = Put(dialog.suppliers, c, row), !.screen.supplier = c]

\* createSupplier and createReviewedSupplier.  A taken code is refused.
CreateSupplier(d) ==
    LET c == UniqueCode(d)
        row == [named |-> TRUE, taxId |-> start.gstin, active |-> TRUE]
    IN /\ IsOpen(d) /\ dialogs[d].creating = "supplier"
       /\ c \in Code \ DOMAIN suppliers
       /\ suppliers' = Put(suppliers, c, row)
       /\ \E heard \in BOOLEAN :
            dialogs' = [dialogs EXCEPT ![d] =
                IF heard THEN WithSupplier(dialogs[d], c, row)
                ELSE [dialogs[d] EXCEPT !.creating = "no"]]
       /\ UNCHANGED <<start, products, invoices, byHand>>

\* Slip: the new product is shown, and the tick stays.
SlipWithProduct(dialog, p, row) ==
    [dialog EXCEPT !.creating = "no",
                   !.products = Put(dialog.products, p, row),
                   !.screen.product = p, !.screen.tank = Nothing]

\* The dialog that hears of its new product.
WithProduct(dialog, p, row) ==
    [dialog EXCEPT !.creating = "no", !.ticked = Nothing,
                   !.products = Put(dialog.products, p, row),
                   !.screen.product = p, !.screen.tank = Nothing]

\* createProduct, proposedProduct and createReviewedProduct.
CreateProduct(d) ==
    LET p == LeastFree(DOMAIN dialogs[d].products)
        row == [named |-> TRUE, hsn |-> dialogs[d].hsn, tankLinked |-> FALSE]
    IN /\ IsOpen(d) /\ dialogs[d].creating = "product"
       /\ p \in ProductCode \ DOMAIN products
       /\ products' = Put(products, p, row)
       /\ \E heard \in BOOLEAN :
            dialogs' = [dialogs EXCEPT ![d] =
                IF heard THEN WithProduct(dialogs[d], p, row)
                ELSE [dialogs[d] EXCEPT !.creating = "no"]]
       /\ UNCHANGED <<start, suppliers, invoices, byHand>>

\* SUPPLIER_CODE_EXISTS, PRODUCT_CODE_EXISTS, or no answer.
CreateRefused(d) ==
    /\ IsOpen(d) /\ dialogs[d].creating # "no"
    /\ dialogs' = [dialogs EXCEPT ![d].creating = "no"]
    /\ UNCHANGED <<start, suppliers, products, invoices, byHand>>

-----------------------------------------------------------------------------
(* Posting it.                                                             *)

\* submit.  The form can still be changed while the answer is awaited, and
\* submitted while a new product is.
Submit(d) ==
    LET kind == IF CanReceiveExisting(d) THEN "receive" ELSE "create"
    IN /\ IsOpen(d) /\ dialogs[d].posting = Nothing
       /\ dialogs[d].ticked # Nothing /\ Submittable(d)
       /\ dialogs' = [dialogs EXCEPT ![d].posting =
              [kind |-> kind, read |-> FALSE, what |-> dialogs[d].screen,
               ticked |-> dialogs[d].ticked, planned |-> Nothing]]
       /\ UNCHANGED <<start, suppliers, products, invoices, byHand>>

Posted(d, kind, read) ==
    /\ IsOpen(d) /\ dialogs[d].posting # Nothing
    /\ dialogs[d].posting.kind = kind /\ dialogs[d].posting.read = read

\* planProductHsnUpdates: a product without an HSN gets the captured one.
PlannedHsn(p, hsn) == IF p # Nothing /\ products[p].hsn = Nothing THEN hsn ELSE Nothing

\* The rows createInvoice reads before its transaction.
ReadForCreate(d) ==
    LET what == dialogs[d].posting.what
    IN /\ Posted(d, "create", FALSE)
       /\ suppliers[what.supplier].active
       /\ dialogs' = [dialogs EXCEPT ![d].posting.read = TRUE,
                        ![d].posting.planned = PlannedHsn(what.product, dialogs[d].hsn)]
       /\ UNCHANGED <<start, suppliers, products, invoices, byHand>>

\* The rows receiveInvoiceStock reads: the invoice as it is stored.
ReadForReceive(d) ==
    LET what == dialogs[d].posting.what
        invoice == invoices[what.supplier]
    IN /\ Posted(d, "receive", FALSE)
       /\ ~invoice.received
       /\ invoice.product # Nothing /\ invoice.product = what.product
       /\ dialogs' = [dialogs EXCEPT ![d].posting.read = TRUE,
                        ![d].posting.planned = PlannedHsn(invoice.product, invoice.hsn)]
       /\ UNCHANGED <<start, suppliers, products, invoices, byHand>>

\* Slip: the plan made before the transaction is trusted.
SlipStillWithoutHsn(p) == TRUE

\* The update's own condition.
StillWithoutHsn(p) == products[p].hsn = Nothing

SyncHsn(p, planned) ==
    products' = IF p # Nothing /\ planned # Nothing /\ StillWithoutHsn(p)
                THEN [products EXCEPT ![p].hsn = planned] ELSE products

\* The tank holds the product, and a tank-linked product has one.
TankFits(p, t) == IF products[p].tankLinked THEN t \in Tank ELSE t = Nothing

\* createInvoice's transaction; the supplier has no invoice of this number.
CommitCreate(d) ==
    LET what == dialogs[d].posting.what
        tank == IF what.receiveNow THEN what.tank ELSE Nothing
    IN /\ Posted(d, "create", TRUE)
       /\ what.supplier \notin DOMAIN invoices
       /\ what.receiveNow => TankFits(what.product, tank)
       /\ SyncHsn(what.product, dialogs[d].posting.planned)
       /\ invoices' = Put(invoices, what.supplier,
                          [product |-> what.product, hsn |-> dialogs[d].hsn,
                           received |-> what.receiveNow, tank |-> tank])
       /\ dialogs' = [dialogs EXCEPT ![d] = Closed]
       /\ UNCHANGED <<start, suppliers, byHand>>

\* receiveInvoiceStock's transaction; the invoice has no receipt.
CommitReceive(d) ==
    LET what == dialogs[d].posting.what
        s == what.supplier
    IN /\ Posted(d, "receive", TRUE)
       /\ ~invoices[s].received
       /\ TankFits(what.product, what.tank)
       /\ SyncHsn(what.product, dialogs[d].posting.planned)
       /\ invoices' = [invoices EXCEPT ![s].received = TRUE, ![s].tank = what.tank]
       /\ dialogs' = [dialogs EXCEPT ![d] = Closed]
       /\ UNCHANGED <<start, suppliers, byHand>>

\* A rule, a unique key or a conflict refuses it; the dialog stays.
PostingRefused(d) ==
    /\ IsOpen(d) /\ dialogs[d].posting # Nothing
    /\ dialogs' = [dialogs EXCEPT ![d].posting = Nothing]
    /\ UNCHANGED <<start, suppliers, products, invoices, byHand>>

-----------------------------------------------------------------------------
(* By hand.  supplierCodeFromName is the name's own code, a new supplier   *)
(* is active, and editing, of one field at a time, keeps the code.         *)

AddSupplier(named, taxId) ==
    LET c == IF named THEN 1 ELSE 0
        row == [named |-> named, taxId |-> taxId, active |-> TRUE]
    IN /\ c \notin DOMAIN suppliers
       /\ suppliers' = Put(suppliers, c, row)
       /\ ChangeByHand("supplier")
       /\ UNCHANGED <<start, products, invoices, dialogs>>

UpdateSupplier(c) ==
    /\ \/ suppliers' = [suppliers EXCEPT ![c].named = ~@]
       \/ suppliers' = [suppliers EXCEPT ![c].taxId = ~@]
       \/ suppliers' = [suppliers EXCEPT ![c].active = ~@]
    /\ ChangeByHand("supplier")
    /\ UNCHANGED <<start, products, invoices, dialogs>>

\* updateProduct writes the HSN code of the form, or none.
UpdateProduct(p, hsn) ==
    /\ products' = [products EXCEPT ![p].hsn = hsn]
    /\ ChangeByHand("product")
    /\ UNCHANGED <<start, suppliers, invoices, dialogs>>

-----------------------------------------------------------------------------
Fill(d) == \/ \E s \in Code \cup {Nothing} : ChooseSupplier(d, s)
           \/ \E p \in ProductCode \cup {Nothing} : ChooseProduct(d, p)
           \/ \E t \in Tank \cup {Nothing} : ChooseTank(d, t)
           \/ ChooseReceiveNow(d) \/ Tick(d)

Add(d) == \/ \E what \in {"supplier", "product"} : Create(d, what)
          \/ CreateSupplier(d) \/ CreateProduct(d) \/ CreateRefused(d)

PostIt(d) == \/ Submit(d) \/ ReadForCreate(d) \/ ReadForReceive(d) \/ PostingRefused(d)

Commit(d) == CommitCreate(d) \/ CommitReceive(d)

ByHand == \/ \E named, taxId \in BOOLEAN : AddSupplier(named, taxId)
          \/ \E c \in DOMAIN suppliers : UpdateSupplier(c)
          \/ \E p \in DOMAIN products, hsn \in Hsn \cup {Nothing} : UpdateProduct(p, hsn)

-----------------------------------------------------------------------------
\* A document imported from several browsers becomes one invoice, although
\* each may add the supplier it does not find and invoices are unique for
\* each supplier only: two browsers that both miss him compute the same code,
\* and one that looks later finds him.  Choosing or editing suppliers by hand
\* can still make a second one.
OneInvoicePerDocument == Cardinality(DOMAIN invoices) <= 1 \/ "supplier" \in byHand

\* What a dialog posts is what its user ticked, although an answer to a new
\* supplier or product may change the form after the tick.
PostsWhatWasTicked ==
    \A d \in Dialog : (IsOpen(d) /\ dialogs[d].posting # Nothing) =>
        dialogs[d].posting.what = dialogs[d].posting.ticked

\* An import never changes an HSN code a product has, although it decides on
\* a product read before its transaction: a code entered on the products page
\* in between stands.
HsnStands ==
    [][\A p \in DOMAIN products :
          (products[p].hsn # Nothing /\ products'[p].hsn # products[p].hsn)
              => byHand' # byHand]_products
=============================================================================
