--------------------------- MODULE CustomerCredit ---------------------------
(***************************************************************************)
(* Selling on account: modules/customers/service.ts, the credit side of    *)
(* persistSale in modules/sales/service.ts, and reconcile of               *)
(* modules/reconciliation/service.ts with lib/shift-collections.ts.        *)
(*                                                                         *)
(* persistSale and reconcile are serializable transactions, so one step    *)
(* each; removeCustomer and receivePayment read the customer before they   *)
(* write, so two.  The rows of Sale and ShiftCreditAllocation are summed   *)
(* by shift, method and customer, as every reader sums them.  Amounts are  *)
(* whole units: the tolerances of a paisa are left out, and so are the     *)
(* vehicles, due dates and notifications.  Cash, UPI, card and other       *)
(* payments are one method, "PAID".                                        *)
(***************************************************************************)
EXTENDS Integers, FiniteSets, FiniteSetsExt, LedgerSums

CONSTANTS Customer, Shift,
          Limit,        \* the credit limits an owner chooses among
          Amount,       \* what one sale or receipt may amount to
          None,         \* a sale without a customer
          Start,        \* the accounts there may be at the start
          MaxSold,      \* bound: the total of one shift's sales
          MaxReceived,  \* bound: the receipts of one customer
          MaxUpdates    \* bound: edits of customers

ASSUME AmountAssumption ==
    /\ Limit \subseteq Nat /\ Amount \subseteq Nat \ {0}
    /\ {MaxSold, MaxReceived, MaxUpdates} \subseteq Nat
ASSUME CustomerAssumption ==
    IsFiniteSet(Customer) /\ IsFiniteSet(Shift) /\ None \notin Customer

CreditMethod == {"CREDIT", "FLEET"}
Method == CreditMethod \cup {"PAID"}
Account == {"1000", "1100", "4000"}

VARIABLES customer,   \* the customer rows
          status,     \* of each shift
          sold,       \* Sale totals, by shift, method and customer
          allocated,  \* ShiftCreditAllocation totals, likewise
          debt,       \* SALE entries of the customer ledger, by customer and shift
          received,   \* RECEIPT entries of the customer ledger
          books,      \* account balances, debits positive
          removing,   \* customers whose removal has read a zero balance
          paying,     \* customers whose receipt has read an active account
          touched,    \* history: accounts edited or removed
          updates

vars == <<customer, status, sold, allocated, debt, received, books,
          removing, paying, touched, updates>>
shiftVars == <<status, sold, allocated>>
ledger == <<debt, received, books>>
jobs == <<removing, paying>>

CustomerRow == [active : BOOLEAN, type : CreditMethod, limit : Limit]
ASSUME StartAssumption == Start \subseteq [Customer -> CustomerRow]
Totals == [Method -> [Customer \cup {None} -> Nat]]

TypeOK == /\ customer \in [Customer -> CustomerRow]
          /\ status \in [Shift -> {"OPEN", "RECONCILIATION_REQUIRED", "LOCKED"}]
          /\ sold \in [Shift -> Totals] /\ allocated \in [Shift -> Totals]
          /\ debt \in [Customer -> [Shift -> Nat]]
          /\ received \in [Customer -> Nat]
          /\ books \in [Account -> Int]
          /\ {removing, paying, touched} \subseteq SUBSET Customer
          /\ updates \in 0..MaxUpdates

NothingSold == [m \in Method |-> [c \in Customer \cup {None} |-> 0]]

\* An account that is not active at the start is one not created yet.
Init == /\ customer \in Start
        /\ status = [s \in Shift |-> "OPEN"]
        /\ sold = [s \in Shift |-> NothingSold]
        /\ allocated = [s \in Shift |-> NothingSold]
        /\ debt = [c \in Customer |-> [s \in Shift |-> 0]]
        /\ received = [c \in Customer |-> 0]
        /\ books = [a \in Account |-> 0]
        /\ removing = {} /\ paying = {} /\ touched = {} /\ updates = 0

-----------------------------------------------------------------------------
Balance(c) == SumOf(debt[c]) - received[c]
Expected(s, m) == SumOf(sold[s][m])
SoldIn(s) == SumOf([m \in Method |-> Expected(s, m)])

CollectionAccount(m) == IF m \in CreditMethod THEN "1100" ELSE "1000"
Posted(account, amount) == [books EXCEPT ![account] = @ + amount]

SlipWithinLimit(c, added) == Balance(c) <= customer[c].limit
WithinLimit(c, added) == Balance(c) + added <= customer[c].limit

\* What a fleet sale asks of the account it is charged to.
Accepts(c, m) == m = "FLEET" => customer[c].type = "FLEET"

Charged(c, s, amount) == [debt EXCEPT ![c][s] = @ + amount]

-----------------------------------------------------------------------------
(* Sales and the close of a shift.                                         *)
\* Slip: a shift is closed to sales only by its lock.
SlipTakesSales(s) == status[s] # "LOCKED"
TakesSales(s) == status[s] = "OPEN"

\* The sale row, its ledger entry when it is on account, and its journal.
Sell(s, m, c, amount) ==
    /\ TakesSales(s) /\ SoldIn(s) + amount <= MaxSold
    /\ m \in CreditMethod => c # None
    /\ c # None => customer[c].active
    /\ m \in CreditMethod => Accepts(c, m) /\ WithinLimit(c, amount)
    /\ sold' = [sold EXCEPT ![s][m][c] = @ + amount]
    /\ debt' = IF m \in CreditMethod THEN Charged(c, s, amount) ELSE debt
    /\ books' = [Posted(CollectionAccount(m), amount) EXCEPT !["4000"] = @ - amount]
    /\ UNCHANGED <<customer, status, allocated, received, jobs, touched, updates>>

\* closeShift records what the meters moved beyond the sales as paid by OTHER.
CloseShift(s, unrecorded) ==
    /\ status[s] = "OPEN" /\ SoldIn(s) + unrecorded <= MaxSold
    /\ status' = [status EXCEPT ![s] = "RECONCILIATION_REQUIRED"]
    /\ sold' = [sold EXCEPT ![s]["PAID"][None] = @ + unrecorded]
    /\ books' = [Posted("1000", unrecorded) EXCEPT !["4000"] = @ - unrecorded]
    /\ UNCHANGED <<customer, allocated, debt, received, jobs, touched, updates>>

-----------------------------------------------------------------------------
(* Reconciliation: the shift's total is moved between the methods and its  *)
(* credit is assigned to customers.                                        *)
Assignment ==
    {[m \in Method |-> [c \in Customer |-> f[m, c]]] :
        f \in {f \in [Method \X Customer -> 0..MaxSold] : SumOf(f) <= MaxSold}}
Listed(a) == {c \in Customer : \E m \in Method : a[m][c] > 0}

\* The adjustments a complete assignment leaves no choice of: credit methods
\* receive what is assigned, the paid methods the rest.
Adjustment(s, a) ==
    LET moved == [m \in CreditMethod |-> SumOf(a[m]) - Expected(s, m)]
    IN  [m \in Method |-> IF m = "PAID" THEN -SumOf(moved) ELSE moved[m]]

\* shiftInclude loads the sales on account only.
SlipExisting(s, m, c) == sold[s][m][c]
Existing(s, m, c) == IF m \in CreditMethod THEN sold[s][m][c] ELSE 0

\* The assignment that keeps what was recorded and adds nothing.
Recorded(s) == [m \in Method |-> [c \in Customer |-> Existing(s, m, c)]]

SlipAdditionalDebt(s, a, c) == a["CREDIT"][c] + a["FLEET"][c]
AdditionalDebt(s, a, c) ==
    SumOf([m \in CreditMethod |-> a[m][c] - Min({a[m][c], Existing(s, m, c)})])

SlipKeepsRecorded(s, a) == TRUE
KeepsRecorded(s, a) == \A m \in Method, c \in Customer : a[m][c] >= Existing(s, m, c)

Acceptable(s, a) ==
    /\ KeepsRecorded(s, a)
    /\ SumOf(a["PAID"]) <= Expected(s, "PAID") + Adjustment(s, a)["PAID"]
    /\ \A c \in Listed(a) :
         /\ customer[c].active
         /\ a["FLEET"][c] + a["PAID"][c] > 0 => customer[c].type = "FLEET"
         /\ WithinLimit(c, AdditionalDebt(s, a, c))

Reconcile(s, a) ==
    /\ status[s] = "RECONCILIATION_REQUIRED" /\ Acceptable(s, a)
    /\ status' = [status EXCEPT ![s] = "LOCKED"]
    /\ allocated' = [allocated EXCEPT ![s] =
         [m \in Method |-> [c \in Customer \cup {None} |-> IF c = None THEN 0 ELSE a[m][c]]]]
    /\ debt' = [c \in Customer |->
                  [debt[c] EXCEPT ![s] = @ + AdditionalDebt(s, a, c)]]
    /\ books' = [books EXCEPT
         !["1100"] = @ + Adjustment(s, a)["CREDIT"] + Adjustment(s, a)["FLEET"],
         !["1000"] = @ + Adjustment(s, a)["PAID"]]
    /\ UNCHANGED <<customer, sold, received, jobs, touched, updates>>

-----------------------------------------------------------------------------
(* Customers.                                                              *)
\* createCustomer: its code is drawn anew until it is free, so it never fails
\* for long.
Unused(c) == ~customer[c].active /\ c \notin touched /\ SumOf(debt[c]) = 0 /\ received[c] = 0

CreateCustomer(c, row) ==
    /\ updates < MaxUpdates /\ row.active /\ Unused(c)
    /\ customer' = [customer EXCEPT ![c] = row]
    /\ updates' = updates + 1
    /\ UNCHANGED <<shiftVars, ledger, jobs, touched>>

\* updateCustomer writes whatever the form holds; nothing is checked.
UpdateCustomer(c, row) ==
    /\ updates < MaxUpdates /\ row # customer[c] /\ ~Unused(c)
    /\ customer' = [customer EXCEPT ![c] = row]
    /\ touched' = touched \cup {c}
    /\ updates' = updates + 1
    /\ UNCHANGED <<shiftVars, ledger, jobs>>

\* removeCustomer sums the ledger ...
CheckSettled(c) ==
    /\ customer[c].active /\ Balance(c) = 0
    /\ removing' = removing \cup {c}
    /\ UNCHANGED <<customer, shiftVars, ledger, paying, touched, updates>>

\* ... and then switches the account off.
RemoveCustomer(c) ==
    /\ c \in removing
    /\ customer' = [customer EXCEPT ![c].active = FALSE]
    /\ removing' = removing \ {c} /\ touched' = touched \cup {c}
    /\ UNCHANGED <<shiftVars, ledger, paying, updates>>

\* receivePayment looks the account up ...
FindAccount(c) ==
    /\ customer[c].active /\ received[c] < MaxReceived
    /\ paying' = paying \cup {c}
    /\ UNCHANGED <<customer, shiftVars, ledger, removing, touched, updates>>

\* ... and then posts receipt, ledger entry and journal; the amount is free.
PostReceipt(c, amount) ==
    /\ c \in paying /\ received[c] + amount <= MaxReceived
    /\ received' = [received EXCEPT ![c] = @ + amount]
    /\ books' = [Posted("1000", amount) EXCEPT !["1100"] = @ - amount]
    /\ paying' = paying \ {c}
    /\ UNCHANGED <<customer, shiftVars, debt, removing, touched, updates>>

Next == \/ \E s \in Shift, amount \in Amount, m \in Method, c \in Customer \cup {None} :
             Sell(s, m, c, amount)
        \/ \E s \in Shift, unrecorded \in Amount \cup {0} : CloseShift(s, unrecorded)
        \/ \E s \in Shift : \E a \in Assignment : Reconcile(s, a)
        \/ \E c \in Customer : \/ \E row \in CustomerRow : UpdateCustomer(c, row)
                               \/ CheckSettled(c) \/ RemoveCustomer(c) \/ FindAccount(c)
                               \/ \E amount \in Amount : PostReceipt(c, amount)

Spec == Init /\ [][Next]_vars

-----------------------------------------------------------------------------
\* The receivable account of the books is the customer ledger's total, after
\* any sales, receipts, reconciliations and removals (docs/accounting-model.md).
ReceivableIsLedger ==
    TypeOK /\ books["1100"] = SumOf([c \in Customer |-> Balance(c)])

\* What a locked shift put on each account is what its reconciliation assigned
\* to that account: credit recorded as sales is counted, and never twice.
AssignedCreditIsOwedOnce ==
    \A s \in Shift, c \in Customer :
        status[s] = "LOCKED" =>
            debt[c][s] = allocated[s]["CREDIT"][c] + allocated[s]["FLEET"][c]

\* No sale or reconciliation, whatever else happens in between, takes an
\* account further into debt than its limit at that moment.
DebtGrowsWithinLimit ==
    [][\A c \in Customer : Balance(c)' > Balance(c) => Balance(c)' <= customer[c].limit]_vars

\* A closed shift can be locked as recorded as long as none of the accounts it
\* was sold on is edited or removed, whatever the other shifts sell and assign on
\* them, what is received, and which accounts are opened: only a change of an
\* account strands a shift (reconcile in reconciliation/service.ts).
RecordedShiftCanLock ==
    \A s \in Shift :
        /\ status[s] = "RECONCILIATION_REQUIRED"
        /\ \A m \in CreditMethod, c \in touched : sold[s][m][c] = 0
        => Acceptable(s, Recorded(s))

=============================================================================
