------------------------- MODULE ReconciliationDesk -------------------------
(***************************************************************************)
(* The reconciliation page (web/src/pages/ReconciliationPage.tsx) on top   *)
(* of CustomerCredit: what it loads of a closed shift and of the accounts, *)
(* how its user splits the sales and assigns the credit, the account it    *)
(* creates on the side, and the lock it asks for.  Shifts are locked from  *)
(* a desk only.                                                            *)
(*                                                                         *)
(* A desk works on the rows of its last load while sales, accounts and     *)
(* the other desks go on.  A split of the sales is complete when the       *)
(* credit methods hold what is assigned to accounts and "PAID" holds the   *)
(* rest, so the assignment says it all; filling it in and pressing the     *)
(* button is one step, for nothing reads a form that is not submitted.     *)
(* The verified amounts, which only make the variance, are left out.       *)
(***************************************************************************)
EXTENDS CustomerCredit

CONSTANT Desk    \* browsers that show the page

VARIABLE desk    \* what each browser shows, None before a shift is chosen

deskVars == <<vars, desk>>

\* What a desk shows: the shift, its sales total by method, and the accounts
\* on offer with their type.
Page == [shift : Shift,
         expected : [Method -> 0..MaxSold],
         customers : UNION {[S -> CreditMethod] : S \in SUBSET Customer}]

DeskTypeOK == TypeOK /\ desk \in [Desk -> Page \cup {None}]

DeskInit == Init /\ desk = [d \in Desk |-> None]

-----------------------------------------------------------------------------
\* presentShift: the sales total by method.
Presented(s) == [m \in Method |-> Expected(s, m)]

\* The accounts of bootstrap.
Offered == [c \in {c \in Customer : customer[c].active} |-> customer[c].type]

Shown(d) == desk[d] # None

\* load with choose, and choose for another shift.
Choose(d, s) ==
    /\ status[s] = "RECONCILIATION_REQUIRED"
    /\ desk' = [desk EXCEPT ![d] =
                   [shift |-> s, expected |-> Presented(s), customers |-> Offered]]
    /\ UNCHANGED vars

\* Whom a row of CreditAllocationEditor may name: an account of its method on
\* offer, or one a recorded sale named.
MayOwe(d, m, c) ==
    \/ c \in DOMAIN desk[d].customers /\ desk[d].customers[c] = m
    \/ Existing(desk[d].shift, m, c) > 0

\* Whom a row of PaidFleetEditor may name.
MayHavePaid(d, c) == c \in DOMAIN desk[d].customers /\ desk[d].customers[c] = "FLEET"

\* fullyAllocated: credit and the rest together are the sales of the page.
FullyAllocated(d, a) ==
    SumOf([m \in CreditMethod |-> SumOf(a[m])]) <= SumOf(desk[d].expected)

\* A form the editors can be brought to, from the recorded credit or any other.
Filled(d, a) ==
    \A c \in Customer : /\ a["PAID"][c] > 0 => MayHavePaid(d, c)
                       /\ \A m \in CreditMethod : a[m][c] > 0 => MayOwe(d, m, c)

\* What lock sends for a credit method: the split less the sales of the page.
Sent(d, a, m) == SumOf(a[m]) - desk[d].expected[m]

\* reconcile wants every credit method to be left with what is assigned; then
\* the paid methods, of which lock sends the opposite, fit as well.
SplitFits(d, a) ==
    \A m \in CreditMethod : Expected(desk[d].shift, m) + Sent(d, a, m) = SumOf(a[m])

\* lock.  The page then shows the locked shift; when the answer is lost it
\* still shows the form.
Lock(d, a) ==
    /\ Shown(d) /\ Filled(d, a)
    /\ Reconcile(desk[d].shift, a)
    /\ FullyAllocated(d, a) /\ SplitFits(d, a)
    /\ \E page \in {desk[d], None} : desk' = [desk EXCEPT ![d] = page]

\* QuickCustomerModal: the account is made, the accounts are loaded again, and
\* its row joins the form.  When that load fails the account is there and not
\* on offer, which is as good as one created elsewhere.
Create(d, c, row) ==
    /\ Shown(d)
    /\ CreateCustomer(c, row)
    /\ desk' = [desk EXCEPT ![d].customers =
                   [x \in DOMAIN Offered \cup {c} |-> IF x = c THEN row.type ELSE Offered[x]]]

-----------------------------------------------------------------------------
\* Everything else of CustomerCredit goes on.
Elsewhere ==
    /\ \/ \E s \in Shift, amount \in Amount, m \in Method, c \in Customer \cup {None} :
            Sell(s, m, c, amount)
       \/ \E s \in Shift, unrecorded \in Amount \cup {0} : CloseShift(s, unrecorded)
       \/ \E c \in Customer, row \in CustomerRow :
            UpdateCustomer(c, row) \/ CreateCustomer(c, row)
       \/ \E c \in Customer : CheckSettled(c) \/ RemoveCustomer(c) \/ FindAccount(c)
       \/ \E c \in Customer, amount \in Amount : PostReceipt(c, amount)
    /\ UNCHANGED desk

AtDesk(d) ==
    \/ \E s \in Shift : Choose(d, s)
    \/ Shown(d) /\ status[desk[d].shift] = "RECONCILIATION_REQUIRED"
       /\ \E a \in Assignment : Lock(d, a)
    \/ \E c \in Customer, row \in CustomerRow : Create(d, c, row)

DeskNext == Elsewhere \/ \E d \in Desk : AtDesk(d)

DeskSpec == DeskInit /\ [][DeskNext]_deskVars

-----------------------------------------------------------------------------
\* What a lock posts is the split its page showed, though the page computes
\* the adjustments from sales it loaded earlier and the API adds them to the
\* sales it finds: nothing is sold in a shift once a page could load it.
LocksWhatWasShown ==
    /\ DeskTypeOK
    /\ \A d \in Desk : Shown(d) => desk[d].expected = Presented(desk[d].shift)
=============================================================================
