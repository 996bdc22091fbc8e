# FuelLedger in TLA+

FuelLedger (FuelNerve) keeps the books of fuel stations: shifts with meter and
dip readings, sales, purchases, stock in tanks, customer credit, staff, prices,
and an agent platform that proposes actions and tells the owner. A browser
application and an iOS application talk to an Express API over PostgreSQL
(Prisma). Several people, tabs and devices post at once, pages stay open for
hours, connections drop, devices queue work offline and API processes die. What
must survive this is the ledger: nothing posted twice, nothing lost, nothing
changed after it was closed.

These modules model that, model-check it with TLC and prove with TLAPS, for
every value of the constants, each safety property the runs check.

## Inventory of the system

Paths are relative to `src/`; `modules/` stands for `apps/api/src/modules/`,
`pages/` for `apps/web/src/pages/`.

| Component | State it keeps | Operations | What makes it correct | Models |
|---|---|---|---|---|
| Retry receipts (`apps/api/src/lib/safe-save.ts`, `request()` of `apps/web/src/lib/api.ts`) | `SaveReceipt(actor, key)`, keys in `sessionStorage`, saves in flight | submit, retry, look up, commit, recheck | one effect per key; "saved" is true; no second effect without a refusal or a key the browser could not keep; every save but a clashing one settles | `SaveOnce`, `SafeSave` |
| Shifts, sales, equipment, lock (`modules/shifts`, `modules/sales`, `modules/stations`, `modules/reconciliation`) | shift status, readings, custodians, sales, nozzle status, the locked total | open, close, change custody, sell, edit equipment, lock | sales of a nozzle tile its meter; closing accounts for every litre; the locked total stands | `ShiftMeters` |
| Tank stock (`apps/api/src/lib/stock.ts`, `modules/inventory`), operations page | opening stock, `InventoryLedger` rows in time, dips; the page's form | open, close, sell, test, receive, adjust; load, type, submit | book equals tank; each movement counted once; variance is what was lost | `TankStock`, `TankDesk` |
| Purchases (`modules/purchases`), purchases page | invoice with version, payments, receipt, corrections, journals; rows and edit forms of pages | post, receive, pay, correct | never overpaid; received once; corrections on what was seen; books agree | `PurchaseInvoice`, `PurchaseDesk` |
| Invoice import (`pages/IntelligenceAgentsPage.tsx`, review, preview and confirmation dialogs, `modules/purchases`) | tray, drafts, dialog, suppliers, products, HSN codes | read, review, preview, confirm, add supplier or product, create or receive | one document one invoice; posted as ticked; HSN codes stand | `InvoiceImport`, `ImportTray` |
| Customers and credit (`modules/customers`, `modules/reconciliation`), reconciliation page | accounts, limits, ledger, receipts, allocations; the page's split | sell on account, allocate, receive, edit, remove; load, split, lock | ledger equals receivables; debt grows within the limit; what is locked was shown | `CustomerCredit`, `ReconciliationDesk` |
| Products and prices (`modules/products`, `modules/approvals`), products page | product row, two price histories, requests; catalog and form | edit, create invoice, receive, submit, decide; load, type, save | row is the price in force; the owner's price takes effect; the page changes what was typed | `ProductPrices`, `ProductDesk` |
| Staff (`modules/access`, custody in `modules/shifts`), staff page | active people, pumps, default attendants, teams, custody; the page's form | hire, move, remove, save defaults, change custody | custodians are on the team; the removed keep nothing; a manager has one pump | `Team`, `StaffDesk` |
| Offline queue (`apps/web/src/lib/offline-sync.ts`) | IndexedDB rows per signed-in scope | enqueue, sync, retry, sign in and out | nothing lost; order kept; pending settles | `OfflineSync` |
| Nerve controlled actions (`nerve-agent-platform/src`) | proposals, approvals, claims, receipts | propose, decide, execute | a key acts once in one life of the process; an approval carries every role | `GovernedActions` |
| Nerve events (`nerve-agent-platform/src/proactive`, `service/queue.ts`) | event store, release positions, jobs | ingest, enqueue, work, replay, retry | released in order, queued once, settled | `OrderedStream`, `NerveEvents` |
| Notifications (`modules/notifications`) | alerts, deliveries, devices, settings | notify, ring, text, register, acknowledge | one message; a second ring only in doubt; results recorded | `OwnerAlerts` |
| Sessions and throttle (`modules/auth`), reports, dashboard, intelligence answers, OCR and parsers, iOS, scripts | sessions, queries, text | | see "Not modelled" | |

How they interact. Every posting of the browser goes through `request()`, which
attaches a key; the middleware (rate limiter, session, access, validation) may
answer first; the handler may read rows before it calls `safeTransaction`; the
transaction is serializable and writes the receipt with the business rows.
Shifts, sales and reconciliation share the shift row, the readings and the
sales; purchases and sales share the ledger rows of a product in a tank;
invoices raise price requests that the owner decides. Handlers mix two styles:
everything inside the transaction (`openShift`, `closeShift`, `reconcile`,
`payInvoice`), or reads and checks first and a transaction after (`createSale`,
`updateNozzleCustody`, `updateStationEquipment`, `receiveInvoiceStock`,
`updateInvoice`, `assignStations`). Above both sit pages that load rows, keep
them for as long as they are open, and post what their user saw. The second
style and the pages are where interleavings matter.

Hard behaviours: overlapping requests under one key, acknowledgements lost
after the commit, crashes with open transactions, retries refused by
middleware, reads made outside the transaction that uses them, sales that arrive
late or with device clocks ahead, forms open over rows others changed, queues
replayed by two tabs, calls to third parties whose answers are lost.
`PROJECT.json` lists them line by line as hazards, each with the properties that
would tell.

## Modules

A `...Desk` module, and `ImportTray`, put a page in front of the module they
extend: they add the page's state, and their steps are steps of the page, of the
API at that page's request, or of anybody else. The composed module is what is
model-checked, so that what a page sends is what a page can send.

| Module | Models | Extends or uses |
|---|---|---|
| `SaveOnce` | the promise of the retry receipts, abstractly | |
| `SafeSave` | browser, API and database of a save | `SaveOnce` by refinement |
| `ShiftMeters` | a station's shifts, meters and metered sales, custody, equipment, the lock | |
| `TankStock`, `TankDesk` | one tank in the books and in fact; the operations page | `TankStock` |
| `PurchaseInvoice`, `PurchaseDesk` | one supplier invoice; the purchases page in several browsers | `PurchaseInvoice` |
| `InvoiceImport`, `ImportTray` | the confirmation of an imported document; the tray, review and preview before it | `InvoiceImport` |
| `CustomerCredit`, `ReconciliationDesk` | selling on account; the reconciliation page in several browsers | `CustomerCredit` |
| `ProductPrices`, `ProductDesk` | the prices of a product and the owner's decisions; the products page | `ProductPrices` |
| `Team`, `StaffDesk` | the people of a station; the staff page | `Team` |
| `OfflineSync` | the queue of records saved without a connection | |
| `GovernedActions` | one agent proposal from draft to executed action | |
| `OrderedStream`, `NerveEvents` | events released in order, abstractly; the store, ingests, queue and workers | `OrderedStream` by refinement |
| `OwnerAlerts` | one event on its way to the owner's telephone and WhatsApp | |
| `LedgerSums` | what a sum over rows is | used by `CustomerCredit` and `TankStock` |
| `SafeSaveProofs`, `ShiftMetersProofs`, `PurchaseDeskProofs`, `ProductDeskProofs` | proofs | the module they are named after |
| `LedgerProofs` | proofs: sums, customer credit, the tank | `ReconciliationDesk`, `TankDesk` |
| `BrowserProofs` | proofs: what the browser keeps | `OfflineSync`, `ImportTray` |
| `PeopleProofs` | proofs: the team, the owner's alerts | `StaffDesk`, `OwnerAlerts` |
| `NerveProofs` | proofs: controlled actions, events | `GovernedActions`, `NerveEvents` |
| `MC...` | small instances | |

In every module a serializable transaction is one action, because its effect is
that of a point in a serial order; a handler that reads outside its transaction
is two actions (the check with what it read, then the write), any other action
may come between, and the write uses what was read then, not now. Code that
runs between two awaits of a page or a service is one action. Operators whose
names begin with `Slip` are plausible mistakes at the places they stand before;
the specifications do not use them. Substituting one for the operator that
follows it must break the property `PROJECT.json` pairs it with.

### SafeSave

`status`, `stored` and `heard` are the person's form, `sessionStorage` and the
awaited responses; `pc`, `job` and `reply` are the requests inside the API;
`receipts` is the `SaveReceipt` table for one actor and `effects` counts the
postings of business rows under each key. A save is one set of details, so the
fingerprint comparison of `replay` is equality of saves. `stale` holds the open
transactions that overlapped a commit, which PostgreSQL may abort (P2034).
`sessionStorage` may throw when a key is read, kept or removed: the attempt then
goes out under a key of its own (`LoseKey`), or a key that should go stays
(`ForgetKey`). `refusedOnce` and `unkept`, the saves that were ever refused and
those ever sent under a key the browser could not keep, are history variables. Three sets of saves describe kinds of
handlers: `Guarded` handlers read business rows before `safeTransaction` and so
see their own earlier effect (metered sale, receiving stock, custody);
`Clashing` saves break a unique constraint of their own (a supplier invoice
number already posted); `Native` saves come from the iOS application, whose
`APIClient.send` is handed a key by its caller.
Saves whose connection fails and that can be queued are `OfflineSync`'s.

### ShiftMeters

Litres are whole numbers, so the code's tolerance of 0.001 is equality.
`shifts[s].opening` has the shift's nozzles as its domain; `assigned` and
`counted` are the custody rows and those with a collection. `checked`, `custody`
and `equipment` hold the requests between their reads and their write. Sale
times are chosen freely up to `ClockSkew` ahead: the server only refuses times
before the shift opened or too far ahead. Money, customers and tanks are left
out; a nozzle's configured meter is fixed, because `updateStationEquipment`
locks it once the nozzle has history.

### TankStock and TankDesk

The tank has a true level and a book. `meter` is what the nozzle has really
drawn; `tested` is what the open shift drew for testing, and `poured` whether it
was poured back. `outstanding` are deliveries in the tank and not in the book
yet. Readings given
to the handlers are honest dips and meters at the instant they are taken. Time is
a counter, and rows carry instants, so that rows stamped at the very instant of an
opening or a closing exist. `lost` is what left the tank without anybody
drawing it; the variance of a closed shift is compared with it. `ahead[t]` is
the litres sold under stamps `t` that lay ahead of the clock when they were
posted: a check of the stock at an earlier instant does not see such a row.

The page of TankDesk is away or holds a form with what it loaded: the meters to
start from, the last dip, the bridge it judges a closing dip by. The pump stands
still from the closing readings to the submission; a second browser (`Others`) is always
fresh.

### PurchaseInvoice and PurchaseDesk

One invoice with one stock line; tax and dates are left out, so the total is
quantity times price. The price is an input of `ReadForUpdate`: a correction
takes whatever price the product's history has for the invoice's date. `paid` is
the sum of the supplier payments, `receipts` the quantities of the receipt line
and its ledger row (the code writes both together), `purchase` and `goods` the
`PURCHASE_INVOICE` journal and the sum of `PURCHASE_RECEIPT` journals. The stock
check of `Sell` and of a correction is made against this line's stock alone:
other stock of the product in the tank would only hide a shortage.

PurchaseDesk's pages show a row and may be editing one; both are as old as the
page's last load. `forms` of PurchaseInvoice, the versions a form may be opened
on, is what the desks' rows are taken from.

### InvoiceImport and ImportTray

Suppliers and products are rows by code: code 1 is the name's own, 2 the first
with a suffix, 0 another name's. The document's supplier and number are read the
same everywhere; its one line's HSN code may be read or kept differently. The
dialog holds the rows it loaded, what its screen shows, what was ticked, and the
posting or creation it awaits. `start` carries what the document shows and
what may be changed by hand. ImportTray adds the tray's document, from the file
chosen over its text layer or recognition to the draft kept in the review, and the
dialog open over the page. A draft for another station is as one not reviewed:
nothing comes of it but another review.

### CustomerCredit and ReconciliationDesk

An account has a type, a limit and a ledger of debts and receipts; `receivable`
is the journal account. A shift's sales, its recorded credit and its
assignments are amounts. `touched`, a history variable, holds the accounts that
were edited or removed. Deletion reads the balance before it writes;
reconciliation reads and writes in its serializable transaction. The page holds
the shift it shows, the expected totals it loaded and the split; it may create
an account and reload.

### ProductPrices and ProductDesk

A history is a function from instants to prices; the price in force is that of
the latest instant not in the future. Three writers change row and histories:
the products page's save, an invoice, and the owner's decision. The save is a
transaction at PostgreSQL's default READ COMMITTED: it puts its dated prices,
reads the two prices in force one after the other (`found`), each read seeing
whatever was committed by then, and writes the row from what it read. While it
is open another writer waits only for an instant both put a price at
(`Unlocked`). An invoice's automatic pricing reads in steps of
its own before its transaction, which reads nothing; the decision's transaction
is serializable. `settled` says that no price has been dated
ahead, put in late, or committed while a form's transaction was reading: the
cases in which row and history may differ. The page of ProductDesk holds the catalog it
loaded, which may be reloaded under its open form.

### Team and StaffDesk

`status`, `stationsOf`, `defaults` and `shifts` are the tables; `requests` the
handlers between their reads and their write; `overlapped` the people two of
whose changes overlapped, a history variable. StaffDesk's form is preset from
any roster and shift the page may have loaded; its two loads are taken as one.
`updateNozzleCustody` is called by no page and kept in Team as the API offers it.

### OfflineSync, GovernedActions, NerveEvents, OwnerAlerts

OfflineSync: rows of records by user, tabs with the list they are replaying and
the count of pending rows they last made (`counted`), which their timers go by, a
cookie all tabs share, and an abstract server that posts a record once per user
(what SafeSave shows). GovernedActions: every await of proposing, deciding and
executing is a step; a crash loses the steps under way and the claims and
receipts, which `execution-store.ts` keeps in a `Map` of the process, while the
proposal survives in its file. `effects` counts the acts of a key in this life of
the process, `acts` those ever done on an approval, and `torn` holds the
approvals whose execution a crash cut off before it was settled. NerveEvents: an ingest
releases in one step (one synchronous piece of code) and queues one event at a
time; workers claim, fail and retry up to `MaximumAttempts`. OwnerAlerts: a call
raises the alert, rings each device and texts, each await a step; APNs and
WhatsApp may take a call and lose the answer, and each record of a result may
throw, made or not. One `catch` covers ring and record of a telephone, so a ring
that was accepted may be recorded as failed.

## Runs

Every run passes. The numbers are distinct states.

| Run | Asks |
|---|---|
| `safe_save` (0.8 million) | does a save that was never refused, under kept keys, take effect once and is it refused only when not posted; does every save but a clashing one settle; does the protocol implement `SaveOnce` |
| `shift_meters` (3.2 million) | do sales tile the meter, is closed metered fuel sold, does the locked total stand |
| `tank_desk` (4.9 million) | is the book short by no more than sales stamped ahead, do ledger, variances and the next opening agree with the tank, behind a page older than the books |
| `purchase_desk` | are payments within the total and corrections of what was seen, from two browsers |
| `invoice_import` (1.4 million) | does a document imported twice become one invoice, as ticked, with HSN codes kept |
| `reconciliation_desk` (1.3 million) | do ledger, receivables, limits and what pages showed agree, and can a shift be locked as recorded while the accounts it was sold to are left alone |
| `product_desk` (5.9 million) | is the row the price in force, does the owner's price take effect, does the page change only what was typed |
| `staff_desk` (2.6 million) | are custodians on the team, do the removed keep nothing, has a manager one pump |
| `offline_sync` (1.0 million) | is nothing lost, the order kept, and does what is pending settle under the timers of the tabs that know of it |
| `governed_actions` (5.4 million) | does a key act once in one life of the process, an approval carry every role, and when can it be spent twice |
| `nerve_events` | are events released in order, queued once and settled |
| `owner_alerts` (0.5 million) | is there one message, with a result unless a crash or a failed record took it, and a second ring only in doubt |

Bounds, and why they are enough:

- `safe_save`: three saves (a payment, a metered sale, an iOS invoice with a
  taken number), two keys, two requests at once, two faults. Two
  requests under one key are what every race of `safeTransaction` needs; two
  faults, a throwing `sessionStorage` among them, allow a lost acknowledgement
  followed by a crash during the retry or by a key that was not kept. The
  theorems remove these bounds for all properties but progress.
- `shift_meters`: one nozzle, two shifts, two submitted sales, three litres, two
  instants, device clocks up to one ahead, two requests between read and write. Two requests are a check and
  whatever overtakes it; two shifts are a lock with a successor; three litres
  leave room for a sale, an automatic sale and a test.
- `tank_desk`: two shifts, three instants, one litre at a time, three events
  between them: enough for a receipt entered after the closing it came before,
  with a draw and a test around it, and an opening form older than all of them.
- `purchase_desk`: quantities and prices of 1 and 2, so totals of 1, 2 and 4
  with part payments, versions up to 2, two browsers, one request between read and write.
  Races of several requests are covered by the theorems, which have no bound.
- `invoice_import`: two browsers, two codes, two HSN codes or none; three
  starts, each with what may be changed by hand in it. Two browsers are two
  readers of one document; changes by hand are one per start because each
  multiplies the states.
- `reconciliation_desk`: a credit and a fleet account, the second not there
  or removed at some starts, one shift, limits of 1 and 2, two browsers.
- `product_desk`: two invoices, costs of 1 and 2, three instants, one edit.
  The form may be dated now or at an instant past or ahead.
- `staff_desk`: owner, manager, an attendant hired later, two pumps, one
  nozzle, one shift, two requests between read and write.
- `offline_sync`: two records, tabs and users, one fault, two changes of user,
  one retry, one of two like users signed in at the start: the order of two records under every interruption.
- `governed_actions`: two roles, two people, two keys, two jobs, a crash.
- `nerve_events`: three events, two of one sequence number, two ingests, two
  workers, two attempts. `owner_alerts`: two calls side by side and a third
  after them, two faults (lost answers or records that throw), a crash, one
  change of settings or device.

Deadlock is not checked where everything may be settled, locked or out of
bounds; it is checked in `invoice_import`, where a person may always go on.

### Fairness

Only four runs state progress; all others are safety under no fairness.

- `SafeSave`: a request in the server makes progress (`WF` on `Work(h)`: the
  Node process runs it, the database answers or fails), and the person presses
  Save again while the outcome is uncertain (`SF` on `Retry(s)` of the saves that
  do not clash): the form says so and keeps the details. It is strong fairness
  because the API takes any number of requests: that both of the model's may be
  busy with other saves again and again is the bound's doing. Faults have no
  fairness and are bounded. Nothing says that a request ever succeeds: `Settles`
  allows a refusal.
- `OfflineSync`: a replay or "try again" that has started runs on (`WF` on
  `Running(t)` and `Reviving(t)`), and the 15-second timer of a tab starts one
  when the tab's own last count showed pending rows (`WF` on `Timer(t)`). Focus
  and the return of the connection may start one in any tab and are owed by
  nobody. So `PendingIsSettled` speaks of rows whose author has a signed-in tab
  that counted them; a row left by a tab that was closed or signed out waits for
  focus, connection or reload elsewhere.
- `NerveEvents`: an ingest under way goes on and the host keeps calling its
  workers (`WF` on `Enqueue(c)` and `WorkOn(w)`).
- `OwnerAlerts`: a call that has begun runs on (`WF` on `Step(c)`): each await
  returns or throws. The code sets no timeout on its requests to APNs and
  WhatsApp; that a hung connection ends is left to the platform.

## Proofs

Each theorem is for every value of the constants that meets the named
assumptions of the module it is about. These say no more than that bounds are
natural numbers, amounts and quantities positive, people, customers, nozzles and
calls finitely many, `None`, `Unset` and `Nothing` apart from real values, and
that the tables a module starts with have their type (`Start` of
`CustomerCredit` and `InvoiceImport`, `Reading` of `ImportTray`, `RolesOf` and
`RoleSets` of `GovernedActions`, `Position` of `NerveEvents`). TLC evaluates them
in the runs. One theorem, `OneInvoice`, has a hypothesis of its own, see below.

Every safety property of every run, invariant or action property, is stated by a
theorem, and so are both refinements. Each rests on an inductive invariant that
TLC checked first.

**SafeSave.** `Inductive` is `Spec => []IInv`; from it follow `TypeCorrect`,
`ReceiptAndRowsOnce`, `SavedMeansPosted`, `NoRefusalNoSecondEffect`, the action
property `RefusalsAreTrue` and the refinement `Implements`. That a receipt and
its rows exist together follows a commit and an answer only if an answer "result" is always about a committed
receipt (`AnswersOK`), and busy requests carry a save and a key (`JobsOK`). That
a browser's save has one effect as long as it was not refused and its keys were
kept (`Unrefused`) needs more: all its requests and receipts carry
one key (`OneKey`), which is the key its form still has stored while the save is
open (`KeptKey`), so that a retry cannot draw another; the same two tell
`RefusalsAreTrue` that a rule asked under a free key refuses a save posted under no key; a save is awaited through
at most one request (`HeardOK`), so an old answer cannot settle the form of a
new attempt. `Implements` maps `TxCommit` to `Commit`, `Deliver` to `TellSaved`
or `TellRefused`, a new press of Save after a refusal to `TryAgain`, and
everything else to a stutter.

**ShiftMeters.** `IInv` says of each nozzle of each shift that its sales cover
the meter from the opening reading up to that reading plus their litres
(`Filled`): each starts at the opening or where another ends, no two overlap, and
one reaches the top. So the largest reading is the opening one plus `Litres`, a
sum over a set, which is what closing relies on when it sells the rest. A sale between read and write starts
at what it read, which is the opening reading if nothing is recorded yet
(`Checked`); if something is, the write compares with the largest reading and
refuses what has been overtaken. The first half of the module is what
`Litres` adds up to, whichever order its `CHOOSE` takes the sales in.

**Customer credit and the reconciliation page.** `Receivable` says that account
1100 is the sum of the balances. A sale moves one term of the sum; a reconciliation moves
many, by the difference of assignment and recorded credit, so the proof needs
sums of functions that differ at one argument and at all of them. What
reconciliation takes back is what the sales put on the ledger only because,
before the lock, a customer owes exactly his credit sales of the shift
(`SalesOwedOnce`), and nothing is sold on account to nobody
(`CreditHasCustomer`). That a closed shift can be locked as recorded follows from
what each sale found of its account, which nothing but a change of the account
undoes (`UntouchedFit`). A page shows the totals of a shift that is closed to
sales, which nothing but the lock moves (`PagesCurrent`).

**The tank.** `EachLitreOnce` is one equation: what came, less what is booked as
sold or tested, is what is in the tank, lost, or drawn and not sold yet. The
variance and the next opening compare a dip with a bridge that the code computes
from rows between two instants, so the invariant says of each dip what has come
since, instant by instant (`SinceOpening`, `SinceClosing`), and for a closed
shift what came between its two dips (`ClosedShifts`). These speak of instants at
which nothing was delivered and of tests only through the instant they were
poured back (`Untested`), and take what was lost off; they need that no row lies
in the future except the litres counted in `ahead` (`NothingLater`) and that shifts follow
one another (`ShiftsInOrder`). `PageReads` says which of the things the page
loaded are still true as long as its form can be accepted. The book is at
least what the sales stamped ahead took beyond it (`BookNeverNegative`): a tick
moves such litres from the future into the book and into `SoldAhead`, so the
sum stands.

**PurchaseInvoice.** The argument is about stale reads. None of the properties
survives `CommitUpdate` alone, which writes what an earlier step read. What saves
them is that every step that changes the total or the payments also raises the
version. So `IInv` says of each open form and each correction in flight that what
it saw is what is there, or the version has moved on (`Current`); and that a
correction's reads are no older than its form (`ReadCurrent`). The claim then
squeezes the version read between the form's and the invoice's, which are equal
(`ClaimMeansCurrent`), and the stale reads turn out to be current.
`CommitReceive`, which changes the receipts without a new version, is why the
invariant can say of a receipt only that one that was read is still there.

**PurchaseDesk.** A page only ever shows or edits a row it was shown, and those
are rows of `forms` (`DeskHolds`). With it every step of any number of browsers
is a step of `PurchaseInvoice` or leaves it alone (`DesksImplement`), and
`DesksNeverOverpay` and `DesksCorrectWhatWasSeen` follow.

**InvoiceImport and ImportTray.** `ImportInv` says of an open dialog that its
tick is on what it shows, that what it posts had been ticked, and that the rows
behind both exist (`Fits`); `TickedIsPosted` and `CodesStand` follow. `OneInvoice`
needs `OneSupplier`: while no supplier is changed by hand, the suppliers are
those of the start or they and one that a dialog added (`Grown`), and each dialog
shows one of these two lists and the supplier found in it (`Finds`). Two dialogs
that both find nobody compute the same code, so the second is refused; once the
new row is listed it is the one found. The last step is false if the start already has two active
suppliers of the document's name and none is told apart by GSTIN: a third one
changes nothing, nobody is found again, and each import may add another.
Hence the hypothesis `NamedOnce`, which the starts of the run satisfy.

**ProductPrices.** `RowFollowsHistory`: the next writer must know that the
history it adds to has a latest entry and that the row shows it (`Shows`). The
proof needs that a set of naturals bounded by an instant has a greatest member.
Of an open form's transaction it says that, while nothing came in between, what
it has read is still in force.
**ProductDesk** (`DeskRowFollowsHistory`) shows that what the page saves is a
form of `ProductPrices` over prices it showed or that were typed. `FormFollowsPage`
adds which dates the form carries; from it and from lemmas on what a price put
at a date changes (from then to the next dated price, and nothing else) follow
the action properties `OwnersPriceStands`, `MarginKept` and `TypedOverOnly`.

**Team.** A save that hands out nozzles must know that those it names are on the
team or among those it adds (`SavesKnowTheTeam`), that those it makes defaults
are active (`SavesKnowTheActive`), and a transfer that it
leaves a manager one pump (`TransfersFit`); each clause survives any other request, unless the two overlapped,
which the theorems name. **StaffDesk** shows that whatever the page preset,
however old, the request it sends is one of `Team`, and the three properties
carry over.

**OfflineSync.** `QueueLosesNothing`: a row leaves the queue in one place, after
an acknowledgement; the strengthening is that a tab at that place replays a
record the server has (`AckIsPosted`). That survives other tabs, sign-outs and
reloads, because posting is never undone. `QueueInOrder`: whatever was saved
before a record of a loop's list by the same user is posted, needs attention, or
comes before it in the list (`WorkInOrder`); the list was sorted when it was
read, and a loop leaves only its head.

**GovernedActions.** `IInv` follows what each handler holds at each await
(`WellRead`). `KeyActsOnce`: an execution holds its key alone, and before its call nothing was
done for the key since the process started (`KeysHeld`); a crash empties calls
and claims together. `ApprovedByEveryRole`: an approver is added only
for a role set still open, so approvers and open sets together never exceed the
sets (`Sound`), which counts one person per set without saying who covers which;
it is said of rows in handlers' hands too, which are written back whole.
`ApprovalSpentOnce`: without a race one execution of an approval is in flight,
nothing is spent before it completes, and the approval is dead when it ends
(`SpentOnce`).

**NerveEvents.** `EInv`: the released events fill the positions up to `last` one
each (`StreamSound`), and each released event is held by one ingest or has its one
job (`HeldSound`, `JobsSound`). For the refinement, what an accepted event
releases is shown to be the longest unbroken run of positions that it completes
(`RunIsRun`), and the stream of `OrderedStream`, the released events by position,
to grow by that run or stay.

**OwnerAlerts.** `TextsOnce`: one call claims the message of a key and alone
sends it (`OneTeller`), after the alert is raised (`RaisedFirst`).
`RingsOnceUnlessInDoubt`: the rings of a telephone, and the calls about to ring it,
are at most the doubts and one known ring (`RingsAccounted`); rings
are sent in one stage of a call only (`RungInStage`). The accounting is what makes the
property inductive: two calls may both be about to ring, and each then is in
doubt of the other; a ring whose record threw is a doubt from
then on.

Only model-checked is liveness: `Settles`, `PendingIsSettled`,
`ReleasedIsSettled` and `TextSettles` need fairness, that is `ENABLED`, which is
out of the prover's reach. Where the argument is by induction over numbers or
finite sets (sums, folds, runs), it is made with a least counterexample of a
well-founded order, because the library's induction theorems take an operator,
which the installed provers cannot instantiate.


## Met on the way

What the models show the code to do beside what its words, or a reader, may
expect. None is a property: the properties state what does hold, and name the
exceptions.

- **Saving.** A payment's commit is acknowledged as uncertain; the retry is
  refused by middleware; `request()` forgets the key on that refusal; the next
  press pays again. `SecondEffectNeedsRefusal` is the part that holds. A
  browser whose `sessionStorage` throws draws a key per attempt, so an uncertain
  save pressed again posts twice, while `docs/safe-saving-recovery.md:5` excepts only
  clearing the storage. A duplicate supplier invoice number is answered "Another
  save was in progress" for ever: `safeTransaction` takes its P2002 for a race
  on the receipt before `purchases/service.ts:506-509` can tell what it is; this
  is the exception of `Settles`.
  `docs/safe-saving-recovery.md:3` says identical retries return the committed
  result, which holds only for handlers that read nothing before
  `safeTransaction` (`RefusedWasNotPosted` excludes `Guarded`).
- **Shifts.** The reading that is asked for and the one that is accepted are
  ordered by different columns. A custody change that overlaps closing erases
  the collections of the closed shift. A nozzle that sat out a shift must open
  at its configured meter. A nozzle without a custodian whose meter moved makes
  closing fail with a `TypeError` (`shifts/service.ts:546`), modelled as the
  refusal it amounts to.
- **Tank stock.** A movement at the very instant of closing is counted by neither
  bridge and at the instant of opening by both (`docs/stock-rules.md`: "so no
  receipt can appear in two shifts"). A sale stamped ahead, by up to five
  minutes, lowers the next expected opening, and stock checks before its instant
  do not see it, so the book can go below zero by its litres. An adjustment of the book alone
  shows as the opposite variance.
- **Operations page.** The closing form judges the dip by the bridge it loaded
  and does not reload after a refusal: a receipt entered since makes it refuse a
  right dip until the page is visited anew. `active` is the first open shift of
  any station, so an owner with one station open cannot open another from the
  page. An opening form's stale dip is stopped only by the meter check.
- **Invoices.** Correcting an invoice that was received later debits inventory
  twice; a correction in flight does not see a receipt. `docs/decisions.md:53`
  calls journals append-only, while a correction deletes and reposts the
  purchase journal (`purchases/service.ts:782-783`).
- **Purchases page.** Cancelling "View / Edit" keeps the invoice under edit, and
  "Add invoice" does not clear it: the next save corrects the invoice viewed
  before, or is refused because the reason is empty. The price preview may
  differ from what `updateInvoice` prices on save: the version claimed does not
  cover price history.
- **Invoice import.** The dialog makes codes unique among active suppliers
  only, so a retired supplier's code makes "Add reviewed supplier" fail for
  ever. Two suppliers with one GSTIN and one name make every import match
  nothing; one added by hand with the same GSTIN makes the next import match
  another row, and a second invoice of one document is possible
  (`OneInvoicePerDocument` excludes suppliers changed by hand). An answer to a new
  product writes back product and tank selections as they were before its await. Receiving
  an existing invoice maps tanks by line index and uses the stored quantities, not the draft's. The
  tray says "Stock and payment were not changed" of an invoice whose stock was received.
- **Customers.** "Settle this customer's balance before deleting the account."
  (`customers/service.ts:60`) is checked on a balance read before a credit sale
  may commit. A closed shift sold on account to a customer since removed,
  retyped or over the limit cannot be reconciled as recorded; `RecordedShiftCanLock`
  states what does hold: only a change of the account does this.
- **Reconciliation page.** A new account's answer closes over the form as it was
  when asked for: closing the dialog and choosing another shift puts the old
  shift's allocations on it. If the reload after a created account fails, the
  page says it was not created and a retry makes a second one.
- **Prices.** `approvals/service.ts:215` says "Product prices changed after this
  request was created" but compares with the product's row, so a scheduled price now in force
  goes unnoticed. Once one of two requests is approved the other is stale for ever. Receiving an older
  invoice applies its price again. A retried `createInvoice` replays a string
  date on which `toISOString` throws, and its price request is lost. `updateProduct` writes the row from prices it read in a
  READ COMMITTED transaction, so a price committed by an invoice or an approval
  meanwhile is in the history and not in the row.
- **Products page.** A price left alone in an open form but changed elsewhere is
  put back by the save. The default date is today at 00:00, so a price typed
  when another entry already started later today is saved but not in force.
- **Staff.** Two overlapping assignments of one manager leave him two pumps; a
  removed member can be handed a nozzle by `updateNozzleCustody`. The staff page presets a nozzle without a
  default from the open shift's custody, which may be the manager the opening
  form fell back to: he is not among the options, and every save is refused
  until that nozzle is changed. The same holds for a default attendant moved to another pump.
- **Offline queue.** A record that needs attention is skipped by the next sync,
  though the comment at `offline-sync.ts:192` keeps the order; an online save
  overtakes the queue; a record retried again and again starves later ones; a tab
  that did not queue a row never starts on it by its timer, because the timer
  goes by the tab's own last count.
- **Nerve.** A crash between call and consumption leaves the proposal approved and
  the only receipt store empty, so a retry under the same key acts again. Two keys spend one approval in a race (`README.md:26` of the
  platform: "approval consumption"). A key stays in progress for ever when
  `validateApproval` refuses after the claim (`controlled-actions.ts:38`). Two decisions
  written back whole lose one. Two concurrent ingests can queue out of stream
  order (`README.md:30`: "per-stream ordering"); a second event with a sequence number already
  released is never released.
- **Alerts.** A slower refusal recorded over another's success rings again, and so
  does a ring whose SENT record failed, since the same `catch` records it FAILED; a
  crash between claim and result, or a failing record of the failure, leaves a message pending, and a failed one is
  never sent again; low stock has one key per tank and day, so a tank that runs
  from low to empty on one day is told of once.
- **Sessions.** `auth/service.ts` says sessions can be revoked by "signing out, an
  administrator action or a security change"; only signing out does.

## Not modelled

- Sessions, passwords and the throttle's counters: sequential reads and writes of
  rows only their owner uses; deactivation and access are in `Team` and
  `SafeSave`.
- Reports, dashboard, accounting exports and intelligence answers: queries over
  tables the other components write.
- Text extraction, recognition and the invoice parser: heuristics on text whose
  outcome the review replaces; prompts, routing and model calls likewise.
- The iOS application beyond its own keys (`SafeSave`), deployment and scripts.
- Data entry under unique constraints: expenses, categories, taxes, vehicles,
  tanks, dispensers, product creation on the products page.
- Calculations without state: tax, landed prices, denominations, `postJournal`'s
  own balance check, due dates and ageing.
- Several lines per imported document, several tanks per nozzle, the inventory
  branch of approvals, signatures and nonces of the Nerve platform, and the
  schedule on which events are looked for.

## Plan

What would come next: an abstract one-way life of a shift (ADR 010) that
`ShiftMeters` implements, with the proof of that refinement; `GovernedActions`
against an abstract "one authorised action per key"; documents of several lines
in `InvoiceImport`; the loss of in-memory stores in `NerveEvents`.
