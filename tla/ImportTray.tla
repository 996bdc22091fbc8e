------------------------------ MODULE ImportTray -------------------------------
(***************************************************************************)
(* The page a document is imported from: AskNerveBar of                    *)
(* IntelligenceAgentsPage.tsx, which reads the chosen file on the device   *)
(* and keeps it in a tray, with the dialogs that review what was read and  *)
(* preview it, and the confirmation of InvoiceImport.  A dialog is modal:  *)
(* nothing else of the page is reached while one is open.                  *)
(*                                                                         *)
(* The tray holds the one document.  What is read of it counts only as it  *)
(* is kept in the review: the HSN code of the line, and the station it was *)
(* delivered to, without which nothing comes of it but another review.     *)
(* Supplier and invoice number are kept as they are.  The import policy    *)
(* shows as steps not taken.                                               *)
(***************************************************************************)
EXTENDS InvoiceImport

CONSTANT Reading      \* the HSN codes each browser's user may keep in the review

ASSUME TrayAssumption == Reading \in [Dialog -> SUBSET (Hsn \cup {Nothing})]

VARIABLE tray         \* of each browser: the records it loaded, the document, the dialog shown

trayVars == <<start, suppliers, products, invoices, dialogs, byHand, tray>>

-----------------------------------------------------------------------------
\* How far the document is read, reviewed for this station, and submitted.
Status == {"none", "checking", "ocr", "error", "ready", "reviewed", "submitted"}

\* Of the records the page loaded: the supplier found in them, and whether they
\* show his invoice of this number.
Records == [supplier : Code \cup {Nothing}, shown : BOOLEAN]

Tray == [records : Records, status : Status, hsn : Hsn \cup {Nothing},
         at : {"tray", "review", "preview", "confirm"}]

\* Of the invoices come the newest hundred of the stations the user may see.
Loaded == LET s == FindMatchingSupplier(Active)
          IN {[supplier |-> s, shown |-> shown] : shown \in {FALSE, (s \in DOMAIN invoices)}}

EmptyTray(records) == [records |-> records, status |-> "none", hsn |-> Nothing, at |-> "tray"]

TrayTypeOK == /\ ImportTypeOK
              /\ tray \in [Dialog -> Tray]
              /\ \A d \in Dialog : IsOpen(d) => tray[d].at = "confirm"

TrayInit == ImportInit /\ tray \in [Dialog -> {EmptyTray(records) : records \in Loaded}]

-----------------------------------------------------------------------------
(* The tray.                                                               *)

At(d, place) == tray[d].at = place
GoTo(d, place) == tray' = [tray EXCEPT ![d].at = place]
Becomes(d, status) == tray' = [tray EXCEPT ![d].status = status]
RowsStay == UNCHANGED <<start, suppliers, products, invoices, dialogs, byHand>>

\* Another station is chosen, or the page is visited anew: checks are aborted,
\* the tray is emptied and the records are loaded.
SwitchStation(d) ==
    /\ At(d, "tray")
    /\ \E records \in Loaded : tray' = [tray EXCEPT ![d] = EmptyTray(records)]
    /\ RowsStay

\* chooseInvoices: a PDF, or an image.
ChooseInvoice(d) ==
    /\ At(d, "tray") /\ tray[d].status = "none"
    /\ Becomes(d, "checking") \/ Becomes(d, "ocr")
    /\ RowsStay

\* processInvoices, first pass: a PDF has text, is to be recognised, or its
\* reader cannot be loaded.
ReadText(d) ==
    /\ tray[d].status = "checking"
    /\ \E status \in {"ready", "ocr", "error"} : Becomes(d, status)
    /\ RowsStay

\* Second pass.
Recognize(d) ==
    /\ tray[d].status = "ocr"
    /\ Becomes(d, "ready") \/ Becomes(d, "error")
    /\ RowsStay

\* The tray's remove button; a check under way is aborted and comes to nothing.
RemoveInvoice(d) ==
    /\ At(d, "tray") /\ tray[d].status # "none"
    /\ tray' = [tray EXCEPT ![d] = EmptyTray(tray[d].records)]
    /\ RowsStay

-----------------------------------------------------------------------------
(* Reviewing and previewing it.                                            *)

\* InvoiceDetails: not what is submitted or, by the page's records, exists.
Offered(d) == /\ At(d, "tray") /\ tray[d].status \in {"ready", "reviewed"}
              /\ ~tray[d].records.shown

Review(d) == Offered(d) /\ GoTo(d, "review") /\ RowsStay

\* onCancel: the draft stays as it was.
CancelReview(d) == At(d, "review") /\ GoTo(d, "tray") /\ RowsStay

\* onKeep: the draft is for this station, or for another.
KeepDraft(d) ==
    /\ At(d, "review")
    /\ \/ \E hsn \in Reading[d] :
            tray' = [tray EXCEPT ![d] = [tray[d] EXCEPT !.status = "reviewed", !.hsn = hsn, !.at = "tray"]]
       \/ tray' = [tray EXCEPT ![d] = [tray[d] EXCEPT !.status = "ready", !.hsn = Nothing, !.at = "tray"]]
    /\ RowsStay

\* For a draft reviewed, of an invoice for this station.
Preview(d) ==
    /\ Offered(d) /\ tray[d].status = "reviewed"
    /\ GoTo(d, "preview") /\ RowsStay

\* onBack, onClose.
LeavePreview(d) ==
    /\ At(d, "preview")
    /\ GoTo(d, "review") \/ GoTo(d, "tray")
    /\ RowsStay

-----------------------------------------------------------------------------
(* Confirming it.                                                          *)

\* onContinue; the confirmation starts to load.
Continue(d) == At(d, "preview") /\ GoTo(d, "confirm") /\ RowsStay

Load(d) == At(d, "confirm") /\ OpenDialog(d, tray[d].hsn) /\ UNCHANGED tray

\* onBack, onClose, whether or not it has loaded.
Leave(d) ==
    /\ At(d, "confirm")
    /\ GoTo(d, "preview") \/ GoTo(d, "tray")
    /\ \/ CloseDialog(d)
       \/ dialogs[d] = Closed /\ RowsStay

\* onSubmitted: the dialog is gone with the invoice it made or received.
Submitted(d) ==
    LET s == dialogs[d].posting.what.supplier
    IN /\ Commit(d)
       /\ tray' = [tray EXCEPT ![d] =
              [tray[d] EXCEPT !.status = "submitted", !.hsn = Nothing, !.at = "tray",
                        !.records.shown = tray[d].records.shown \/ s = tray[d].records.supplier]]

Prepare(d) == \/ SwitchStation(d) \/ ChooseInvoice(d) \/ ReadText(d) \/ Recognize(d)
              \/ RemoveInvoice(d) \/ Review(d) \/ CancelReview(d) \/ KeepDraft(d)
              \/ Preview(d) \/ LeavePreview(d)

Confirm(d) == \/ Continue(d) \/ Load(d) \/ Leave(d) \/ Submitted(d)
              \/ (Fill(d) \/ Add(d) \/ PostIt(d)) /\ UNCHANGED tray

TrayNext == \/ \E d \in Dialog : Prepare(d) \/ Confirm(d)
            \/ ByHand /\ UNCHANGED tray

TraySpec == TrayInit /\ [][TrayNext]_trayVars
=============================================================================
