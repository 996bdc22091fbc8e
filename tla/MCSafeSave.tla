---------------------------- MODULE MCSafeSave ----------------------------
(* A supplier payment and a metered sale entered in the browser, and an     *)
(* invoice whose number the supplier has used already, sent by the iOS      *)
(* application.  The sale's handler reads the last meter reading before it  *)
(* looks for a receipt; the others' do not.                                 *)
EXTENDS SafeSave
CONSTANTS payment, meteredSale, duplicateInvoice

Saves == {payment, meteredSale, duplicateInvoice}
MeteredSale == {meteredSale}
DuplicateInvoice == {duplicateInvoice}
=============================================================================
