---------------------------- MODULE MCInvoiceImport ----------------------------
\* Two browsers, two codes of one name, two readings of the HSN, one tank.
EXTENDS ImportTray, TLC

CONSTANTS d1, d2, h1, h2, t1

MCDialog == {d1, d2}
MCHsn == {h1, h2}
MCTank == {t1}
MCReading == [d \in MCDialog |-> MCHsn \cup {Nothing}]
MCSymmetry == Permutations(MCDialog) \cup Permutations(MCHsn)
\* Nothing is known; the supplier only by GSTIN, and the product is edited by
\* hand; one of his name is no longer active, the document shows no GSTIN, and
\* a supplier is changed by hand.
MCProducts == 1 :> [named |-> TRUE, hsn |-> Nothing, tankLinked |-> TRUE]
MCStart ==
    {[gstin |-> TRUE, suppliers |-> <<>>, products |-> <<>>, byHand |-> {}],
     [gstin |-> TRUE, products |-> MCProducts, byHand |-> {"product"},
      suppliers |-> 0 :> [named |-> FALSE, taxId |-> TRUE, active |-> TRUE]],
     [gstin |-> FALSE, products |-> MCProducts, byHand |-> {"supplier"},
      suppliers |-> 1 :> [named |-> TRUE, taxId |-> FALSE, active |-> FALSE]]}
=============================================================================
