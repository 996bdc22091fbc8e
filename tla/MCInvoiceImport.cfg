CONSTANTS
    d1 = d1
    d2 = d2
    h1 = h1
    h2 = h2
    t1 = t1
    Nothing = Nothing
    Dialog <- MCDialog
    Hsn <- MCHsn
    Tank <- MCTank
    MaxCode = 2
    MaxProduct = 1
    Reading <- MCReading
    Start <- MCStart
SPECIFICATION TraySpec
SYMMETRY MCSymmetry
INVARIANTS OneInvoicePerDocument PostsWhatWasTicked
PROPERTY HsnStands
