CONSTANTS
    payment = payment
    duplicateInvoice = duplicateInvoice
    meteredSale = meteredSale
    Save <- Saves
    Guarded <- MeteredSale
    Clashing <- DuplicateInvoice
    Native <- DuplicateInvoice
    Key = {k1, k2}
    Handler = {h1, h2}
    None = None
    MaxFaults = 2
SPECIFICATION FairSpec
INVARIANTS SecondEffectNeedsRefusal
PROPERTIES RefusedWasNotPosted Settles ImplementsSaveOnce
\* Every save may be settled with no key left to draw.
CHECK_DEADLOCK FALSE
