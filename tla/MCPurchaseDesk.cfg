CONSTANTS
    d1 = d1  d2 = d2
    Desk <- TwoDesks
    Quantity = {1, 2}
    Price = {1, 2}
    None = None
    MaxVersion = 2
    MaxForms = 4
    MaxRequests = 1
SPECIFICATION DeskSpec
SYMMETRY DesksAlike
INVARIANTS PaidWithinTotal
PROPERTIES CorrectsWhatWasSeen
\* The invoice may be settled and every version used.
CHECK_DEADLOCK FALSE
