SPECIFICATION DeskSpec
CONSTANTS
  Invoices = {i1, i2}
  MaxTime = 2
  Costs = {1, 2}
  Sellings = {3}
  OpeningCost = 1
  OpeningSelling = 2
  MaxEdits = 1
  FormDates = {None, 1}
  None = None
SYMMETRY Alike
\* Every invoice may be priced and the bounds reached.
CHECK_DEADLOCK FALSE
INVARIANTS RowIsPriceInForce
PROPERTIES OwnerPriceTakesEffect InvoiceKeepsMargin FormChangesWhatWasTyped
