\* An administrator and the worker replace rates beside two contributions, three moments, four events.
SPECIFICATION Spec
SYMMETRY Interchangeable
CONSTANTS
  Currencies = {"USD", "EUR", "RUB"}
  WorkerPairs <- UsdEur
  Admins = {a1}
  Workers = {w1}
  Guests = {g1, g2}
  MaxTime = 2
  MaxEvents = 4
  None = None
INVARIANTS
  TypeOK
  QuoteIsNewest
  GapOnlyInUpdates
PROPERTY HistoryFixed
CHECK_DEADLOCK FALSE
