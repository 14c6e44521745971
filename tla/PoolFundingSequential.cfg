\* One request at a time, with the worker, failures and restarts.
SPECIFICATION Spec
CONSTANTS
  Pools = {p1}
  Keys = {k1, k2}
  ForeignKeys = {k1}
  Sessions = {s1}
  Amounts = {0, 1, 2}
  Targets = {0, 2, 3}
  Operations = {"createContribution", "deleteContribution", "createPool", "updatePool", "updatePoolStatus", "purchasePool", "deliverPool", "deletePool", "deadStockDecay"}
  None = None
INVARIANTS LedgerExact
PROPERTY ImplementsLedger
