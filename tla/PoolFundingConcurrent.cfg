\* Two clients and two idempotency keys on one pool; nobody sets a target or a status by hand.
SPECIFICATION Spec
SYMMETRY Interchangeable
CONSTANTS
  Pools = {p1}
  Keys = {k1, k2}
  ForeignKeys = {k1, k2}
  Sessions = {s1, s2}
  Amounts = {1, 2}
  Targets = {2}
  Operations = {"createContribution", "deleteContribution", "createPool", "purchasePool", "deliverPool", "deletePool", "deadStockDecay"}
  None = None
INVARIANTS TypeOK PoolBalance FundedMeansFull DoubleSubmitSafe BackedByPayment NoOrphanContribution
PROPERTIES ContributionLifecycle
