\* Two clients submit, resubmit and refund one contribution while targets change.
SPECIFICATION FairSpec
CONSTANTS
  Pools = {p1}
  Keys = {k1}
  ForeignKeys = {k1}
  Sessions = {s1, s2}
  Amounts = {2}
  Targets = {1, 2}
  Operations = {"createContribution", "deleteContribution", "createPool", "updatePool", "deletePool", "deadStockDecay"}
  None = None
INVARIANTS RemainingNonNegative
PROPERTIES EveryRequestAnswered
