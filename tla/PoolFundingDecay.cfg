\* One request at a time beside the decay job.
SPECIFICATION Spec
CONSTANTS
  Pools = {p1}
  Keys = {k1, k2}
  ForeignKeys = {k1}
  Sessions = {s1}
  Amounts = {1, 2}
  Targets = {2}
  Operations = {"createPool", "createContribution", "updatePoolStatus", "deadStockDecay"}
  None = None
PROPERTY DecaySparesFundedPools
