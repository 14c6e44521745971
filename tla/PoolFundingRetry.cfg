\* One client that retries.
SPECIFICATION Spec
CONSTANTS
  Pools = {p1}
  Keys = {k1}
  ForeignKeys = {k1}
  Sessions = {s1}
  Amounts = {1, 2}
  Targets = {2}
  Operations = {"createPool", "createContribution"}
  None = None
PROPERTY RetryReturnsContribution
