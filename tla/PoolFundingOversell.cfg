\* Two concurrent contributions to one pool.
SPECIFICATION Spec
CONSTANTS
  Pools = {p1}
  Keys = {k1, k2}
  ForeignKeys = {k1}
  Sessions = {s1, s2}
  Amounts = {1, 2}
  Targets = {2}
  Operations = {"createPool", "createContribution"}
  None = None
INVARIANT NoOverselling
