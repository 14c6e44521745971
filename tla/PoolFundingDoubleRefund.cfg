\* One contribution on one pool, and two refunds of it that overlap.
SPECIFICATION Spec
SYMMETRY Interchangeable
CONSTANTS
  Pools = {p1}
  Keys = {k1}
  ForeignKeys = {k1}
  Sessions = {s1, s2}
  Amounts = {2}
  Targets = {2}
  Operations = {"createContribution", "deleteContribution", "createPool"}
  None = None
INVARIANTS RefundedOnce
