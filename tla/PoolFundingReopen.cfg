\* One request at a time, refunds after delivery.
SPECIFICATION Spec
CONSTANTS
  Pools = {p1}
  Keys = {k1}
  ForeignKeys = {k1}
  Sessions = {s1}
  Amounts = {1, 2}
  Targets = {2}
  Operations = {"createPool", "createContribution", "deleteContribution", "purchasePool", "deliverPool"}
  None = None
PROPERTY DeliveredIsFinal
