\* One client; its request may fail between its two updates.
SPECIFICATION Spec
CONSTANTS
  Pools = {p1}
  Sessions = {s1}
  Moves = {"purchase"}
  None = None
INVARIANT DeliveryReachesPool
