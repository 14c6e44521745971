\* Two clients on one gift, fragile or not, with every other change of its pool.
SPECIFICATION Spec
SYMMETRY Interchangeable
CONSTANTS
  Pools = {p1}
  Sessions = {s1, s2}
  Moves = {"fund", "purchase", "deliver", "refund", "edit"}
  None = None
INVARIANTS TypeOK WarningWasSent LastMileWarned
PROPERTIES NothingForgotten
