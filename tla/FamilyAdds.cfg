\* Two clients add to one tree at once, with removals and deleted users between; ranks are computed.
SPECIFICATION Spec
SYMMETRY Interchangeable
CONSTANTS
  Weddings = {w1}
  Users = {u1, u2, u3, u4}
  Sessions = {s1, s2}
  GivenRanks = {}
  RemovalsAlone = TRUE
  Detaching = FALSE
  MaxId = 4
  None = None
INVARIANTS TypeOK TreeAnswers HierarchyComplete DistanceCurrent
