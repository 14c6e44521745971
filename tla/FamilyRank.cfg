\* One client adds a line of four.
SPECIFICATION Spec
CONSTANTS
  Weddings = {w1}
  Users = {u1, u2, u3, u4}
  Sessions = {s1}
  GivenRanks = {}
  RemovalsAlone = TRUE
  Detaching = FALSE
  MaxId = 4
  None = None
INVARIANT RankAtThree
