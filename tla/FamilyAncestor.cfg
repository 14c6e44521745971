\* One client that sends ranks of its own.
SPECIFICATION Spec
CONSTANTS
  Weddings = {w1}
  Users = {u1, u2}
  Sessions = {s1}
  GivenRanks = {"SHAKYRT"}
  RemovalsAlone = TRUE
  Detaching = FALSE
  MaxId = 3
  None = None
INVARIANT AncestorInTree
