\* One client adds, and an administrator deletes users, with grandchildren too.
SPECIFICATION Spec
CONSTANTS
  Weddings = {w1}
  Users = {u1, u2, u3}
  Sessions = {s1}
  GivenRanks = {}
  RemovalsAlone = TRUE
  Detaching = TRUE
  MaxId = 4
  None = None
INVARIANT TreeAnswers
