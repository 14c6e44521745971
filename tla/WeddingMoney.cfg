\* An administrator, a couple and a contributor, one request after another.
SPECIFICATION Spec
CONSTANTS
  guest = guest
  relative = relative
  couple = couple
  other = other
  moderator = moderator
  admin = admin
  Users = {guest, relative, couple, other, moderator, admin}
  Role <- OneOfEach
  Contributors = {guest, other}
  Relatives = {guest, relative}
  Weddings = {w1}
  Requests = {r1}
  MaxEvents = 4
  None = None
PROPERTY MoneyKeepsPool
CHECK_DEADLOCK FALSE
