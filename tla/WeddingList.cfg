\* One request after another: a guest asks for the list of all pools.
SPECIFICATION Spec
CONSTANTS
  guest = guest
  relative = relative
  couple = couple
  other = other
  moderator = moderator
  admin = admin
  Users = {guest, relative, couple, other, moderator, admin}
  Role <- OneOfEach
  Contributors = {guest, other}
  Relatives = {guest, relative}
  Weddings = {w1}
  Requests = {r1}
  MaxEvents = 5
  None = None
INVARIANT GuestListOpens
CHECK_DEADLOCK FALSE
