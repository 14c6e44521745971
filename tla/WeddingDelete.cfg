\* One request after another: a couple deletes its wedding.
SPECIFICATION Spec
CONSTANTS
  guest = guest
  relative = relative
  couple = couple
  other = other
  moderator = moderator
  admin = admin
  Users = {guest, relative, couple, other, moderator, admin}
  Role <- OneOfEach
  Contributors = {guest, other}
  Relatives = {guest, relative}
  Weddings = {w1}
  Requests = {r1}
  MaxEvents = 5
  None = None
PROPERTY EmptyWeddingDeleted
CHECK_DEADLOCK FALSE
