\* One wedding and accounts of every role; two requests at once, five events.
SPECIFICATION Spec
CONSTANTS
  guest = guest
  relative = relative
  couple = couple
  other = other
  moderator = moderator
  admin = admin
  Users = {guest, relative, couple, other, moderator, admin}
  Role <- OneOfEach
  Contributors = {guest, other}
  Relatives = {guest, relative}
  Weddings = {w1}
  Requests = {r1, r2}
  MaxEvents = 5
  None = None
INVARIANTS
  TypeOK
  RegistryComplete
  ListedOpens
CHECK_DEADLOCK FALSE
