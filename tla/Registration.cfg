\* Two addresses, two requests at once, five requests, deletions and crashes in all.
SPECIFICATION Spec
CONSTANTS
  Emails = {ann, bek}
  Requests = {r1, r2}
  MaxEvents = 5
  None = None
SYMMETRY Symmetry
INVARIANTS
  TypeOK
  OwnSecrets
  SpentLinks
  NobodyStranded
CHECK_DEADLOCK FALSE
