\* One account used from two browsers, two calls in flight, three bounded events.
SPECIFICATION FairSpec
CONSTANTS
  ann = ann
  bek = bek
  Accounts = {1}
  Emails = {ann, bek}
  Start <- MCStart
  Roles = {"GUEST", "MODERATOR", "COUPLE"}
  Browsers = {b1, b2}
  Calls = {c1, c2}
  Staff = {s1}
  MaxEvents = 3
  None = None
INVARIANTS
  TypeOK
  SessionKept
PROPERTIES
  BrowserCatchesUp
CHECK_DEADLOCK FALSE
