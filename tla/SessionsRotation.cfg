\* One browser; a page whose access token has run out refreshes it.
SPECIFICATION Spec
CONSTANTS
  ann = ann
  bek = bek
  Accounts = {1}
  Emails = {ann, bek}
  Start <- MCStart
  Roles = {"GUEST", "MODERATOR", "COUPLE"}
  Browsers = {b1}
  Calls = {c1, c2}
  Staff = {s1}
  MaxEvents = 2
  None = None
INVARIANT
  OldTokenRevoked
CHECK_DEADLOCK FALSE
