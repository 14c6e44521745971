\* One browser; its page refreshes its tokens while the owner signs out.
SPECIFICATION Spec
CONSTANTS
  ann = ann
  bek = bek
  Accounts = {1}
  Emails = {ann, bek}
  Start <- MCStart
  Roles = {"GUEST", "MODERATOR", "COUPLE"}
  Browsers = {b1}
  Calls = {c1, c2}
  Staff = {s1}
  MaxEvents = 2
  None = None
INVARIANT
  LogoutRevokes
CHECK_DEADLOCK FALSE
