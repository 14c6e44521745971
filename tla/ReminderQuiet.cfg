\* The daily reminder runs every day of the week.
SPECIFICATION Spec
CONSTANTS
  Members = {m1}
  Obligation = 1
  Times <- Weekend
  Tasks = {"dailyObligationReminders"}
  MaxEvents = 0
  None = None
PROPERTY RemindersInAllowedHours
CHECK_DEADLOCK FALSE
