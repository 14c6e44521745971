\* A weekend of reminders: lagging and crashing worker, retries, payments in between.
SPECIFICATION FairSpec
CONSTANTS
  Members = {m1}
  Obligation = 1
  Times <- Weekend
  Tasks = {"gentleObligationReminders", "dailyObligationReminders"}
  MaxEvents = 2
  None = None
INVARIANTS TypeOK GentleDueInAllowedHours AttemptsLimited
PROPERTIES RunRemindsDebtors JobsSettle
CHECK_DEADLOCK FALSE
