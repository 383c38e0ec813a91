SPECIFICATION Spec
CONSTANTS
  LastMonth <- MCLastMonth
  MonthStart <- MCMonthStart
  Members = {m1, m2}
  Intents = {i1, i2, i3}
  Webhooks = {w1}
  Posts = {p1}
  Debit = Debit
  Reminder = Reminder
  Nobody = Nobody
  NoIntent = NoIntent
  cadence = "bi-weekly"
  startDate = 0
  LastDay = 4
  Concurrency = 1
  Crashes = FALSE
SYMMETRY Symmetry
PROPERTIES
  EveryoneDrafted
CHECK_DEADLOCK FALSE
