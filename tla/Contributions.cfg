SPECIFICATION BoundedSpec
CONSTANTS
  LastMonth <- MCLastMonth
  MonthStart <- MCMonthStart
  Members = {m1, m2}
  Intents = {i1, i2}
  Webhooks = {w1}
  Posts = {p1}
  Debit = Debit
  Reminder = Reminder
  Nobody = Nobody
  NoIntent = NoIntent
  cadence = "bi-weekly"
  startDate = 0
  LastDay = 3
  Concurrency = 2
  LastBusyDay = 1
  Crashes = TRUE
SYMMETRY Symmetry
INVARIANTS
  TypeOK
  PaidMeansCollected
  SerialLedgerAgrees
CHECK_DEADLOCK FALSE
