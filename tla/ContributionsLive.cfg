SPECIFICATION FairSpec
CONSTANTS
  LastMonth <- MCLastMonth
  MonthStart <- MCMonthStart
  Members = {m1}
  Intents = {i1, i2}
  Webhooks = {w1}
  Posts = {}
  Debit = Debit
  Reminder = Reminder
  Nobody = Nobody
  NoIntent = NoIntent
  cadence = "bi-weekly"
  startDate = 0
  LastDay = 1
  Concurrency = 2
  Crashes = FALSE
INVARIANTS
  OneDebitInFlight

  
CHECK_DEADLOCK FALSE
