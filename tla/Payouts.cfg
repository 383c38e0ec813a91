SPECIFICATION BoundedSpec
CONSTANTS
  Members = {m1, m2}
  Intents = {i1, i2}
  Triggers = {t1}
  Webhooks = {w1}
  Posts = {p1}
  p1 = p1
  m1 = m1
  i1 = i1
  i2 = i2
  Admins = {a1}
  Nobody = Nobody
  NoIntent = NoIntent
  Concurrency = 2
  MaxCrashes = 1
INVARIANTS
  TypeOK
  BookedOnce
  PaidMeansDelivered
  CompletedMeansAllPaid
  
PROPERTIES
  SerialPayoutPromise
  PaidInTheEnd
CHECK_DEADLOCK FALSE
