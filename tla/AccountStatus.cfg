SPECIFICATION BoundedSpec
CONSTANTS
  Accounts = {a1, a2}
  Settled = {a1}
  a1 = a1
  a2 = a2
  Requests = {r1, r2}
  WeeklyJoins = 1
  RapidJoins = 1
  MaxCrashes = 1
  MaxCommands = 3
INVARIANTS
  TypeOK
  SerialNoticedOnce
  SerialJoinsBounded
PROPERTIES
  DecisionsFitTheRow
  
CHECK_DEADLOCK FALSE
