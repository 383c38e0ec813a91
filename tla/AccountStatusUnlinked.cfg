SPECIFICATION BoundedSpec
CONSTANTS
  Accounts = {a1, a2}
  Settled = {a1}
  a1 = a1
  a2 = a2
  Requests = {r1, r2}
  WeeklyJoins = 1
  RapidJoins = 1
  MaxCrashes = 0
  MaxCommands = 4
INVARIANTS
  ChargeableMeansLinked
CHECK_DEADLOCK FALSE
