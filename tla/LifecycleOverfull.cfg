SPECIFICATION Spec
CONSTANTS
  LastMonth <- MCLastMonth
  MonthStart <- MCMonthStart
  Accounts = {a1, a2}
  Refreshers = {r1}
  Joiners = {j1, j2}
  Pods = {1, 2}
  maxMembers = 1
  FirstDay = 14
  LastDay = 19
  Concurrency = 2
  Crashes = FALSE
  NoDate = NoDate
  Bot = Bot
  Nobody = Nobody
SYMMETRY Symmetry
INVARIANTS
  NeverOverfull
