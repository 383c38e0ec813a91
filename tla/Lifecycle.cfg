SPECIFICATION BoundedFairSpec
CONSTANTS
  LastMonth <- MCLastMonth
  MonthStart <- MCMonthStart
  Accounts = {a1, a2, a3}
  Refreshers = {r1}
  Joiners = {j1, j2}
  j2 = j2
  a1 = a1
  a2 = a2
  a3 = a3
  BusyDays = {16, 17, 18}
  Pods = {1, 2}
  maxMembers = 2
  FirstDay = 14
  LastDay = 19
  Concurrency = 2
  Crashes = TRUE
  NoDate = NoDate
  Bot = Bot
  Nobody = Nobody
INVARIANTS
  TypeOK
  OneMembershipPerAccount
  
  QuietPodsInOrder
PROPERTIES
  QuietRoundPromise
  QuietGraceLeadsToLock
