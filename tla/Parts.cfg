SPECIFICATION PartsSpec
CONSTANTS
  Admins = {"admin"}
  Roles = {"keeper", "other"}
  Grants <- MCGrants
  MaxLinks = 2
  MaxAttempts = 2
  Requests = {r1, r2}
  Nobody = Nobody
  Codes = {"100-12"}
  Defaults = {"100-12"}
  Sizes = {1}
  DefaultSize = 2
  Ttl = 0
  MaxPods = 2
  MaxTime = 1
  Accounts = {"a"}
  Others = {"b"}
  Groups = {"g"}
  Expected = 2
  CommitmentPods = 2
  VeteranPods = 1
  TeamPods = 1
  Referrals = 2
  Savings <- MCSavings
  StreakMonths = 2
  OgLimit = 1
  MaxSeats = 2
  MaxMonth = 2
  LastMonth <- MCLastMonth
  MonthStart <- MCMonthStart
  StartMonths <- MCStartMonths
  Slots = 12
  Jobs = {"job"}
SYMMETRY Interchangeable
INVARIANTS
  
  OfficeInOrder
  PlansHold
  PagesAndNumbersHold
  MailRecordsHold
  
\* Requests and events are limited, so that each part comes to an end.
CHECK_DEADLOCK FALSE
