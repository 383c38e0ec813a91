SPECIFICATION BoundedSpec
CONSTANTS
  Accounts = {a1, a2}
  Emails = {e1}
  Passwords = {p1, p2}
  VerifyLinks = {v1}
  ResetLinks = {s1, s2}
  Requests = {r1, r2}
  Nobody = Nobody
  NoEmail = NoEmail
  Gone = Gone
  NoLink = NoLink
  Scrambled = Scrambled
  MaxAttempts = 1
  MaxCrashes = 1
  MaxRequests = 5
  MaxEvents = 2
  a1 = a1
  a2 = a2
  p1 = p1
  s1 = s1
  s2 = s2
SYMMETRY Interchangeable
INVARIANTS
  TypeOK
  LinksWorkOnce
  DeletedForGood
  SerialLinksGuarded
PROPERTIES
  PasswordsDecide
CHECK_DEADLOCK FALSE
