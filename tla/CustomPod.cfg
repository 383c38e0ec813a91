SPECIFICATION FairSpec
CONSTANTS
  c = c
  a1 = a1
  a2 = a2
  Accounts = {c, a1, a2}
  Creator = c
  InviteLists <- MCInviteLists
  Accepts = {r1, r2}
  Swaps = {s1}
  Nobody = Nobody
  Concurrency = 2
  MaxCrashes = 1
INVARIANTS
  TypeOK
  ActiveMeansAllAccepted
  MembersHaveAccepted
  OneSeatAndTurnEach
PROPERTIES
  TurnsFollowInvitations
  FullPodIsActivated
CHECK_DEADLOCK FALSE
