---------------------------- MODULE PartsWatched ----------------------------
(***************************************************************************)
(* Plans and achievements beside the back office, watched like it for      *)
(* requests that overlap or fail after what they did is committed: part of *)
(* what they promise is promised only to requests that come one at a time. *)
(***************************************************************************)
EXTENDS AdminAccessWatched, FiniteSets

CONSTANTS
  Codes, Defaults, Sizes, DefaultSize, Ttl, MaxPods, MaxTime,
  Accounts, Others, Groups, Expected, CommitmentPods, VeteranPods, TeamPods, Referrals, Savings,
  StreakMonths, OgLimit, MaxSeats, MaxMonth

VARIABLES
  plans, pods, cache, now, planRequests, signed, changed, served,
  memberships, invites, month, months, awards, awardRequests, marked

ASSUME PlansAssumption == Defaults \subseteq Codes /\ Ttl \in Nat

ASSUME PrizesAssumption ==
  /\ Groups # {} /\ Others \cap Accounts = {}
  /\ IsFiniteSet(Others) /\ Cardinality(Others) <= OgLimit
  /\ {CommitmentPods, Referrals, StreakMonths} \subseteq Nat \ {0}
  /\ {Expected, VeteranPods, TeamPods, OgLimit, MaxMonth} \subseteq Nat
  /\ Savings \in [1..3 -> Nat \ {0}]

\* Nobody's account.
ASSUME AccountsAssumption == "" \notin Accounts

Plans == INSTANCE PodPlans WITH requests <- planRequests

Prizes == INSTANCE Achievements WITH MaxPods <- MaxSeats, requests <- awardRequests

planVars == <<plans, pods, cache, now, planRequests, signed, changed, served>>
awardVars == <<memberships, invites, month, months, awards, awardRequests, marked>>

Several(busy) == \E r, s \in busy : r # s

-----------------------------------------------------------------------------
PlansBusy == {r \in Requests : planRequests[r] # Plans!Idle}

\* A join fails, rather than that it ends and finds nothing cached to drop.
JoinFailed == Plans!Failure /\ ~\E r \in Requests : Plans!EndJoin(r)

PlansInit == Plans!Init /\ disturbed = FALSE

PlansNext ==
  Plans!Next /\ disturbed' = (disturbed \/ JoinFailed \/ Several(PlansBusy'))

PlansSpec == PlansInit /\ [][PlansNext]_<<planVars, disturbed>>

\* See PodPlans: lists of open pods catch up within their time to live, whatever
\* overlaps; one at a time, plans with members stay as they are and what is
\* cached is what is open.
PlansHold ==
  /\ Plans!ListsCatchUp
  /\ disturbed \/ (Plans!PlansOfMembersKept /\ Plans!CacheIsCurrent)

-----------------------------------------------------------------------------
AwardsBusy == {r \in Requests : awardRequests[r] # Prizes!Idle}

\* A request fails, rather than that it ends with nothing left to award.
AwardFailed == Prizes!Failure /\ ~\E r \in Requests : Prizes!EndRequest(r)

AwardsInit == Prizes!Init /\ disturbed = FALSE

AwardsNext ==
  Prizes!Next /\ disturbed' = (disturbed \/ AwardFailed \/ Several(AwardsBusy'))

AwardsSpec == AwardsInit /\ [][AwardsNext]_<<awardVars, disturbed>>

\* See Achievements: what is awarded is complete and, one request at a time, what
\* is complete is awarded, within the limit of KOAJO_OG.
AwardsFitProgress ==
  /\ Prizes!AwardedMeansComplete
  /\ disturbed \/ Prizes!CompleteMeansAwarded
=============================================================================
