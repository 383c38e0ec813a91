------------------------------- MODULE MCParts -------------------------------
(***************************************************************************)
(* The parts that share no state, side by side in one run: the first state *)
(* decides which of them moves, the others rest in a first state of their  *)
(* own.  What each part is started with:                                   *)
(*   calendar      pods that start in any month of 2023 and 2024 (a leap   *)
(*                 year), 12 slots                                         *)
(*   back office   one admin, a role that may edit roles and another       *)
(*   plans         one plan, two pods; the clock ticks once, by more than  *)
(*                 the time to live of the list                            *)
(*   mail          one job for up to three addresses of two people         *)
(*   achievements  one account, one place left for KOAJO_OG or none        *)
(*   listings      one client, pages of one row; two members, of two pods; *)
(*                 three rows, payouts and changes of the date, or two if  *)
(*                 the client filters or sorts                             *)
(***************************************************************************)
EXTENDS PartsWatched, PodCycles, MailRecords, Gregorian, TLC

MCGrants == {{}, {"roles.edit"}}

MCSavings == <<1, 2, 2>>

MCStartMonths == 0..23
MCLastMonth == 47
MCMonthStart == FirstDays(MCLastMonth + 1)

VARIABLES
  part,
  wants,
  tables, clock, walk,
  begun,      \* requests begun
  happened    \* events, failures and crashes

officeVars == vars
mailVars == <<wants, logs, activities, inbox, jobs, accepted, refused>>
walkVars == <<tables, clock, walk>>
watch == <<begun, happened, disturbed>>

Numbers == INSTANCE Dashboard

Post == INSTANCE Mailing WITH
  Recipients <- {"a", "b"}, MaxLogs <- 2

Mine == <<"me", "pod">>

Theirs == <<"another", "late pod">>

Pages == INSTANCE Listings WITH
  Members <- {Mine, Theirs}, Reader <- Mine, Due <- [m \in {Mine, Theirs} |-> IF m = Mine THEN 1 ELSE 0],
  Limits <- {1}, MaxRows <- 3, now <- clock

-----------------------------------------------------------------------------
Resting == kind = "system" /\ cadence = "bi-weekly" /\ start = Utc(0, 1)

PartsInit ==
  /\ part \in {"calendar", "office", "plans", "post", "prizes", "pages"}
  /\ (part # "calendar" => Resting) /\ CyclesInit
  /\ WatchedInit /\ roles["keeper"] = Role({"roles.edit"})
  /\ part # "office" => roles["other"] = NoRole
  /\ PlansInit
  /\ Post!Init /\ (part # "post" => \A a \in DOMAIN wants : wants[a])
  /\ AwardsInit /\ (part # "prizes" => awards = {})
  /\ Pages!Init
  /\ part # "pages" =>
       walk.listing = Pages!ListAdminPods /\ walk.q = Pages!Plain(1) /\ Len(tables["memberships"]) = 2
  /\ begun = 0 /\ happened = 0

\* A step of a part with requests: what begins one, what goes on with one, and
\* what comes from elsewhere.  Watched last, as it counts who is under way.
Begins == begun' = begun + 1 /\ UNCHANGED happened
GoesOn == UNCHANGED <<begun, happened>>
Happens == happened' = happened + 1 /\ UNCHANGED begun

Watched(busy, failed, requestsLeft, eventsLeft, allLeft) ==
  /\ begun' <= requestsLeft /\ happened' <= eventsLeft /\ begun' + happened' <= allLeft
  /\ disturbed' = (disturbed \/ failed \/ Several(busy))

OfficeStep ==
  /\ part = "office"
  /\ \/ \E r \in Requests : Request(r) /\ Begins
     \/ \E r \in Requests : Step(r) /\ GoesOn
     \/ Event /\ Happens
  /\ Watched(Busy', Appointment, 3, 3, 4)
  /\ UNCHANGED <<part, cycleVars, planVars, mailVars, awardVars, walkVars>>

PlansStep ==
  /\ part = "plans"
  /\ \/ \E r \in Requests : Plans!Request(r) /\ Begins
     \/ \E r \in Requests : Plans!Step(r) /\ GoesOn
     \/ Plans!Tick /\ GoesOn
     \/ (Plans!Event \/ Plans!Failure) /\ Happens
  /\ Watched(PlansBusy', JoinFailed, 3, 2, 3)
  /\ UNCHANGED <<part, cycleVars, officeVars, mailVars, awardVars, walkVars>>

PostStep ==
  /\ part = "post"
  /\ \/ \E j \in Jobs : (Post!Request(j) \/ Post!Step(j)) /\ GoesOn
     \/ Post!Event /\ Happens
  /\ Watched({}, FALSE, 0, 2, 2)
  /\ UNCHANGED <<part, cycleVars, officeVars, planVars, awardVars, walkVars>>

PrizesStep ==
  /\ part = "prizes"
  /\ \/ \E r \in Requests : Prizes!Request(r) /\ Begins
     \/ \E r \in Requests : Prizes!Step(r) /\ GoesOn
     \/ (Prizes!Event \/ Prizes!Failure \/ Prizes!Tick) /\ Happens
  /\ Watched(AwardsBusy', AwardFailed, 2, 2, 4)
  /\ UNCHANGED <<part, cycleVars, officeVars, planVars, mailVars, walkVars>>

CalendarStep ==
  /\ part = "calendar"
  /\ CyclesNext
  /\ UNCHANGED <<part, officeVars, planVars, mailVars, awardVars, walkVars, watch>>

PagesStep ==
  /\ part = "pages"
  /\ \/ Pages!Step /\ GoesOn
     \/ Pages!Event /\ Happens
  /\ Watched({}, FALSE, 0, IF walk.q = Pages!Plain(1) THEN 3 ELSE 2, 3)
  /\ UNCHANGED <<part, cycleVars, officeVars, planVars, mailVars, awardVars>>

PartsNext == PagesStep \/ CalendarStep \/ OfficeStep \/ PlansStep \/ PostStep \/ PrizesStep

PartsSpec ==
  PartsInit /\ [][PartsNext]_<<part, cycleVars, officeVars, planVars, mailVars, awardVars, walkVars, watch>>

Interchangeable == Permutations(Requests)

-----------------------------------------------------------------------------
\* See Listings: walks by pages miss nothing.  See Dashboard: its numbers agree
\* on the days that custom pods pay out.
PagesAndNumbersHold ==
  /\ part = "pages" => Pages!PagesHold
  /\ kind = "custom" => Numbers!DashboardFits(payout[cycle])
=============================================================================
