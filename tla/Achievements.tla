---------------------------- MODULE Achievements ----------------------------
(***************************************************************************)
(* Achievements: awarded at the end of the requests that earn them, each   *)
(* looked for before it is inserted, and summarised with the progress made *)
(* towards those still missing.                                            *)
(***************************************************************************)
EXTENDS Integers, Sequences, FiniteSetsExt

CONSTANTS
  Accounts,
  Others,          \* accounts that may have become a KOAJO_OG before
  Groups,          \* sets of people a pod may consist of
  Expected,        \* contributions of one membership
  CommitmentPods,  \* 3: pods of a COMMITMENT_CHAMP
  VeteranPods,     \* 10: a POD_VETERAN has completed more
  TeamPods,        \* 5: pods of a TEAM_PLAYER with the same people
  Referrals,       \* 3: accepted invites of a REFERRAL_MASTER
  Savings,         \* contributions that make a WEALTH_BUILDER, a SAVINGS_CHAMPION
                   \* and a SIX_FIGURES_ROCKSTAR
  StreakMonths,    \* PERFECT_STREAK_MIN_MONTHS
  OgLimit,         \* 1000: accounts that become a KOAJO_OG
  MaxPods,         \* bound on memberships of an account
  MaxMonth,        \* bound on the clock
  Requests

VARIABLES
  memberships,  \* of each account
  invites,      \* of each account, by custom pod it created: [total, accepted]
  month,        \* the clock
  months,       \* months in which an account has made a contribution
  awards,       \* rows of account_achievements
  requests,
  marked        \* history: accounts whose payouts an admin has marked by hand

vars == <<memberships, invites, month, months, awards, requests, marked>>

Idle == [pc |-> "idle", who |-> "", pod |-> 0, todo |-> <<>>]

Init ==
  /\ memberships = [a \in Accounts |-> <<>>]
  /\ invites = [a \in Accounts |-> <<>>]
  /\ month = 1
  /\ months = [a \in Accounts |-> {}]
  /\ \E first \in SUBSET Others : awards = first \X {"KOAJO_OG"}
  /\ requests = [r \in Requests |-> Idle]
  /\ marked = {}

-----------------------------------------------------------------------------
(***************************************************************************)
(* achievement.helpers.                                                    *)
(***************************************************************************)
completedWithoutMissingContributions(m) == m.paid >= Expected

completedOnTime(m) == m.paid >= Expected /\ ~m.late

sumSuccessfulContributions(a) ==
  Cardinality({ik \in (DOMAIN memberships[a]) \X (1..Expected) : ik[2] <= memberships[a][ik[1]].paid})

computeLongestMonthlyStreak(a) ==
  Max({0} \cup {k \in 1..MaxMonth : \E first \in 1..MaxMonth : first..(first + k - 1) \subseteq months[a]})

-----------------------------------------------------------------------------
(***************************************************************************)
(* The summary.                                                            *)
(***************************************************************************)
PaidOutSeats(a) == {i \in DOMAIN memberships[a] : memberships[a][i].paidOut}

completedPods(a) == Cardinality(PaidOutSeats(a))

CompletedWith(a, g) ==
  Cardinality({i \in PaidOutSeats(a) : memberships[a][i].over /\ memberships[a][i].group = g})

getMaxCompletedPodsWithSameGroup(a) == Max({CompletedWith(a, g) : g \in Groups})

\* Of each achievement what there is and what it takes: the progress is their
\* quotient, at most 1, and the remainder their difference, at least 0.
Standing(a) ==
  LET seats == memberships[a]
      sent == invites[a]
      joined == Len(seats)
      saved == sumSuccessfulContributions(a)
  IN  [POD_STARTER |-> <<joined, 1>>,
       COMMITMENT_CHAMP |-> <<joined, CommitmentPods>>,
       EARLY_BIRD |-> <<Cardinality({i \in DOMAIN seats : seats[i].first}), 1>>,
       FINANCIALLY_FIT |-> <<completedPods(a), 1>>,
       POD_VETERAN |-> <<completedPods(a), VeteranPods + 1>>,
       KOAJO_OG |-> <<completedPods(a), 1>>,
       KOAJO_CONNECTOR |-> <<Cardinality({p \in DOMAIN sent : sent[p].accepted > 0}), 1>>,
       REFERRAL_MASTER |-> <<Cardinality({p \in DOMAIN sent : sent[p].accepted >= Referrals}), 1>>,
       POD_LEADER |-> <<Cardinality({p \in DOMAIN sent : sent[p].accepted = sent[p].total}), 1>>,
       TEAM_PLAYER |-> <<getMaxCompletedPodsWithSameGroup(a), TeamPods>>,
       FIRST_PAYOUT |-> <<completedPods(a), 1>>,
       SAVINGS_SPRINTER |-> <<Cardinality({i \in PaidOutSeats(a) :
                              completedWithoutMissingContributions(seats[i])}), 1>>,
       ON_TIME_HERO |-> <<Cardinality({i \in PaidOutSeats(a) : completedOnTime(seats[i])}), 1>>,
       WEALTH_BUILDER |-> <<saved, Savings[1]>>,
       SAVINGS_CHAMPION |-> <<saved, Savings[2]>>,
       SIX_FIGURES_ROCKSTAR |-> <<saved, Savings[3]>>,
       PERFECT_STREAK |-> <<computeLongestMonthlyStreak(a), StreakMonths>>]

AchievementCode ==
  {"POD_STARTER", "COMMITMENT_CHAMP", "EARLY_BIRD", "FINANCIALLY_FIT", "POD_VETERAN",
   "KOAJO_OG", "KOAJO_CONNECTOR", "POD_LEADER", "TEAM_PLAYER", "REFERRAL_MASTER",
   "FIRST_PAYOUT", "SAVINGS_SPRINTER", "WEALTH_BUILDER", "SIX_FIGURES_ROCKSTAR",
   "ON_TIME_HERO", "PERFECT_STREAK", "SAVINGS_CHAMPION"}

\* Those of which nothing remains: their progress is 1.
Completed(a) ==
  LET standing == Standing(a)
  IN  {code \in AchievementCode : standing[code][1] >= standing[code][2]}

-----------------------------------------------------------------------------
(***************************************************************************)
(* What earns achievements.  Each is committed by its own handler, which   *)
(* then calls the achievement service.                                     *)
(***************************************************************************)
Begin(r, pc, a, pod) ==
  /\ requests[r] = Idle
  /\ requests' = [requests EXCEPT ![r] = [Idle EXCEPT !.pc = pc, !.who = a, !.pod = pod]]

TakeSeat(a, first, group, custom) ==
  /\ Len(memberships[a]) < MaxPods
  /\ memberships' = [memberships EXCEPT ![a] =
       Append(@, [first |-> first, group |-> group, custom |-> custom, paidOut |-> FALSE,
                  over |-> FALSE, paid |-> 0, late |-> FALSE])]

JoinPod(r, a, first, group) ==
  /\ TakeSeat(a, first, group, FALSE)
  /\ Begin(r, "joined", a, Len(memberships'[a]))
  /\ UNCHANGED <<invites, month, months, awards, marked>>

\* Neither the creator of a custom pod nor those who accept an invite are given
\* what a join earns; they take the same seats nevertheless.
SitInCustomPod(a, group) ==
  /\ TakeSeat(a, FALSE, group, TRUE)
  /\ UNCHANGED <<invites, month, months, awards, requests, marked>>

CreateCustomPod(a, group, total) ==
  /\ TakeSeat(a, TRUE, group, TRUE)
  /\ invites' = [invites EXCEPT ![a] = Append(@, [total |-> total, accepted |-> 0])]
  /\ UNCHANGED <<month, months, awards, requests, marked>>

AcceptInvite(r, a, p) ==
  /\ p \in DOMAIN invites[a] /\ invites[a][p].accepted < invites[a][p].total
  /\ invites' = [invites EXCEPT ![a][p].accepted = @ + 1]
  /\ Begin(r, "accepted", a, p)
  /\ UNCHANGED <<memberships, month, months, awards, marked>>

CompleteMembership(r, a, i) ==
  /\ i \in DOMAIN memberships[a] /\ ~memberships[a][i].paidOut
  /\ memberships' = [memberships EXCEPT ![a][i].paidOut = TRUE]
  /\ Begin(r, "completed", a, i)
  /\ UNCHANGED <<invites, month, months, awards, marked>>

\* The last member of the pod has been paid out.
CompletePod(a, i) ==
  /\ i \in DOMAIN memberships[a] /\ memberships[a][i].paidOut /\ ~memberships[a][i].over
  /\ memberships' = [memberships EXCEPT ![a][i].over = TRUE]
  /\ UNCHANGED <<invites, month, months, awards, requests, marked>>

\* A contribution, in its window or late, whether or not the member has had the
\* payout.
RecordPayment(r, a, i, late) ==
  /\ i \in DOMAIN memberships[a] /\ memberships[a][i].paid < Expected
  /\ memberships' = [memberships EXCEPT ![a][i].paid = @ + 1, ![a][i].late = @ \/ late]
  /\ months' = [months EXCEPT ![a] = @ \cup {month}]
  /\ Begin(r, "paid", a, i)
  /\ UNCHANGED <<invites, month, awards, marked>>

\* MarkPodMembershipPaid calls no achievement service.
MarkPayout(a, i) ==
  /\ i \in DOMAIN memberships[a]
  /\ memberships' = [memberships EXCEPT ![a][i].paidOut = ~@]
  /\ marked' = marked \cup {a}
  /\ UNCHANGED <<invites, month, months, awards, requests>>

Tick ==
  /\ month < MaxMonth
  /\ month' = month + 1
  /\ UNCHANGED <<memberships, invites, months, awards, requests, marked>>

-----------------------------------------------------------------------------
(***************************************************************************)
(* AchievementService.                                                     *)
(***************************************************************************)
\* The code of an achievement if its condition holds.
Earned(code, condition) == IF condition THEN <<code>> ELSE <<>>

Evaluate(r, pc, todo) ==
  /\ requests[r].pc = pc
  /\ requests' = [requests EXCEPT ![r].pc = "award", ![r].todo = todo]
  /\ UNCHANGED <<memberships, invites, month, months, awards, marked>>

\* pastMembershipCount is what has been counted after the join, less one.
handlePodJoin(r) ==
  LET a == requests[r].who
      past == Len(memberships[a]) - 1
  IN  Evaluate(r, "joined",
        Earned("POD_STARTER", past = 0) \o Earned("COMMITMENT_CHAMP", past + 1 >= CommitmentPods)
        \o Earned("EARLY_BIRD", memberships[a][requests[r].pod].first))

\* Mutant: as many pods as it takes more than.
MutIsVeteran(n) == n >= VeteranPods

IsVeteran(n) == n > VeteranPods

\* The last two are decided by the contributions made when their turn comes.
handlePodCompletion(r) ==
  LET n == completedPods(requests[r].who)
  IN  Evaluate(r, "completed",
        Earned("FINANCIALLY_FIT", n >= 1) \o Earned("POD_VETERAN", IsVeteran(n))
        \o Earned("TEAM_PLAYER", n >= TeamPods) \o Earned("FIRST_PAYOUT", n = 1)
        \o <<"SAVINGS_SPRINTER", "ON_TIME_HERO">>)

handleCustomPodInviteProgress(r) ==
  LET p == invites[requests[r].who][requests[r].pod]
  IN  Evaluate(r, "accepted",
        Earned("KOAJO_CONNECTOR", p.accepted >= 1)
        \o Earned("REFERRAL_MASTER", p.accepted >= Referrals)
        \o Earned("POD_LEADER", p.accepted = p.total))

handleSuccessfulPayment(r) ==
  LET a == requests[r].who
      saved == sumSuccessfulContributions(a)
  IN  Evaluate(r, "paid",
        Earned("WEALTH_BUILDER", saved >= Savings[1])
        \o Earned("SAVINGS_CHAMPION", saved >= Savings[2])
        \o Earned("SIX_FIGURES_ROCKSTAR", saved >= Savings[3])
        \o Earned("PERFECT_STREAK", computeLongestMonthlyStreak(a) >= StreakMonths))

\* Conditions that read the database when their turn comes.
Deserved(q) ==
  LET m == memberships[q.who][q.pod]
      code == Head(q.todo)
  IN  /\ code = "TEAM_PLAYER" => \E g \in Groups : CompletedWith(q.who, g) >= TeamPods
      /\ code = "SAVINGS_SPRINTER" => completedWithoutMissingContributions(m)
      /\ code = "ON_TIME_HERO" => completedOnTime(m)

Onward(q) == [q EXCEPT !.pc = "award", !.todo = Tail(@)]

\* award: the row is looked for ...
FindAward(r) ==
  LET q == requests[r]
  IN  /\ q.pc = "award" /\ q.todo # <<>>
      /\ requests' = [requests EXCEPT ![r] =
           IF <<q.who, Head(q.todo)>> \in awards \/ ~Deserved(q) THEN Onward(q)
           ELSE [q EXCEPT !.pc = "insert"]]
      /\ UNCHANGED <<memberships, invites, month, months, awards, marked>>

\* ... and inserted, which fails the whole request if somebody else has done it.
Clashes(r) ==
  requests[r].pc = "insert" /\ <<requests[r].who, Head(requests[r].todo)>> \in awards

InsertAward(r) ==
  LET q == requests[r]
  IN  /\ q.pc = "insert" /\ ~Clashes(r)
      /\ awards' = awards \cup {<<q.who, Head(q.todo)>>}
      /\ requests' = [requests EXCEPT ![r] =
           IF Head(q.todo) = "FINANCIALLY_FIT" THEN [q EXCEPT !.pc = "count"] ELSE Onward(q)]
      /\ UNCHANGED <<memberships, invites, month, months, marked>>

\* Those who are newly FINANCIALLY_FIT are counted for KOAJO_OG.
CountOg(r) ==
  LET q == requests[r]
  IN  /\ q.pc = "count"
      /\ requests' = [requests EXCEPT ![r] =
           IF Cardinality({w \in awards : w[2] = "KOAJO_OG"}) < OgLimit
           THEN [q EXCEPT !.pc = "award", !.todo = <<"KOAJO_OG">> \o Tail(@)]
           ELSE Onward(q)]
      /\ UNCHANGED <<memberships, invites, month, months, awards, marked>>

EndRequest(r) ==
  /\ requests[r].pc = "award" /\ requests[r].todo = <<>>
  /\ requests' = [requests EXCEPT ![r] = Idle]
  /\ UNCHANGED <<memberships, invites, month, months, awards, marked>>

\* The request fails after its own work is committed: on such a row, or because
\* the notification of an award cannot be stored, or with the process.
Fail(r) ==
  /\ requests[r] # Idle
  /\ requests' = [requests EXCEPT ![r] = Idle]
  /\ UNCHANGED <<memberships, invites, month, months, awards, marked>>

-----------------------------------------------------------------------------
Request(r) ==
  \E a \in Accounts :
    \/ \E first \in BOOLEAN, g \in Groups : JoinPod(r, a, first, g)
    \/ \E i \in 1..MaxPods :
         \/ CompleteMembership(r, a, i) \/ AcceptInvite(r, a, i)
         \/ \E late \in BOOLEAN : RecordPayment(r, a, i, late)

Step(r) ==
  \/ handlePodJoin(r) \/ handlePodCompletion(r) \/ handleCustomPodInviteProgress(r)
  \/ handleSuccessfulPayment(r)
  \/ FindAward(r) \/ InsertAward(r) \/ CountOg(r) \/ EndRequest(r)

Failure == \E r \in Requests : Fail(r)

Event ==
  \E a \in Accounts :
    \/ \E g \in Groups :
         \/ SitInCustomPod(a, g)
         \/ \E total \in 1..Referrals : CreateCustomPod(a, g, total)
    \/ \E i \in 1..MaxPods : CompletePod(a, i) \/ MarkPayout(a, i)

Next == (\E r \in Requests : Request(r) \/ Step(r)) \/ Failure \/ Event \/ Tick

Spec == Init /\ [][Next]_vars

-----------------------------------------------------------------------------
\* What is awarded the summary would show as complete, however requests overlap:
\* the service and the summary decide by code of their own.
AwardedMeansComplete ==
  \A a \in Accounts \ marked : {w[2] : w \in {x \in awards : x[1] = a}} \subseteq Completed(a)

\* Achievements that a complete account has for sure.  KOAJO_OG runs out;
\* TEAM_PLAYER, SAVINGS_SPRINTER and ON_TIME_HERO are decided at a payout, which
\* pods and contributions outlast; joins count for little after a custom pod.
Lasting(a) ==
  AchievementCode \ ({"KOAJO_OG", "TEAM_PLAYER", "SAVINGS_SPRINTER", "ON_TIME_HERO"} \cup
    IF \E i \in DOMAIN memberships[a] : memberships[a][i].custom
    THEN {"POD_STARTER", "COMMITMENT_CHAMP", "EARLY_BIRD"} ELSE {})

\* Promised when requests come one at a time and do not fail: what is complete
\* is awarded, and KOAJO_OG no more often than there are places.
CompleteMeansAwarded ==
  /\ \A a \in Accounts \ marked :
       (\A r \in Requests : requests[r].who # a) =>
         \A code \in Completed(a) \cap Lasting(a) : <<a, code>> \in awards
  /\ Cardinality({w \in awards : w[2] = "KOAJO_OG"}) <= OgLimit
=============================================================================
