----------------------------- MODULE PodCycles -----------------------------
(***************************************************************************)
(* The calendar of one pod's life: the contribution windows its            *)
(* nextContributionDate visits when every contribution is made, beside the *)
(* payout dates handed out when it locked.  One step is one cycle.         *)
(***************************************************************************)
EXTENDS PodCalendar

CONSTANTS StartMonths,  \* months a pod may start in
          Slots         \* members of the pod, so payouts to make

\* The calendar is long enough: no cycle takes more than two months.
ASSUME CyclesAssumption ==
  /\ Slots \in Nat \ {0}
  /\ StartMonths \subseteq Month
  /\ \A m \in StartMonths : m + 2 * Slots <= LastMonth

PodKind == {"system", "custom"}

VARIABLES kind,     \* pod.type
          cadence,  \* pod.cadence; system pods contribute bi-weekly
          start,    \* pod.startDate
          payout,   \* memberships' payoutDate, by finalOrder
          cycle,    \* the cycle under way, 1..Slots
          window    \* pod.nextContributionDate

cycleVars == <<kind, cadence, start, payout, cycle, window>>

\* A pod starts on the first day of one of its contribution windows.
FirstWindows(c) ==
  {Utc(m, 1) : m \in StartMonths}
    \cup (IF c = "bi-weekly" THEN {Utc(m, 16) : m \in StartMonths} ELSE {})

\* The payout dates written to the memberships when the pod locks.
Schedule ==
  IF kind = "system" THEN generatePayoutSchedule(start, Slots)
  ELSE generateCustomPayoutSchedule(cadence, start, Slots)

CyclesInit ==
  /\ kind \in PodKind
  /\ cadence \in (IF kind = "system" THEN {"bi-weekly"} ELSE Cadence)
  /\ start \in FirstWindows(cadence)
  /\ payout = Schedule
  /\ cycle = 1
  /\ window = start

advanceNextContributionDate ==
  /\ cycle < Slots
  /\ cycle' = cycle + 1
  /\ window' = nextContributionWindowStart(window, cadence)
  /\ UNCHANGED <<kind, cadence, start, payout>>

\* The pod has made its last payout and starts no further cycle.
Finished == cycle = Slots /\ UNCHANGED cycleVars

CyclesNext == advanceNextContributionDate \/ Finished

CyclesSpec == CyclesInit /\ [][CyclesNext]_cycleVars

-----------------------------------------------------------------------------
CyclesTypeOK ==
  /\ kind \in PodKind
  /\ cadence \in Cadence
  /\ start \in Day
  /\ payout \in [1..Slots -> Day]
  /\ cycle \in 1..Slots
  /\ window \in Day

IsWindowStart(d) == resolveContributionWindowStart(d, cadence) = d

\* A February.
IsShort(m) == DaysIn(m) < 30

\* nextContributionDate stays on the first day of a contribution window and
\* never runs behind the cycle's place in the calendar: the n-th contribution
\* is never collected before n - 1 whole windows have passed.
WindowsAligned ==
  /\ IsWindowStart(window)
  /\ window >= start + (cycle - 1) * (IF cadence = "monthly" THEN 28 ELSE 13)

\* Away from February the two halves of the calendar agree although different
\* helpers compute them: the n-th payout date handed out at lock time comes
\* after the n-th contribution window closes and before the next one opens, so
\* each payout is funded by exactly the contributions made until then.
PayoutFollowsItsWindow ==
  (\A m \in MonthOf(start) .. MonthOf(payout[cycle]) : ~IsShort(m)) =>
    /\ window + 2 < payout[cycle]
    /\ payout[cycle] < nextContributionWindowStart(window, cadence)
    /\ payout[cycle] = computeNextPayoutAnchor(window, cadence)

\* No two members of a system pod are paid out on the same date and none waits
\* noticeably longer than half a month for the turn after the previous one's,
\* February's overflow into March included.
PayoutsEvenlySpaced ==
  kind = "system" =>
    \A i \in 1..(Slots - 1) : payout[i + 1] - payout[i] \in 13..16

\* A custom pod's contributions are judged on time by the windows that it visits,
\* away from February.  (A system pod's are not: see PodLifecycleProofs.)
JudgedByItsWindows ==
  kind = "custom" /\ ~IsShort(MonthOf(window)) =>
    NextJudgedWindow(kind, cadence, window) = nextContributionWindowStart(window, cadence)

\* The helpers for dates that are called at different times of a pod's life
\* agree: about contribution windows, about payout dates, and about which payout
\* each contribution is for and when it was due.
CalendarAgrees ==
  WindowsAligned /\ PayoutFollowsItsWindow /\ PayoutsEvenlySpaced /\ JudgedByItsWindows

=============================================================================
