---------------------------- MODULE PodCalendar ----------------------------
(***************************************************************************)
(* The date arithmetic of src/src/modules/pods/pod.utils.ts.               *)
(*                                                                         *)
(* A date is a day number (all dates of the module are midnights UTC, and  *)
(* startOfDay truncates to one).  MonthStart[m] is the day number of the   *)
(* first day of month m: with it `new Date(Date.UTC(year, month, day))' is *)
(* plain addition, a day number past the end of the month running over     *)
(* into the next one exactly as in JavaScript.                             *)
(***************************************************************************)
EXTENDS Integers, Sequences

CONSTANTS LastMonth,   \* the calendar covers months 0..LastMonth+1
          MonthStart   \* first day of each month

Month == 0..LastMonth

Day == MonthStart[0] .. (MonthStart[LastMonth + 1] - 1)

DaysIn(m) == MonthStart[m + 1] - MonthStart[m]

ASSUME CalendarAssumption ==
  /\ LastMonth \in Nat
  /\ MonthStart \in [0..(LastMonth + 1) -> Int]
  /\ \A m \in Month : DaysIn(m) \in 28..31
  /\ \A m, n \in 0..(LastMonth + 1) : m < n => MonthStart[m] < MonthStart[n]
  /\ \A d \in Day : \E m \in Month : d \in MonthStart[m] .. (MonthStart[m + 1] - 1)

MonthOf(d) == CHOOSE m \in Month : d \in MonthStart[m] .. (MonthStart[m + 1] - 1)

DayOfMonth(d) == d - MonthStart[MonthOf(d)] + 1

\* Date.UTC(year, month, day), which does not clamp the day to the month.
Utc(m, day) == MonthStart[m] + day - 1

addDays(d, n) == d + n

(***************************************************************************)
(* System pods: start dates and payout dates.                              *)
(***************************************************************************)
computeNextStartDate(from) ==
  LET m == MonthOf(from)
      day == DayOfMonth(from)
  IN  IF day <= 3 THEN Utc(m, 1)
      ELSE IF day <= 18 THEN Utc(m, 16)
      ELSE Utc(m + 1, 1)

nextStartWindow(after) == computeNextStartDate(addDays(after, 1))

\* The `advance' closure of generatePayoutSchedule.
NextPayoutDay(d) ==
  LET m == MonthOf(d)
      day == DayOfMonth(d)
  IN  IF day < 15 THEN Utc(m, 15)
      ELSE IF day < 30 THEN Utc(m, 30)
      ELSE Utc(m + 1, 15)

generatePayoutSchedule(startDate, slotCount) ==
  LET slot[i \in Nat] == IF i <= 1 THEN NextPayoutDay(startDate)
                                   ELSE NextPayoutDay(slot[i - 1])
  IN  [i \in 1..slotCount |-> slot[i]]

(***************************************************************************)
(* Contribution windows, shared by system pods (bi-weekly) and custom pods.*)
(***************************************************************************)
Cadence == {"bi-weekly", "monthly"}

\* dateWithDay: the day clamped to the length of the month.
dateWithDay(m, day) == Utc(m, IF day <= DaysIn(m) THEN day ELSE DaysIn(m))

isWithinContributionWindow(d, cadence) ==
  \/ DayOfMonth(d) \in 1..3
  \/ cadence = "bi-weekly" /\ DayOfMonth(d) \in 16..18

resolveContributionWindowStart(d, cadence) ==
  LET m == MonthOf(d)
      day == DayOfMonth(d)
  IN  IF day <= 3 THEN dateWithDay(m, 1)
      ELSE IF cadence = "bi-weekly" /\ day <= 18 THEN dateWithDay(m, 16)
      ELSE dateWithDay(m + 1, 1)

nextContributionWindowStart(current, cadence) ==
  resolveContributionWindowStart(
    addDays(current, IF cadence = "monthly" THEN 32 ELSE 17), cadence)

\* Mutant: the monthly anchor of the next month.
MutAnchorOfNextMonth(start, cadence) ==
  IF cadence = "monthly" THEN dateWithDay(MonthOf(start) + 1, 30)
  ELSE dateWithDay(MonthOf(start), IF DayOfMonth(start) <= 3 THEN 15 ELSE 30)

\* The recursive call of the last line only ever sees a window's first day.
computeNextPayoutAnchor(start, cadence) ==
  LET Anchor(d) == dateWithDay(MonthOf(d), IF DayOfMonth(d) <= 3 THEN 15 ELSE 30)
  IN  IF cadence = "monthly" THEN dateWithDay(MonthOf(start), 30)
      ELSE IF isWithinContributionWindow(start, cadence) THEN Anchor(start)
      ELSE Anchor(resolveContributionWindowStart(addDays(start, 1), cadence))

\* The loop bodies of generateCustomPayoutSchedule.
NextCustomPayoutDay(d, cadence) ==
  IF cadence = "bi-weekly" /\ DayOfMonth(d) = 15
  THEN dateWithDay(MonthOf(d), 30)
  ELSE dateWithDay(MonthOf(d) + 1, IF cadence = "monthly" THEN 30 ELSE 15)

generateCustomPayoutSchedule(cadence, contributionStart, slotCount) ==
  LET first == IF cadence = "monthly"
               THEN computeNextPayoutAnchor(contributionStart, cadence)
               ELSE NextPayoutDay(contributionStart)
      slot[i \in Nat] == IF i <= 1 THEN first
                                   ELSE NextCustomPayoutDay(slot[i - 1], cadence)
  IN  [i \in 1..slotCount |-> slot[i]]

(***************************************************************************)
(* The windows by which a member's contributions are judged on time when   *)
(* an achievement depends on it.                                           *)
(***************************************************************************)
\* The loop bodies of contributionWindowsForPod.
NextJudgedWindow(kind, cadence, d) ==
  IF kind = "system" THEN addDays(d, 14)
  ELSE resolveContributionWindowStart(
         IF cadence = "monthly" THEN Utc(MonthOf(d) + 1, DayOfMonth(d)) ELSE addDays(d, 15),
         cadence)

\* A contribution made later than on this day is not on time.
LastJudgedDay(window) == addDays(window, 2)
=============================================================================
