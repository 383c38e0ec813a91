----------------------------- MODULE Dashboard -----------------------------
(***************************************************************************)
(* The numbers of the admins' dashboard: how sign-ups, payments, payouts   *)
(* and verification attempts are cut into days, months and percentages.    *)
(* Dates are as in PodCalendar; what happened on a day is given as a       *)
(* function of the day, which is 0 before the first and after the last     *)
(* one.                                                                    *)
(***************************************************************************)
EXTENDS PodCalendar, SequencesExt

SumOver(f, days) == MapThenSumSet(LAMBDA d : f[d], days \cap DOMAIN f)

startOfMonth(d) == Utc(MonthOf(d), 1)

\* setUTCMonth(month + n, 1), whatever the day.
addMonths(d, n) == Utc(MonthOf(d) + n, 1)

\* The days from one date up to, but without, another.
Between(first, last) == {d \in first .. last : d < last}

\* Numbers with two decimals are counted in hundredths; Math.round rounds halves up.
Rounded(numerator, denominator) == (2 * 100 * numerator + denominator) \div (2 * denominator)

\* null stands for a change from nothing to something.
percentageChange(current, previous) ==
  IF previous[1] = 0 THEN IF current[1] = 0 THEN <<0>> ELSE <<>>
  ELSE <<Rounded(100 * (current[1] * previous[2] - previous[1] * current[2]),
                 previous[1] * current[2])>>

percentageOf(value, total) == IF total = 0 THEN 0 ELSE Rounded(100 * value, total)

-----------------------------------------------------------------------------
(***************************************************************************)
(* Growth: averages are pairs of a sum and the days that it is for.        *)
(***************************************************************************)
buildSequentialDayKeys(anchor, length) == {addDays(anchor, 0 - i) : i \in 0..(length - 1)}

\* The oldest day whose sign-ups are fetched, of which there are fourteen.
FetchedFrom(today) == addDays(today, 0 - 13)

computeDailyGrowth(signups, today) ==
  LET fetched == [d \in {e \in DOMAIN signups : e >= FetchedFrom(today)} |-> signups[d]]
      Average(keys) == <<SumOver(fetched, keys), Cardinality(keys)>>
  IN  [current |-> Average(buildSequentialDayKeys(today, 7)),
       previous |-> Average(buildSequentialDayKeys(addDays(today, 0 - 7), 7))]

AtLeastOne(n) == IF n < 1 THEN 1 ELSE n

daysBetween(start, end) == AtLeastOne(end - start)

daysElapsedInclusive(start, end) == AtLeastOne(end - start + 1)

computeMonthlyGrowth(signups, today) ==
  LET month == startOfMonth(today)
      previous == addMonths(month, 0 - 1)
      next == addMonths(month, 1)
  IN  [current |-> <<SumOver(signups, Between(month, next)), daysElapsedInclusive(month, today)>>,
       previous |-> <<SumOver(signups, Between(previous, month)), daysBetween(previous, month)>>]

-----------------------------------------------------------------------------
(***************************************************************************)
(* Payments and payouts by month, and the shares of attempts.              *)
(***************************************************************************)
\* The months are given in any order and come out in time's.
collectMonthlyTotals(amounts, starts) ==
  LET inOrder == SetToSortSeq(starts, <)
  IN  [i \in DOMAIN inOrder |-> SumOver(amounts, Between(inOrder[i], addMonths(inOrder[i], 1)))]

\* computeIncomeAnalysis and computePayoutAnalysis.
Analysis(amounts, today) ==
  LET month == startOfMonth(today)
      previous == addMonths(month, 0 - 1)
  IN  [total |-> SumOver(amounts, Between(month, addMonths(month, 1))),
       previous |-> SumOver(amounts, Between(previous, month)),
       months |-> collectMonthlyTotals(amounts, {addMonths(month, 0 - 2), previous, month})]

\* What is neither a success nor a rejection is pending.
computeKycSummary(success, rejected, pending) ==
  LET total == success + rejected + pending
  IN  <<percentageOf(success, total), percentageOf(rejected, total), percentageOf(pending, total)>>

-----------------------------------------------------------------------------
\* The two weeks that are compared are the fourteen days that are fetched.
WeeksFit(today) ==
  LET fetched == Between(FetchedFrom(today), addDays(today, 1))
      this == buildSequentialDayKeys(today, 7)
      last == buildSequentialDayKeys(addDays(today, 0 - 7), 7)
      growth == computeDailyGrowth([d \in fetched |-> 1], today)
  IN  /\ this \cup last = fetched /\ this \cap last = {}
      /\ growth.current = <<7, 7>> /\ growth.previous = <<7, 7>>

\* The months follow one another without a gap, the current one is counted up to
\* today and its neighbour in full, whatever their lengths and the year.
MonthsFit(today) ==
  LET m == MonthOf(today)
      f == [d \in Between(Utc(m - 2, 1), Utc(m + 1, 1)) |-> 1 + (d % 3)]
      growth == computeMonthlyGrowth(f, today)
      income == Analysis(f, today)
  IN  m >= 2 =>
        /\ income.months[1] + income.months[2] + income.months[3] = SumOver(f, DOMAIN f)
        /\ income.total = income.months[3] /\ income.previous = income.months[2]
        /\ growth.current = <<income.total, DayOfMonth(today)>>
        /\ growth.previous = <<income.previous, DaysIn(m - 1)>>

\* Shares that are rounded one by one add up to a hundred percent, a hundredth
\* more or less.
SharesFit ==
  \A s, r, p \in 0..3 :
    LET shares == computeKycSummary(s, r, p)
        all == shares[1] + shares[2] + shares[3]
    IN  IF s + r + p = 0 THEN all = 0 ELSE all \in 9999..10001

\* The numbers of one day's dashboard fit together, and what has not changed is
\* shown so.
DashboardFits(today) ==
  /\ WeeksFit(today) /\ MonthsFit(today) /\ SharesFit
  /\ \A n \in 1..3, k, l \in 1..3 : percentageChange(<<k * n, k>>, <<l * n, l>>) = <<0>>
=============================================================================
