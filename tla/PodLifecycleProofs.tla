------------------------- MODULE PodLifecycleProofs -------------------------
(***************************************************************************)
(* What holds of the system pods of a plan for any number of requests,     *)
(* pods, accounts and days, any plan size and any calendar.                *)
(*                                                                         *)
(* First facts about the calendar, whatever its months.                    *)
(* However requests interleave and wherever the process restarts: the      *)
(* types; no pod is locked before its grace period is over, however stale  *)
(* the row is that a request locks it by; one membership per account.      *)
(* In a quiet life, one request at a time and none cut off: the pods stay  *)
(* in order, and they implement PodRound.                                  *)
(***************************************************************************)
EXTENDS PodLifecycleWatched, PodCycles, SequenceTheorems, FiniteSetTheorems,
        WellFoundedInduction, TLAPS

-----------------------------------------------------------------------------
(***************************************************************************)
(* Facts about the date helpers that hold in every calendar whose months   *)
(* have 28 to 31 days.                                                     *)
(***************************************************************************)
\* A day belongs to exactly one month, and its number in it is at most 31.
LEMMA MonthOfDay ==
  ASSUME NEW d \in Day
  PROVE  /\ MonthOf(d) \in Month
         /\ MonthStart[MonthOf(d)] \in Int /\ MonthStart[MonthOf(d) + 1] \in Int
         /\ MonthStart[MonthOf(d)] <= d /\ d < MonthStart[MonthOf(d) + 1]
         /\ DayOfMonth(d) \in 1..DaysIn(MonthOf(d))
         /\ d = Utc(MonthOf(d), DayOfMonth(d))
<1>1. \E m \in Month : d \in MonthStart[m] .. (MonthStart[m + 1] - 1)
  BY CalendarAssumption
<1>2. /\ MonthOf(d) \in Month
      /\ d \in MonthStart[MonthOf(d)] .. (MonthStart[MonthOf(d) + 1] - 1)
  BY <1>1 DEF MonthOf
<1>3. MonthStart[MonthOf(d)] \in Int /\ MonthStart[MonthOf(d) + 1] \in Int
  <2>1. LastMonth \in Nat /\ MonthStart \in [0..(LastMonth + 1) -> Int]
    BY CalendarAssumption
  <2>2. MonthOf(d) \in 0..(LastMonth + 1) /\ MonthOf(d) + 1 \in 0..(LastMonth + 1)
    BY <1>2, <2>1 DEF Month
  <2>. QED
    BY <2>1, <2>2
<1>4. d \in Int
  BY CalendarAssumption DEF Day
<1>. QED
  BY <1>2, <1>3, <1>4 DEF DayOfMonth, DaysIn, Utc

\* The month a day of a month falls into is that month.
LEMMA MonthOfUtc ==
  ASSUME NEW m \in Month, NEW k \in 1..DaysIn(m)
  PROVE  /\ Utc(m, k) \in Day
         /\ MonthOf(Utc(m, k)) = m
         /\ DayOfMonth(Utc(m, k)) = k
<1>1. /\ m \in 0..(LastMonth + 1) /\ m + 1 \in 0..(LastMonth + 1)
      /\ LastMonth + 1 \in 0..(LastMonth + 1) /\ 0 \in 0..(LastMonth + 1)
  BY CalendarAssumption DEF Month
<1>2. MonthStart[m] \in Int /\ MonthStart[m + 1] \in Int
  BY <1>1, CalendarAssumption
<1>3. MonthStart[0] <= MonthStart[m] /\ MonthStart[m + 1] <= MonthStart[LastMonth + 1]
  <2>1. m = 0 \/ MonthStart[0] < MonthStart[m]
    BY <1>1, CalendarAssumption DEF Month
  <2>2. m + 1 = LastMonth + 1 \/ MonthStart[m + 1] < MonthStart[LastMonth + 1]
    BY <1>1, CalendarAssumption DEF Month
  <2>. QED
    BY <2>1, <2>2, <1>1, <1>2, CalendarAssumption
<1>4. Utc(m, k) \in MonthStart[m] .. (MonthStart[m + 1] - 1)
  BY <1>2 DEF Utc, DaysIn
<1>5. Utc(m, k) \in Day
  BY <1>1, <1>2, <1>3, <1>4, CalendarAssumption DEF Day
<1>6. ASSUME NEW n \in Month, Utc(m, k) \in MonthStart[n] .. (MonthStart[n + 1] - 1)
      PROVE  n = m
  <2>1. /\ n \in 0..(LastMonth + 1) /\ n + 1 \in 0..(LastMonth + 1)
        /\ MonthStart[n] \in Int /\ MonthStart[n + 1] \in Int
    BY CalendarAssumption DEF Month
  <2>2. CASE n < m
    <3>1. n + 1 = m \/ MonthStart[n + 1] < MonthStart[m]
      BY <2>1, <2>2, <1>1, CalendarAssumption DEF Month
    <3>. QED
      BY <3>1, <2>1, <1>2, <1>4, <1>6
  <2>3. CASE m < n
    <3>1. m + 1 = n \/ MonthStart[m + 1] < MonthStart[n]
      BY <2>1, <2>3, <1>1, CalendarAssumption DEF Month
    <3>. QED
      BY <3>1, <2>1, <1>2, <1>4, <1>6
  <2>. QED
    BY <2>2, <2>3, <2>1, <1>1
<1>7. MonthOf(Utc(m, k)) = m
  BY <1>4, <1>6 DEF MonthOf
<1>. QED
  BY <1>5, <1>7, <1>2 DEF DayOfMonth, Utc, DaysIn

-----------------------------------------------------------------------------
\* The days a system pod may start on.
StartDay == {Utc(m, 1) : m \in Month} \cup {Utc(m, 16) : m \in Month}

LEMMA StartDayFacts ==
  ASSUME NEW m \in Month
  PROVE  1 \in 1..DaysIn(m) /\ 2 \in 1..DaysIn(m) /\ 15 \in 1..DaysIn(m)
         /\ 16 \in 1..DaysIn(m) /\ 17 \in 1..DaysIn(m)
BY CalendarAssumption

\* computeNextStartDate returns a start day.
LEMMA NextStartIsStartDay ==
  ASSUME NEW d \in Day, MonthOf(d) < LastMonth
  PROVE  computeNextStartDate(d) \in StartDay
<1>1. MonthOf(d) \in Month /\ MonthOf(d) + 1 \in Month
  <2>1. LastMonth \in Nat
    BY CalendarAssumption
  <2>2. MonthOf(d) \in Month
    BY MonthOfDay
  <2>. QED
    BY <2>1, <2>2 DEF Month
<1>. QED
  BY <1>1 DEF computeNextStartDate, StartDay

\* nextStartWindow of a start day is that same day: the rescheduling of an empty
\* system pod (pod-domain.helper.ts:215) moves its start date nowhere, in no
\* calendar, so the date stays in the past until somebody joins.
THEOREM EmptyPodIsNeverRescheduled ==
  ASSUME NEW d \in StartDay
  PROVE  nextStartWindow(d) = d
<1>1. CASE \E m \in Month : d = Utc(m, 1)
  <2>1. PICK m \in Month : d = Utc(m, 1)
    BY <1>1
  <2>2. 2 \in 1..DaysIn(m) /\ MonthStart[m] \in Int
    BY StartDayFacts, CalendarAssumption DEF Month
  <2>3. addDays(d, 1) = Utc(m, 2)
    BY <2>1, <2>2 DEF addDays, Utc
  <2>4. MonthOf(addDays(d, 1)) = m /\ DayOfMonth(addDays(d, 1)) = 2
    BY <2>2, <2>3, MonthOfUtc
  <2>. QED
    BY <2>1, <2>4 DEF nextStartWindow, computeNextStartDate
<1>2. CASE \E m \in Month : d = Utc(m, 16)
  <2>1. PICK m \in Month : d = Utc(m, 16)
    BY <1>2
  <2>2. 17 \in 1..DaysIn(m) /\ MonthStart[m] \in Int
    BY StartDayFacts, CalendarAssumption DEF Month
  <2>3. addDays(d, 1) = Utc(m, 17)
    BY <2>1, <2>2 DEF addDays, Utc
  <2>4. MonthOf(addDays(d, 1)) = m /\ DayOfMonth(addDays(d, 1)) = 17
    BY <2>2, <2>3, MonthOfUtc
  <2>. QED
    BY <2>1, <2>4 DEF nextStartWindow, computeNextStartDate
<1>. QED
  BY <1>1, <1>2 DEF StartDay

-----------------------------------------------------------------------------
\* Each payout of a system pod's schedule is later than the one before.
THEOREM PayoutDaysIncrease ==
  ASSUME NEW d \in Day
  PROVE  NextPayoutDay(d) > d
<1>1. /\ d \in Int
      /\ MonthOf(d) \in Month /\ MonthStart[MonthOf(d)] \in Int
      /\ MonthStart[MonthOf(d) + 1] \in Int
      /\ d < MonthStart[MonthOf(d) + 1]
      /\ d = MonthStart[MonthOf(d)] + DayOfMonth(d) - 1
      /\ DayOfMonth(d) \in Int
  BY MonthOfDay, CalendarAssumption DEF Day, Utc, DaysIn
<1>. QED
  BY <1>1 DEF NextPayoutDay, Utc

\* From the second window of a month of at least 30 days the next contribution
\* window is the first one of the next month: only a February loses a window.
THEOREM LongMonthsLoseNoWindow ==
  ASSUME NEW m \in Month, m + 1 \in Month, DaysIn(m) >= 30
  PROVE  nextContributionWindowStart(Utc(m, 16), "bi-weekly") = Utc(m + 1, 1)
<1>1. MonthStart[m] \in Int /\ MonthStart[m + 1] \in Int /\ DaysIn(m) \in 28..31
  BY CalendarAssumption DEF Month
<1>2. PICK k \in 2..3 : addDays(Utc(m, 16), 17) = Utc(m + 1, k)
  BY <1>1 DEF addDays, Utc, DaysIn
<1>3. k \in 1..DaysIn(m + 1) /\ 1 \in 1..DaysIn(m + 1) /\ DaysIn(m + 1) \in 28..31
  BY CalendarAssumption
<1>4. MonthOf(Utc(m + 1, k)) = m + 1 /\ DayOfMonth(Utc(m + 1, k)) = k
  BY <1>3, MonthOfUtc
<1>5. dateWithDay(m + 1, 1) = Utc(m + 1, 1)
  BY <1>3 DEF dateWithDay
<1>. QED
  BY <1>2, <1>4, <1>5 DEF nextContributionWindowStart, resolveContributionWindowStart

\* A month of at most 29 days always loses one: after its second window the next
\* contribution is due in the second window of the following month.
THEOREM FebruaryLosesAWindow ==
  ASSUME NEW m \in Month, m + 1 \in Month, DaysIn(m) <= 29
  PROVE  nextContributionWindowStart(Utc(m, 16), "bi-weekly") = Utc(m + 1, 16)
<1>1. MonthStart[m] \in Int /\ MonthStart[m + 1] \in Int /\ DaysIn(m) \in 28..31
  BY CalendarAssumption DEF Month
<1>2. PICK k \in 4..5 : addDays(Utc(m, 16), 17) = Utc(m + 1, k)
  BY <1>1 DEF addDays, Utc, DaysIn
<1>3. k \in 1..DaysIn(m + 1) /\ DaysIn(m + 1) \in 28..31
  BY CalendarAssumption
<1>4. MonthOf(Utc(m + 1, k)) = m + 1 /\ DayOfMonth(Utc(m + 1, k)) = k
  BY <1>3, MonthOfUtc
<1>5. dateWithDay(m + 1, 16) = Utc(m + 1, 16)
  BY <1>3 DEF dateWithDay
<1>. QED
  BY <1>2, <1>4, <1>5 DEF nextContributionWindowStart, resolveContributionWindowStart

\* A day before the first of the last month lies in an earlier month.
LEMMA MonthBeforeLast ==
  ASSUME NEW d \in Int, MonthStart[0] <= d, d < MonthStart[LastMonth]
  PROVE  d \in Day /\ MonthOf(d) \in Month /\ MonthOf(d) < LastMonth
<1>1. /\ LastMonth \in Nat
      /\ MonthStart[0] \in Int /\ MonthStart[LastMonth] \in Int
      /\ MonthStart[LastMonth + 1] \in Int
      /\ MonthStart[LastMonth] < MonthStart[LastMonth + 1]
  BY CalendarAssumption
<1>2. d \in Day
  BY <1>1 DEF Day
<1>3. MonthOf(d) \in Month /\ MonthStart[MonthOf(d)] <= d
  BY <1>2, MonthOfDay
<1>4. MonthOf(d) # LastMonth
  BY <1>1, <1>3
<1>. QED
  BY <1>1, <1>2, <1>3, <1>4 DEF Month

-----------------------------------------------------------------------------
(***************************************************************************)
(* The calendar of a pod's life (PodCycles).  The schedules are recursive  *)
(* functions: beginnings of any length exist and agree with one another,   *)
(* hence so does the whole.  The rest follows a window and the payout of   *)
(* its cycle from month to month.                                          *)
(***************************************************************************)
\* Induction on the natural numbers, as a fact about sets.
LEMMA NatSets ==
  ASSUME NEW T, 0 \in T, \A n \in T \cap Nat : n + 1 \in T
  PROVE  \A n \in Nat : n \in T
<1>. DEFINE R == {ss \in Nat \X Nat : ss[1] < ss[2]}
            D == Nat \ T
<1>1. IsWellFoundedOn(R, Nat)
  BY NatLessThanWellFounded DEF OpToRel
<1>2. \A i, j \in Nat : <<j, i>> \in R <=> j < i
  OBVIOUS
<1>. HIDE DEF R
<1>. SUFFICES ASSUME D # {} PROVE FALSE
  OBVIOUS
<1>3. PICK i \in D : \A j \in D : ~(<<j, i>> \in R)
  BY <1>1, WFMin
<1>4. i \in Nat /\ i \notin T /\ i # 0
  OBVIOUS
<1>5. i - 1 \in Nat /\ <<i - 1, i>> \in R
  BY <1>2, <1>4
<1>6. i - 1 \in T
  BY <1>3, <1>5
<1>7. i - 1 + 1 \in T
  BY <1>5, <1>6
<1>. QED
  BY <1>4, <1>7

-----------------------------------------------------------------------------
\* What one payout day is followed by, in the schedules of both kinds of pods.
Following(k, c, d) == IF k = "system" THEN NextPayoutDay(d) ELSE NextCustomPayoutDay(d, c)

\* The first payout of a pod, by the day it starts on.
FirstPayout(k, c, s) ==
  IF k = "custom" /\ c = "monthly" THEN computeNextPayoutAnchor(s, c) ELSE NextPayoutDay(s)

Entry(k, c, x, g, i) == IF i <= 1 THEN x ELSE Following(k, c, g[i - 1])

\* g is the beginning of a schedule, up to its n-th date.
Begins(k, c, x, g, n) == g = [i \in 0..n |-> Entry(k, c, x, g, i)]

LEMMA BeginningsExist ==
  ASSUME NEW k, NEW c, NEW x
  PROVE  \A n \in Nat : \E g : Begins(k, c, x, g, n)
<1>. DEFINE T == {n \in Nat : \E g : Begins(k, c, x, g, n)}
<1>1. 0 \in T
  <2>1. Begins(k, c, x, [i \in 0..0 |-> x], 0)
    BY DEF Begins, Entry
  <2>. QED
    BY <2>1
<1>2. ASSUME NEW n \in T PROVE n + 1 \in T
  <2>1. PICK g : Begins(k, c, x, g, n)
    OBVIOUS
  <2>2. n \in Nat
    OBVIOUS
  <2>3. PICK h : h = [i \in 0..(n + 1) |-> IF i <= n THEN g[i] ELSE Entry(k, c, x, g, i)]
    OBVIOUS
  <2>4. \A i \in 0..n : h[i] = g[i] /\ g[i] = Entry(k, c, x, g, i)
    BY <2>1, <2>2, <2>3 DEF Begins
  <2>5. \A i \in 0..(n + 1) : Entry(k, c, x, g, i) = Entry(k, c, x, h, i)
    <3>1. \A i \in 0..(n + 1) : i <= 1 \/ i - 1 \in 0..n
      BY <2>2
    <3>. QED
      BY <2>4, <3>1 DEF Entry
  <2>6. \A i \in 0..(n + 1) : h[i] = Entry(k, c, x, h, i)
    BY <2>2, <2>3, <2>4, <2>5
  <2>7. Begins(k, c, x, h, n + 1)
    BY <2>3, <2>6 DEF Begins
  <2>. QED
    BY <2>2, <2>7
<1>. HIDE DEF T
<1>3. \A n \in Nat : n \in T
  BY <1>1, <1>2, NatSets
<1>. QED
  BY <1>3 DEF T

LEMMA BeginningsAgree ==
  ASSUME NEW k, NEW c, NEW x, NEW n \in Nat, NEW m \in Nat, NEW g, NEW h,
         Begins(k, c, x, g, n), Begins(k, c, x, h, m)
  PROVE  \A i \in Nat : i <= n /\ i <= m => g[i] = h[i]
<1>. DEFINE T == {i \in Nat : i <= n /\ i <= m => g[i] = h[i]}
<1>1. \A i \in 0..n : g[i] = Entry(k, c, x, g, i)
  BY DEF Begins
<1>2. \A i \in 0..m : h[i] = Entry(k, c, x, h, i)
  BY DEF Begins
<1>3. 0 \in T
  BY <1>1, <1>2 DEF Entry
<1>4. ASSUME NEW i \in T PROVE i + 1 \in T
  <2>1. SUFFICES ASSUME i + 1 <= n, i + 1 <= m PROVE g[i + 1] = h[i + 1]
    OBVIOUS
  <2>2. g[i] = h[i] /\ i + 1 \in 0..n /\ i + 1 \in 0..m /\ i + 1 - 1 = i
    BY <2>1
  <2>. QED
    BY <1>1, <1>2, <2>2 DEF Entry
<1>. HIDE DEF T
<1>5. \A i \in Nat : i \in T
  BY <1>3, <1>4, NatSets
<1>. QED
  BY <1>5 DEF T

LEMMA SchedulesExist ==
  ASSUME NEW k, NEW c, NEW x
  PROVE  \E f : f = [i \in Nat |-> Entry(k, c, x, f, i)]
<1>. DEFINE G(n) == CHOOSE g : Begins(k, c, x, g, n)
<1>1. \A n \in Nat : Begins(k, c, x, G(n), n)
  BY BeginningsExist
<1>. HIDE DEF G
<1>2. PICK f : f = [n \in Nat |-> G(n)[n]]
  OBVIOUS
<1>3. ASSUME NEW n \in Nat PROVE f[n] = Entry(k, c, x, f, n)
  <2>1. f[n] = Entry(k, c, x, G(n), n)
    BY <1>1, <1>2 DEF Begins
  <2>2. CASE n <= 1
    BY <2>1, <2>2 DEF Entry
  <2>3. CASE n > 1
    <3>1. n - 1 \in Nat /\ n - 1 <= n
      BY <2>3
    <3>2. G(n)[n - 1] = G(n - 1)[n - 1]
      BY <1>1, <3>1, BeginningsAgree
    <3>3. G(n)[n - 1] = f[n - 1]
      BY <1>2, <3>1, <3>2
    <3>. QED
      BY <2>1, <3>3 DEF Entry
  <2>. QED
    BY <2>2, <2>3
<1>4. f = [i \in Nat |-> Entry(k, c, x, f, i)]
  BY <1>2, <1>3
<1>. QED
  BY <1>4

\* The schedules written at the lock: the first date, and then each by the one before.
IsSchedule(k, c, s, n, dates) ==
  \E f : /\ dates = [i \in 1..n |-> f[i]]
         /\ f[1] = FirstPayout(k, c, s)
         /\ \A i \in Nat \ {0} : f[i + 1] = Following(k, c, f[i])

LEMMA SystemSchedule ==
  ASSUME NEW c, NEW s, NEW n \in Nat
  PROVE  IsSchedule("system", c, s, n, generatePayoutSchedule(s, n))
<1>. DEFINE F(f) == f = [i \in Nat |-> IF i <= 1 THEN NextPayoutDay(s) ELSE NextPayoutDay(f[i - 1])]
<1>1. PICK g : g = [i \in Nat |-> Entry("system", "", NextPayoutDay(s), g, i)]
  BY SchedulesExist
<1>2. F(g)
  BY <1>1 DEF Entry, Following
<1>3. PICK f : f = (CHOOSE h : F(h))
  OBVIOUS
<1>4. F(f)
  BY <1>2, <1>3
<1>5. generatePayoutSchedule(s, n) = [i \in 1..n |-> f[i]]
  BY <1>3 DEF generatePayoutSchedule
<1>6. f[1] = NextPayoutDay(s)
  BY <1>4
<1>7. ASSUME NEW i \in Nat \ {0} PROVE f[i + 1] = NextPayoutDay(f[i])
  BY <1>4
<1>. QED
  BY <1>5, <1>6, <1>7 DEF FirstPayout, Following, IsSchedule

LEMMA CustomSchedule ==
  ASSUME NEW c, NEW s, NEW n \in Nat
  PROVE  IsSchedule("custom", c, s, n, generateCustomPayoutSchedule(c, s, n))
<1>. DEFINE first == IF c = "monthly" THEN computeNextPayoutAnchor(s, c) ELSE NextPayoutDay(s)
            F(f) == f = [i \in Nat |-> IF i <= 1 THEN first ELSE NextCustomPayoutDay(f[i - 1], c)]
<1>. HIDE DEF first
<1>1. PICK g : g = [i \in Nat |-> Entry("custom", c, first, g, i)]
  BY SchedulesExist
<1>2. F(g)
  BY <1>1 DEF Entry, Following
<1>3. PICK f : f = (CHOOSE h : F(h))
  OBVIOUS
<1>4. F(f)
  BY <1>2, <1>3
<1>5. generateCustomPayoutSchedule(c, s, n) = [i \in 1..n |-> f[i]]
  BY <1>3 DEF generateCustomPayoutSchedule, first
<1>6. f[1] = first
  BY <1>4
<1>7. ASSUME NEW i \in Nat \ {0} PROVE f[i + 1] = NextCustomPayoutDay(f[i], c)
  BY <1>4
<1>. QED
  BY <1>5, <1>6, <1>7 DEF first, FirstPayout, Following, IsSchedule

-----------------------------------------------------------------------------
\* Where a day counted from the first of a month lies.
LEMMA MonthFacts ==
  ASSUME NEW m \in Month
  PROVE  /\ m \in Nat /\ MonthStart[m] \in Int /\ MonthStart[m + 1] \in Int
         /\ DaysIn(m) \in 28..31 /\ MonthStart[m + 1] = MonthStart[m] + DaysIn(m)
<1>1. m \in 0..(LastMonth + 1) /\ m + 1 \in 0..(LastMonth + 1)
  BY CalendarAssumption DEF Month
<1>2. MonthStart[m] \in Int /\ MonthStart[m + 1] \in Int
  BY <1>1, CalendarAssumption
<1>3. DaysIn(m) \in 28..31
  BY CalendarAssumption
<1>. QED
  BY <1>1, <1>2, <1>3 DEF DaysIn

LEMMA PlaceOf ==
  ASSUME NEW m \in Month, m + 1 \in Month, NEW k \in 1..(28 + DaysIn(m))
  PROVE  /\ Utc(m, k) \in Day
         /\ MonthOf(Utc(m, k)) = IF k <= DaysIn(m) THEN m ELSE m + 1
         /\ DayOfMonth(Utc(m, k)) = IF k <= DaysIn(m) THEN k ELSE k - DaysIn(m)
<1>1. DaysIn(m) \in 28..31 /\ DaysIn(m + 1) \in 28..31 /\ k \in Int
  BY MonthFacts
<1>2. CASE k <= DaysIn(m)
  BY <1>1, <1>2, MonthOfUtc
<1>3. CASE k > DaysIn(m)
  <2>1. k - DaysIn(m) \in 1..DaysIn(m + 1)
    BY <1>1, <1>3
  <2>2. Utc(m, k) = Utc(m + 1, k - DaysIn(m))
    BY <1>1, MonthFacts DEF Utc
  <2>3. ~(k <= DaysIn(m))
    BY <1>1, <1>3
  <2>. QED
    BY <2>1, <2>2, <2>3, MonthOfUtc
<1>. QED
  BY <1>1, <1>2, <1>3

LEMMA Clamped ==
  ASSUME NEW m \in Month
  PROVE  /\ \A k \in 1..28 : dateWithDay(m, k) = Utc(m, k)
         /\ dateWithDay(m, 30) = Utc(m, IF DaysIn(m) >= 30 THEN 30 ELSE DaysIn(m))
BY MonthFacts DEF dateWithDay

-----------------------------------------------------------------------------
\* The first days of the contribution windows of a month.
OpeningDays(c, m) == {Utc(m, 1)} \cup (IF c = "bi-weekly" THEN {Utc(m, 16)} ELSE {})

LEMMA OpeningPlace ==
  ASSUME NEW c \in Cadence, NEW m \in Month, m + 1 \in Month, NEW w \in OpeningDays(c, m)
  PROVE  /\ w \in Day /\ MonthOf(w) = m
         /\ \/ w = Utc(m, 1) /\ DayOfMonth(w) = 1
            \/ c = "bi-weekly" /\ w = Utc(m, 16) /\ DayOfMonth(w) = 16
         /\ resolveContributionWindowStart(w, c) = w
<1>1. DaysIn(m) \in 28..31
  BY MonthFacts
<1>2. /\ w \in Day /\ MonthOf(w) = m
      /\ \/ w = Utc(m, 1) /\ DayOfMonth(w) = 1
         \/ c = "bi-weekly" /\ w = Utc(m, 16) /\ DayOfMonth(w) = 16
  BY <1>1, PlaceOf DEF OpeningDays
<1>. QED
  BY <1>2, Clamped DEF resolveContributionWindowStart

\* The window after one: a short month loses one.
LEMMA WindowAfter ==
  ASSUME NEW c \in Cadence, NEW m \in Month, m + 1 \in Month, m + 2 \in Month,
         NEW w \in OpeningDays(c, m)
  PROVE  nextContributionWindowStart(w, c) =
           IF c = "monthly" THEN (IF DaysIn(m) >= 30 THEN Utc(m + 1, 1) ELSE Utc(m + 2, 1))
           ELSE IF w = Utc(m, 1) THEN Utc(m, 16)
           ELSE IF DaysIn(m) >= 30 THEN Utc(m + 1, 1) ELSE Utc(m + 1, 16)
<1>1. /\ DaysIn(m) \in 28..31 /\ MonthStart[m] \in Int /\ m \in Nat
      /\ dateWithDay(m, 16) = Utc(m, 16)
      /\ dateWithDay(m + 1, 1) = Utc(m + 1, 1) /\ dateWithDay(m + 1, 16) = Utc(m + 1, 16)
      /\ dateWithDay(m + 2, 1) = Utc(m + 2, 1)
  BY MonthFacts, Clamped
<1>2. CASE c = "monthly"
  <2>1. w = Utc(m, 1) /\ addDays(w, 32) = Utc(m, 33)
    BY <1>1, <1>2 DEF OpeningDays, addDays, Utc
  <2>2. MonthOf(Utc(m, 33)) = m + 1 /\ DayOfMonth(Utc(m, 33)) = 33 - DaysIn(m)
    BY <1>1, PlaceOf
  <2>3. nextContributionWindowStart(w, c) =
          IF 33 - DaysIn(m) <= 3 THEN Utc(m + 1, 1) ELSE Utc(m + 2, 1)
    <3>1. nextContributionWindowStart(w, c) = resolveContributionWindowStart(Utc(m, 33), c)
      BY <1>2, <2>1 DEF nextContributionWindowStart
    <3>2. m + 1 + 1 = m + 2
      BY <1>1
    <3>. QED
      BY <1>1, <1>2, <2>2, <3>1, <3>2 DEF resolveContributionWindowStart
  <2>. QED
    BY <1>1, <1>2, <2>3
<1>3. CASE c = "bi-weekly" /\ w = Utc(m, 1)
  <2>1. addDays(w, 17) = Utc(m, 18)
    BY <1>1, <1>3 DEF addDays, Utc
  <2>2. MonthOf(Utc(m, 18)) = m /\ DayOfMonth(Utc(m, 18)) = 18
    BY <1>1, PlaceOf
  <2>3. nextContributionWindowStart(w, c) = resolveContributionWindowStart(Utc(m, 18), c)
    BY <1>3, <2>1 DEF nextContributionWindowStart
  <2>. QED
    BY <1>1, <1>3, <2>2, <2>3 DEF resolveContributionWindowStart
<1>4. CASE c = "bi-weekly" /\ w = Utc(m, 16)
  <2>1. addDays(w, 17) = Utc(m, 33) /\ Utc(m, 1) # Utc(m, 16)
    BY <1>1, <1>4 DEF addDays, Utc
  <2>2. MonthOf(Utc(m, 33)) = m + 1 /\ DayOfMonth(Utc(m, 33)) = 33 - DaysIn(m)
    BY <1>1, PlaceOf
  <2>3. nextContributionWindowStart(w, c) = resolveContributionWindowStart(Utc(m, 33), c)
    BY <1>4, <2>1 DEF nextContributionWindowStart
  <2>. QED
    BY <1>1, <1>4, <2>1, <2>2, <2>3 DEF resolveContributionWindowStart
<1>. QED
  BY <1>2, <1>3, <1>4 DEF Cadence, OpeningDays

\* Custom pods are judged by the windows they visit, but for short months.
LEMMA JudgedNext ==
  ASSUME NEW c \in Cadence, NEW m \in Month, m + 1 \in Month, m + 2 \in Month,
         NEW w \in OpeningDays(c, m), DaysIn(m) >= 30
  PROVE  NextJudgedWindow("custom", c, w) = nextContributionWindowStart(w, c)
<1>1. /\ DaysIn(m) \in 28..31 /\ MonthStart[m] \in Int /\ m \in Nat
      /\ dateWithDay(m, 16) = Utc(m, 16)
      /\ dateWithDay(m + 1, 1) = Utc(m + 1, 1)
  BY MonthFacts, Clamped
<1>2. MonthOf(w) = m
  BY OpeningPlace
<1>3. CASE c = "monthly"
  <2>1. DayOfMonth(w) = 1
    BY <1>3, OpeningPlace
  <2>2. NextJudgedWindow("custom", c, w) = resolveContributionWindowStart(Utc(m + 1, 1), c)
    BY <1>2, <1>3, <2>1 DEF NextJudgedWindow
  <2>3. Utc(m + 1, 1) \in OpeningDays(c, m + 1) /\ m + 1 + 1 = m + 2
    BY <1>1 DEF OpeningDays
  <2>4. resolveContributionWindowStart(Utc(m + 1, 1), c) = Utc(m + 1, 1)
    BY <1>1, <2>3, OpeningPlace
  <2>. QED
    BY <1>3, <2>2, <2>4, WindowAfter
<1>4. CASE c = "bi-weekly" /\ w = Utc(m, 1)
  <2>1. NextJudgedWindow("custom", c, w) = resolveContributionWindowStart(Utc(m, 16), c)
    BY <1>1, <1>4 DEF NextJudgedWindow, addDays, Utc
  <2>2. Utc(m, 16) \in OpeningDays(c, m)
    BY <1>4 DEF OpeningDays
  <2>3. resolveContributionWindowStart(Utc(m, 16), c) = Utc(m, 16)
    BY <2>2, OpeningPlace
  <2>. QED
    BY <1>4, <2>1, <2>3, WindowAfter
<1>5. CASE c = "bi-weekly" /\ w = Utc(m, 16)
  <2>1. Utc(m, 1) # Utc(m, 16)
    BY <1>1 DEF Utc
  <2>2. NextJudgedWindow("custom", c, w) = resolveContributionWindowStart(Utc(m, 31), c)
    BY <1>1, <1>5 DEF NextJudgedWindow, addDays, Utc
  <2>3. /\ MonthOf(Utc(m, 31)) = IF DaysIn(m) = 31 THEN m ELSE m + 1
        /\ DayOfMonth(Utc(m, 31)) = IF DaysIn(m) = 31 THEN 31 ELSE 1
    BY <1>1, PlaceOf
  <2>4. resolveContributionWindowStart(Utc(m, 31), c) = Utc(m + 1, 1)
    BY <1>1, <2>3 DEF resolveContributionWindowStart
  <2>. QED
    BY <1>5, <2>1, <2>2, <2>4, WindowAfter
<1>. QED
  BY <1>3, <1>4, <1>5 DEF Cadence, OpeningDays
-----------------------------------------------------------------------------
\* The payout days counted from the first of a month.  Only custom pods are paid
\* out on the last day of a February.
PayoutDays(k, m) ==
  {Utc(m, 15), Utc(m, 30)} \cup (IF k = "custom" THEN {dateWithDay(m, 30)} ELSE {})

LEMMA PayoutPlace ==
  ASSUME NEW k, NEW m \in Month, m + 1 \in Month, NEW d \in PayoutDays(k, m)
  PROVE  /\ d \in Day
         /\ \/ d = Utc(m, 15) /\ MonthOf(d) = m /\ DayOfMonth(d) = 15
            \/ DaysIn(m) >= 30 /\ d = Utc(m, 30) /\ MonthOf(d) = m /\ DayOfMonth(d) = 30
            \/ DaysIn(m) < 30 /\ d = Utc(m, 30) /\ MonthOf(d) = m + 1 /\ DayOfMonth(d) \in 1..2
            \/ k = "custom" /\ DaysIn(m) < 30 /\ d = Utc(m, DaysIn(m)) /\ MonthOf(d) = m
                 /\ DayOfMonth(d) \in 28..29
<1>1. DaysIn(m) \in 28..31
  BY MonthFacts
<1>2. CASE d = Utc(m, 15)
  BY <1>1, <1>2, PlaceOf
<1>3. CASE d = Utc(m, 30)
  BY <1>1, <1>3, PlaceOf
<1>4. CASE k = "custom" /\ d = dateWithDay(m, 30)
  <2>1. d = Utc(m, IF DaysIn(m) >= 30 THEN 30 ELSE DaysIn(m))
    BY <1>4, Clamped
  <2>. QED
    BY <1>1, <1>4, <2>1, PlaceOf
<1>. QED
  BY <1>2, <1>3, <1>4 DEF PayoutDays

\* What follows a payout day is one too, of this month or a later one.
LEMMA PayoutAfter ==
  ASSUME NEW k \in PodKind, NEW c \in Cadence, k = "system" => c = "bi-weekly",
         NEW m \in Month, m + 1 \in Month, m + 2 \in Month, m + 3 \in Month,
         NEW d \in PayoutDays(k, m)
  PROVE  \E n \in {m, m + 1, m + 2} : /\ Following(k, c, d) \in PayoutDays(k, n)
                                      /\ MonthOf(d) <= MonthOf(Following(k, c, d))
<1>1. /\ m \in Nat /\ DaysIn(m) \in 28..31 /\ MonthStart[m] \in Int
      /\ dateWithDay(m + 1, 15) = Utc(m + 1, 15) /\ dateWithDay(m + 2, 15) = Utc(m + 2, 15)
      /\ m + 1 + 1 = m + 2 /\ m + 2 + 1 = m + 3
  BY MonthFacts, Clamped
<1>2. \A n \in {m, m + 1, m + 2} : \A e \in PayoutDays(k, n) : MonthOf(e) \in {n, n + 1}
  BY <1>1, PayoutPlace
<1>3. SUFFICES \E n \in {m, m + 1, m + 2} :
                 Following(k, c, d) \in PayoutDays(k, n) /\ MonthOf(d) <= n
  BY <1>1, <1>2
<1>4. CASE k = "system"
  <2>1. Following(k, c, d) = NextPayoutDay(d)
    BY <1>4 DEF Following
  <2>2. d = Utc(m, 15) \/ d = Utc(m, 30)
    BY <1>4 DEF PayoutDays
  <2>3. CASE d = Utc(m, 15)
    <3>1. MonthOf(d) = m /\ DayOfMonth(d) = 15
      BY <1>1, <2>3, PlaceOf
    <3>2. NextPayoutDay(d) = Utc(m, 30)
      BY <3>1 DEF NextPayoutDay
    <3>. QED
      BY <1>1, <2>1, <3>1, <3>2 DEF PayoutDays
  <2>4. CASE d = Utc(m, 30)
    <3>1. /\ DaysIn(m) >= 30 => MonthOf(d) = m /\ DayOfMonth(d) = 30
          /\ DaysIn(m) < 30 => MonthOf(d) = m + 1 /\ DayOfMonth(d) = 30 - DaysIn(m)
      BY <1>1, <2>4, PlaceOf
    <3>2. NextPayoutDay(d) = Utc(m + 1, 15)
      BY <1>1, <3>1 DEF NextPayoutDay
    <3>. QED
      BY <1>1, <2>1, <3>1, <3>2 DEF PayoutDays
  <2>. QED
    BY <2>2, <2>3, <2>4
<1>5. CASE k = "custom"
  <2>1. Following(k, c, d) = NextCustomPayoutDay(d, c)
    BY <1>5 DEF Following
  <2>2. \A n : dateWithDay(n, 30) \in PayoutDays(k, n) /\ Utc(n, 15) \in PayoutDays(k, n)
    BY <1>5 DEF PayoutDays
  <2>3. MonthOf(d) = m \/ (MonthOf(d) = m + 1 /\ DayOfMonth(d) \in 1..2)
    BY PayoutPlace
  <2>4. CASE c = "monthly"
    <3>1. Following(k, c, d) = dateWithDay(MonthOf(d) + 1, 30)
      BY <2>1, <2>4 DEF NextCustomPayoutDay
    <3>. QED
      BY <1>1, <2>2, <2>3, <3>1
  <2>5. CASE c = "bi-weekly" /\ MonthOf(d) = m /\ DayOfMonth(d) = 15
    <3>1. Following(k, c, d) = dateWithDay(m, 30)
      BY <2>1, <2>5 DEF NextCustomPayoutDay
    <3>. QED
      BY <1>1, <2>2, <2>5, <3>1
  <2>6. CASE c = "bi-weekly" /\ DayOfMonth(d) # 15
    <3>1. Following(k, c, d) = dateWithDay(MonthOf(d) + 1, 15)
      BY <2>1, <2>6 DEF NextCustomPayoutDay
    <3>. QED
      BY <1>1, <2>2, <2>3, <3>1
  <2>. QED
    BY <2>3, <2>4, <2>5, <2>6 DEF Cadence
<1>. QED
  BY <1>4, <1>5 DEF PodKind

\* Two payouts of a system pod are 13 to 16 days apart.
LEMMA SystemSpacing ==
  ASSUME NEW m \in Month, m + 1 \in Month, NEW d \in PayoutDays("system", m)
  PROVE  NextPayoutDay(d) - d \in 13..16
<1>1. /\ DaysIn(m) \in 28..31 /\ MonthStart[m] \in Int
      /\ MonthStart[m + 1] = MonthStart[m] + DaysIn(m)
  BY MonthFacts
<1>2. CASE d = Utc(m, 15)
  <2>1. MonthOf(d) = m /\ DayOfMonth(d) = 15
    BY <1>1, <1>2, PlaceOf
  <2>2. NextPayoutDay(d) = Utc(m, 30)
    BY <2>1 DEF NextPayoutDay
  <2>. QED
    BY <1>1, <1>2, <2>2 DEF Utc
<1>3. CASE d = Utc(m, 30)
  <2>1. /\ DaysIn(m) >= 30 => MonthOf(d) = m /\ DayOfMonth(d) = 30
        /\ DaysIn(m) < 30 => MonthOf(d) = m + 1 /\ DayOfMonth(d) = 30 - DaysIn(m)
    BY <1>1, <1>3, PlaceOf
  <2>2. NextPayoutDay(d) = Utc(m + 1, 15)
    BY <1>1, <2>1 DEF NextPayoutDay
  <2>. QED
    BY <1>1, <1>3, <2>2 DEF Utc
<1>. QED
  BY <1>2, <1>3 DEF PayoutDays

LEMMA FirstPayoutIs ==
  ASSUME NEW k \in PodKind, NEW c \in Cadence, k = "system" => c = "bi-weekly",
         NEW m \in Month, m + 1 \in Month, NEW s \in OpeningDays(c, m)
  PROVE  FirstPayout(k, c, s) =
           IF c = "monthly" THEN dateWithDay(m, 30)
           ELSE IF s = Utc(m, 1) THEN Utc(m, 15) ELSE Utc(m, 30)
<1>1. MonthOf(s) = m
  BY OpeningPlace
<1>2. CASE c = "monthly"
  BY <1>1, <1>2 DEF FirstPayout, computeNextPayoutAnchor, PodKind
<1>3. CASE c = "bi-weekly" /\ s = Utc(m, 1)
  <2>1. MonthStart[m] \in Int
    BY MonthFacts
  <2>2. DayOfMonth(s) = 1
    BY <1>3, <2>1, OpeningPlace DEF Utc
  <2>. QED
    BY <1>1, <1>3, <2>2 DEF FirstPayout, NextPayoutDay
<1>4. CASE c = "bi-weekly" /\ s = Utc(m, 16)
  <2>1. MonthStart[m] \in Int
    BY MonthFacts
  <2>2. DayOfMonth(s) = 16 /\ s # Utc(m, 1)
    BY <1>4, <2>1, OpeningPlace DEF Utc
  <2>. QED
    BY <1>1, <1>4, <2>2 DEF FirstPayout, NextPayoutDay
<1>. QED
  BY <1>2, <1>3, <1>4 DEF Cadence, OpeningDays
-----------------------------------------------------------------------------
\* A window and the payout that its contributions make, in a long month.
Matched(c, w, d, m) ==
  /\ DaysIn(m) >= 30
  /\ \/ c = "monthly" /\ w = Utc(m, 1) /\ d = Utc(m, 30)
     \/ c = "bi-weekly" /\ w = Utc(m, 1) /\ d = Utc(m, 15)
     \/ c = "bi-weekly" /\ w = Utc(m, 16) /\ d = Utc(m, 30)

LEMMA MatchedFollows ==
  ASSUME NEW c \in Cadence, NEW m \in Month, m + 1 \in Month, m + 2 \in Month,
         NEW w, NEW d, Matched(c, w, d, m)
  PROVE  /\ w \in OpeningDays(c, m)
         /\ w + 2 < d
         /\ d < nextContributionWindowStart(w, c)
         /\ d = computeNextPayoutAnchor(w, c)
<1>1. /\ m \in Nat /\ DaysIn(m) \in 30..31 /\ MonthStart[m] \in Int
      /\ MonthStart[m + 1] = MonthStart[m] + DaysIn(m)
      /\ dateWithDay(m, 15) = Utc(m, 15) /\ dateWithDay(m, 30) = Utc(m, 30)
  BY MonthFacts, Clamped DEF Matched
<1>2. w \in OpeningDays(c, m)
  BY DEF Matched, OpeningDays
<1>3. MonthOf(w) = m
  BY <1>2, OpeningPlace
<1>4. CASE c = "monthly" /\ w = Utc(m, 1) /\ d = Utc(m, 30)
  <2>1. nextContributionWindowStart(w, c) = Utc(m + 1, 1)
    BY <1>1, <1>2, <1>4, WindowAfter
  <2>. QED
    BY <1>1, <1>2, <1>3, <1>4, <2>1 DEF computeNextPayoutAnchor, Utc
<1>5. CASE c = "bi-weekly" /\ w = Utc(m, 1) /\ d = Utc(m, 15)
  <2>1. nextContributionWindowStart(w, c) = Utc(m, 16)
    BY <1>1, <1>2, <1>5, WindowAfter
  <2>2. DayOfMonth(w) = 1
    BY <1>1, <1>2, <1>5, OpeningPlace DEF Utc
  <2>3. computeNextPayoutAnchor(w, c) = Utc(m, 15)
    BY <1>1, <1>3, <1>5, <2>2 DEF computeNextPayoutAnchor, isWithinContributionWindow
  <2>. QED
    BY <1>1, <1>2, <1>5, <2>1, <2>3 DEF Utc
<1>6. CASE c = "bi-weekly" /\ w = Utc(m, 16) /\ d = Utc(m, 30)
  <2>1. nextContributionWindowStart(w, c) = Utc(m + 1, 1)
    BY <1>1, <1>2, <1>6, WindowAfter DEF Utc
  <2>2. DayOfMonth(w) = 16
    BY <1>1, <1>2, <1>6, OpeningPlace DEF Utc
  <2>3. computeNextPayoutAnchor(w, c) = Utc(m, 30)
    BY <1>1, <1>3, <1>6, <2>2 DEF computeNextPayoutAnchor, isWithinContributionWindow
  <2>. QED
    BY <1>1, <1>2, <1>6, <2>1, <2>3 DEF Utc
<1>. QED
  BY <1>4, <1>5, <1>6 DEF Matched

LEMMA MatchedAfter ==
  ASSUME NEW k \in PodKind, NEW c \in Cadence, k = "system" => c = "bi-weekly",
         NEW m \in Month, m + 1 \in Month, m + 2 \in Month,
         NEW w, NEW d, Matched(c, w, d, m), DaysIn(MonthOf(Following(k, c, d))) >= 30
  PROVE  \E n \in {m, m + 1} :
           Matched(c, nextContributionWindowStart(w, c), Following(k, c, d), n)
<1>1. /\ m \in Nat /\ DaysIn(m) \in 30..31 /\ MonthStart[m] \in Int /\ DaysIn(m + 1) \in 28..31
      /\ dateWithDay(m, 30) = Utc(m, 30) /\ dateWithDay(m + 1, 15) = Utc(m + 1, 15)
      /\ m + 1 + 1 = m + 2
  BY MonthFacts, Clamped DEF Matched
<1>2. w \in OpeningDays(c, m)
  BY DEF Matched, OpeningDays
<1>3. CASE c = "monthly" /\ w = Utc(m, 1) /\ d = Utc(m, 30)
  <2>1. nextContributionWindowStart(w, c) = Utc(m + 1, 1)
    BY <1>1, <1>2, <1>3, WindowAfter
  <2>2. MonthOf(d) = m /\ k = "custom"
    BY <1>1, <1>3, PlaceOf DEF PodKind
  <2>3. Following(k, c, d) = dateWithDay(m + 1, 30)
    BY <1>3, <2>2 DEF Following, NextCustomPayoutDay
  <2>4. dateWithDay(m + 1, 30) \in PayoutDays(k, m + 1)
    BY <2>2 DEF PayoutDays
  <2>5. Following(k, c, d) = Utc(m + 1, IF DaysIn(m + 1) >= 30 THEN 30 ELSE DaysIn(m + 1))
    BY <2>3, Clamped
  <2>6. MonthOf(Following(k, c, d)) = m + 1
    BY <1>1, <2>5, PlaceOf
  <2>. QED
    BY <1>3, <2>1, <2>5, <2>6 DEF Matched
<1>4. CASE c = "bi-weekly" /\ w = Utc(m, 1) /\ d = Utc(m, 15)
  <2>1. nextContributionWindowStart(w, c) = Utc(m, 16)
    BY <1>1, <1>2, <1>4, WindowAfter
  <2>2. MonthOf(d) = m /\ DayOfMonth(d) = 15
    BY <1>1, <1>4, PlaceOf
  <2>3. Following(k, c, d) = Utc(m, 30)
    BY <1>1, <1>4, <2>2 DEF Following, NextCustomPayoutDay, NextPayoutDay
  <2>. QED
    BY <1>1, <1>4, <2>1, <2>3 DEF Matched
<1>5. CASE c = "bi-weekly" /\ w = Utc(m, 16) /\ d = Utc(m, 30)
  <2>1. nextContributionWindowStart(w, c) = Utc(m + 1, 1)
    BY <1>1, <1>2, <1>5, WindowAfter DEF Utc
  <2>2. MonthOf(d) = m /\ DayOfMonth(d) = 30
    BY <1>1, <1>5, PlaceOf
  <2>3. Following(k, c, d) = Utc(m + 1, 15)
    BY <1>1, <1>5, <2>2 DEF Following, NextCustomPayoutDay, NextPayoutDay
  <2>4. MonthOf(Following(k, c, d)) = m + 1
    BY <1>1, <2>3, PlaceOf
  <2>. QED
    BY <1>1, <1>5, <2>1, <2>3, <2>4 DEF Matched
<1>. QED
  BY <1>3, <1>4, <1>5 DEF Matched

-----------------------------------------------------------------------------
\* What is fixed when the pod locks ...
RosterDated ==
  /\ kind \in PodKind /\ cadence \in Cadence /\ (kind = "system" => cadence = "bi-weekly")
  /\ MonthOf(start) \in StartMonths /\ start \in OpeningDays(cadence, MonthOf(start))
  /\ payout \in [1..Slots -> Day]
  /\ \A i \in 1..Slots :
       \E m \in MonthOf(start) .. (MonthOf(start) + 2 * (i - 1)) : payout[i] \in PayoutDays(kind, m)
  /\ \A i \in 1..(Slots - 1) : payout[i + 1] = Following(kind, cadence, payout[i])

\* No February from the pod's start to its payout.
NoShortMonth == \A m \in MonthOf(start) .. MonthOf(payout[cycle]) : ~IsShort(m)

\* ... and where the window stands in each cycle.
WindowPlaced ==
  /\ cycle \in 1..Slots
  /\ \E m \in MonthOf(start) .. (MonthOf(start) + 2 * (cycle - 1)) : window \in OpeningDays(cadence, m)
  /\ window >= start + (cycle - 1) * (IF cadence = "monthly" THEN 28 ELSE 13)
  /\ NoShortMonth =>
       \E m \in MonthOf(start) .. (MonthOf(start) + 2 * (cycle - 1)) :
         Matched(cadence, window, payout[cycle], m)

CyclesInv == RosterDated /\ WindowPlaced

LEMMA Room ==
  ASSUME NEW m0 \in StartMonths, NEW i \in 1..Slots, NEW m \in m0 .. (m0 + 2 * (i - 1))
  PROVE  /\ m0 \in Month /\ m \in Month /\ m + 1 \in Month /\ m + 2 \in Month
         /\ i < Slots => m + 3 \in Month
         /\ m \in Nat
<1>1. LastMonth \in Nat /\ Slots \in Nat /\ m0 \in 0..LastMonth /\ m0 + 2 * Slots <= LastMonth
  BY CyclesAssumption, CalendarAssumption DEF Month
<1>. QED
  BY <1>1 DEF Month

LEMMA ScheduleDated ==
  ASSUME NEW k \in PodKind, NEW c \in Cadence, k = "system" => c = "bi-weekly",
         NEW m0 \in StartMonths, NEW s \in OpeningDays(c, m0), NEW f,
         f[1] = FirstPayout(k, c, s),
         \A i \in Nat \ {0} : f[i + 1] = Following(k, c, f[i])
  PROVE  \A i \in 1..Slots : \E m \in m0 .. (m0 + 2 * (i - 1)) : f[i] \in PayoutDays(k, m)
<1>. DEFINE T == {i \in Nat : i + 1 <= Slots =>
                                \E m \in m0 .. (m0 + 2 * i) : f[i + 1] \in PayoutDays(k, m)}
<1>0. Slots \in Nat \ {0}
  BY CyclesAssumption
<1>1. 0 \in T
  <2>1. 1 \in 1..Slots /\ m0 \in m0 .. (m0 + 2 * (1 - 1)) /\ m0 \in Nat
    BY <1>0, CyclesAssumption DEF Month
  <2>2. m0 \in Month /\ m0 + 1 \in Month
    BY <2>1, Room
  <2>3. FirstPayout(k, c, s) \in PayoutDays(k, m0)
    <3>1. c = "monthly" => k = "custom"
      BY DEF PodKind
    <3>. QED
      BY <2>2, <3>1, FirstPayoutIs DEF PayoutDays
  <2>. QED
    BY <2>1, <2>3
<1>2. ASSUME NEW i \in T PROVE i + 1 \in T
  <2>1. SUFFICES ASSUME i + 1 + 1 <= Slots
                 PROVE  \E m \in m0 .. (m0 + 2 * (i + 1)) : f[i + 1 + 1] \in PayoutDays(k, m)
    OBVIOUS
  <2>2. i \in Nat /\ i + 1 \in 1..Slots /\ i + 1 < Slots /\ i + 1 \in Nat \ {0}
    BY <1>0, <2>1
  <2>3. PICK m \in m0 .. (m0 + 2 * i) : f[i + 1] \in PayoutDays(k, m)
    BY <2>2
  <2>4. m \in m0 .. (m0 + 2 * (i + 1 - 1)) /\ m0 \in Int
    BY <2>2, CyclesAssumption DEF Month
  <2>5. m \in Month /\ m + 1 \in Month /\ m + 2 \in Month /\ m + 3 \in Month
    BY <2>2, <2>4, Room
  <2>6. PICK n \in {m, m + 1, m + 2} : Following(k, c, f[i + 1]) \in PayoutDays(k, n)
    BY <2>3, <2>5, PayoutAfter
  <2>7. n \in m0 .. (m0 + 2 * (i + 1))
    BY <2>2, <2>4
  <2>. QED
    BY <2>2, <2>6, <2>7
<1>3. \A i \in Nat : i \in T
  <2>. HIDE DEF T
  <2>. QED
    BY <1>1, <1>2, NatSets
<1>4. ASSUME NEW i \in 1..Slots
      PROVE  \E m \in m0 .. (m0 + 2 * (i - 1)) : f[i] \in PayoutDays(k, m)
  <2>1. i - 1 \in Nat /\ i - 1 + 1 = i /\ i <= Slots
    BY <1>0
  <2>2. i - 1 \in T
    BY <1>3, <2>1
  <2>. QED
    BY <2>1, <2>2
<1>. QED
  BY <1>4

LEMMA CyclesStart == CyclesInit => CyclesInv
<1>. SUFFICES ASSUME CyclesInit PROVE CyclesInv
  OBVIOUS
<1>. USE DEF CyclesInit
<1>0. Slots \in Nat \ {0} /\ 1 \in 1..Slots
  BY CyclesAssumption
<1>1. kind \in PodKind /\ cadence \in Cadence /\ (kind = "system" => cadence = "bi-weekly")
  BY DEF Cadence
<1>2. PICK m0 \in StartMonths : start \in OpeningDays(cadence, m0)
  BY DEF FirstWindows, OpeningDays
<1>3. m0 \in Nat /\ m0 \in m0 .. (m0 + 2 * (1 - 1)) /\ m0 \in m0 .. (m0 + 2 * (cycle - 1))
  BY CyclesAssumption DEF Month
<1>4. m0 \in Month /\ m0 + 1 \in Month /\ m0 + 2 \in Month
  BY <1>0, <1>3, Room
<1>5. MonthOf(start) = m0 /\ start \in Day
  BY <1>1, <1>2, <1>4, OpeningPlace
<1>6. PICK f : /\ payout = [i \in 1..Slots |-> f[i]]
               /\ f[1] = FirstPayout(kind, cadence, start)
               /\ \A i \in Nat \ {0} : f[i + 1] = Following(kind, cadence, f[i])
  <2>1. CASE kind = "system"
    <3>1. payout = generatePayoutSchedule(start, Slots)
      BY <2>1 DEF Schedule
    <3>2. IsSchedule(kind, cadence, start, Slots, payout)
      BY <1>0, <2>1, <3>1, SystemSchedule
    <3>. QED
      BY <3>2 DEF IsSchedule
  <2>2. CASE kind = "custom"
    <3>1. payout = generateCustomPayoutSchedule(cadence, start, Slots)
      BY <2>2 DEF Schedule
    <3>2. IsSchedule(kind, cadence, start, Slots, payout)
      BY <1>0, <2>2, <3>1, CustomSchedule
    <3>. QED
      BY <3>2 DEF IsSchedule
  <2>. QED
    BY <1>1, <2>1, <2>2 DEF PodKind
<1>7. \A i \in 1..Slots : \E m \in m0 .. (m0 + 2 * (i - 1)) : f[i] \in PayoutDays(kind, m)
  BY <1>1, <1>2, <1>6, ScheduleDated
<1>8. \A i \in 1..Slots : payout[i] = f[i] /\ f[i] \in Day
  <2>1. SUFFICES ASSUME NEW i \in 1..Slots PROVE f[i] \in Day
    BY <1>6
  <2>2. PICK m \in m0 .. (m0 + 2 * (i - 1)) : f[i] \in PayoutDays(kind, m)
    BY <1>7
  <2>3. m \in Month /\ m + 1 \in Month
    BY Room
  <2>. QED
    BY <2>2, <2>3, PayoutPlace
<1>9. payout \in [1..Slots -> Day]
  BY <1>6, <1>8
<1>10. \A i \in 1..(Slots - 1) : payout[i + 1] = Following(kind, cadence, payout[i])
  <2>1. \A i \in 1..(Slots - 1) : i \in 1..Slots /\ i + 1 \in 1..Slots /\ i \in Nat \ {0}
    BY <1>0
  <2>. QED
    BY <1>6, <1>8, <2>1
<1>11. RosterDated
  BY <1>1, <1>2, <1>5, <1>7, <1>8, <1>9, <1>10 DEF RosterDated
<1>12. ASSUME NoShortMonth PROVE Matched(cadence, window, payout[cycle], m0)
  <2>1. payout[1] = IF cadence = "monthly" THEN dateWithDay(m0, 30)
                    ELSE IF start = Utc(m0, 1) THEN Utc(m0, 15) ELSE Utc(m0, 30)
    BY <1>0, <1>1, <1>2, <1>4, <1>6, <1>8, FirstPayoutIs
  <2>2. PICK m \in {m0} : payout[1] \in PayoutDays(kind, m)
    <3>1. \E m \in m0 .. (m0 + 2 * (1 - 1)) : f[1] \in PayoutDays(kind, m)
      BY <1>0, <1>7
    <3>. QED
      BY <1>0, <1>3, <1>8, <3>1
  <2>3. MonthOf(payout[1]) \in {m0, m0 + 1}
    BY <1>4, <2>2, PayoutPlace
  <2>4. DaysIn(m0) >= 30
    <3>1. m0 \in MonthOf(start) .. MonthOf(payout[cycle]) /\ DaysIn(m0) \in Int
      BY <1>3, <1>4, <1>5, <2>3, MonthFacts
    <3>. QED
      BY <1>12, <3>1 DEF NoShortMonth, IsShort
  <2>5. cadence = "monthly" => start = Utc(m0, 1)
    BY <1>2 DEF OpeningDays
  <2>6. start = Utc(m0, 1) \/ start = Utc(m0, 16)
    BY <1>2 DEF OpeningDays
  <2>. QED
    BY <1>1, <1>4, <2>1, <2>4, <2>5, <2>6, Clamped DEF Matched, Cadence
<1>13. WindowPlaced
  <2>1. window >= start + (cycle - 1) * (IF cadence = "monthly" THEN 28 ELSE 13)
    <3>1. start \in Int
      BY <1>5, CalendarAssumption DEF Day
    <3>. QED
      BY <3>1
  <2>. QED
    BY <1>0, <1>2, <1>3, <1>5, <1>12, <2>1 DEF WindowPlaced
<1>. QED
  BY <1>11, <1>13 DEF CyclesInv
LEMMA StartsInNat == \A m \in StartMonths : m \in Nat /\ m \in Month
BY CyclesAssumption, MonthFacts

LEMMA WindowMoves ==
  ASSUME NEW c \in Cadence, NEW m \in Month, m + 1 \in Month, m + 2 \in Month,
         NEW w \in OpeningDays(c, m)
  PROVE  /\ \E n \in {m, m + 1, m + 2} : nextContributionWindowStart(w, c) \in OpeningDays(c, n)
         /\ nextContributionWindowStart(w, c) \in Int /\ w \in Int
         /\ nextContributionWindowStart(w, c) >= w + (IF c = "monthly" THEN 28 ELSE 13)
<1>1. /\ MonthStart[m] \in Int /\ DaysIn(m) \in 28..31 /\ DaysIn(m + 1) \in 28..31
      /\ MonthStart[m + 1] = MonthStart[m] + DaysIn(m)
      /\ MonthStart[m + 2] = MonthStart[m + 1] + DaysIn(m + 1)
  <2>1. m + 1 + 1 = m + 2
    BY MonthFacts
  <2>. QED
    BY <2>1, MonthFacts
<1>2. CASE c = "monthly"
  <2>1. w = Utc(m, 1)
    BY <1>2 DEF OpeningDays
  <2>2. CASE DaysIn(m) >= 30
    BY <1>1, <1>2, <2>1, <2>2, WindowAfter DEF OpeningDays, Utc
  <2>3. CASE DaysIn(m) < 30
    <3>1. nextContributionWindowStart(w, c) = Utc(m + 2, 1)
      BY <1>1, <1>2, <2>3, WindowAfter
    <3>. QED
      BY <1>1, <1>2, <2>1, <3>1 DEF OpeningDays, Utc
  <2>. QED
    BY <1>1, <2>2, <2>3
<1>3. CASE c = "bi-weekly" /\ w = Utc(m, 1)
  <2>1. nextContributionWindowStart(w, c) = Utc(m, 16)
    BY <1>3, WindowAfter
  <2>. QED
    BY <1>1, <1>3, <2>1 DEF OpeningDays, Utc
<1>4. CASE c = "bi-weekly" /\ w = Utc(m, 16)
  <2>1. nextContributionWindowStart(w, c) = Utc(m + 1, 1)
          \/ nextContributionWindowStart(w, c) = Utc(m + 1, 16)
    BY <1>1, <1>4, WindowAfter DEF Utc
  <2>. QED
    BY <1>1, <1>4, <2>1 DEF OpeningDays, Utc
<1>. QED
  BY <1>2, <1>3, <1>4 DEF Cadence, OpeningDays

\* The months of a payout are those after its predecessor's.
LEMMA PayoutsInOrder ==
  ASSUME RosterDated, NEW i \in 1..(Slots - 1)
  PROVE  /\ payout[i + 1] = Following(kind, cadence, payout[i])
         /\ MonthOf(payout[i]) \in Int /\ MonthOf(payout[i + 1]) \in Month
         /\ MonthOf(payout[i]) <= MonthOf(payout[i + 1])
         /\ MonthOf(start) \in Nat /\ MonthOf(start) <= MonthOf(payout[i + 1])
         /\ kind = "system" => payout[i + 1] - payout[i] \in 13..16
<1>. USE DEF RosterDated
<1>1. i \in 1..Slots /\ i + 1 \in 1..Slots /\ i < Slots /\ MonthOf(start) \in Nat
  <2>1. Slots \in Nat
    BY CyclesAssumption
  <2>. QED
    BY <2>1, StartsInNat
<1>2. PICK m \in MonthOf(start) .. (MonthOf(start) + 2 * (i - 1)) : payout[i] \in PayoutDays(kind, m)
  BY <1>1
<1>3. m \in Nat /\ m \in Month /\ m + 1 \in Month /\ m + 2 \in Month /\ m + 3 \in Month
  BY <1>1, Room
<1>4. payout[i + 1] = Following(kind, cadence, payout[i])
  OBVIOUS
<1>5. MonthOf(payout[i]) <= MonthOf(payout[i + 1])
  BY <1>2, <1>3, <1>4, PayoutAfter
<1>6. MonthOf(payout[i]) \in {m, m + 1}
  BY <1>2, <1>3, PayoutPlace
<1>7. MonthOf(payout[i + 1]) \in Month
  <2>1. payout[i + 1] \in Day
    BY <1>1
  <2>. QED
    BY <2>1, MonthOfDay
<1>8. kind = "system" => payout[i + 1] - payout[i] \in 13..16
  BY <1>2, <1>3, <1>4, SystemSpacing DEF Following
<1>9. m >= MonthOf(start) /\ MonthOf(payout[i + 1]) \in Nat
  BY <1>1, <1>7, MonthFacts
<1>. QED
  BY <1>1, <1>4, <1>5, <1>6, <1>7, <1>8, <1>9

LEMMA CyclesStep == CyclesInv /\ [CyclesNext]_cycleVars => CyclesInv'
<1>. SUFFICES ASSUME CyclesInv, [CyclesNext]_cycleVars PROVE CyclesInv'
  OBVIOUS
<1>1. CASE UNCHANGED cycleVars
  BY <1>1 DEF CyclesInv, RosterDated, WindowPlaced, NoShortMonth, cycleVars
<1>2. CASE advanceNextContributionDate
  <2>. USE <1>2 DEF advanceNextContributionDate
  <2>0. PICK m0 : m0 = MonthOf(start)
    OBVIOUS
  <2>1. RosterDated /\ WindowPlaced /\ cadence \in Cadence /\ m0 \in StartMonths /\ m0 \in Nat
    BY <2>0, StartsInNat DEF CyclesInv, RosterDated
  <2>2. Slots \in Nat /\ cycle \in 1..(Slots - 1) /\ cycle \in 1..Slots /\ cycle < Slots
    BY <2>1, CyclesAssumption DEF WindowPlaced
  <2>3. PICK m \in m0 .. (m0 + 2 * (cycle - 1)) : window \in OpeningDays(cadence, m)
    BY <2>0, <2>1 DEF WindowPlaced
  <2>4. m \in Nat /\ m \in Month /\ m + 1 \in Month /\ m + 2 \in Month
    BY <2>1, <2>2, Room
  <2>5. RosterDated'
    BY <2>1 DEF RosterDated
  <2>6. PICK n \in {m, m + 1, m + 2} : window' \in OpeningDays(cadence, n)
    BY <2>1, <2>3, <2>4, WindowMoves
  <2>7. n \in m0 .. (m0 + 2 * (cycle' - 1))
    BY <2>1, <2>2, <2>4
  <2>8. window' >= start + (cycle' - 1) * (IF cadence = "monthly" THEN 28 ELSE 13)
    <3>1. /\ window' \in Int /\ window \in Int
          /\ window' >= window + (IF cadence = "monthly" THEN 28 ELSE 13)
      BY <2>1, <2>3, <2>4, WindowMoves
    <3>2. start \in Int
      <4>1. m0 \in m0 .. (m0 + 2 * (cycle - 1))
        BY <2>1, <2>2
      <4>2. m0 \in Month /\ m0 + 1 \in Month
        BY <2>1, <2>2, <4>1, Room
      <4>. QED
        BY <2>0, <2>1, <4>2, WindowMoves, OpeningPlace, CalendarAssumption DEF RosterDated, Day
    <3>3. window >= start + (cycle - 1) * (IF cadence = "monthly" THEN 28 ELSE 13)
      BY <2>1 DEF WindowPlaced
    <3>. QED
      BY <2>2, <3>1, <3>2, <3>3
  <2>9. ASSUME NoShortMonth'
        PROVE  \E k \in m0 .. (m0 + 2 * (cycle' - 1)) :
                 Matched(cadence, window', payout[cycle + 1], k)
    <3>1. /\ payout[cycle + 1] = Following(kind, cadence, payout[cycle])
          /\ MonthOf(payout[cycle]) \in Int /\ MonthOf(payout[cycle + 1]) \in Month
          /\ MonthOf(payout[cycle]) <= MonthOf(payout[cycle + 1])
          /\ m0 <= MonthOf(payout[cycle + 1])
      BY <2>0, <2>1, <2>2, PayoutsInOrder
    <3>2. MonthOf(payout[cycle + 1]) \in Nat /\ DaysIn(MonthOf(payout[cycle + 1])) \in Int
      BY <3>1, MonthFacts
    <3>3. \A k \in m0 .. MonthOf(payout[cycle + 1]) : ~IsShort(k)
      BY <2>0, <2>9 DEF NoShortMonth
    <3>4. NoShortMonth
      BY <2>0, <2>1, <3>1, <3>2, <3>3 DEF NoShortMonth
    <3>5. DaysIn(MonthOf(payout[cycle + 1])) >= 30
      BY <2>1, <3>1, <3>2, <3>3 DEF IsShort
    <3>6. PICK k \in m0 .. (m0 + 2 * (cycle - 1)) : Matched(cadence, window, payout[cycle], k)
      BY <2>0, <2>1, <3>4 DEF WindowPlaced
    <3>7. k \in Nat /\ k \in Month /\ k + 1 \in Month /\ k + 2 \in Month
      BY <2>1, <2>2, Room
    <3>8. kind \in PodKind /\ (kind = "system" => cadence = "bi-weekly")
      BY <2>1 DEF RosterDated
    <3>9. PICK l \in {k, k + 1} : Matched(cadence, window', payout[cycle + 1], l)
      BY <2>1, <3>1, <3>5, <3>6, <3>7, <3>8, MatchedAfter
    <3>10. l \in m0 .. (m0 + 2 * (cycle' - 1))
      BY <2>1, <2>2, <3>7
    <3>. QED
      BY <3>9, <3>10
  <2>10. cycle' \in 1..Slots /\ payout'[cycle'] = payout[cycle + 1]
    BY <2>2
  <2>11. WindowPlaced'
    BY <2>0, <2>6, <2>7, <2>8, <2>9, <2>10 DEF WindowPlaced
  <2>. QED
    BY <2>5, <2>11 DEF CyclesInv
<1>. QED
  BY <1>1, <1>2 DEF CyclesNext, Finished

LEMMA CyclesInductive == CyclesSpec => []CyclesInv
BY CyclesStart, CyclesStep, PTL DEF CyclesSpec

\* A pod may start in any month of any calendar, run for any number of cycles and
\* be of either kind and cadence: the contribution windows that it visits
\* (advanceNextContributionDate) and the payout dates written when it locked
\* (generatePayoutSchedule, generateCustomPayoutSchedule) agree.
THEOREM DatesAgreeInEveryCalendar == CyclesSpec => []CalendarAgrees
<1>. SUFFICES ASSUME CyclesInv PROVE CalendarAgrees
  BY CyclesInductive, PTL
<1>. PICK m0 : m0 = MonthOf(start)
  OBVIOUS
<1>1. RosterDated /\ WindowPlaced /\ cadence \in Cadence /\ m0 \in StartMonths /\ cycle \in 1..Slots
  BY DEF CyclesInv, RosterDated, WindowPlaced
<1>2. PICK m \in m0 .. (m0 + 2 * (cycle - 1)) : window \in OpeningDays(cadence, m)
  BY <1>1 DEF WindowPlaced
<1>3. m \in Month /\ m + 1 \in Month /\ m + 2 \in Month
  BY <1>1, Room
<1>4. WindowsAligned
  BY <1>1, <1>2, <1>3, OpeningPlace DEF WindowsAligned, IsWindowStart, WindowPlaced
<1>5. PayoutFollowsItsWindow
  <2>. SUFFICES ASSUME NoShortMonth
                PROVE  /\ window + 2 < payout[cycle]
                       /\ payout[cycle] < nextContributionWindowStart(window, cadence)
                       /\ payout[cycle] = computeNextPayoutAnchor(window, cadence)
    BY DEF PayoutFollowsItsWindow, NoShortMonth
  <2>1. PICK k \in m0 .. (m0 + 2 * (cycle - 1)) : Matched(cadence, window, payout[cycle], k)
    BY <1>1 DEF WindowPlaced
  <2>2. k \in Month /\ k + 1 \in Month /\ k + 2 \in Month
    BY <1>1, Room
  <2>. QED
    BY <1>1, <2>1, <2>2, MatchedFollows
<1>6. PayoutsEvenlySpaced
  BY <1>1, PayoutsInOrder DEF PayoutsEvenlySpaced
<1>7. JudgedByItsWindows
  <2>. SUFFICES ASSUME kind = "custom", ~IsShort(MonthOf(window))
                PROVE  NextJudgedWindow(kind, cadence, window)
                         = nextContributionWindowStart(window, cadence)
    BY DEF JudgedByItsWindows
  <2>1. MonthOf(window) = m
    BY <1>1, <1>2, <1>3, OpeningPlace
  <2>2. DaysIn(m) >= 30
    BY <1>3, <2>1, MonthFacts DEF IsShort
  <2>. QED
    BY <1>1, <1>2, <1>3, <2>2, JudgedNext
<1>. QED
  BY <1>4, <1>5, <1>6, <1>7 DEF CalendarAgrees

-----------------------------------------------------------------------------
(***************************************************************************)
(* The rows of pods.                                                       *)
(***************************************************************************)

\* The dates of a row belong together: the start date is a start day, the grace
\* period ends two days after it, and the lock came after that.
DatesAgree(row) ==
  row.status # "none" =>
    /\ row.scheduledStartDate \in StartDay
    /\ row.graceEndsAt # NoDate => row.graceEndsAt = row.scheduledStartDate + 2
    /\ row.lockedAt # NoDate => row.lockedAt > row.scheduledStartDate + 2
    /\ row.status \in {"grace", "active"} => row.graceEndsAt # NoDate
    /\ row.status = "active" => row.lockedAt # NoDate

\* `old' may be a stale copy of `row': the start date never changes, and a grace
\* period or a lock, once recorded, stays recorded.
MayBeStale(old, row) ==
  old.status # "none" =>
    /\ row.status # "none"
    /\ old.scheduledStartDate = row.scheduledStartDate
    /\ old.graceEndsAt # NoDate => row.graceEndsAt # NoDate
    /\ old.lockedAt # NoDate => row.lockedAt # NoDate

\* A pod that ever was in grace has members.
RowsSound ==
  \A p \in Pods :
    /\ DatesAgree(pod[p])
    /\ pod[p].graceEndsAt # NoDate => members[p] # <<>>

\* What a request holds: copies that are at worst stale, and at each of its steps
\* what the steps before it established.
RequestSound(q, rows) ==
  /\ \A p \in Pods : DatesAgree(q.view[p]) /\ MayBeStale(q.view[p], rows[p])
  /\ q.pc \in {"update", "bots", "order", "insert"} => q.target \in Pods
  /\ q.pc \in {"locate", "insert"} => q.stage \in {1, 2}
  /\ q.stage \in {1, 2} => q.account \in Accounts
  /\ q.pc = "bots" => /\ q.view[q.target].status = "grace"
                      /\ q.now > q.view[q.target].graceEndsAt
  /\ q.pc = "order" => q.view[q.target].status = "active"

IInv == TypeOK /\ RowsSound /\ \A r \in Requests : RequestSound(req[r], pod)

-----------------------------------------------------------------------------
(***************************************************************************)
(* Dates and rows                                                          *)
(***************************************************************************)
\* Whatever day a request runs on, it computes start dates of the calendar.
LEMMA StartDates ==
  ASSUME NEW now \in FirstDay..LastDay
  PROVE  /\ StartDay \subseteq Int
         /\ now \in Int
         /\ computeNextStartDate(now) \in StartDay
         /\ nextStartWindow(now) \in StartDay
<1>1. StartDay \subseteq Int
  BY StartDayFacts, MonthOfUtc, CalendarAssumption DEF StartDay, Day
<1>2. /\ FirstDay \in Int /\ LastDay \in Int /\ MonthStart[0] <= FirstDay
      /\ MonthStart[0] \in Int /\ MonthStart[LastMonth] \in Int
      /\ LastDay + 1 < MonthStart[LastMonth]
  BY LifecycleAssumption, CalendarAssumption DEF Day
<1>3. /\ now \in Day /\ MonthOf(now) < LastMonth
      /\ now + 1 \in Day /\ MonthOf(now + 1) < LastMonth
  BY <1>2, MonthBeforeLast
<1>. QED
  BY <1>1, <1>2, <1>3, NextStartIsStartDay DEF nextStartWindow, addDays

LEMMA Checksums ==
  ASSUME NEW row \in Row
  PROVE  applyChecksum(row) \in Row
BY DEF applyChecksum, Hashed, Row, MaybeDate, Status

LEMMA FlushType ==
  ASSUME NEW row \in Row, NEW before \in Row, NEW after \in Row
  PROVE  Flush(row, before, after) \in Row
BY DEF Flush, Row

\* A new pod opens on a start day.
LEMMA NewPodSound ==
  ASSUME NEW now \in FirstDay..LastDay
  PROVE  /\ NewPod(now) \in Row /\ NewPod(now).status = "open"
         /\ NewPod(now).graceEndsAt = NoDate
         /\ DatesAgree(NewPod(now))
<1>1. computeNextStartDate(now) \in StartDay /\ computeNextStartDate(now) \in Int
  BY StartDates
<1>. DEFINE opened == [NoRow EXCEPT !.status = "open",
                                   !.scheduledStartDate = computeNextStartDate(now)]
<1>2. /\ opened \in Row /\ opened.status = "open" /\ opened.graceEndsAt = NoDate
      /\ opened.scheduledStartDate = computeNextStartDate(now) /\ opened.lockedAt = NoDate
  BY <1>1 DEF NoRow, Row, MaybeDate, Status
<1>3. NewPod(now) = [opened EXCEPT !.checksum = Hashed(opened)]
  BY DEF NewPod, applyChecksum
<1>4. NewPod(now) \in Row
  BY <1>2, Checksums DEF NewPod
<1>5. /\ NewPod(now).status = "open" /\ NewPod(now).graceEndsAt = NoDate
      /\ NewPod(now).scheduledStartDate = computeNextStartDate(now)
      /\ NewPod(now).lockedAt = NoDate
  BY <1>2, <1>3 DEF Row
<1>. QED
  BY <1>1, <1>4, <1>5 DEF DatesAgree

\* updatePodLifecycle keeps the dates of the row it loaded in agreement, and
\* takes only pods with members into their grace period.
LEMMA UpdatedSound ==
  ASSUME NEW row \in Row, DatesAgree(row), NEW now \in FirstDay..LastDay,
         NEW count \in Nat, row.graceEndsAt # NoDate => count > 0
  PROVE  LET u == Updated(row, count, now)
         IN  /\ u \in Row /\ DatesAgree(u) /\ MayBeStale(row, u)
             /\ row.status = "none" => u = row
             /\ u.graceEndsAt # NoDate => count > 0
<1>. DEFINE u == Updated(row, count, now)
<1>1. CASE row.status = "open" /\ now >= row.scheduledStartDate /\ count = 0
  <2>1. row.scheduledStartDate \in StartDay /\ row.scheduledStartDate \in Int
    BY <1>1, StartDates DEF DatesAgree
  <2>2. nextStartWindow(row.scheduledStartDate) = row.scheduledStartDate
    BY <2>1, EmptyPodIsNeverRescheduled
  <2>3. [row EXCEPT !.scheduledStartDate = row.scheduledStartDate] = row
    BY DEF Row
  <2>4. u = applyChecksum(row)
    BY <1>1, <2>2, <2>3 DEF Updated
  <2>. QED
    BY <1>1, <2>4, Checksums DEF applyChecksum, DatesAgree, MayBeStale, Row
<1>2. CASE row.status = "open" /\ now >= row.scheduledStartDate /\ count # 0
  <2>1. row.scheduledStartDate \in Int
    BY <1>2, StartDates DEF DatesAgree
  <2>. DEFINE graced == [row EXCEPT
              !.status = "grace",
              !.startDate = row.scheduledStartDate,
              !.graceEndsAt = addDays(row.scheduledStartDate, GracePeriodDays),
              !.nextContributionDate = row.scheduledStartDate]
  <2>2. /\ graced \in Row /\ graced.status = "grace"
        /\ graced.scheduledStartDate = row.scheduledStartDate
        /\ graced.graceEndsAt = row.scheduledStartDate + 2
        /\ graced.lockedAt = row.lockedAt
    <3>1. /\ addDays(row.scheduledStartDate, GracePeriodDays) = row.scheduledStartDate + 2
          /\ row.scheduledStartDate + 2 \in MaybeDate
          /\ row.scheduledStartDate \in MaybeDate /\ "grace" \in Status
      BY <2>1 DEF addDays, GracePeriodDays, MaybeDate, Status
    <3>. QED
      BY <3>1 DEF Row
  <2>3. u = applyChecksum(graced)
    BY <1>2 DEF Updated
  <2>4. /\ u \in Row /\ u.status = "grace" /\ u.lockedAt = row.lockedAt
        /\ u.scheduledStartDate = row.scheduledStartDate
        /\ u.graceEndsAt = row.scheduledStartDate + 2
    <3>1. u = [graced EXCEPT !.checksum = Hashed(graced)]
      BY <2>3 DEF applyChecksum
    <3>. QED
      BY <2>2, <2>3, <3>1, Checksums DEF Row
  <2>5. row.scheduledStartDate + 2 # NoDate
    BY <2>1, LifecycleAssumption
  <2>. QED
    BY <1>2, <2>4, <2>5 DEF DatesAgree, MayBeStale
<1>3. CASE ~(row.status = "open" /\ now >= row.scheduledStartDate)
  <2>1. ~(row.status = "grace" /\ count = 0)
    BY DEF DatesAgree
  <2>2. u = row
    BY <1>3, <2>1 DEF Updated
  <2>. QED
    BY <2>2 DEF MayBeStale
<1>. QED
  BY <1>1, <1>2, <1>3

\* A flush of a change to a stale copy keeps what the row had recorded.
LEMMA FlushSound ==
  ASSUME NEW row \in Row, NEW before \in Row, NEW after \in Row,
         before.status # "none",
         DatesAgree(row), DatesAgree(before), DatesAgree(after),
         MayBeStale(before, row), MayBeStale(before, after)
  PROVE  LET f == Flush(row, before, after)
         IN  /\ f \in Row /\ DatesAgree(f) /\ MayBeStale(row, f) /\ MayBeStale(after, f)
             /\ f.graceEndsAt # NoDate => row.graceEndsAt # NoDate \/ after.graceEndsAt # NoDate
<1>. DEFINE f == Flush(row, before, after)
<1>1. f \in Row
  BY FlushType
<1>2. /\ f.status = IF after.status # before.status THEN after.status ELSE row.status
      /\ f.scheduledStartDate = row.scheduledStartDate
      /\ f.graceEndsAt = IF after.graceEndsAt # before.graceEndsAt
                         THEN after.graceEndsAt ELSE row.graceEndsAt
      /\ f.lockedAt = IF after.lockedAt # before.lockedAt
                      THEN after.lockedAt ELSE row.lockedAt
  BY DEF Flush, Row, MayBeStale
<1>3. /\ row.status # "none" /\ after.status # "none" /\ f.status # "none"
      /\ after.scheduledStartDate = row.scheduledStartDate
  BY <1>2 DEF MayBeStale
<1>4. /\ row.graceEndsAt # NoDate => f.graceEndsAt # NoDate
      /\ row.lockedAt # NoDate => f.lockedAt # NoDate
      /\ after.graceEndsAt # NoDate => f.graceEndsAt # NoDate
      /\ after.lockedAt # NoDate => f.lockedAt # NoDate
  BY <1>2 DEF MayBeStale
<1>. QED
  BY <1>1, <1>2, <1>3, <1>4 DEF DatesAgree, MayBeStale

LEMMA StaleTransitive ==
  ASSUME NEW a, NEW b, NEW c, MayBeStale(a, b), MayBeStale(b, c)
  PROVE  MayBeStale(a, c)
BY DEF MayBeStale

-----------------------------------------------------------------------------
(***************************************************************************)
(* Steps of requests                                                       *)
(***************************************************************************)
\* A step of one request keeps IInv when what it leaves in the request is sound
\* and every pod it writes keeps what it had recorded.
LEMMA RequestStep ==
  ASSUME IInv, NEW r \in Requests, NEW q \in Request,
         req' = [req EXCEPT ![r] = q], RequestSound(q, pod'),
         day' = day, version' \in [Accounts -> Nat],
         pod' \in [Pods -> Row], members' \in [Pods -> Seq(Membership)],
         \A p \in Pods : /\ DatesAgree(pod'[p]) /\ MayBeStale(pod[p], pod'[p])
                         /\ pod'[p].graceEndsAt # NoDate => members'[p] # <<>>
  PROVE  IInv'
<1>1. TypeOK'
  BY DEF IInv, TypeOK
<1>2. RowsSound'
  BY DEF RowsSound
<1>3. ASSUME NEW s \in Requests
      PROVE  RequestSound(req'[s], pod')
  <2>1. CASE s = r
    BY <2>1 DEF IInv, TypeOK
  <2>2. CASE s # r
    <3>1. req'[s] = req[s] /\ RequestSound(req[s], pod)
      BY <2>2 DEF IInv, TypeOK
    <3>2. \A p \in Pods : MayBeStale(req[s].view[p], pod'[p])
      BY <3>1, StaleTransitive DEF RequestSound
    <3>. QED
      BY <3>1, <3>2 DEF RequestSound
  <2>. QED
    BY <2>1, <2>2
<1>. QED
  BY <1>1, <1>2, <1>3 DEF IInv

\* The same of a step that writes nothing.
LEMMA ReadStep ==
  ASSUME IInv, NEW r \in Requests, NEW q \in Request,
         req' = [req EXCEPT ![r] = q], RequestSound(q, pod),
         UNCHANGED <<day, pod, members, version>>
  PROVE  IInv'
<1>1. \A p \in Pods : /\ DatesAgree(pod'[p]) /\ MayBeStale(pod[p], pod'[p])
                      /\ pod'[p].graceEndsAt # NoDate => members'[p] # <<>>
  BY DEF IInv, RowsSound, MayBeStale
<1>. QED
  BY <1>1, RequestStep DEF IInv, TypeOK

\* The provers' arithmetic does not see this inside a record.
LEMMA Stages == 1 \in 0..3 /\ 2 \in 0..3 /\ 3 \in 0..3
OBVIOUS

LEMMA IdleSound == Idle \in Request /\ RequestSound(Idle, pod)
<1>1. NoRow \in Row /\ NoRow.status = "none"
  BY DEF NoRow, Row, MaybeDate, Status
<1>2. FirstDay \in FirstDay..LastDay
  BY LifecycleAssumption, CalendarAssumption DEF Day
<1>3. Idle \in Request
  BY <1>1, <1>2 DEF Idle, Request
<1>. QED
  BY <1>1, <1>3 DEF RequestSound, Idle, DatesAgree, MayBeStale

LEMMA StartRefreshSound ==
  ASSUME IInv, NEW r \in Requests, StartRefresh(r)
  PROVE  IInv'
<1>. DEFINE q == [Idle EXCEPT !.pc = "find", !.now = day]
<1>1. q \in Request
  BY IdleSound DEF Request, IInv, TypeOK
<1>2. RequestSound(q, pod)
  BY IdleSound DEF RequestSound, Idle
<1>. QED
  BY <1>1, <1>2, ReadStep DEF StartRefresh

LEMMA StartJoinSound ==
  ASSUME IInv, NEW r \in Requests, NEW a \in Accounts, StartJoin(r, a)
  PROVE  IInv'
<1>. DEFINE q == [Idle EXCEPT !.pc = "find", !.stage = 1, !.now = day,
                             !.account = a, !.version = version[a]]
<1>0. day \in FirstDay..LastDay /\ version[a] \in Nat
  BY DEF IInv, TypeOK
<1>1. q \in Request
  <2>1. a \in Accounts \cup {Nobody} /\ 1 \in 0..3
    BY Stages
  <2>. QED
    BY <1>0, <2>1, IdleSound DEF Request
<1>2. RequestSound(q, pod)
  BY IdleSound DEF RequestSound, Idle
<1>. QED
  BY <1>1, <1>2, ReadStep DEF StartJoin

LEMMA FindSound ==
  ASSUME IInv, NEW r \in Requests, Find(r)
  PROVE  IInv'
<1>0. req[r] \in Request /\ RequestSound(req[r], pod)
  BY DEF IInv, TypeOK
<1>1. CASE Joinable = {}
  <2>. DEFINE q == [req[r] EXCEPT !.pc = "create"]
  <2>1. q \in Request /\ RequestSound(q, pod)
    BY <1>0 DEF Request, RequestSound
  <2>. QED
    BY <1>1, <2>1, ReadStep DEF Find
<1>2. CASE Joinable # {}
  <2>1. PICK p \in Joinable :
          LET others == {q \in Joinable \ {p} : pod[q].status = "grace"}
          IN  req' = [req EXCEPT ![r] =
                  [@ EXCEPT !.pc = "update", !.target = p, !.todo = others,
                            !.view = [q \in Pods |-> IF q \in others \cup {p}
                                                     THEN pod[q] ELSE NoRow]]]
    BY <1>2 DEF Find
  <2>. DEFINE others == {q \in Joinable \ {p} : pod[q].status = "grace"}
              view == [q \in Pods |-> IF q \in others \cup {p} THEN pod[q] ELSE NoRow]
              q == [req[r] EXCEPT !.pc = "update", !.target = p, !.todo = others,
                                  !.view = view]
  <2>2. NoRow \in Row /\ NoRow.status = "none" /\ p \in Pods /\ others \subseteq Pods
    BY DEF NoRow, Row, MaybeDate, Status, Joinable
  <2>3. view \in [Pods -> Row]
    BY <2>2 DEF IInv, TypeOK
  <2>4. q \in Request
    BY <1>0, <2>2, <2>3 DEF Request
  <2>5. \A x \in Pods : DatesAgree(view[x]) /\ MayBeStale(view[x], pod[x])
    BY <2>2 DEF IInv, RowsSound, DatesAgree, MayBeStale
  <2>6. RequestSound(q, pod)
    BY <1>0, <2>2, <2>5 DEF RequestSound, Request
  <2>7. req' = [req EXCEPT ![r] = q]
    BY <2>1 DEF IInv, TypeOK, Request
  <2>. QED
    BY <2>4, <2>6, <2>7, ReadStep DEF Find
<1>. QED
  BY <1>1, <1>2

LEMMA createOpenPodSound ==
  ASSUME IInv, NEW r \in Requests, createOpenPod(r)
  PROVE  IInv'
<1>0. req[r] \in Request /\ RequestSound(req[r], pod) /\ pod \in [Pods -> Row]
  BY DEF IInv, TypeOK
<1>1. PICK p \in Pods :
        /\ pod[p].status = "none"
        /\ pod' = [pod EXCEPT ![p] = NewPod(req[r].now)]
        /\ req' = [req EXCEPT ![r] =
             [@ EXCEPT !.pc = "update", !.target = p, !.todo = {},
                       !.view[p] = NewPod(req[r].now)]]
  BY DEF createOpenPod
<1>. DEFINE new == NewPod(req[r].now)
            q == [req[r] EXCEPT !.pc = "update", !.target = p, !.todo = {},
                                !.view[p] = new]
<1>2. /\ new \in Row /\ new.status = "open" /\ new.graceEndsAt = NoDate
      /\ DatesAgree(new) /\ req[r].now \in FirstDay..LastDay
  BY <1>0, NewPodSound DEF Request
<1>3. q \in Request
  BY <1>0, <1>2 DEF Request
<1>4. pod' \in [Pods -> Row]
  BY <1>0, <1>1, <1>2
<1>5. \A x \in Pods : /\ DatesAgree(pod'[x]) /\ MayBeStale(pod[x], pod'[x])
                      /\ pod'[x].graceEndsAt # NoDate => members'[x] # <<>>
  BY <1>0, <1>1, <1>2 DEF IInv, RowsSound, createOpenPod, MayBeStale
<1>6. q.view \in [Pods -> Row] /\ q.view[p] = new
      /\ \A x \in Pods : x # p => q.view[x] = req[r].view[x]
  BY <1>0, <1>2 DEF Request
<1>7. \A x \in Pods : DatesAgree(q.view[x]) /\ MayBeStale(q.view[x], pod'[x])
  BY <1>0, <1>1, <1>2, <1>6 DEF RequestSound, MayBeStale
<1>8. RequestSound(q, pod')
  BY <1>0, <1>7 DEF RequestSound, Request
<1>9. req' = [req EXCEPT ![r] = q]
  BY <1>1
<1>. QED
  BY <1>3, <1>4, <1>5, <1>8, <1>9, RequestStep DEF createOpenPod, IInv, TypeOK

LEMMA PodsExhaustedSound ==
  ASSUME IInv, NEW r \in Requests, PodsExhausted(r)
  PROVE  IInv'
BY IdleSound, ReadStep DEF PodsExhausted

\* Going on to the next pod in grace, or back to the caller.
LEMMA ContinueSound ==
  ASSUME NEW q \in Request, NEW rows, RequestSound(q, rows)
  PROVE  Continue(q) \in Request /\
         (RequestSound(Idle, rows) => RequestSound(Continue(q), rows))
<1>1. CASE q.todo # {}
  <2>. DEFINE p == CHOOSE p \in q.todo : TRUE
              c == [q EXCEPT !.pc = "update", !.target = p, !.todo = @ \ {p}]
  <2>1. q.todo \subseteq Pods /\ p \in q.todo
    BY <1>1 DEF Request
  <2>2. p \in Pods /\ q.todo \ {p} \in SUBSET Pods
    BY <2>1
  <2>3. c \in Request
    BY <2>2 DEF Request
  <2>4. RequestSound(c, rows)
    BY <2>2 DEF RequestSound, Request
  <2>. QED
    BY <1>1, <2>3, <2>4 DEF Continue
<1>2. CASE q.todo = {} /\ q.stage \in {1, 2}
  <2>. DEFINE c == [q EXCEPT !.pc = "locate"]
  <2>1. c \in Request /\ RequestSound(c, rows)
    BY <1>2 DEF Request, RequestSound
  <2>. QED
    BY <1>2, <2>1 DEF Continue
<1>. QED
  BY <1>1, <1>2, IdleSound DEF Continue

LEMMA updatePodLifecycleSound ==
  ASSUME IInv, NEW r \in Requests, updatePodLifecycle(r)
  PROVE  IInv'
<1>. DEFINE p == req[r].target
            row == req[r].view[p]
            count == Len(members[p])
            now == req[r].now
<1>1. /\ req[r] \in Request /\ RequestSound(req[r], pod)
      /\ pod \in [Pods -> Row] /\ members \in [Pods -> Seq(Membership)]
  BY DEF IInv, TypeOK
<1>2. /\ p \in Pods /\ row \in Row /\ now \in FirstDay..LastDay
      /\ DatesAgree(row) /\ MayBeStale(row, pod[p]) /\ DatesAgree(pod[p])
      /\ pod[p] \in Row
  BY <1>1 DEF RequestSound, Request, updatePodLifecycle, IInv, RowsSound
<1>3. count \in Nat /\ (members[p] # <<>> => count > 0) /\ (count > 0 => members[p] # <<>>)
  <2>1. members[p] \in Seq(Membership)
    BY <1>1, <1>2
  <2>. QED
    BY <2>1, EmptySeq
<1>4. RequestSound(Idle, pod) /\ Idle \in Request
  BY IdleSound
<1>5. CASE row.checksum # Hashed(row)
  BY <1>4, <1>5, ReadStep DEF updatePodLifecycle
<1>6. CASE row.checksum = Hashed(row) /\ MustLock(row, count, now)
  <2>. DEFINE q == [req[r] EXCEPT !.pc = "bots", !.seen = count]
  <2>1. q \in Request
    BY <1>1, <1>3 DEF Request
  <2>2. RequestSound(q, pod)
    BY <1>1, <1>2, <1>6 DEF RequestSound, Request, MustLock
  <2>3. req' = [req EXCEPT ![r] = q] /\ UNCHANGED <<day, pod, members, version>>
    BY <1>6 DEF updatePodLifecycle
  <2>. QED
    BY <2>1, <2>2, <2>3, ReadStep
<1>7. CASE row.checksum = Hashed(row) /\ ~MustLock(row, count, now)
  <2>. DEFINE u == Updated(row, count, now)
              f == Flush(pod[p], row, u)
  <2>1. /\ pod' = [pod EXCEPT ![p] = f]
        /\ req' = [req EXCEPT ![r] = Continue(req[r])]
        /\ UNCHANGED <<day, members, version>>
    BY <1>7 DEF updatePodLifecycle
  <2>2. row.status # "none" /\ row.graceEndsAt # NoDate => count > 0
    BY <1>2, <1>3 DEF IInv, RowsSound, MayBeStale
  <2>3. /\ f \in Row /\ DatesAgree(f) /\ MayBeStale(pod[p], f)
        /\ f.graceEndsAt # NoDate => members[p] # <<>>
    <3>1. CASE row.status = "none"
      <4>1. u = row
        BY <3>1 DEF Updated
      <4>2. f = pod[p]
        BY <4>1, <1>2 DEF Flush, Row
      <4>. QED
        BY <4>2, <1>2 DEF IInv, RowsSound, MayBeStale
    <3>2. CASE row.status # "none"
      <4>1. /\ u \in Row /\ DatesAgree(u) /\ MayBeStale(row, u)
            /\ u.graceEndsAt # NoDate => count > 0
        BY <3>2, <1>2, <1>3, <2>2, UpdatedSound
      <4>2. /\ f \in Row /\ DatesAgree(f) /\ MayBeStale(pod[p], f)
            /\ f.graceEndsAt # NoDate => pod[p].graceEndsAt # NoDate \/ u.graceEndsAt # NoDate
        BY <3>2, <4>1, <1>2, FlushSound
      <4>. QED
        BY <4>1, <4>2, <1>2, <1>3 DEF IInv, RowsSound
    <3>. QED
      BY <3>1, <3>2
  <2>4. pod' \in [Pods -> Row]
    BY <1>1, <2>1, <2>3
  <2>5. \A x \in Pods : /\ DatesAgree(pod'[x]) /\ MayBeStale(pod[x], pod'[x])
                        /\ pod'[x].graceEndsAt # NoDate => members'[x] # <<>>
    BY <1>1, <2>1, <2>3 DEF IInv, RowsSound, MayBeStale
  <2>6. RequestSound(req[r], pod')
    BY <1>1, <2>5, StaleTransitive DEF RequestSound
  <2>7. RequestSound(Idle, pod')
    BY <1>4 DEF RequestSound, Idle, DatesAgree, MayBeStale, NoRow
  <2>8. Continue(req[r]) \in Request /\ RequestSound(Continue(req[r]), pod')
    BY <1>1, <2>6, <2>7, ContinueSound
  <2>. QED
    BY <2>1, <2>4, <2>5, <2>8, RequestStep DEF IInv, TypeOK
<1>. QED
  BY <1>5, <1>6, <1>7

\* The bots that fill a pod are members of it, however many were seen.
LEMMA NewBotsType ==
  ASSUME NEW seen \in Nat
  PROVE  NewBots(seen) \in Seq(Membership)
<1>1. MissingSlots(seen) \in Nat
  BY LifecycleAssumption DEF MissingSlots
<1>2. NewBots(seen) \in [1..MissingSlots(seen) -> Membership]
  BY <1>1 DEF NewBots, Membership
<1>. QED
  BY <1>1, <1>2, SeqDef

LEMMA lockPodFillSound ==
  ASSUME IInv, NEW r \in Requests, lockPodFill(r)
  PROVE  IInv'
<1>. DEFINE p == req[r].target
            row == req[r].view[p]
            now == req[r].now
            locked == [row EXCEPT !.status = "active", !.lockedAt = now]
            f == Flush(pod[p], row, locked)
            q == [req[r] EXCEPT !.pc = "order", !.view[p] = locked]
<1>1. /\ req[r] \in Request /\ RequestSound(req[r], pod)
      /\ pod \in [Pods -> Row] /\ members \in [Pods -> Seq(Membership)]
  BY DEF IInv, TypeOK
<1>2. /\ p \in Pods /\ row \in Row /\ now \in FirstDay..LastDay
      /\ DatesAgree(row) /\ MayBeStale(row, pod[p]) /\ DatesAgree(pod[p])
      /\ pod[p] \in Row /\ row.status = "grace" /\ now > row.graceEndsAt
  BY <1>1 DEF RequestSound, Request, lockPodFill, IInv, RowsSound
<1>3. /\ pod' = [pod EXCEPT ![p] = f]
      /\ members' = [members EXCEPT ![p] = @ \o NewBots(req[r].seen)]
      /\ req' = [req EXCEPT ![r] = q]
      /\ UNCHANGED <<day, version>>
  BY DEF lockPodFill
<1>4. now \in Int /\ now # NoDate
  BY <1>2, StartDates, LifecycleAssumption
<1>5. /\ locked \in Row /\ locked.status = "active" /\ locked.lockedAt = now
      /\ locked.scheduledStartDate = row.scheduledStartDate
      /\ locked.graceEndsAt = row.graceEndsAt
  BY <1>2, <1>4 DEF Row, Status, MaybeDate
<1>6. DatesAgree(locked) /\ MayBeStale(row, locked) /\ row.graceEndsAt # NoDate
  BY <1>2, <1>4, <1>5 DEF DatesAgree, MayBeStale
<1>7. /\ f \in Row /\ DatesAgree(f) /\ MayBeStale(pod[p], f) /\ MayBeStale(locked, f)
  BY <1>2, <1>5, <1>6, FlushSound
<1>8. /\ members[p] # <<>> /\ members[p] \in Seq(Membership)
      /\ NewBots(req[r].seen) \in Seq(Membership)
  BY <1>1, <1>2, <1>6, NewBotsType DEF IInv, RowsSound, MayBeStale, Request
<1>9. members'[p] \in Seq(Membership) /\ members'[p] # <<>>
  <2>. DEFINE new == NewBots(req[r].seen)
  <2>. HIDE DEF new
  <2>1. members'[p] = members[p] \o new
    BY <1>1, <1>2, <1>3 DEF new
  <2>2. new \in Seq(Membership)
    BY <1>8 DEF new
  <2>3. members[p] \o new \in Seq(Membership)
    BY <1>8, <2>2, ConcatProperties
  <2>4. members[p] \o new # <<>>
    BY <1>8, <2>2, ConcatEqualIffEmpty
  <2>. QED
    BY <2>1, <2>3, <2>4
<1>10. pod' \in [Pods -> Row] /\ members' \in [Pods -> Seq(Membership)]
  BY <1>1, <1>2, <1>3, <1>7, <1>9
<1>11. \A x \in Pods : /\ DatesAgree(pod'[x]) /\ MayBeStale(pod[x], pod'[x])
                       /\ pod'[x].graceEndsAt # NoDate => members'[x] # <<>>
  BY <1>1, <1>2, <1>3, <1>7, <1>9 DEF IInv, RowsSound, MayBeStale
<1>12. q \in Request
  BY <1>1, <1>5 DEF Request
<1>13. q.view[p] = locked /\ \A x \in Pods : x # p => q.view[x] = req[r].view[x]
  BY <1>1, <1>2 DEF Request
<1>14. \A x \in Pods : DatesAgree(q.view[x]) /\ MayBeStale(q.view[x], pod'[x])
  BY <1>1, <1>2, <1>3, <1>6, <1>7, <1>13 DEF RequestSound
<1>15. RequestSound(q, pod')
  BY <1>1, <1>2, <1>5, <1>13, <1>14 DEF RequestSound, Request
<1>. QED
  BY <1>3, <1>10, <1>11, <1>12, <1>15, RequestStep DEF IInv, TypeOK

LEMMA lockPodOrderSound ==
  ASSUME IInv, NEW r \in Requests, lockPodOrder(r)
  PROVE  IInv'
<1>. DEFINE p == req[r].target
            row == req[r].view[p]
            first == IF row.nextContributionDate = NoDate
                     THEN row.startDate ELSE row.nextContributionDate
            begun == [row EXCEPT !.nextContributionDate = first]
            ordered == applyChecksum(begun)
            f == Flush(pod[p], row, ordered)
<1>1. /\ req[r] \in Request /\ RequestSound(req[r], pod)
      /\ pod \in [Pods -> Row] /\ members \in [Pods -> Seq(Membership)]
  BY DEF IInv, TypeOK
<1>2. /\ p \in Pods /\ row \in Row
      /\ DatesAgree(row) /\ MayBeStale(row, pod[p]) /\ DatesAgree(pod[p])
      /\ pod[p] \in Row /\ row.status = "active"
  BY <1>1 DEF RequestSound, Request, lockPodOrder, IInv, RowsSound
<1>3. /\ pod' = [pod EXCEPT ![p] = f]
      /\ req' = [req EXCEPT ![r] = Continue(req[r])]
      /\ UNCHANGED <<day, version>>
  BY DEF lockPodOrder
<1>4. PICK g \in FinalOrders(members[p]) :
        members' = [members EXCEPT ![p] =
          [i \in DOMAIN @ |-> [@[i] EXCEPT !.finalOrder = g[i]]]]
  BY DEF lockPodOrder
<1>5. /\ begun \in Row /\ begun.status = row.status /\ begun.lockedAt = row.lockedAt
      /\ begun.graceEndsAt = row.graceEndsAt
      /\ begun.scheduledStartDate = row.scheduledStartDate
  BY <1>2 DEF Row
<1>6. /\ ordered \in Row /\ ordered.status = row.status /\ ordered.lockedAt = row.lockedAt
      /\ ordered.graceEndsAt = row.graceEndsAt
      /\ ordered.scheduledStartDate = row.scheduledStartDate
  <2>1. ordered = [begun EXCEPT !.checksum = Hashed(begun)]
    BY DEF applyChecksum
  <2>. QED
    BY <1>5, <2>1, Checksums DEF Row
<1>7. DatesAgree(ordered) /\ MayBeStale(row, ordered)
  BY <1>2, <1>6 DEF DatesAgree, MayBeStale
<1>8. /\ f \in Row /\ DatesAgree(f) /\ MayBeStale(pod[p], f)
      /\ f.graceEndsAt # NoDate => pod[p].graceEndsAt # NoDate \/ row.graceEndsAt # NoDate
  BY <1>2, <1>6, <1>7, FlushSound
<1>9. members[p] \in Seq(Membership)
      /\ (f.graceEndsAt # NoDate => members[p] # <<>>)
  BY <1>1, <1>2, <1>8 DEF IInv, RowsSound, MayBeStale
<1>10. /\ members'[p] \in Seq(Membership)
       /\ members[p] # <<>> => members'[p] # <<>>
  <2>1. /\ Len(members[p]) \in Nat /\ DOMAIN members[p] = 1..Len(members[p])
        /\ members[p] \in [1..Len(members[p]) -> Membership]
        /\ (members[p] # <<>> => Len(members[p]) # 0)
    BY <1>9, LenProperties, EmptySeq
  <2>2. g \in [1..Len(members[p]) -> 1..Len(members[p])]
    BY <2>1 DEF FinalOrders
  <2>3. members'[p] = [i \in 1..Len(members[p]) |->
                        [members[p][i] EXCEPT !.finalOrder = g[i]]]
    BY <1>1, <1>2, <1>4, <2>1
  <2>4. \A i \in 1..Len(members[p]) :
          [members[p][i] EXCEPT !.finalOrder = g[i]] \in Membership
    <3>1. TAKE i \in 1..Len(members[p])
    <3>2. members[p][i] \in Membership /\ g[i] \in Nat
      BY <2>1, <2>2
    <3>. QED
      BY <3>2 DEF Membership
  <2>5. members'[p] \in [1..Len(members[p]) -> Membership]
    BY <2>3, <2>4
  <2>6. DOMAIN members'[p] = 1..Len(members[p])
    BY <2>3
  <2>. QED
    BY <2>1, <2>5, <2>6, SeqDef, EmptySeq
<1>11. pod' \in [Pods -> Row] /\ members' \in [Pods -> Seq(Membership)]
  BY <1>1, <1>2, <1>3, <1>4, <1>8, <1>10
<1>12. \A x \in Pods : /\ DatesAgree(pod'[x]) /\ MayBeStale(pod[x], pod'[x])
                       /\ pod'[x].graceEndsAt # NoDate => members'[x] # <<>>
  BY <1>1, <1>2, <1>3, <1>4, <1>8, <1>9, <1>10 DEF IInv, RowsSound, MayBeStale
<1>13. RequestSound(req[r], pod')
  BY <1>1, <1>12, StaleTransitive DEF RequestSound
<1>14. RequestSound(Idle, pod')
  BY IdleSound DEF RequestSound, Idle, DatesAgree, MayBeStale, NoRow
<1>15. Continue(req[r]) \in Request /\ RequestSound(Continue(req[r]), pod')
  BY <1>1, <1>13, <1>14, ContinueSound
<1>. QED
  BY <1>3, <1>11, <1>12, <1>15, RequestStep DEF IInv, TypeOK

LEMMA LocateSound ==
  ASSUME IInv, NEW r \in Requests, Locate(r)
  PROVE  IInv'
<1>1. /\ req[r] \in Request /\ RequestSound(req[r], pod)
      /\ members \in [Pods -> Seq(Membership)]
      /\ req[r].stage \in {1, 2}
  BY DEF IInv, TypeOK, Locate, RequestSound
<1>2. CASE Joinable = {} /\ req[r].stage = 1
  <2>. DEFINE q == [req[r] EXCEPT !.pc = "find", !.stage = 2]
  <2>1. /\ q \in Request /\ q.pc = "find" /\ q.stage = 2
        /\ q.view = req[r].view /\ q.account = req[r].account
    BY <1>1, Stages DEF Request
  <2>2. RequestSound(q, pod)
    BY <1>1, <2>1 DEF RequestSound
  <2>. QED
    BY <1>2, <2>1, <2>2, ReadStep DEF Locate
<1>3. CASE Joinable = {} /\ req[r].stage # 1
  BY <1>3, IdleSound, ReadStep DEF Locate
<1>4. CASE Joinable # {}
  <2>1. PICK p \in Joinable :
          req' = [req EXCEPT ![r] =
              IF Rejected(req[r].account, p)
              THEN Idle
              ELSE [@ EXCEPT !.pc = "insert", !.target = p, !.seen = Len(members[p])]]
    BY <1>4 DEF Locate
  <2>. DEFINE q == [req[r] EXCEPT !.pc = "insert", !.target = p, !.seen = Len(members[p])]
  <2>2. p \in Pods /\ Len(members[p]) \in Nat
    BY <1>1, LenProperties DEF Joinable
  <2>3. q \in Request /\ RequestSound(q, pod)
    BY <1>1, <2>2 DEF Request, RequestSound
  <2>. QED
    BY <2>1, <2>3, IdleSound, ReadStep DEF Locate
<1>. QED
  BY <1>2, <1>3, <1>4

LEMMA InsertSound ==
  ASSUME IInv, NEW r \in Requests, Insert(r)
  PROVE  IInv'
<1>. DEFINE a == req[r].account
            p == req[r].target
            q == [req[r] EXCEPT !.pc = "find", !.stage = 3]
<1>1. /\ req[r] \in Request /\ RequestSound(req[r], pod)
      /\ members \in [Pods -> Seq(Membership)] /\ version \in [Accounts -> Nat]
      /\ p \in Pods /\ a \in Accounts
  BY DEF IInv, TypeOK, Insert, RequestSound
<1>2. CASE ~VersionCurrent(r)
  BY <1>2, IdleSound, ReadStep DEF Insert
<1>3. CASE VersionCurrent(r)
  <2>1. NewMember(a, req[r].seen) \in Membership /\ members[p] \in Seq(Membership)
    <3>1. req[r].seen + 1 \in Nat
      BY <1>1 DEF Request
    <3>. QED
      BY <1>1, <3>1 DEF NewMember, Membership
  <2>2. /\ Append(members[p], NewMember(a, req[r].seen)) \in Seq(Membership)
        /\ Append(members[p], NewMember(a, req[r].seen)) # <<>>
    BY <2>1, AppendProperties, EmptySeq
  <2>3. /\ members' = [members EXCEPT ![p] = Append(@, NewMember(a, req[r].seen))]
        /\ version' = [version EXCEPT ![a] = @ + 1]
        /\ req' = [req EXCEPT ![r] = q]
        /\ UNCHANGED <<day, pod>>
    BY <1>3 DEF Insert
  <2>4. members' \in [Pods -> Seq(Membership)] /\ version' \in [Accounts -> Nat]
    BY <1>1, <2>2, <2>3
  <2>5. \A x \in Pods : /\ DatesAgree(pod'[x]) /\ MayBeStale(pod[x], pod'[x])
                        /\ pod'[x].graceEndsAt # NoDate => members'[x] # <<>>
    BY <1>1, <2>2, <2>3 DEF IInv, RowsSound, MayBeStale
  <2>6. q \in Request /\ q.pc = "find" /\ q.stage = 3 /\ q.view = req[r].view
    BY <1>1, Stages DEF Request
  <2>7. RequestSound(q, pod')
    BY <1>1, <2>3, <2>6 DEF RequestSound
  <2>. QED
    BY <2>3, <2>4, <2>5, <2>6, <2>7, RequestStep DEF IInv, TypeOK
<1>. QED
  BY <1>2, <1>3

LEMMA StepSound ==
  ASSUME IInv, NEW r \in Requests, Step(r)
  PROVE  IInv'
BY FindSound, createOpenPodSound, PodsExhaustedSound, updatePodLifecycleSound,
   lockPodFillSound, lockPodOrderSound, LocateSound, InsertSound DEF Step

LEMMA InitSound == Init => IInv
<1>. SUFFICES ASSUME Init PROVE IInv
  OBVIOUS
<1>1. NoRow \in Row /\ NoRow.status = "none" /\ NoRow.graceEndsAt = NoDate
  BY DEF NoRow, Row, MaybeDate, Status
<1>2. TypeOK
  BY <1>1, IdleSound, EmptySeq, LifecycleAssumption, CalendarAssumption
  DEF Init, TypeOK, Day
<1>3. RowsSound
  BY <1>1 DEF Init, RowsSound, DatesAgree
<1>. QED
  BY <1>2, <1>3, IdleSound DEF IInv, Init

LEMMA NextSound == IInv /\ [Next]_vars => IInv'
<1>. SUFFICES ASSUME IInv, [Next]_vars PROVE IInv'
  OBVIOUS
<1>1. CASE NextDay
  <2>1. day' \in FirstDay..LastDay
    BY <1>1, LifecycleAssumption, CalendarAssumption DEF NextDay, IInv, TypeOK, Day
  <2>. QED
    BY <1>1, <2>1 DEF NextDay, IInv, TypeOK, RowsSound, RequestSound
<1>2. CASE Crash
  BY <1>2, IdleSound DEF Crash, IInv, TypeOK, RowsSound, RequestSound
<1>3. CASE \E r \in Refreshers : StartRefresh(r)
  BY <1>3, StartRefreshSound DEF Requests
<1>4. CASE \E r \in Joiners, a \in Accounts : StartJoin(r, a)
  BY <1>4, StartJoinSound DEF Requests
<1>5. CASE \E r \in Requests : Step(r)
  BY <1>5, StepSound
<1>6. CASE UNCHANGED vars
  BY <1>6 DEF vars, IInv, TypeOK, RowsSound, RequestSound
<1>. QED
  BY <1>1, <1>2, <1>3, <1>4, <1>5, <1>6 DEF Next

-----------------------------------------------------------------------------
(***************************************************************************)
(* Theorems                                                                *)
(***************************************************************************)
LEMMA Inductive == Spec => []IInv
BY InitSound, NextSound, PTL DEF Spec

\* Rows, memberships and what requests hold always have their types.
THEOREM TypeCorrect == Spec => []TypeOK
<1>1. IInv => TypeOK
  BY DEF IInv
<1>. QED
  BY <1>1, Inductive, PTL

\* No pod is ever locked on or before the last day of its grace period.
THEOREM GraceIsKept == Spec => []NoLockDuringGrace
<1>1. IInv => NoLockDuringGrace
  BY DEF IInv, RowsSound, DatesAgree, NoLockDuringGrace
<1>. QED
  BY <1>1, Inductive, PTL

-----------------------------------------------------------------------------
(***************************************************************************)
(* One membership per account                                              *)
(***************************************************************************)
\* A join that still holds the account's version has not been overtaken: its
\* account has not joined the pod it is about to be inserted into.
NotOvertaken(q) ==
  q.stage \in {1, 2} =>
    /\ q.version <= version[q.account]
    /\ q.pc = "insert" /\ q.version = version[q.account] =>
         ~HasJoined(q.account, q.target)

OnceInv == OneMembershipPerAccount /\ \A r \in Requests : NotOvertaken(req[r])

\* A step that adds nobody and starts no insertion disturbs nothing.
LEMMA OnceKept ==
  ASSUME IInv, OnceInv, NEW r \in Requests, UNCHANGED <<members, version>>,
         NEW q \in Request, req' = [req EXCEPT ![r] = q],
         q.pc # "insert" \/ q.stage \notin {1, 2},
         q.stage \in {1, 2} => q.version <= version[q.account]
  PROVE  OnceInv'
<1>1. OneMembershipPerAccount'
  BY DEF OnceInv, OneMembershipPerAccount
<1>2. ASSUME NEW s \in Requests
      PROVE  NotOvertaken(req[s])'
  <2>1. req'[s] = IF s = r THEN q ELSE req[s]
    BY DEF IInv, TypeOK
  <2>. QED
    BY <2>1 DEF OnceInv, NotOvertaken, HasJoined
<1>. QED
  BY <1>1, <1>2 DEF OnceInv

LEMMA OnceLocate ==
  ASSUME IInv, OnceInv, NEW r \in Requests, Locate(r)
  PROVE  OnceInv'
<1>1. req[r] \in Request /\ NotOvertaken(req[r]) /\ req[r].stage \in {1, 2}
  BY DEF IInv, TypeOK, OnceInv, Locate, RequestSound
<1>2. Idle \in Request /\ Idle.pc # "insert" /\ Idle.stage \notin {1, 2}
  BY IdleSound DEF Idle
<1>3. CASE req' = [req EXCEPT ![r] = Idle]
  <2>1. UNCHANGED <<members, version>>
    BY DEF Locate
  <2>. QED
    BY <1>2, <1>3, <2>1, OnceKept
<1>4. CASE req' = [req EXCEPT ![r] = [@ EXCEPT !.pc = "find", !.stage = 2]]
  <2>. DEFINE q == [req[r] EXCEPT !.pc = "find", !.stage = 2]
  <2>1. /\ q \in Request /\ q.pc = "find" /\ q.stage = 2
        /\ q.version = req[r].version /\ q.account = req[r].account
    BY <1>1, Stages DEF Request
  <2>. QED
    BY <1>1, <1>4, <2>1, OnceKept DEF NotOvertaken, Locate
<1>5. ASSUME NEW p \in Joinable, ~Rejected(req[r].account, p),
             req' = [req EXCEPT ![r] =
               [@ EXCEPT !.pc = "insert", !.target = p, !.seen = Len(members[p])]]
      PROVE  OnceInv'
  <2>. DEFINE q == [req[r] EXCEPT !.pc = "insert", !.target = p, !.seen = Len(members[p])]
  <2>1. q.version = req[r].version /\ q.account = req[r].account /\ q.target = p
    BY <1>1 DEF Request
  <2>2. ~HasJoined(q.account, q.target)
    BY <1>5, <2>1 DEF Rejected
  <2>3. NotOvertaken(q)
    BY <1>1, <2>1, <2>2 DEF NotOvertaken
  <2>4. \A s \in Requests : req'[s] = IF s = r THEN q ELSE req[s]
    BY <1>5 DEF IInv, TypeOK
  <2>5. UNCHANGED <<members, version>>
    BY DEF Locate
  <2>. QED
    <3>1. OneMembershipPerAccount'
      BY <2>5 DEF OnceInv, OneMembershipPerAccount
    <3>2. \A s \in Requests : NotOvertaken(req[s])'
      <4>1. TAKE s \in Requests
      <4>2. CASE s = r
        BY <2>3, <2>4, <2>5, <4>2 DEF NotOvertaken, HasJoined
      <4>3. CASE s # r
        <5>1. req'[s] = req[s] /\ NotOvertaken(req[s])
          BY <2>4, <4>3 DEF OnceInv
        <5>. QED
          BY <2>5, <5>1 DEF NotOvertaken, HasJoined
      <4>. QED
        BY <4>2, <4>3
    <3>. QED
      BY <3>1, <3>2 DEF OnceInv
<1>6. CASE Joinable = {}
  BY <1>3, <1>4, <1>6 DEF Locate
<1>7. CASE Joinable # {}
  <2>1. PICK p \in Joinable :
          req' = [req EXCEPT ![r] =
              IF Rejected(req[r].account, p)
              THEN Idle
              ELSE [@ EXCEPT !.pc = "insert", !.target = p, !.seen = Len(members[p])]]
    BY <1>7 DEF Locate
  <2>. QED
    BY <1>3, <1>5, <2>1
<1>. QED
  BY <1>6, <1>7

\* Two requests that hold the current version of one account cannot both insert:
\* the first insertion takes the version away from the second.
LEMMA OnceInsert ==
  ASSUME IInv, OnceInv, NEW r \in Requests, Insert(r)
  PROVE  OnceInv'
<1>. DEFINE a == req[r].account
            p == req[r].target
            q == [req[r] EXCEPT !.pc = "find", !.stage = 3]
            new == NewMember(a, req[r].seen)
<1>1. /\ req[r] \in Request /\ NotOvertaken(req[r]) /\ req[r].stage \in {1, 2}
      /\ members \in [Pods -> Seq(Membership)] /\ version \in [Accounts -> Nat]
      /\ p \in Pods /\ a \in Accounts
  BY DEF IInv, TypeOK, OnceInv, Insert, RequestSound
<1>2. CASE ~VersionCurrent(r)
  <2>1. Idle \in Request /\ Idle.pc # "insert" /\ Idle.stage \notin {1, 2}
    BY IdleSound DEF Idle
  <2>. QED
    BY <1>2, <2>1, OnceKept DEF Insert
<1>3. CASE VersionCurrent(r)
  <2>1. /\ members' = [members EXCEPT ![p] = Append(@, new)]
        /\ version' = [version EXCEPT ![a] = @ + 1]
        /\ req' = [req EXCEPT ![r] = q]
    BY <1>3 DEF Insert
  <2>2. ~HasJoined(a, p) /\ req[r].version = version[a]
    BY <1>1, <1>3 DEF NotOvertaken, Insert, VersionCurrent
  <2>3. members[p] \in Seq(Membership) /\ new.who = a /\ new \in Membership
    <3>1. req[r].seen + 1 \in Nat
      BY <1>1 DEF Request
    <3>. QED
      BY <1>1, <3>1 DEF NewMember, Membership
  <2>4. /\ Len(members[p]) \in Nat
        /\ DOMAIN members[p] = 1..Len(members[p])
        /\ DOMAIN members'[p] = 1..(Len(members[p]) + 1)
        /\ members'[p][Len(members[p]) + 1] = new
        /\ \A i \in 1..Len(members[p]) : members'[p][i] = members[p][i]
    <3>1. members'[p] = Append(members[p], new)
      BY <1>1, <2>1
    <3>. QED
      BY <2>3, <3>1, AppendProperties, LenProperties
  <2>5. OneMembershipPerAccount'
    <3>1. ASSUME NEW x \in Pods, NEW i \in DOMAIN members'[x], NEW j \in DOMAIN members'[x],
                 members'[x][i].who = members'[x][j].who, members'[x][i].who # Bot
          PROVE  i = j
      <4>1. CASE x # p
        <5>1. members'[x] = members[x]
          BY <4>1, <1>1, <2>1
        <5>. QED
          BY <3>1, <5>1 DEF OnceInv, OneMembershipPerAccount
      <4>2. CASE x = p
        <5>. DEFINE n == Len(members[p])
        <5>1. i \in 1..(n + 1) /\ j \in 1..(n + 1) /\ n \in Nat
          BY <3>1, <4>2, <2>4
        <5>2. CASE i \in 1..n /\ j \in 1..n
          <6>1. members[p][i].who = members[p][j].who /\ members[p][i].who # Bot
            BY <3>1, <4>2, <5>2, <2>4
          <6>. QED
            BY <5>2, <6>1, <1>1, <2>4 DEF OnceInv, OneMembershipPerAccount
        <5>3. CASE i = n + 1 /\ j \in 1..n
          <6>1. members[p][j].who = a
            BY <3>1, <4>2, <5>3, <2>3, <2>4
          <6>. QED
            BY <5>3, <6>1, <2>2, <2>4 DEF HasJoined
        <5>4. CASE i \in 1..n /\ j = n + 1
          <6>1. members[p][i].who = a
            BY <3>1, <4>2, <5>4, <2>3, <2>4
          <6>. QED
            BY <5>4, <6>1, <2>2, <2>4 DEF HasJoined
        <5>5. CASE i = n + 1 /\ j = n + 1
          BY <5>5
        <5>. QED
          BY <5>1, <5>2, <5>3, <5>4, <5>5
      <4>. QED
        BY <4>1, <4>2
    <3>. QED
      BY <3>1 DEF OneMembershipPerAccount
  <2>6. ASSUME NEW s \in Requests
        PROVE  NotOvertaken(req[s])'
    <3>1. CASE s = r
      <4>1. q.stage = 3 /\ req'[s] = q
        BY <3>1, <1>1, <2>1 DEF Request, IInv, TypeOK
      <4>. QED
        BY <4>1 DEF NotOvertaken
    <3>2. CASE s # r
      <4>1. /\ req'[s] = req[s] /\ req[s] \in Request /\ NotOvertaken(req[s])
            /\ (req[s].stage \in {1, 2} => req[s].account \in Accounts)
            /\ (req[s].pc = "insert" => req[s].target \in Pods)
        BY <3>2, <2>1 DEF IInv, TypeOK, OnceInv, RequestSound
      <4>2. req[s].version \in Nat /\ version[a] \in Nat
        BY <1>1, <4>1 DEF Request
      <4>3. CASE req[s].account = a
        BY <1>1, <2>1, <4>1, <4>2, <4>3 DEF NotOvertaken
      <4>4. CASE req[s].account # a /\ req[s].stage \in {1, 2}
        <5>1. version'[req[s].account] = version[req[s].account]
          BY <1>1, <2>1, <4>1, <4>4
        <5>2. req[s].pc = "insert" /\ ~HasJoined(req[s].account, req[s].target) =>
                ~HasJoined(req[s].account, req[s].target)'
          <6>. SUFFICES ASSUME req[s].pc = "insert",
                               ~HasJoined(req[s].account, req[s].target),
                               NEW i \in DOMAIN members'[req[s].target],
                               members'[req[s].target][i].who = req[s].account
                        PROVE  FALSE
            BY <4>1 DEF HasJoined
          <6>1. CASE req[s].target = p
            <7>1. i \in 1..(Len(members[p]) + 1) /\ i # Len(members[p]) + 1
              BY <6>1, <2>3, <2>4, <4>4
            <7>2. i \in DOMAIN members[p] /\ members[p][i].who = req[s].account
              BY <7>1, <6>1, <2>4
            <7>. QED
              BY <7>2, <6>1 DEF HasJoined
          <6>2. CASE req[s].target # p
            BY <6>2, <1>1, <2>1, <4>1 DEF HasJoined
          <6>. QED
            BY <6>1, <6>2
        <5>. QED
          BY <4>1, <5>1, <5>2 DEF NotOvertaken
      <4>. QED
        BY <4>1, <4>3, <4>4 DEF NotOvertaken
    <3>. QED
      BY <3>1, <3>2
  <2>. QED
    BY <2>5, <2>6 DEF OnceInv
<1>. QED
  BY <1>2, <1>3

LEMMA ContinueKept ==
  ASSUME NEW q \in Request, NotOvertaken(q), NEW rows, RequestSound(q, rows)
  PROVE  /\ Continue(q) \in Request /\ Continue(q).pc # "insert"
         /\ Continue(q).stage \in {1, 2} =>
              Continue(q).version <= version[Continue(q).account]
<1>1. CASE q.todo # {}
  <2>. DEFINE p == CHOOSE p \in q.todo : TRUE
              c == [q EXCEPT !.pc = "update", !.target = p, !.todo = @ \ {p}]
  <2>1. Continue(q) = c
    BY <1>1 DEF Continue
  <2>2. c.pc = "update" /\ c.stage = q.stage /\ c.version = q.version /\ c.account = q.account
    BY DEF Request
  <2>. QED
    BY <2>1, <2>2, ContinueSound DEF NotOvertaken
<1>2. CASE q.todo = {} /\ q.stage \in {1, 2}
  <2>. DEFINE c == [q EXCEPT !.pc = "locate"]
  <2>1. Continue(q) = c
    BY <1>2 DEF Continue
  <2>2. c.pc = "locate" /\ c.stage = q.stage /\ c.version = q.version /\ c.account = q.account
    BY DEF Request
  <2>. QED
    BY <2>1, <2>2, ContinueSound DEF NotOvertaken
<1>3. CASE q.todo = {} /\ q.stage \notin {1, 2}
  <2>1. Continue(q) = Idle /\ Idle.pc # "insert" /\ Idle.stage \notin {1, 2}
    BY <1>3 DEF Continue, Idle
  <2>. QED
    BY <2>1, IdleSound
<1>. QED
  BY <1>1, <1>2, <1>3

\* The bots appended by a lock are nobody's membership.
LEMMA OnceFill ==
  ASSUME IInv, OnceInv, NEW r \in Requests, lockPodFill(r)
  PROVE  OnceInv'
<1>. DEFINE p == req[r].target
            bots == NewBots(req[r].seen)
            n == Len(members[p])
<1>1. /\ req[r] \in Request /\ p \in Pods /\ members \in [Pods -> Seq(Membership)]
      /\ members' = [members EXCEPT ![p] = @ \o bots]
      /\ version' = version
      /\ req[r].seen \in Nat
  BY DEF IInv, TypeOK, lockPodFill, RequestSound, Request
<1>2. /\ members[p] \in Seq(Membership) /\ bots \in Seq(Membership)
      /\ n = Len(members[p]) /\ n \in Nat /\ DOMAIN members[p] = 1..n
      /\ Len(bots) \in Nat /\ DOMAIN bots = 1..Len(bots)
  BY <1>1, NewBotsType, LenProperties
<1>3. \A k \in DOMAIN bots : bots[k].who = Bot
  BY DEF NewBots
<1>. HIDE DEF n, bots
<1>4. /\ DOMAIN members'[p] = 1..(n + Len(bots))
      /\ \A i \in 1..n : members'[p][i] = members[p][i]
      /\ \A i \in 1..(n + Len(bots)) : i > n => members'[p][i].who = Bot
  <2>1. members'[p] = members[p] \o bots
    BY <1>1
  <2>2. /\ members'[p] \in Seq(Membership) /\ Len(members'[p]) = n + Len(bots)
        /\ \A i \in 1..(n + Len(bots)) :
             members'[p][i] = IF i <= n THEN members[p][i] ELSE bots[i - n]
    BY <1>2, <2>1, ConcatProperties
  <2>3. DOMAIN members'[p] = 1..(n + Len(bots))
    BY <2>2, LenProperties
  <2>4. \A i \in 1..(n + Len(bots)) : i > n => i - n \in DOMAIN bots
    BY <1>2
  <2>5. \A i \in 1..n : i \in 1..(n + Len(bots)) /\ i <= n
    BY <1>2
  <2>6. ASSUME NEW i \in 1..(n + Len(bots)), i > n
        PROVE  members'[p][i].who = Bot
    <3>1. ~(i <= n) /\ i - n \in DOMAIN bots
      BY <2>6, <2>4, <1>2
    <3>. QED
      BY <3>1, <2>2, <1>3
  <2>. QED
    BY <2>2, <2>3, <2>5, <2>6
<1>5. \A x \in Pods : \A i \in DOMAIN members'[x] :
        members'[x][i].who # Bot =>
          i \in DOMAIN members[x] /\ members'[x][i].who = members[x][i].who
  <2>1. TAKE x \in Pods
  <2>2. CASE x = p
    <3>1. TAKE i \in DOMAIN members'[x]
    <3>2. i \in 1..(n + Len(bots))
      BY <2>2, <1>4
    <3>3. CASE i <= n
      BY <2>2, <3>2, <3>3, <1>2, <1>4
    <3>4. CASE i > n
      BY <2>2, <3>2, <3>4, <1>4
    <3>. QED
      BY <3>2, <3>3, <3>4, <1>2
  <2>3. CASE x # p
    BY <2>3, <1>1
  <2>. QED
    BY <2>2, <2>3
<1>6. OneMembershipPerAccount'
  BY <1>5 DEF OnceInv, OneMembershipPerAccount
<1>7. ASSUME NEW s \in Requests
      PROVE  NotOvertaken(req[s])'
  <2>1. /\ req' = [req EXCEPT ![r] =
             [@ EXCEPT !.pc = "order",
                       !.view[p] = [req[r].view[p] EXCEPT !.status = "active",
                                                          !.lockedAt = req[r].now]]]
        /\ req \in [Requests -> Request]
    BY DEF lockPodFill, IInv, TypeOK
  <2>2. /\ req'[s].stage = req[s].stage /\ req'[s].version = req[s].version
        /\ req'[s].account = req[s].account /\ req'[s].target = req[s].target
        /\ req'[s].pc = "insert" => req[s].pc = "insert"
    BY <1>1, <2>1 DEF Request
  <2>3. NotOvertaken(req[s])
    BY DEF OnceInv
  <2>4. req[s].stage \in {1, 2} => req[s].account \in Accounts
    BY DEF IInv, RequestSound
  <2>5. req[s].pc = "insert" => req[s].target \in Pods
    BY DEF IInv, RequestSound
  <2>6. ASSUME req[s].stage \in {1, 2}, req[s].pc = "insert",
               ~HasJoined(req[s].account, req[s].target)
        PROVE  ~HasJoined(req[s].account, req[s].target)'
    <3>1. req[s].account # Bot
      BY <2>4, <2>6, LifecycleAssumption
    <3>2. ~ \E i \in DOMAIN members'[req[s].target] :
             members'[req[s].target][i].who = req[s].account
      BY <1>5, <2>5, <2>6, <3>1 DEF HasJoined
    <3>. QED
      BY <2>2, <3>2 DEF HasJoined
  <2>. QED
    BY <1>1, <2>2, <2>3, <2>6 DEF NotOvertaken, HasJoined
<1>. QED
  BY <1>6, <1>7 DEF OnceInv

\* Ordering the members of a pod changes nobody's membership.
LEMMA OnceOrder ==
  ASSUME IInv, OnceInv, NEW r \in Requests, lockPodOrder(r)
  PROVE  OnceInv'
<1>. DEFINE p == req[r].target
<1>1. /\ req[r] \in Request /\ RequestSound(req[r], pod) /\ p \in Pods
      /\ members \in [Pods -> Seq(Membership)] /\ req \in [Requests -> Request]
      /\ version' = version /\ req' = [req EXCEPT ![r] = Continue(req[r])]
  BY DEF IInv, TypeOK, lockPodOrder, RequestSound
<1>2. PICK g \in FinalOrders(members[p]) :
        members' = [members EXCEPT ![p] =
          [i \in DOMAIN @ |-> [@[i] EXCEPT !.finalOrder = g[i]]]]
  BY DEF lockPodOrder
<1>3. \A i \in DOMAIN members[p] : members[p][i] \in Membership
  BY <1>1, LenProperties
<1>4. \A x \in Pods : /\ DOMAIN members'[x] = DOMAIN members[x]
                      /\ \A i \in DOMAIN members[x] : members'[x][i].who = members[x][i].who
  <2>1. TAKE x \in Pods
  <2>2. CASE x = p
    <3>1. members'[p] = [i \in DOMAIN members[p] |->
                          [members[p][i] EXCEPT !.finalOrder = g[i]]]
      BY <1>1, <1>2
    <3>. QED
      BY <2>2, <3>1, <1>3 DEF Membership
  <2>3. CASE x # p
    BY <2>3, <1>1, <1>2
  <2>. QED
    BY <2>2, <2>3
<1>5. OneMembershipPerAccount'
  BY <1>4 DEF OnceInv, OneMembershipPerAccount
<1>6. ASSUME NEW s \in Requests
      PROVE  NotOvertaken(req[s])'
  <2>1. \A a \in Accounts, x \in Pods : HasJoined(a, x)' => HasJoined(a, x)
    BY <1>4 DEF HasJoined
  <2>2. CASE s = r
    <3>1. req'[s] = Continue(req[r])
      BY <2>2, <1>1
    <3>. QED
      BY <3>1, <1>1, ContinueKept DEF OnceInv, NotOvertaken
  <2>3. CASE s # r
    <3>1. req'[s] = req[s] /\ NotOvertaken(req[s]) /\ RequestSound(req[s], pod)
      BY <2>3, <1>1 DEF OnceInv, IInv
    <3>. QED
      BY <3>1, <2>1, <1>1 DEF NotOvertaken, RequestSound
  <2>. QED
    BY <2>2, <2>3
<1>. QED
  BY <1>5, <1>6 DEF OnceInv

LEMMA OnceStep ==
  ASSUME IInv, OnceInv, NEW r \in Requests, Step(r)
  PROVE  OnceInv'
<1>1. req[r] \in Request /\ NotOvertaken(req[r]) /\ RequestSound(req[r], pod)
  BY DEF IInv, TypeOK, OnceInv
<1>2. Idle \in Request /\ Idle.pc # "insert" /\ Idle.stage \notin {1, 2}
  BY IdleSound DEF Idle
<1>3. ASSUME NEW q \in Request, req' = [req EXCEPT ![r] = q],
             UNCHANGED <<members, version>>, q.pc # "insert",
             q.stage = req[r].stage, q.version = req[r].version, q.account = req[r].account
      PROVE  OnceInv'
  BY <1>1, <1>3, OnceKept DEF NotOvertaken
<1>4. CASE Find(r)
  <2>1. UNCHANGED <<members, version>>
    BY <1>4 DEF Find
  <2>2. req'[r] \in Request /\ req' = [req EXCEPT ![r] = req'[r]]
    BY <1>4, FindSound DEF IInv, TypeOK, Find
  <2>3. /\ req'[r].pc # "insert" /\ req'[r].stage = req[r].stage
        /\ req'[r].version = req[r].version /\ req'[r].account = req[r].account
    <3>1. CASE Joinable = {}
      <4>1. req'[r] = [req[r] EXCEPT !.pc = "create"]
        BY <1>4, <3>1 DEF Find, IInv, TypeOK
      <4>. QED
        BY <1>1, <4>1 DEF Request
    <3>2. CASE Joinable # {}
      <4>1. PICK p \in Joinable :
              LET others == {q \in Joinable \ {p} : pod[q].status = "grace"}
              IN  req' = [req EXCEPT ![r] =
                    [@ EXCEPT !.pc = "update", !.target = p, !.todo = others,
                              !.view = [q \in Pods |-> IF q \in others \cup {p}
                                                       THEN pod[q] ELSE NoRow]]]
        BY <1>4, <3>2 DEF Find
      <4>. DEFINE others == {q \in Joinable \ {p} : pod[q].status = "grace"}
                  view == [q \in Pods |-> IF q \in others \cup {p} THEN pod[q] ELSE NoRow]
                  found == [req[r] EXCEPT !.pc = "update", !.target = p, !.todo = others,
                                          !.view = view]
      <4>2. req'[r] = found
        BY <4>1 DEF IInv, TypeOK
      <4>. HIDE DEF others, view
      <4>3. /\ found.pc = "update" /\ found.stage = req[r].stage
            /\ found.version = req[r].version /\ found.account = req[r].account
        BY <1>1 DEF Request
      <4>. QED
        BY <4>2, <4>3
    <3>. QED
      BY <3>1, <3>2
  <2>. QED
    BY <1>3, <2>1, <2>2, <2>3
<1>5. CASE createOpenPod(r)
  <2>1. UNCHANGED <<members, version>>
    BY <1>5 DEF createOpenPod
  <2>2. req'[r] \in Request /\ req' = [req EXCEPT ![r] = req'[r]]
    BY <1>5, createOpenPodSound DEF IInv, TypeOK, createOpenPod
  <2>3. /\ req'[r].pc # "insert" /\ req'[r].stage = req[r].stage
        /\ req'[r].version = req[r].version /\ req'[r].account = req[r].account
    BY <1>1, <1>5 DEF createOpenPod, IInv, TypeOK, Request
  <2>. QED
    BY <1>3, <2>1, <2>2, <2>3
<1>6. CASE PodsExhausted(r)
  BY <1>2, <1>6, OnceKept DEF PodsExhausted
<1>7. CASE updatePodLifecycle(r)
  <2>1. UNCHANGED <<members, version>>
    BY <1>7 DEF updatePodLifecycle
  <2>2. \/ req' = [req EXCEPT ![r] = Idle]
        \/ req' = [req EXCEPT ![r] = [@ EXCEPT !.pc = "bots", !.seen = Len(members[req[r].target])]]
        \/ req' = [req EXCEPT ![r] = Continue(@)]
    BY <1>7 DEF updatePodLifecycle
  <2>3. CASE req' = [req EXCEPT ![r] = Idle]
    BY <1>2, <2>1, <2>3, OnceKept
  <2>4. CASE req' = [req EXCEPT ![r] = [@ EXCEPT !.pc = "bots", !.seen = Len(members[req[r].target])]]
    <3>. DEFINE q == [req[r] EXCEPT !.pc = "bots", !.seen = Len(members[req[r].target])]
    <3>1. /\ q.pc # "insert" /\ q.stage = req[r].stage
          /\ q.version = req[r].version /\ q.account = req[r].account
      BY <1>1 DEF Request
    <3>2. q \in Request
      BY <2>4, <1>7, updatePodLifecycleSound DEF IInv, TypeOK
    <3>. QED
      BY <1>3, <2>1, <2>4, <3>1, <3>2
  <2>5. CASE req' = [req EXCEPT ![r] = Continue(@)]
    BY <1>1, <2>1, <2>5, ContinueKept, OnceKept
  <2>. QED
    BY <2>2, <2>3, <2>4, <2>5
<1>. QED
  BY <1>4, <1>5, <1>6, <1>7, OnceFill, OnceOrder, OnceLocate, OnceInsert DEF Step

LEMMA OnceNext == IInv /\ OnceInv /\ [Next]_vars => OnceInv'
<1>. SUFFICES ASSUME IInv, OnceInv, [Next]_vars PROVE OnceInv'
  OBVIOUS
<1>1. CASE NextDay
  BY <1>1 DEF NextDay, OnceInv, OneMembershipPerAccount, NotOvertaken, HasJoined
<1>2. CASE Crash
  BY <1>2 DEF Crash, OnceInv, OneMembershipPerAccount, NotOvertaken, Idle
<1>3. ASSUME NEW r \in Refreshers, StartRefresh(r) PROVE OnceInv'
  <2>. DEFINE q == [Idle EXCEPT !.pc = "find", !.now = day]
  <2>1. q \in Request /\ q.stage = 0
    BY IdleSound DEF Request, IInv, TypeOK, Idle
  <2>2. q.stage \notin {1, 2}
    BY <2>1
  <2>3. UNCHANGED <<members, version>> /\ req' = [req EXCEPT ![r] = q]
    BY <1>3 DEF StartRefresh
  <2>. QED
    BY <2>1, <2>2, <2>3, OnceKept DEF Requests
<1>4. ASSUME NEW r \in Joiners, NEW a \in Accounts, StartJoin(r, a) PROVE OnceInv'
  <2>. DEFINE q == [Idle EXCEPT !.pc = "find", !.stage = 1, !.now = day,
                               !.account = a, !.version = version[a]]
  <2>1. req' = [req EXCEPT ![r] = q] /\ UNCHANGED <<members, version>>
    BY <1>4 DEF StartJoin
  <2>2. q \in Request
    <3>1. IInv'
      BY <1>4, StartJoinSound DEF Requests
    <3>2. req'[r] = q /\ req' \in [Requests -> Request]
      BY <2>1, <3>1 DEF IInv, TypeOK, Requests
    <3>. QED
      BY <3>2 DEF Requests
  <2>3. q.pc # "insert" /\ q.version = version[q.account]
    BY DEF Idle
  <2>4. version[a] \in Nat /\ q.account = a /\ r \in Requests
    BY DEF IInv, TypeOK, Idle, Requests
  <2>5. q.version <= version[q.account]
    BY <2>3, <2>4
  <2>. QED
    BY <2>1, <2>2, <2>3, <2>4, <2>5, OnceKept
<1>5. CASE \E r \in Requests : Step(r)
  BY <1>5, OnceStep
<1>6. CASE UNCHANGED vars
  BY <1>6 DEF vars, OnceInv, OneMembershipPerAccount, NotOvertaken, HasJoined
<1>. QED
  BY <1>1, <1>2, <1>3, <1>4, <1>5, <1>6 DEF Next

LEMMA OnceInductive == Spec => []OnceInv
<1>1. Init => OnceInv
  BY EmptySeq DEF Init, OnceInv, OneMembershipPerAccount, NotOvertaken, Idle
<1>. QED
  BY <1>1, OnceNext, Inductive, PTL DEF Spec

\* However its requests interleave, an account never holds two memberships of a
\* pod: the version of the account decides between two concurrent joins.
THEOREM JoinedOnce == Spec => []OneMembershipPerAccount
<1>1. OnceInv => OneMembershipPerAccount
  BY DEF OnceInv
<1>. QED
  BY <1>1, OnceInductive, PTL

-----------------------------------------------------------------------------
(***************************************************************************)
(* A quiet life: one request at a time, and none cut off                   *)
(***************************************************************************)
OneAtATime == ~Overlap

OneGathers == \A p, s \in Joinable : p = s

\* A pod's row and its memberships `rows' agree, between requests and, where
\* `locking' says so, between the two flushes of lockPod.
PodQuiet(row, rows, locking) ==
  /\ row.status = "none" => rows = <<>>
  /\ row.status # "active" => \A i \in DOMAIN rows : rows[i].who # Bot
  /\ Len(rows) <= maxMembers
  /\ row.status \in OpenStatuses => row.checksum = Hashed(row)
  /\ row.status = "active" /\ ~locking => Len(rows) = maxMembers /\ Ordered(rows)

\* What request q has read is what the tables hold: nobody else writes them.
InPlace(q, table, seats) ==
  /\ q.pc = "create" => \A p \in Pods : table[p].status \notin OpenStatuses
  /\ q.pc \in {"update", "bots"} => table[q.target].status \in OpenStatuses
  /\ q.pc \in {"update", "bots", "order"} =>
       q.todo = {} /\ q.view[q.target] = table[q.target]
  /\ q.pc = "bots" => q.seen = Len(seats[q.target]) /\ q.seen > 0
  /\ q.pc = "order" =>
       /\ Len(seats[q.target]) = maxMembers
       /\ \A i \in DOMAIN seats[q.target] :
            seats[q.target][i].who = Bot => seats[q.target][i].joinOrder = i
       /\ \E i \in DOMAIN seats[q.target] : seats[q.target][i].who # Bot
  /\ q.pc = "insert" =>
       /\ table[q.target].status \in OpenStatuses
       /\ q.seen = Len(seats[q.target]) /\ q.seen < maxMembers
       /\ \A i \in DOMAIN seats[q.target] : seats[q.target][i].who # q.account

QuietInv ==
  /\ OneAtATime
  /\ OneGathers
  /\ \A p \in Pods : PodQuiet(pod[p], members[p], Locking(p))
  /\ \A r \in Requests : InPlace(req[r], pod, members)

\* The pods as PodRound sees them, of a row, whether it is being locked, and its
\* memberships.
RosterOf(rows) == {rows[i].who : i \in DOMAIN rows} \ {Bot}
SettledAs(row, locking) == row.status = "active" /\ ~locking
PhaseOf(row, locking) ==
  IF row.status = "none" THEN "absent"
  ELSE IF SettledAs(row, locking) THEN "settled" ELSE "gathering"
SlotOf(rows, a) == CHOOSE i \in DOMAIN rows : rows[i].who = a
TurnOf(row, locking, rows) ==
  IF ~SettledAs(row, locking) THEN <<>>
  ELSE [a \in RosterOf(rows) |-> rows[SlotOf(rows, a)].finalOrder]

SamePod(p) ==
  /\ PhaseOf(pod'[p], Locking(p)') = PhaseOf(pod[p], Locking(p))
  /\ RosterOf(members'[p]) = RosterOf(members[p])
  /\ TurnOf(pod'[p], Locking(p)', members'[p]) = TurnOf(pod[p], Locking(p), members[p])

SameRound == \A p \in Pods : SamePod(p)

LEMMA IdleInPlace == ASSUME NEW t, NEW s PROVE InPlace(Idle, t, s)
BY DEF InPlace, Idle

\* The request that runs is the only one, and the only one that can be locking.
LEMMA Lone ==
  ASSUME IInv, QuietInv, NEW r \in Requests, req[r].pc # "idle"
  PROVE  /\ \A s \in Requests : s # r => req[s].pc = "idle"
         /\ \A p \in Pods : Locking(p) <=> req[r].pc = "order" /\ req[r].target = p
<1>1. \A s \in Requests : s # r => req[s].pc = "idle"
  BY DEF QuietInv, OneAtATime, Overlap, Busy
<1>. QED
  BY <1>1 DEF Locking

\* A step of the only request keeps the tables in order when what it writes is.
LEMMA LoneStep ==
  ASSUME IInv, QuietInv, OneAtATime', NEW r \in Requests, req[r].pc # "idle", NEW q,
         req' = [req EXCEPT ![r] = q], InPlace(q, pod', members'),
         \A p \in Pods : PodQuiet(pod'[p], members'[p], q.pc = "order" /\ q.target = p),
         \A p, s \in Pods : pod'[p].status \in OpenStatuses
                            /\ pod'[s].status \in OpenStatuses => p = s
  PROVE  /\ QuietInv'
         /\ \A p \in Pods : Locking(p)' <=> q.pc = "order" /\ q.target = p
<1>1. req \in [Requests -> Request]
  BY DEF IInv, TypeOK
<1>2. req'[r] = q /\ \A s \in Requests : s # r => req'[s].pc = "idle"
  BY <1>1, Lone
<1>3. \A s \in Requests : InPlace(req'[s], pod', members')
  <2>1. TAKE s \in Requests
  <2>2. CASE s = r
    BY <2>2, <1>2
  <2>3. CASE s # r
    BY <2>3, <1>2 DEF InPlace
  <2>. QED
    BY <2>2, <2>3
<1>4. \A p \in Pods : Locking(p)' <=> q.pc = "order" /\ q.target = p
  BY <1>2 DEF Locking
<1>5. \A p \in Pods : PodQuiet(pod'[p], members'[p], Locking(p)')
  BY <1>4 DEF PodQuiet
<1>6. OneGathers'
  BY DEF OneGathers, Joinable
<1>. QED
  BY <1>3, <1>4, <1>5, <1>6 DEF QuietInv

\* The same of a step that only reads, or ends the request.
LEMMA LoneRead ==
  ASSUME IInv, QuietInv, OneAtATime', NEW r \in Requests,
         req[r].pc \notin {"idle", "order"}, NEW q,
         req' = [req EXCEPT ![r] = q], InPlace(q, pod, members), q.pc # "order",
         UNCHANGED <<pod, members>>
  PROVE  QuietInv' /\ SameRound
<1>1. \A p \in Pods : PodQuiet(pod[p], members[p], FALSE) /\ ~Locking(p)
  BY Lone DEF QuietInv, PodQuiet
<1>2. \A p \in Pods : PodQuiet(pod'[p], members'[p], q.pc = "order" /\ q.target = p)
  BY <1>1
<1>3. \A p, s \in Pods : pod'[p].status \in OpenStatuses
                         /\ pod'[s].status \in OpenStatuses => p = s
  BY DEF QuietInv, OneGathers, Joinable
<1>4. QuietInv' /\ \A p \in Pods : ~Locking(p)'
  BY <1>2, <1>3, LoneStep
<1>. QED
  BY <1>1, <1>4 DEF SameRound, SamePod, PhaseOf, TurnOf, SettledAs

LEMMA FindQuiet ==
  ASSUME IInv, QuietInv, OneAtATime', NEW r \in Requests, Find(r)
  PROVE  QuietInv' /\ SameRound
<1>0. req[r] \in Request /\ req[r].pc = "find" /\ UNCHANGED <<pod, members>>
  BY DEF IInv, TypeOK, Find
<1>1. CASE Joinable = {}
  <2>. DEFINE q == [req[r] EXCEPT !.pc = "create"]
  <2>1. InPlace(q, pod, members) /\ q.pc = "create"
    BY <1>0, <1>1 DEF InPlace, Joinable, Request
  <2>. QED
    BY <1>0, <1>1, <2>1, LoneRead DEF Find
<1>2. CASE Joinable # {}
  <2>1. PICK p \in Joinable :
          LET others == {q \in Joinable \ {p} : pod[q].status = "grace"}
          IN  req' = [req EXCEPT ![r] =
                  [@ EXCEPT !.pc = "update", !.target = p, !.todo = others,
                            !.view = [q \in Pods |-> IF q \in others \cup {p}
                                                     THEN pod[q] ELSE NoRow]]]
    BY <1>2 DEF Find
  <2>. DEFINE others == {q \in Joinable \ {p} : pod[q].status = "grace"}
              view == [q \in Pods |-> IF q \in others \cup {p} THEN pod[q] ELSE NoRow]
              q == [req[r] EXCEPT !.pc = "update", !.target = p, !.todo = others,
                                  !.view = view]
  <2>2. p \in Pods /\ pod[p].status \in OpenStatuses /\ others = {}
    BY DEF Joinable, QuietInv, OneGathers
  <2>3. view[p] = pod[p]
    BY <2>2
  <2>4. req' = [req EXCEPT ![r] = q]
    BY <2>1 DEF IInv, TypeOK, Request
  <2>. HIDE DEF others, view
  <2>5. q.pc = "update" /\ q.target = p /\ q.todo = {} /\ q.view = view
    BY <1>0, <2>2 DEF Request
  <2>6. InPlace(q, pod, members)
    BY <2>2, <2>3, <2>5 DEF InPlace
  <2>. QED
    BY <1>0, <2>4, <2>5, <2>6, LoneRead
<1>. QED
  BY <1>1, <1>2

\* applyChecksum leaves the checksum of the row as it is then.
LEMMA ChecksumFits ==
  ASSUME NEW row \in Row
  PROVE  LET c == applyChecksum(row)
         IN  c.checksum = Hashed(c) /\ c.status = row.status
BY DEF applyChecksum, Hashed, Row

LEMMA FlushOfCurrent ==
  ASSUME NEW row \in Row, NEW after \in Row
  PROVE  Flush(row, row, after) = after
<1>1. DOMAIN row = DOMAIN after
  BY DEF Row
<1>2. \A c \in DOMAIN row : (IF after[c] # row[c] THEN after[c] ELSE row[c]) = after[c]
  OBVIOUS
<1>3. after = [c \in DOMAIN after |-> after[c]]
  BY DEF Row
<1>. QED
  BY <1>1, <1>2, <1>3 DEF Flush

\* A new pod is open, with the checksum of its row.
LEMMA NewPodQuiet ==
  ASSUME NEW now \in FirstDay..LastDay
  PROVE  NewPod(now).checksum = Hashed(NewPod(now))
<1>. DEFINE opened == [NoRow EXCEPT !.status = "open",
                                   !.scheduledStartDate = computeNextStartDate(now)]
<1>1. computeNextStartDate(now) \in Int
  BY StartDates
<1>2. opened \in Row
  BY <1>1 DEF NoRow, Row, MaybeDate, Status
<1>. QED
  BY <1>2, ChecksumFits DEF NewPod

\* The only pod that gathers opens.
OpensOne ==
  /\ \A x \in Pods : ~Locking(x) /\ ~Locking(x)' /\ pod[x].status \in {"none", "active"}
  /\ UNCHANGED members
  /\ \E p \in Pods : /\ pod[p].status = "none" /\ pod'[p].status = "open"
                     /\ \A x \in Pods : x # p => pod'[x] = pod[x]

LEMMA createOpenPodQuiet ==
  ASSUME IInv, QuietInv, OneAtATime', NEW r \in Requests, createOpenPod(r)
  PROVE  QuietInv' /\ OpensOne
<1>0. /\ req[r] \in Request /\ req[r].pc = "create" /\ pod \in [Pods -> Row]
      /\ members \in [Pods -> Seq(Membership)] /\ UNCHANGED members
      /\ InPlace(req[r], pod, members)
  BY DEF IInv, TypeOK, createOpenPod, QuietInv
<1>1. PICK p \in Pods :
        /\ pod[p].status = "none"
        /\ pod' = [pod EXCEPT ![p] = NewPod(req[r].now)]
        /\ req' = [req EXCEPT ![r] =
             [@ EXCEPT !.pc = "update", !.target = p, !.todo = {},
                       !.view[p] = NewPod(req[r].now)]]
  BY DEF createOpenPod
<1>. DEFINE new == NewPod(req[r].now)
            q == [req[r] EXCEPT !.pc = "update", !.target = p, !.todo = {},
                                !.view[p] = new]
<1>2. new \in Row /\ new.status = "open" /\ new.checksum = Hashed(new)
  BY <1>0, NewPodSound, NewPodQuiet DEF Request
<1>. HIDE DEF new
<1>3. q.pc = "update" /\ q.target = p /\ q.todo = {} /\ q.view[p] = new
  BY <1>0, <1>2 DEF Request
<1>4. \A x \in Pods : PodQuiet(pod[x], members[x], FALSE) /\ pod[x].status \notin OpenStatuses
  BY <1>0, Lone DEF QuietInv, InPlace, PodQuiet
<1>5. \A x \in Pods : pod'[x] = IF x = p THEN new ELSE pod[x]
  BY <1>0, <1>1 DEF new
<1>6. members[p] = <<>> /\ Len(members[p]) = 0 /\ DOMAIN members[p] = {}
  BY <1>1, <1>4 DEF PodQuiet
<1>7. \A x \in Pods : PodQuiet(pod'[x], members'[x], FALSE)
  BY <1>0, <1>2, <1>4, <1>5, <1>6, LifecycleAssumption DEF PodQuiet
<1>8. InPlace(q, pod', members')
  BY <1>2, <1>3, <1>5 DEF InPlace, OpenStatuses
<1>9. req' = [req EXCEPT ![r] = q]
  BY <1>1 DEF new
<1>. HIDE DEF q
<1>10. QuietInv' /\ \A x \in Pods : ~Locking(x)'
  <2>1. \A x, s \in Pods : pod'[x].status \in OpenStatuses
                           /\ pod'[s].status \in OpenStatuses => x = s
    BY <1>4, <1>5
  <2>2. \A x \in Pods : PodQuiet(pod'[x], members'[x], q.pc = "order" /\ q.target = x)
    BY <1>3, <1>7
  <2>3. QuietInv' /\ \A x \in Pods : Locking(x)' <=> q.pc = "order" /\ q.target = x
    BY <1>0, <1>8, <1>9, <2>1, <2>2, LoneStep
  <2>. QED
    BY <1>3, <2>3
<1>11. \A x \in Pods : ~Locking(x) /\ pod[x].status \in {"none", "active"}
  BY <1>0, <1>4, Lone DEF Row, Status, OpenStatuses
<1>. QED
  BY <1>0, <1>1, <1>2, <1>5, <1>10, <1>11 DEF OpensOne

\* The only request has no other pod to go on to.
LEMMA ContinueInPlace ==
  ASSUME NEW q \in Request, q.todo = {}, NEW t, NEW s
  PROVE  InPlace(Continue(q), t, s) /\ Continue(q).pc # "order"
<1>1. CASE q.stage \in {1, 2}
  <2>1. Continue(q).pc = "locate"
    BY <1>1 DEF Continue, Request
  <2>. QED
    BY <2>1 DEF InPlace
<1>2. CASE q.stage \notin {1, 2}
  BY <1>2, IdleInPlace DEF Continue, Idle
<1>. QED
  BY <1>1, <1>2

\* A refresh leaves an unlocked pod open or in grace, with the checksum it then has.
LEMMA UpdatedQuiet ==
  ASSUME NEW row \in Row, DatesAgree(row), NEW now \in FirstDay..LastDay,
         NEW count \in Nat, row.graceEndsAt # NoDate => count > 0,
         row.status \in OpenStatuses, row.checksum = Hashed(row)
  PROVE  LET u == Updated(row, count, now)
         IN  u.status \in OpenStatuses /\ u.checksum = Hashed(u)
<1>. DEFINE u == Updated(row, count, now)
<1>1. row.scheduledStartDate \in StartDay /\ row.scheduledStartDate \in Int
  BY StartDates DEF DatesAgree, OpenStatuses
<1>2. CASE row.status = "open" /\ now >= row.scheduledStartDate /\ count = 0
  <2>. DEFINE moved == [row EXCEPT !.scheduledStartDate = nextStartWindow(row.scheduledStartDate)]
  <2>1. nextStartWindow(row.scheduledStartDate) = row.scheduledStartDate
    BY <1>1, EmptyPodIsNeverRescheduled
  <2>2. moved = row
    BY <2>1 DEF Row
  <2>3. u = applyChecksum(row)
    BY <1>2, <2>2 DEF Updated
  <2>. QED
    BY <2>3, ChecksumFits
<1>3. CASE row.status = "open" /\ now >= row.scheduledStartDate /\ count # 0
  <2>. DEFINE graced == [row EXCEPT
              !.status = "grace",
              !.startDate = row.scheduledStartDate,
              !.graceEndsAt = addDays(row.scheduledStartDate, GracePeriodDays),
              !.nextContributionDate = row.scheduledStartDate]
  <2>1. graced \in Row /\ graced.status = "grace"
    <3>1. /\ addDays(row.scheduledStartDate, GracePeriodDays) \in MaybeDate
          /\ row.scheduledStartDate \in MaybeDate /\ "grace" \in Status
      BY <1>1 DEF addDays, GracePeriodDays, MaybeDate, Status
    <3>. QED
      BY <3>1 DEF Row
  <2>2. u = applyChecksum(graced)
    BY <1>3 DEF Updated
  <2>. HIDE DEF graced
  <2>. QED
    BY <2>1, <2>2, ChecksumFits DEF OpenStatuses
<1>4. CASE ~(row.status = "open" /\ now >= row.scheduledStartDate)
  <2>1. ~(row.status = "grace" /\ count = 0)
    BY DEF DatesAgree
  <2>2. u = row
    BY <1>4, <2>1 DEF Updated
  <2>. QED
    BY <2>2
<1>. QED
  BY <1>2, <1>3, <1>4

LEMMA updatePodLifecycleQuiet ==
  ASSUME IInv, QuietInv, OneAtATime', NEW r \in Requests, updatePodLifecycle(r)
  PROVE  QuietInv' /\ SameRound
<1>. DEFINE p == req[r].target
            row == req[r].view[p]
            count == Len(members[p])
            now == req[r].now
<1>1. /\ req[r] \in Request /\ RequestSound(req[r], pod) /\ req[r].pc = "update"
      /\ pod \in [Pods -> Row] /\ members \in [Pods -> Seq(Membership)]
      /\ UNCHANGED members /\ InPlace(req[r], pod, members)
  BY DEF IInv, TypeOK, updatePodLifecycle, QuietInv
<1>2. /\ p \in Pods /\ row = pod[p] /\ row \in Row /\ now \in FirstDay..LastDay
      /\ DatesAgree(row) /\ row.status \in OpenStatuses /\ req[r].todo = {}
      /\ PodQuiet(row, members[p], Locking(p))
  BY <1>1 DEF RequestSound, Request, IInv, RowsSound, InPlace, QuietInv
<1>3. /\ count \in Nat /\ (row.graceEndsAt # NoDate => count > 0)
      /\ row.checksum = Hashed(row)
  <2>1. members[p] \in Seq(Membership)
    BY <1>1, <1>2
  <2>. QED
    BY <1>2, <2>1, EmptySeq DEF IInv, RowsSound, PodQuiet
<1>4. CASE MustLock(row, count, now)
  <2>. DEFINE q == [req[r] EXCEPT !.pc = "bots", !.seen = count]
  <2>1. q.pc = "bots" /\ q.target = p /\ q.todo = {} /\ q.view[p] = row /\ q.seen = count
    BY <1>1, <1>2 DEF Request
  <2>2. InPlace(q, pod, members)
    BY <1>2, <1>4, <2>1 DEF InPlace, MustLock
  <2>3. req' = [req EXCEPT ![r] = q] /\ UNCHANGED <<pod, members>>
    BY <1>3, <1>4 DEF updatePodLifecycle
  <2>. QED
    BY <1>1, <2>1, <2>2, <2>3, LoneRead
<1>5. CASE ~MustLock(row, count, now)
  <2>. DEFINE u == Updated(row, count, now)
              q == Continue(req[r])
  <2>1. u \in Row /\ u.status \in OpenStatuses /\ u.checksum = Hashed(u)
    BY <1>2, <1>3, UpdatedSound, UpdatedQuiet
  <2>2. /\ pod' = [pod EXCEPT ![p] = Flush(pod[p], row, u)]
        /\ req' = [req EXCEPT ![r] = q]
    BY <1>3, <1>5 DEF updatePodLifecycle
  <2>. HIDE DEF u
  <2>3. \A x \in Pods : pod'[x] = IF x = p THEN u ELSE pod[x]
    BY <1>1, <1>2, <2>1, <2>2, FlushOfCurrent
  <2>4. InPlace(q, pod', members') /\ q.pc # "order"
    BY <1>1, <1>2, ContinueInPlace
  <2>. HIDE DEF q
  <2>5. \A x \in Pods : PodQuiet(pod[x], members[x], FALSE)
    BY <1>1, Lone DEF QuietInv, PodQuiet
  <2>6. PodQuiet(u, members[p], FALSE)
    BY <1>2, <2>1, <2>5 DEF PodQuiet, OpenStatuses
  <2>7. \A x \in Pods : PodQuiet(pod'[x], members'[x], q.pc = "order" /\ q.target = x)
    BY <1>1, <2>3, <2>4, <2>5, <2>6
  <2>8. \A x, s \in Pods : pod'[x].status \in OpenStatuses
                           /\ pod'[s].status \in OpenStatuses => x = s
    BY <1>2, <2>3 DEF QuietInv, OneGathers, Joinable
  <2>9. QuietInv' /\ \A x \in Pods : ~Locking(x)'
    BY <1>1, <2>2, <2>4, <2>7, <2>8, LoneStep
  <2>10. SameRound
    <3>1. \A x \in Pods : ~Locking(x)
      BY <1>1, Lone
    <3>2. \A x \in Pods : PhaseOf(pod'[x], FALSE) = PhaseOf(pod[x], FALSE)
                          /\ (SettledAs(pod'[x], FALSE) <=> SettledAs(pod[x], FALSE))
      BY <1>2, <2>1, <2>3 DEF PhaseOf, SettledAs, OpenStatuses
    <3>. QED
      BY <1>1, <2>9, <3>1, <3>2 DEF SameRound, SamePod, TurnOf, PhaseOf, SettledAs
  <2>. QED
    BY <2>9, <2>10
<1>. QED
  BY <1>4, <1>5

\* Bots take the slots after the members that were seen, up to the size of a pod.
LEMMA FilledUp ==
  ASSUME NEW rows \in Seq(Membership), Len(rows) <= maxMembers,
         \A i \in DOMAIN rows : rows[i].who # Bot
  PROVE  LET filled == rows \o NewBots(Len(rows))
         IN  /\ Len(filled) = maxMembers
             /\ DOMAIN filled = 1..maxMembers
             /\ \A i \in 1..Len(rows) : filled[i] = rows[i]
             /\ \A i \in 1..maxMembers : i > Len(rows) =>
                  filled[i].who = Bot /\ filled[i].joinOrder = i
<1>. DEFINE n == Len(rows)
            bots == NewBots(n)
<1>1. n \in Nat /\ DOMAIN rows = 1..n /\ maxMembers \in Nat /\ n <= maxMembers
  BY LenProperties, LifecycleAssumption
<1>2. MissingSlots(n) = maxMembers - n /\ MissingSlots(n) \in Nat
  <2>. HIDE DEF n
  <2>. QED
    BY <1>1 DEF MissingSlots
<1>3. bots \in Seq(Membership) /\ DOMAIN bots = 1..MissingSlots(n)
  BY <1>1, NewBotsType DEF NewBots
<1>4. Len(bots) = maxMembers - n
  BY <1>1, <1>2, <1>3, LenProperties
<1>5. \A k \in 1..(maxMembers - n) : bots[k].who = Bot /\ bots[k].joinOrder = n + k
  BY <1>2 DEF NewBots
<1>. HIDE DEF n, bots
<1>6. /\ rows \o bots \in Seq(Membership) /\ Len(rows \o bots) = maxMembers
      /\ \A i \in 1..maxMembers :
           (rows \o bots)[i] = IF i <= n THEN rows[i] ELSE bots[i - n]
  <2>1. /\ rows \o bots \in Seq(Membership) /\ Len(rows \o bots) = Len(rows) + Len(bots)
        /\ \A i \in 1..Len(rows) + Len(bots) :
             (rows \o bots)[i] = IF i <= Len(rows) THEN rows[i] ELSE bots[i - Len(rows)]
    BY <1>3, ConcatProperties
  <2>2. Len(rows) + Len(bots) = maxMembers /\ Len(rows) = n
    BY <1>1, <1>4 DEF n
  <2>. QED
    BY <2>1, <2>2
<1>7. DOMAIN (rows \o bots) = 1..maxMembers
  BY <1>6, LenProperties
<1>8. \A i \in 1..n : (rows \o bots)[i] = rows[i]
  <2>1. \A i \in 1..n : i \in 1..maxMembers /\ i <= n
    BY <1>1 DEF n
  <2>. QED
    BY <1>6, <2>1
<1>9. ASSUME NEW i \in 1..maxMembers, i > n
      PROVE  (rows \o bots)[i].who = Bot /\ (rows \o bots)[i].joinOrder = i
  <2>1. i - n \in 1..(maxMembers - n) /\ n + (i - n) = i /\ ~(i <= n)
    BY <1>1, <1>9
  <2>2. (rows \o bots)[i] = bots[i - n]
    BY <1>6, <2>1
  <2>. QED
    BY <1>5, <2>1, <2>2
<1>. QED
  BY <1>6, <1>7, <1>8, <1>9 DEF n, bots

LEMMA lockPodFillQuiet ==
  ASSUME IInv, QuietInv, OneAtATime', NEW r \in Requests, lockPodFill(r)
  PROVE  QuietInv' /\ SameRound
<1>. DEFINE p == req[r].target
            row == req[r].view[p]
            locked == [row EXCEPT !.status = "active", !.lockedAt = req[r].now]
            q == [req[r] EXCEPT !.pc = "order", !.view[p] = locked]
            n == Len(members[p])
            filled == members[p] \o NewBots(n)
<1>1. /\ req[r] \in Request /\ RequestSound(req[r], pod) /\ req[r].pc = "bots"
      /\ pod \in [Pods -> Row] /\ members \in [Pods -> Seq(Membership)]
      /\ InPlace(req[r], pod, members)
  BY DEF IInv, TypeOK, lockPodFill, QuietInv
<1>2. /\ p \in Pods /\ row = pod[p] /\ row \in Row /\ req[r].now \in FirstDay..LastDay
      /\ row.status \in OpenStatuses /\ req[r].todo = {}
      /\ req[r].seen = n /\ n > 0 /\ members[p] \in Seq(Membership)
  BY <1>1 DEF RequestSound, Request, InPlace
<1>3. \A x \in Pods : PodQuiet(pod[x], members[x], FALSE)
  BY <1>1, Lone DEF QuietInv, PodQuiet
<1>4. n <= maxMembers /\ \A i \in DOMAIN members[p] : members[p][i].who # Bot
  BY <1>2, <1>3 DEF PodQuiet, OpenStatuses
<1>5. locked \in Row /\ locked.status = "active"
  BY <1>2, StartDates DEF Row, MaybeDate, Status
<1>6. /\ pod' = [pod EXCEPT ![p] = Flush(@, row, locked)]
      /\ members' = [members EXCEPT ![p] = filled]
      /\ req' = [req EXCEPT ![r] = q]
  BY <1>1, <1>2 DEF lockPodFill
<1>7. q.pc = "order" /\ q.target = p /\ q.todo = {} /\ q.view[p] = locked
  BY <1>1, <1>2, <1>5 DEF Request
<1>8. /\ Len(filled) = maxMembers /\ DOMAIN filled = 1..maxMembers
      /\ \A i \in 1..n : filled[i] = members[p][i]
      /\ \A i \in 1..maxMembers : i > n => filled[i].who = Bot /\ filled[i].joinOrder = i
  BY <1>2, <1>4, FilledUp
<1>9. n \in Nat /\ DOMAIN members[p] = 1..n /\ maxMembers \in Nat
  BY <1>2, LenProperties, LifecycleAssumption
<1>. HIDE DEF locked, n, filled, q
<1>10. \A x \in Pods : /\ pod'[x] = IF x = p THEN locked ELSE pod[x]
                       /\ members'[x] = IF x = p THEN filled ELSE members[x]
  BY <1>1, <1>2, <1>5, <1>6, FlushOfCurrent
<1>11. InPlace(q, pod', members')
  <2>1. pod'[p] = locked /\ members'[p] = filled
    BY <1>2, <1>10
  <2>2. \A i \in DOMAIN filled : filled[i].who = Bot => filled[i].joinOrder = i
    <3>1. TAKE i \in DOMAIN filled
    <3>2. CASE i <= n
      <4>1. i \in 1..n
        BY <3>2, <1>8, <1>9
      <4>. QED
        BY <4>1, <1>4, <1>8, <1>9
    <3>3. CASE i > n
      BY <3>3, <1>8
    <3>. QED
      BY <3>2, <3>3, <1>8, <1>9
  <2>3. \E i \in DOMAIN filled : filled[i].who # Bot
    <3>1. 1 \in 1..n /\ 1 \in DOMAIN filled
      BY <1>2, <1>4, <1>8, <1>9
    <3>. QED
      BY <3>1, <1>4, <1>8, <1>9
  <2>. QED
    BY <1>7, <1>8, <2>1, <2>2, <2>3 DEF InPlace
<1>12. \A x \in Pods : PodQuiet(pod'[x], members'[x], q.pc = "order" /\ q.target = x)
  <2>1. PodQuiet(locked, filled, TRUE)
    BY <1>5, <1>8, <1>9 DEF PodQuiet, OpenStatuses
  <2>2. ASSUME NEW x \in Pods
        PROVE  PodQuiet(pod'[x], members'[x], q.pc = "order" /\ q.target = x)
    <3>1. CASE x = p
      BY <3>1, <1>7, <1>10, <2>1
    <3>2. CASE x # p
      BY <3>2, <1>3, <1>7, <1>10
    <3>. QED
      BY <3>1, <3>2
  <2>. QED
    BY <2>2
<1>13. \A x, s \in Pods : pod'[x].status \in OpenStatuses
                          /\ pod'[s].status \in OpenStatuses => x = s
  BY <1>5, <1>10 DEF QuietInv, OneGathers, Joinable, OpenStatuses
<1>14. QuietInv' /\ \A x \in Pods : Locking(x)' <=> x = p
  BY <1>1, <1>6, <1>7, <1>11, <1>12, <1>13, LoneStep
<1>15. \A x \in Pods : ~Locking(x)
  BY <1>1, Lone
<1>16. RosterOf(filled) = RosterOf(members[p])
  <2>1. \A i \in 1..n : i \in 1..maxMembers
    BY <1>4, <1>9
  <2>2. \A i \in 1..maxMembers : i > n \/ i \in 1..n
    BY <1>9
  <2>. QED
    BY <1>8, <1>9, <2>1, <2>2 DEF RosterOf
<1>17. ASSUME NEW x \in Pods, x = p
       PROVE  SamePod(x)
  <2>1. pod'[x] = locked /\ members'[x] = filled /\ Locking(x)'
    BY <1>10, <1>14, <1>17
  <2>2. pod[x].status \in OpenStatuses /\ members[x] = members[p]
    BY <1>2, <1>17
  <2>3. /\ ~SettledAs(pod'[x], Locking(x)') /\ ~SettledAs(pod[x], Locking(x))
        /\ PhaseOf(pod'[x], Locking(x)') = PhaseOf(pod[x], Locking(x))
    BY <1>5, <2>1, <2>2 DEF PhaseOf, SettledAs, OpenStatuses
  <2>. QED
    BY <1>16, <2>1, <2>2, <2>3 DEF SamePod, TurnOf
<1>18. \A x \in Pods : x # p => SamePod(x)
  BY <1>10, <1>14, <1>15 DEF SamePod, TurnOf, PhaseOf, SettledAs
<1>. QED
  BY <1>14, <1>17, <1>18 DEF SameRound

\* The rows of a pod once lockPod has numbered them by f.
Numbered(rows, f) == [i \in DOMAIN rows |-> [rows[i] EXCEPT !.finalOrder = f[i]]]

\* The slots of rows whose pod is full that are taken by bots.
BotSlots(rows) == {i \in 1..maxMembers : rows[i].who = Bot}

\* The orders lockPod can choose: the bots take the first slots.
LEMMA OrdersPayBotsFirst ==
  ASSUME NEW rows \in Seq(Membership), Len(rows) = maxMembers,
         NEW f \in FinalOrders(rows)
  PROVE  /\ f \in [1..maxMembers -> 1..maxMembers]
         /\ \A i, j \in 1..maxMembers : f[i] = f[j] => i = j
         /\ {f[i] : i \in 1..maxMembers} = 1..maxMembers
         /\ IsFiniteSet(BotSlots(rows)) /\ Cardinality(BotSlots(rows)) \in Nat
         /\ \A i, j \in BotSlots(rows) : i < j => f[i] < f[j]
         /\ \A i \in BotSlots(rows) : f[i] <= Cardinality(BotSlots(rows))
         /\ \A i \in (1..maxMembers) \ BotSlots(rows) : f[i] > Cardinality(BotSlots(rows))
<1>. DEFINE bots == BotSlots(rows)
            Upto(i) == {j \in bots : j <= i}
<1>1. DOMAIN rows = 1..maxMembers /\ maxMembers \in Nat
  BY LenProperties, LifecycleAssumption
<1>2. /\ f \in [1..maxMembers -> 1..maxMembers]
      /\ \A i, j \in 1..maxMembers : f[i] = f[j] => i = j
      /\ \A i \in bots : f[i] = Cardinality(Upto(i))
      /\ \A i \in (1..maxMembers) \ bots : f[i] > Cardinality(bots)
  BY <1>1 DEF FinalOrders, BotSlots
<1>3. IsFiniteSet(1..maxMembers) /\ Cardinality(1..maxMembers) = maxMembers
  BY <1>1, FS_Interval
<1>4. {f[i] : i \in 1..maxMembers} = 1..maxMembers
  <2>1. f \in Injection(1..maxMembers, 1..maxMembers)
    BY <1>2 DEF Injection, IsInjective
  <2>2. f \in Surjection(1..maxMembers, 1..maxMembers)
    BY <1>3, <2>1, FS_Injection
  <2>3. \A t \in 1..maxMembers : \E i \in 1..maxMembers : f[i] = t
    BY <2>2 DEF Surjection
  <2>4. \A i \in 1..maxMembers : f[i] \in 1..maxMembers
    BY <1>2
  <2>. QED
    BY <2>3, <2>4
<1>5. IsFiniteSet(bots) /\ Cardinality(bots) \in Nat
  BY <1>3, FS_Subset, FS_CardinalityType DEF BotSlots
<1>6. ASSUME NEW i \in bots
      PROVE  /\ IsFiniteSet(Upto(i)) /\ Cardinality(Upto(i)) \in Nat
             /\ Cardinality(Upto(i)) <= Cardinality(bots)
  <2>1. Upto(i) \in SUBSET bots
    OBVIOUS
  <2>. QED
    BY <1>5, <2>1, FS_Subset, FS_CardinalityType
<1>7. ASSUME NEW i \in bots, NEW j \in bots, i < j
      PROVE  f[i] < f[j]
  <2>1. Upto(i) \in SUBSET Upto(j) /\ j \in Upto(j) /\ j \notin Upto(i)
    BY <1>1, <1>7 DEF BotSlots
  <2>2. /\ Cardinality(Upto(i)) <= Cardinality(Upto(j))
        /\ Cardinality(Upto(i)) # Cardinality(Upto(j))
    BY <1>6, <2>1, FS_Subset
  <2>3. f[i] = Cardinality(Upto(i)) /\ f[j] = Cardinality(Upto(j))
    BY <1>2
  <2>4. Cardinality(Upto(i)) \in Nat /\ Cardinality(Upto(j)) \in Nat
    BY <1>6
  <2>. QED
    BY <2>2, <2>3, <2>4
<1>8. \A i \in bots : f[i] <= Cardinality(bots)
  BY <1>2, <1>6
<1>. QED
  BY <1>2, <1>4, <1>5, <1>7, <1>8

LEMMA NumberedRows ==
  ASSUME NEW rows \in Seq(Membership), Len(rows) = maxMembers,
         NEW f \in FinalOrders(rows)
  PROVE  /\ DOMAIN rows = 1..maxMembers
         /\ DOMAIN Numbered(rows, f) = 1..maxMembers
         /\ Len(Numbered(rows, f)) = maxMembers
         /\ \A i \in 1..maxMembers :
              /\ Numbered(rows, f)[i].who = rows[i].who
              /\ Numbered(rows, f)[i].joinOrder = rows[i].joinOrder
              /\ Numbered(rows, f)[i].finalOrder = f[i]
<1>1. DOMAIN rows = 1..maxMembers /\ maxMembers \in Nat
  BY LenProperties, LifecycleAssumption
<1>2. \A i \in 1..maxMembers : rows[i] \in Membership
  BY <1>1, LenProperties
<1>3. DOMAIN Numbered(rows, f) = 1..maxMembers
  BY <1>1 DEF Numbered
<1>4. \A i \in 1..maxMembers :
        /\ Numbered(rows, f)[i].who = rows[i].who
        /\ Numbered(rows, f)[i].joinOrder = rows[i].joinOrder
        /\ Numbered(rows, f)[i].finalOrder = f[i]
  BY <1>1, <1>2 DEF Numbered, Membership
<1>5. Len(Numbered(rows, f)) = maxMembers
  <2>1. Numbered(rows, f) \in [1..maxMembers -> {Numbered(rows, f)[i] : i \in 1..maxMembers}]
    BY <1>1 DEF Numbered
  <2>2. Numbered(rows, f) \in Seq({Numbered(rows, f)[i] : i \in 1..maxMembers})
    BY <1>1, <2>1, SeqDef
  <2>. QED
    BY <1>1, <1>3, <2>2, LenProperties
<1>. QED
  BY <1>1, <1>3, <1>4, <1>5

\* Whatever order it chooses, a lock of rows whose bots joined in order leaves
\* the slots filled, bots first and in the order they joined.
LEMMA NumberedIsOrdered ==
  ASSUME NEW rows \in Seq(Membership), Len(rows) = maxMembers,
         NEW f \in FinalOrders(rows),
         \A i \in DOMAIN rows : rows[i].who = Bot => rows[i].joinOrder = i
  PROVE  Ordered(Numbered(rows, f))
<1>. DEFINE bots == BotSlots(rows)
            done == Numbered(rows, f)
<1>1. /\ DOMAIN rows = 1..maxMembers /\ DOMAIN done = 1..maxMembers
      /\ \A i \in 1..maxMembers : /\ done[i].who = rows[i].who
                                  /\ done[i].joinOrder = rows[i].joinOrder
                                  /\ done[i].finalOrder = f[i]
  BY NumberedRows
<1>2. /\ f \in [1..maxMembers -> 1..maxMembers]
      /\ {f[i] : i \in 1..maxMembers} = 1..maxMembers
      /\ Cardinality(bots) \in Nat
      /\ \A i, j \in bots : i < j => f[i] < f[j]
      /\ \A i \in bots : f[i] <= Cardinality(bots)
      /\ \A i \in (1..maxMembers) \ bots : f[i] > Cardinality(bots)
  BY OrdersPayBotsFirst
<1>. HIDE DEF done
<1>3. {done[i].finalOrder : i \in DOMAIN done} = 1..maxMembers
  <2>1. {done[i].finalOrder : i \in DOMAIN done} = {f[i] : i \in 1..maxMembers}
    BY <1>1
  <2>. QED
    BY <1>2, <2>1
<1>4. ASSUME NEW i \in DOMAIN done, NEW j \in DOMAIN done, done[i].who = Bot,
             done[j].who # Bot \/ done[i].joinOrder < done[j].joinOrder
      PROVE  done[i].finalOrder < done[j].finalOrder
  <2>1. i \in bots /\ done[i].finalOrder = f[i] /\ done[j].finalOrder = f[j]
        /\ f[i] \in Nat /\ f[j] \in Nat
    BY <1>1, <1>2, <1>4 DEF BotSlots
  <2>2. CASE done[j].who # Bot
    <3>1. f[j] > Cardinality(bots) /\ f[i] <= Cardinality(bots)
      BY <2>1, <2>2, <1>1, <1>2 DEF BotSlots
    <3>. QED
      BY <2>1, <3>1, <1>2
  <2>3. CASE done[j].who = Bot /\ done[i].joinOrder < done[j].joinOrder
    <3>1. j \in bots /\ i < j
      BY <2>1, <2>3, <1>1 DEF BotSlots
    <3>. QED
      BY <2>1, <3>1, <1>2
  <2>. QED
    BY <1>4, <2>2, <2>3
<1>. QED
  BY <1>3, <1>4 DEF Ordered, done

\* What the second flush of lockPod writes, when nobody else wrote in between.
LEMMA LockIs ==
  ASSUME IInv, QuietInv, NEW r \in Requests, lockPodOrder(r)
  PROVE  LET p == req[r].target
         IN  /\ p \in Pods /\ req[r].pc = "order" /\ req[r].todo = {}
             /\ members[p] \in Seq(Membership) /\ Len(members[p]) = maxMembers
             /\ \A i \in DOMAIN members[p] :
                  members[p][i].who = Bot => members[p][i].joinOrder = i
             /\ \E i \in DOMAIN members[p] : members[p][i].who # Bot
             /\ pod[p].status = "active" /\ pod'[p].status = "active"
             /\ \A x \in Pods : x # p => pod'[x] = pod[x] /\ members'[x] = members[x]
             /\ req' = [req EXCEPT ![r] = Continue(req[r])]
             /\ \E f \in FinalOrders(members[p]) : members'[p] = Numbered(members[p], f)
<1>. DEFINE p == req[r].target
            row == req[r].view[p]
            first == IF row.nextContributionDate = NoDate
                     THEN row.startDate ELSE row.nextContributionDate
            begun == [row EXCEPT !.nextContributionDate = first]
            ordered == applyChecksum(begun)
<1>1. /\ req[r] \in Request /\ RequestSound(req[r], pod) /\ req[r].pc = "order"
      /\ pod \in [Pods -> Row] /\ members \in [Pods -> Seq(Membership)]
      /\ InPlace(req[r], pod, members)
  BY DEF IInv, TypeOK, lockPodOrder, QuietInv
<1>2. /\ p \in Pods /\ row = pod[p] /\ row \in Row /\ row.status = "active"
      /\ req[r].todo = {} /\ members[p] \in Seq(Membership)
      /\ Len(members[p]) = maxMembers
      /\ \A i \in DOMAIN members[p] :
           members[p][i].who = Bot => members[p][i].joinOrder = i
      /\ \E i \in DOMAIN members[p] : members[p][i].who # Bot
  BY <1>1 DEF RequestSound, Request, InPlace
<1>3. begun \in Row /\ begun.status = "active"
  BY <1>2 DEF Row
<1>4. ordered \in Row /\ ordered.status = "active"
  BY <1>3, ChecksumFits, Checksums
<1>5. /\ pod' = [pod EXCEPT ![p] = Flush(@, row, ordered)]
      /\ req' = [req EXCEPT ![r] = Continue(req[r])]
  BY DEF lockPodOrder
<1>6. PICK f \in FinalOrders(members[p]) :
        members' = [members EXCEPT ![p] =
          [i \in DOMAIN @ |-> [@[i] EXCEPT !.finalOrder = f[i]]]]
  BY DEF lockPodOrder
<1>. HIDE DEF ordered
<1>7. pod'[p] = ordered /\ \A x \in Pods : x # p => pod'[x] = pod[x]
  BY <1>1, <1>2, <1>4, <1>5, FlushOfCurrent
<1>8. /\ members'[p] = Numbered(members[p], f)
      /\ \A x \in Pods : x # p => members'[x] = members[x]
  BY <1>1, <1>2, <1>6 DEF Numbered
<1>. QED
  BY <1>1, <1>2, <1>4, <1>5, <1>7, <1>8

LEMMA lockPodOrderQuiet ==
  ASSUME IInv, QuietInv, OneAtATime', NEW r \in Requests, lockPodOrder(r)
  PROVE  /\ QuietInv'
         /\ \A x \in Pods : ~Locking(x)' /\ (Locking(x) <=> x = req[r].target)
<1>. DEFINE p == req[r].target
            q == Continue(req[r])
<1>1. /\ p \in Pods /\ req[r].pc = "order" /\ req[r].todo = {} /\ req[r] \in Request
      /\ members[p] \in Seq(Membership) /\ Len(members[p]) = maxMembers
      /\ \A i \in DOMAIN members[p] :
           members[p][i].who = Bot => members[p][i].joinOrder = i
      /\ pod[p].status = "active" /\ pod'[p].status = "active"
      /\ \A x \in Pods : x # p => pod'[x] = pod[x] /\ members'[x] = members[x]
      /\ req' = [req EXCEPT ![r] = q]
  BY LockIs DEF IInv, TypeOK
<1>2. PICK f \in FinalOrders(members[p]) : members'[p] = Numbered(members[p], f)
  BY LockIs
<1>3. InPlace(q, pod', members') /\ q.pc # "order"
  BY <1>1, ContinueInPlace
<1>. HIDE DEF q
<1>4. Ordered(members'[p]) /\ Len(members'[p]) = maxMembers
  BY <1>1, <1>2, NumberedIsOrdered, NumberedRows
<1>5. PodQuiet(pod'[p], members'[p], FALSE)
  BY <1>1, <1>4, LifecycleAssumption DEF PodQuiet, OpenStatuses
<1>6. \A x \in Pods : x # p => PodQuiet(pod[x], members[x], FALSE)
  BY <1>1, Lone DEF QuietInv, PodQuiet
<1>7. \A x \in Pods : PodQuiet(pod'[x], members'[x], FALSE)
  BY <1>1, <1>5, <1>6
<1>8. \A x \in Pods : PodQuiet(pod'[x], members'[x], q.pc = "order" /\ q.target = x)
  BY <1>3, <1>7
<1>9. \A x, s \in Pods : pod'[x].status \in OpenStatuses
                         /\ pod'[s].status \in OpenStatuses => x = s
  BY <1>1 DEF QuietInv, OneGathers, Joinable, OpenStatuses
<1>10. QuietInv' /\ \A x \in Pods : ~Locking(x)'
  BY <1>1, <1>3, <1>8, <1>9, LoneStep
<1>11. \A x \in Pods : Locking(x) <=> x = p
  BY <1>1, Lone
<1>. QED
  BY <1>10, <1>11

LEMMA LocateQuiet ==
  ASSUME IInv, QuietInv, OneAtATime', NEW r \in Requests, Locate(r)
  PROVE  QuietInv' /\ SameRound
<1>1. /\ req[r] \in Request /\ req[r].pc = "locate" /\ UNCHANGED <<pod, members>>
      /\ members \in [Pods -> Seq(Membership)]
  BY DEF IInv, TypeOK, Locate
<1>2. Idle.pc # "order" /\ InPlace(Idle, pod, members)
  BY IdleInPlace DEF Idle
<1>3. CASE req' = [req EXCEPT ![r] = Idle]
  BY <1>1, <1>2, <1>3, LoneRead
<1>4. CASE req' = [req EXCEPT ![r] = [@ EXCEPT !.pc = "find", !.stage = 2]]
  <2>. DEFINE q == [req[r] EXCEPT !.pc = "find", !.stage = 2]
  <2>1. q.pc = "find"
    BY <1>1 DEF Request
  <2>2. InPlace(q, pod, members)
    BY <2>1 DEF InPlace
  <2>. QED
    BY <1>1, <1>4, <2>1, <2>2, LoneRead
<1>5. ASSUME NEW p \in Joinable, ~Rejected(req[r].account, p),
             req' = [req EXCEPT ![r] =
               [@ EXCEPT !.pc = "insert", !.target = p, !.seen = Len(members[p])]]
      PROVE  QuietInv' /\ SameRound
  <2>. DEFINE q == [req[r] EXCEPT !.pc = "insert", !.target = p, !.seen = Len(members[p])]
  <2>1. /\ q.pc = "insert" /\ q.target = p /\ q.seen = Len(members[p])
        /\ q.account = req[r].account
    BY <1>1 DEF Request
  <2>2. p \in Pods /\ pod[p].status \in OpenStatuses /\ Len(members[p]) \in Nat
    BY <1>1, LenProperties DEF Joinable
  <2>3. Len(members[p]) < maxMembers /\ ~HasJoined(req[r].account, p)
    BY <1>5, <2>2, LifecycleAssumption DEF Rejected
  <2>. HIDE DEF q
  <2>4. InPlace(q, pod, members)
    BY <2>1, <2>2, <2>3 DEF InPlace, HasJoined
  <2>5. req' = [req EXCEPT ![r] = q]
    BY <1>5 DEF q
  <2>. QED
    BY <1>1, <2>1, <2>4, <2>5, LoneRead
<1>6. CASE Joinable = {}
  BY <1>3, <1>4, <1>6 DEF Locate
<1>7. CASE Joinable # {}
  <2>1. PICK p \in Joinable :
          req' = [req EXCEPT ![r] =
              IF Rejected(req[r].account, p)
              THEN Idle
              ELSE [@ EXCEPT !.pc = "insert", !.target = p, !.seen = Len(members[p])]]
    BY <1>7 DEF Locate
  <2>. QED
    BY <1>3, <1>5, <2>1
<1>. QED
  BY <1>6, <1>7

\* The rows of a pod that one more member joins.
LEMMA JoinedRows ==
  ASSUME NEW rows \in Seq(Membership), NEW new \in Membership
  PROVE  LET n == Len(rows)
         IN  /\ n \in Nat /\ DOMAIN rows = 1..n
             /\ Len(Append(rows, new)) = n + 1
             /\ DOMAIN Append(rows, new) = 1..(n + 1)
             /\ \A i \in 1..n : Append(rows, new)[i] = rows[i]
             /\ Append(rows, new)[n + 1] = new
BY AppendProperties, LenProperties

\* A person joins the pod that gathers.
JoinsOne ==
  /\ \A x \in Pods : ~Locking(x) /\ ~Locking(x)'
  /\ UNCHANGED pod
  /\ \E p \in Pods, new \in Membership :
       /\ pod[p].status \in OpenStatuses
       /\ new.who \in Accounts /\ \A i \in DOMAIN members[p] : members[p][i].who # new.who
       /\ Len(members[p]) < maxMembers
       /\ members'[p] = Append(members[p], new)
       /\ \A x \in Pods : x # p => members'[x] = members[x]

LEMMA InsertQuiet ==
  ASSUME IInv, QuietInv, OneAtATime', NEW r \in Requests, Insert(r)
  PROVE  QuietInv' /\ (SameRound \/ JoinsOne)
<1>. DEFINE a == req[r].account
            p == req[r].target
            q == [req[r] EXCEPT !.pc = "find", !.stage = 3]
            new == NewMember(a, req[r].seen)
<1>1. /\ req[r] \in Request /\ req[r].pc = "insert" /\ InPlace(req[r], pod, members)
      /\ p \in Pods /\ a \in Accounts /\ UNCHANGED pod
      /\ members \in [Pods -> Seq(Membership)] /\ members[p] \in Seq(Membership)
  BY DEF IInv, TypeOK, Insert, RequestSound, QuietInv
<1>2. CASE ~VersionCurrent(r)
  <2>1. Idle.pc # "order" /\ InPlace(Idle, pod, members)
    BY IdleInPlace DEF Idle
  <2>2. req' = [req EXCEPT ![r] = Idle] /\ UNCHANGED members
    BY <1>2 DEF Insert
  <2>. QED
    BY <1>1, <2>1, <2>2, LoneRead
<1>3. CASE VersionCurrent(r)
  <2>1. /\ members' = [members EXCEPT ![p] = Append(@, new)]
        /\ req' = [req EXCEPT ![r] = q]
    BY <1>3 DEF Insert
  <2>2. q.pc = "find"
    BY <1>1 DEF Request
  <2>3. new \in Membership /\ new.who = a /\ a # Bot
    <3>1. req[r].seen + 1 \in Nat
      BY <1>1 DEF Request
    <3>. QED
      BY <1>1, <3>1, LifecycleAssumption DEF NewMember, Membership
  <2>4. Len(members[p]) < maxMembers /\ pod[p].status \in OpenStatuses
    BY <1>1 DEF InPlace
  <2>. DEFINE joined == Append(members[p], new)
  <2>5. \A x \in Pods : members'[x] = IF x = p THEN joined ELSE members[x]
    BY <1>1, <2>1
  <2>6. \A x \in Pods : PodQuiet(pod[x], members[x], FALSE)
    BY <1>1, Lone DEF QuietInv, PodQuiet
  <2>. HIDE DEF new
  <2>7. PodQuiet(pod[p], joined, FALSE)
    <3>. DEFINE n == Len(members[p])
    <3>1. /\ n \in Nat /\ DOMAIN members[p] = 1..n /\ Len(joined) = n + 1
          /\ DOMAIN joined = 1..(n + 1)
          /\ \A i \in 1..n : joined[i] = members[p][i]
          /\ joined[n + 1] = new
      BY <1>1, <2>3, JoinedRows
    <3>. HIDE DEF n, joined
    <3>2. \A i \in DOMAIN joined : joined[i].who # Bot
      <4>1. TAKE i \in DOMAIN joined
      <4>2. CASE i = n + 1
        BY <4>2, <3>1, <2>3
      <4>3. CASE i # n + 1
        <5>1. i \in 1..n
          BY <4>3, <3>1
        <5>. QED
          BY <5>1, <3>1, <2>4, <2>6, <1>1 DEF PodQuiet, OpenStatuses
      <4>. QED
        BY <4>2, <4>3
    <3>3. Len(joined) <= maxMembers
      BY <3>1, <2>4, LifecycleAssumption DEF n
    <3>. QED
      BY <3>2, <3>3, <2>4, <2>6, <1>1 DEF PodQuiet, OpenStatuses
  <2>8. \A x \in Pods : PodQuiet(pod'[x], members'[x], q.pc = "order" /\ q.target = x)
    BY <1>1, <2>2, <2>5, <2>6, <2>7
  <2>9. InPlace(q, pod', members')
    BY <2>2 DEF InPlace
  <2>10. \A x, s \in Pods : pod'[x].status \in OpenStatuses
                            /\ pod'[s].status \in OpenStatuses => x = s
    BY <1>1 DEF QuietInv, OneGathers, Joinable
  <2>11. QuietInv' /\ \A x \in Pods : ~Locking(x) /\ ~Locking(x)'
    <3>. HIDE DEF q, joined
    <3>1. QuietInv' /\ \A x \in Pods : Locking(x)' <=> q.pc = "order" /\ q.target = x
      BY <1>1, <2>1, <2>8, <2>9, <2>10, LoneStep
    <3>2. \A x \in Pods : ~Locking(x)
      BY <1>1, Lone
    <3>. QED
      BY <2>2, <3>1, <3>2
  <2>12. \A i \in DOMAIN members[p] : members[p][i].who # a
    BY <1>1 DEF InPlace
  <2>. QED
    BY <1>1, <2>3, <2>4, <2>5, <2>11, <2>12 DEF JoinsOne
<1>. QED
  BY <1>2, <1>3

LEMMA StepQuiet ==
  ASSUME IInv, QuietInv, OneAtATime', NEW r \in Requests, Step(r)
  PROVE  QuietInv' /\ (SameRound \/ OpensOne \/ JoinsOne \/ lockPodOrder(r))
<1>1. CASE PodsExhausted(r)
  <2>1. Idle.pc # "order" /\ InPlace(Idle, pod, members)
    BY IdleInPlace DEF Idle
  <2>. QED
    BY <1>1, <2>1, LoneRead DEF PodsExhausted
<1>. QED
  BY <1>1, FindQuiet, createOpenPodQuiet, updatePodLifecycleQuiet, lockPodFillQuiet,
     lockPodOrderQuiet, LocateQuiet, InsertQuiet DEF Step

\* A request that begins has read nothing yet.
LEMMA StartQuiet ==
  ASSUME IInv, QuietInv, OneAtATime', NEW r \in Requests, req[r].pc = "idle", NEW q,
         q.pc = "find", req' = [req EXCEPT ![r] = q], UNCHANGED <<pod, members>>
  PROVE  QuietInv' /\ SameRound
<1>1. \A s \in Requests : req'[s] = IF s = r THEN q ELSE req[s]
  BY DEF IInv, TypeOK
<1>2. \A p \in Pods : Locking(p)' <=> Locking(p)
  BY <1>1 DEF Locking
<1>3. \A s \in Requests : InPlace(req'[s], pod', members')
  <2>1. InPlace(q, pod', members')
    BY DEF InPlace
  <2>2. \A s \in Requests : s # r => InPlace(req'[s], pod', members')
    BY <1>1 DEF QuietInv
  <2>. QED
    BY <1>1, <2>1, <2>2
<1>4. \A p \in Pods : PodQuiet(pod'[p], members'[p], Locking(p)')
  BY <1>2 DEF QuietInv, PodQuiet
<1>5. SameRound
  BY <1>2 DEF SameRound, SamePod, PhaseOf, TurnOf, SettledAs
<1>. QED
  BY <1>3, <1>4, <1>5 DEF QuietInv, OneGathers, Joinable

LEMMA QuietNext ==
  ASSUME IInv, QuietInv, OneAtATime', [Next]_vars, ~CutOff
  PROVE  /\ QuietInv'
         /\ SameRound \/ OpensOne \/ JoinsOne \/ \E r \in Requests : lockPodOrder(r)
<1>1. CASE NextDay \/ UNCHANGED vars
  <2>1. UNCHANGED <<pod, members, req>>
    BY <1>1 DEF NextDay, vars
  <2>2. QuietInv'
    BY <2>1 DEF QuietInv, OneGathers, Joinable, Locking
  <2>. QED
    BY <2>1, <2>2 DEF SameRound, SamePod, Locking
<1>2. CASE \E r \in Refreshers : StartRefresh(r)
  <2>1. PICK r \in Refreshers : StartRefresh(r)
    BY <1>2
  <2>2. [Idle EXCEPT !.pc = "find", !.now = day].pc = "find"
    BY DEF Idle
  <2>. QED
    BY <2>1, <2>2, StartQuiet DEF StartRefresh, Requests
<1>3. CASE \E r \in Joiners, a \in Accounts : StartJoin(r, a)
  <2>1. PICK r \in Joiners, a \in Accounts : StartJoin(r, a)
    BY <1>3
  <2>2. [Idle EXCEPT !.pc = "find", !.stage = 1, !.now = day,
                     !.account = a, !.version = version[a]].pc = "find"
    BY DEF Idle
  <2>. QED
    BY <2>1, <2>2, StartQuiet DEF StartJoin, Requests
<1>4. CASE \E r \in Requests : Step(r)
  BY <1>4, StepQuiet
<1>5. CASE Crash
  BY <1>4, <1>5 DEF CutOff
<1>. QED
  BY <1>1, <1>2, <1>3, <1>4, <1>5 DEF Next

-----------------------------------------------------------------------------
(***************************************************************************)
(* The watched specification                                               *)
(***************************************************************************)
LEMMA WatchedIsSpec == WatchedSpec => Spec
<1>1. WatchedInit => Init
  BY DEF WatchedInit
<1>2. [WatchedNext]_watched => [Next]_vars
  BY DEF WatchedNext, watched
<1>. QED
  BY <1>1, <1>2, PTL DEF WatchedSpec, Spec

LEMMA QuietStart == WatchedInit => QuietInv
<1>. SUFFICES ASSUME WatchedInit PROVE QuietInv
  OBVIOUS
<1>1. /\ \A p \in Pods : pod[p] = NoRow /\ members[p] = <<>>
      /\ \A r \in Requests : req[r] = Idle
  BY DEF WatchedInit, Init
<1>2. NoRow.status = "none" /\ Idle.pc = "idle" /\ Len(<<>>) = 0 /\ DOMAIN <<>> = {}
  BY DEF NoRow, Idle
<1>3. OneAtATime /\ OneGathers
  BY <1>1, <1>2 DEF OneAtATime, Overlap, Busy, OneGathers, Joinable, OpenStatuses
<1>4. \A p \in Pods : PodQuiet(pod[p], members[p], Locking(p))
  <2>1. \A l : PodQuiet(NoRow, <<>>, l)
    BY <1>2, LifecycleAssumption DEF PodQuiet, OpenStatuses
  <2>. QED
    BY <1>1, <2>1
<1>. QED
  BY <1>1, <1>3, <1>4, IdleInPlace DEF QuietInv

LEMMA QuietStep ==
  IInv /\ (~disturbed => QuietInv) /\ [WatchedNext]_watched => (~disturbed => QuietInv)'
<1>. SUFFICES ASSUME IInv, ~disturbed => QuietInv, [WatchedNext]_watched, ~disturbed'
              PROVE  QuietInv'
  OBVIOUS
<1>1. CASE WatchedNext
  <2>1. ~disturbed /\ ~CutOff /\ OneAtATime' /\ Next
    BY <1>1 DEF WatchedNext, OneAtATime
  <2>. QED
    BY <2>1, QuietNext
<1>2. CASE UNCHANGED watched
  <2>1. UNCHANGED vars /\ ~disturbed
    BY <1>2 DEF watched
  <2>. QED
    BY <2>1 DEF vars, QuietInv, OneAtATime, Overlap, Busy, OneGathers, Joinable, Locking
<1>. QED
  BY <1>1, <1>2

LEMMA QuietInductive == WatchedSpec => [](IInv /\ (~disturbed => QuietInv))
<1>1. WatchedInit => (~disturbed => QuietInv)
  BY QuietStart
<1>. QED
  BY <1>1, QuietStep, WatchedIsSpec, Inductive, PTL DEF WatchedSpec

\* While requests come one at a time and are not cut off, one pod gathers
\* members, no pod takes more of them than its plan allows, no refresh meets a
\* checksum it does not expect, and a locked pod is full and pays bots first.
THEOREM QuietPodsStayInOrder == WatchedSpec => []QuietPodsInOrder
<1>1. IInv /\ (~disturbed => QuietInv) => QuietPodsInOrder
  <2>. SUFFICES ASSUME IInv, QuietInv PROVE
         OneJoinablePod /\ NeverOverfull /\ JoinableChecksumsIntact
         /\ LockedPodFilledAndOrdered
    BY DEF QuietPodsInOrder
  <2>1. OneJoinablePod
    <3>1. OneJoinablePod <=> Cardinality(Joinable) <= 1
      BY DEF OneJoinablePod, Joinable
    <3>2. CASE Joinable = {}
      BY <3>1, <3>2, FS_EmptySet
    <3>3. CASE Joinable # {}
      <4>1. PICK p : Joinable = {p}
        BY <3>3 DEF QuietInv, OneGathers
      <4>2. Cardinality(Joinable) = 1
        BY <4>1, FS_Singleton
      <4>. QED
        BY <3>1, <4>2
    <3>. QED
      BY <3>2, <3>3
  <2>2. NeverOverfull
    BY DEF QuietInv, PodQuiet, NeverOverfull
  <2>3. JoinableChecksumsIntact
    BY DEF QuietInv, PodQuiet, JoinableChecksumsIntact, Joinable
  <2>4. LockedPodFilledAndOrdered
    BY DEF QuietInv, PodQuiet, LockedPodFilledAndOrdered
  <2>. QED
    BY <2>1, <2>2, <2>3, <2>4
<1>. QED
  BY <1>1, QuietInductive, PTL

-----------------------------------------------------------------------------
(***************************************************************************)
(* The promise of PodRound                                                 *)
(***************************************************************************)
Phases == [p \in Pods |-> PhaseOf(pod[p], Locking(p))]
Rosters == [p \in Pods |-> RosterOf(members[p])]
TurnsTaken == [p \in Pods |-> TurnOf(pod[p], Locking(p), members[p])]

LEMMA RoundViews ==
  UNCHANGED <<Phases, Rosters, TurnsTaken>> => UNCHANGED Round!vars
BY DEF Round!vars, Phases, Rosters, TurnsTaken, PhaseOf, RosterOf, TurnOf, SlotOf,
       SettledAs, Settled, Gathered

LEMMA SameRoundStutters == SameRound => UNCHANGED Round!vars
<1>. SUFFICES ASSUME SameRound PROVE UNCHANGED <<Phases, Rosters, TurnsTaken>>
  BY RoundViews
<1>1. Phases' = [p \in Pods |-> PhaseOf(pod'[p], Locking(p)')]
  BY DEF Phases
<1>2. Rosters' = [p \in Pods |-> RosterOf(members'[p])]
  BY DEF Rosters
<1>3. TurnsTaken' = [p \in Pods |-> TurnOf(pod'[p], Locking(p)', members'[p])]
  BY DEF TurnsTaken
<1>. QED
  BY <1>1, <1>2, <1>3 DEF SameRound, SamePod, Phases, Rosters, TurnsTaken

\* PodRound counts as this module does.
LEMMA RoundCounts == ASSUME NEW S PROVE Round!Cardinality(S) = Cardinality(S)
BY DEF Round!Cardinality, Cardinality

LEMMA PrimedViews ==
  /\ Phases' = [p \in Pods |-> PhaseOf(pod'[p], Locking(p)')]
  /\ Rosters' = [p \in Pods |-> RosterOf(members'[p])]
  /\ TurnsTaken' = [p \in Pods |-> TurnOf(pod'[p], Locking(p)', members'[p])]
BY DEF Phases, Rosters, TurnsTaken

LEMMA RoundOpens ==
  ASSUME NEW p \in Pods, Phases[p] = "absent", \A x \in Pods : Phases[x] # "gathering",
         Phases' = [Phases EXCEPT ![p] = "gathering"], UNCHANGED <<Rosters, TurnsTaken>>
  PROVE  Round!Next
<1>1. Round!Open(p)
  BY DEF Round!Open, Phases, Rosters, TurnsTaken, PhaseOf, RosterOf, TurnOf, SlotOf,
       SettledAs, Settled, Gathered
<1>. QED
  BY <1>1 DEF Round!Next

LEMMA RoundEnrols ==
  ASSUME NEW p \in Pods, NEW a \in Accounts, Phases[p] = "gathering",
         a \notin Rosters[p], Cardinality(Rosters[p]) < maxMembers,
         Rosters' = [Rosters EXCEPT ![p] = @ \cup {a}], UNCHANGED <<Phases, TurnsTaken>>
  PROVE  Round!Next
<1>1. Round!Enrol(p, a)
  <2>1. [x \in Pods |-> Gathered(x)] = Rosters
    BY DEF Rosters, RosterOf, Gathered
  <2>2. [x \in Pods |-> Gathered(x)]' = Rosters'
    BY DEF Rosters, RosterOf, Gathered
  <2>3. Round!Cardinality(Rosters[p]) < maxMembers
    BY RoundCounts
  <2>. QED
    BY <2>1, <2>2, <2>3 DEF Round!Enrol, Phases, TurnsTaken, PhaseOf, RosterOf, TurnOf,
       SlotOf, SettledAs, Settled, Gathered
<1>. QED
  BY <1>1 DEF Round!Next

LEMMA RoundSettles ==
  ASSUME NEW p \in Pods, Phases[p] = "gathering", Rosters[p] # {},
         Phases' = [Phases EXCEPT ![p] = "settled"], UNCHANGED Rosters,
         NEW t \in Round!Turns(Rosters[p]), TurnsTaken' = [TurnsTaken EXCEPT ![p] = t]
  PROVE  Round!Next
<1>1. Round!Settle(p)
  BY DEF Round!Settle, Phases, Rosters, TurnsTaken, PhaseOf, RosterOf, TurnOf, SlotOf,
       SettledAs, Settled, Gathered
<1>. QED
  BY <1>1 DEF Round!Next

LEMMA OpeningOpens == ASSUME OpensOne PROVE Round!Next
<1>1. PICK p \in Pods : /\ pod[p].status = "none" /\ pod'[p].status = "open"
                        /\ \A x \in Pods : x # p => pod'[x] = pod[x]
  BY DEF OpensOne
<1>2. /\ \A x \in Pods : ~Locking(x) /\ ~Locking(x)' /\ pod[x].status \in {"none", "active"}
      /\ UNCHANGED members
  BY DEF OpensOne
<1>3. Phases[p] = "absent" /\ \A x \in Pods : Phases[x] # "gathering"
  BY <1>1, <1>2 DEF Phases, PhaseOf, SettledAs
<1>4. Phases' = [Phases EXCEPT ![p] = "gathering"]
  <2>1. ASSUME NEW x \in Pods
        PROVE  PhaseOf(pod'[x], Locking(x)') =
                 IF x = p THEN "gathering" ELSE PhaseOf(pod[x], Locking(x))
    BY <1>1, <1>2 DEF PhaseOf, SettledAs
  <2>. QED
    BY <2>1, PrimedViews DEF Phases
<1>5. UNCHANGED Rosters
  BY <1>2 DEF Rosters
<1>6. UNCHANGED TurnsTaken
  <2>1. ASSUME NEW x \in Pods
        PROVE  TurnOf(pod'[x], Locking(x)', members'[x]) = TurnOf(pod[x], Locking(x), members[x])
    BY <1>1, <1>2 DEF TurnOf, SettledAs
  <2>. QED
    BY <2>1, PrimedViews DEF TurnsTaken
<1>. QED
  BY <1>1, <1>3, <1>4, <1>5, <1>6, RoundOpens

\* A pod of people has as many members as it has rows, at most.
LEMMA RosterBounded ==
  ASSUME NEW rows \in Seq(Membership)
  PROVE  /\ IsFiniteSet(RosterOf(rows))
         /\ Cardinality(RosterOf(rows)) \in Nat
         /\ Cardinality(RosterOf(rows)) <= Len(rows)
<1>. DEFINE n == Len(rows)
            names == {rows[i].who : i \in 1..n}
            f == [i \in 1..n |-> rows[i].who]
<1>1. n \in Nat /\ DOMAIN rows = 1..n
  BY LenProperties
<1>2. IsFiniteSet(1..n) /\ Cardinality(1..n) = n
  BY <1>1, FS_Interval
<1>3. f \in Surjection(1..n, names)
  BY DEF Surjection
<1>5. RosterOf(rows) \in SUBSET names
  BY <1>1 DEF RosterOf
<1>. HIDE DEF f, names
<1>4. IsFiniteSet(names) /\ Cardinality(names) <= n
  BY <1>2, <1>3, FS_Surjection
<1>6. /\ IsFiniteSet(RosterOf(rows))
      /\ Cardinality(RosterOf(rows)) <= Cardinality(names)
  BY <1>4, <1>5, FS_Subset
<1>7. Cardinality(RosterOf(rows)) \in Nat /\ Cardinality(names) \in Nat
  BY <1>4, <1>6, FS_CardinalityType
<1>. QED
  BY <1>1, <1>4, <1>6, <1>7

LEMMA JoiningEnrols == ASSUME IInv, JoinsOne PROVE Round!Next
<1>1. PICK p \in Pods, new \in Membership :
        /\ pod[p].status \in OpenStatuses
        /\ new.who \in Accounts /\ \A i \in DOMAIN members[p] : members[p][i].who # new.who
        /\ Len(members[p]) < maxMembers
        /\ members'[p] = Append(members[p], new)
        /\ \A x \in Pods : x # p => members'[x] = members[x]
  BY DEF JoinsOne
<1>2. /\ \A x \in Pods : ~Locking(x) /\ ~Locking(x)'
      /\ UNCHANGED pod /\ members[p] \in Seq(Membership)
  BY DEF JoinsOne, IInv, TypeOK
<1>. DEFINE a == new.who
            n == Len(members[p])
<1>3. RosterOf(members'[p]) = RosterOf(members[p]) \cup {a}
  <2>1. /\ n \in Nat /\ DOMAIN members[p] = 1..n
        /\ DOMAIN members'[p] = 1..(n + 1)
        /\ \A i \in 1..n : members'[p][i] = members[p][i]
        /\ members'[p][n + 1] = new
    BY <1>1, <1>2, JoinedRows
  <2>. HIDE DEF n
  <2>2. 1..(n + 1) = (1..n) \cup {n + 1}
    BY <2>1
  <2>3. a # Bot
    BY <1>1, LifecycleAssumption
  <2>. QED
    BY <2>1, <2>2, <2>3 DEF RosterOf
<1>4. Phases[p] = "gathering"
  BY <1>1 DEF Phases, PhaseOf, SettledAs, OpenStatuses
<1>5. UNCHANGED Phases
  BY <1>2, PrimedViews DEF Phases, PhaseOf, SettledAs
<1>6. UNCHANGED TurnsTaken
  <2>1. ASSUME NEW x \in Pods
        PROVE  TurnOf(pod'[x], Locking(x)', members'[x]) = TurnOf(pod[x], Locking(x), members[x])
    BY <1>1, <1>2 DEF TurnOf, SettledAs, OpenStatuses
  <2>. QED
    BY <2>1, PrimedViews DEF TurnsTaken
<1>7. Rosters' = [Rosters EXCEPT ![p] = @ \cup {a}]
  <2>1. \A x \in Pods : RosterOf(members'[x]) =
          IF x = p THEN RosterOf(members[p]) \cup {a} ELSE RosterOf(members[x])
    BY <1>1, <1>3
  <2>. QED
    BY <2>1, PrimedViews DEF Rosters
<1>8. a \notin Rosters[p]
  BY <1>1 DEF Rosters, RosterOf
<1>9. Cardinality(Rosters[p]) < maxMembers
  <2>1. Cardinality(RosterOf(members[p])) \in Nat
        /\ Cardinality(RosterOf(members[p])) <= Len(members[p]) /\ Len(members[p]) \in Nat
    BY <1>2, RosterBounded, LenProperties
  <2>2. Rosters[p] = RosterOf(members[p])
    BY DEF Rosters
  <2>. QED
    BY <1>1, <2>1, <2>2, LifecycleAssumption
<1>. QED
  BY <1>1, <1>4, <1>5, <1>6, <1>7, <1>8, <1>9, RoundEnrols

\* The people of a full pod are its slots without a bot.
LEMMA PeopleCounted ==
  ASSUME NEW rows \in Seq(Membership), Len(rows) = maxMembers,
         \A i, j \in DOMAIN rows : rows[i].who = rows[j].who /\ rows[i].who # Bot => i = j
  PROVE  Cardinality(RosterOf(rows)) = maxMembers - Cardinality(BotSlots(rows))
<1>. DEFINE all == 1..maxMembers
            bots == BotSlots(rows)
            people == all \ bots
            names == RosterOf(rows)
            f == [i \in people |-> rows[i].who]
<1>1. DOMAIN rows = all /\ maxMembers \in Nat
  BY LenProperties, LifecycleAssumption
<1>2. IsFiniteSet(all) /\ Cardinality(all) = maxMembers
  BY <1>1, FS_Interval
<1>3. all \cap bots = bots
  BY DEF BotSlots
<1>4. IsFiniteSet(people) /\ Cardinality(people) = maxMembers - Cardinality(bots)
  <2>1. /\ IsFiniteSet(all \ bots)
        /\ Cardinality(all \ bots) = Cardinality(all) - Cardinality(all \cap bots)
    BY <1>2, FS_Difference
  <2>2. Cardinality(all \cap bots) = Cardinality(bots)
    BY <1>3
  <2>. QED
    BY <1>2, <2>1, <2>2
<1>5. \A i \in people : i \in all /\ rows[i].who # Bot
  BY DEF BotSlots
<1>6. \A i \in all : rows[i].who # Bot => i \in people
  BY DEF BotSlots
<1>7. f \in [people -> names]
  BY <1>1, <1>5 DEF RosterOf
<1>8. \A i, j \in people : f[i] = f[j] => i = j
  BY <1>1, <1>5
<1>9. \A a \in names : \E i \in people : f[i] = a
  <2>1. TAKE a \in names
  <2>2. PICK i \in all : rows[i].who = a /\ a # Bot
    BY <1>1 DEF RosterOf
  <2>3. i \in people /\ f[i] = a
    BY <1>6, <2>2
  <2>. QED
    BY <2>3
<1>. HIDE DEF f, people, names
<1>10. f \in Bijection(people, names)
  BY <1>7, <1>8, <1>9 DEF Bijection, Injection, IsInjective, Surjection
<1>11. ExistsBijection(people, names)
  BY <1>10 DEF ExistsBijection
<1>12. Cardinality(names) = Cardinality(people)
  BY <1>4, <1>11, FS_Bijection
<1>. QED
  BY <1>4, <1>12 DEF names

\* The order lockPod chooses gives every person a turn that PodRound allows.
LEMMA TurnsAllowed ==
  ASSUME NEW rows \in Seq(Membership), Len(rows) = maxMembers,
         \A i, j \in DOMAIN rows : rows[i].who = rows[j].who /\ rows[i].who # Bot => i = j,
         NEW f \in FinalOrders(rows)
  PROVE  LET done == Numbered(rows, f)
         IN  /\ RosterOf(done) = RosterOf(rows)
             /\ [a \in RosterOf(done) |-> done[SlotOf(done, a)].finalOrder]
                  \in Round!Turns(RosterOf(rows))
<1>. DEFINE done == Numbered(rows, f)
            all == 1..maxMembers
            bots == BotSlots(rows)
            n == Cardinality(bots)
            t == [a \in RosterOf(rows) |-> done[SlotOf(done, a)].finalOrder]
<1>1. /\ DOMAIN rows = all /\ DOMAIN done = all /\ maxMembers \in Nat
      /\ \A i \in all : done[i].who = rows[i].who /\ done[i].finalOrder = f[i]
  BY NumberedRows, LifecycleAssumption
<1>2. /\ f \in [all -> all] /\ \A i, j \in all : f[i] = f[j] => i = j
      /\ \A i \in all \ bots : f[i] > n
      /\ n \in Nat
  BY OrdersPayBotsFirst
<1>. HIDE DEF done, n
<1>3. RosterOf(done) = RosterOf(rows)
  BY <1>1 DEF RosterOf
<1>4. ASSUME NEW a \in RosterOf(rows)
      PROVE  LET i == SlotOf(done, a) IN i \in all /\ done[i].who = a /\ rows[i].who # Bot
  <2>1. PICK i \in all : done[i].who = a /\ a # Bot
    BY <1>1, <1>4 DEF RosterOf
  <2>2. SlotOf(done, a) \in all /\ done[SlotOf(done, a)].who = a
    BY <1>1, <2>1 DEF SlotOf
  <2>. QED
    BY <1>1, <2>1, <2>2
<1>5. ASSUME NEW a \in RosterOf(rows)
      PROVE  t[a] = f[SlotOf(done, a)] /\ t[a] \in (n + 1)..maxMembers
  <2>. DEFINE i == SlotOf(done, a)
  <2>1. i \in all /\ i \notin bots
    BY <1>4 DEF BotSlots
  <2>. HIDE DEF i
  <2>2. f[i] > n /\ f[i] \in all
    BY <1>2, <2>1
  <2>3. t[a] = f[i]
    BY <1>1, <2>1 DEF i
  <2>. QED
    BY <1>1, <1>2, <2>2, <2>3 DEF i
<1>6. \A a, b \in RosterOf(rows) : t[a] = t[b] => a = b
  <2>1. TAKE a, b \in RosterOf(rows)
  <2>2. HAVE t[a] = t[b]
  <2>3. SlotOf(done, a) = SlotOf(done, b)
    BY <1>2, <1>4, <1>5, <2>2
  <2>. QED
    BY <1>4, <2>3
<1>7. Cardinality(RosterOf(rows)) = maxMembers - n
  BY PeopleCounted DEF n
<1>8. maxMembers - Round!Cardinality(RosterOf(rows)) + 1 = n + 1
  BY <1>1, <1>2, <1>7, RoundCounts
<1>9. t \in [RosterOf(rows) -> (n + 1)..maxMembers]
  BY <1>5
<1>. HIDE DEF t
<1>10. t \in Round!Turns(RosterOf(rows))
  BY <1>6, <1>8, <1>9 DEF Round!Turns
<1>. QED
  BY <1>3, <1>10 DEF done, t

LEMMA OrderingSettles ==
  ASSUME IInv, OnceInv, QuietInv, OneAtATime', NEW r \in Requests, lockPodOrder(r)
  PROVE  Round!Next
<1>1. PICK p \in Pods : p = req[r].target
  BY LockIs
<1>2. /\ members[p] \in Seq(Membership) /\ Len(members[p]) = maxMembers
      /\ \E i \in DOMAIN members[p] : members[p][i].who # Bot
      /\ pod[p].status = "active" /\ pod'[p].status = "active"
      /\ \A x \in Pods : x # p => pod'[x] = pod[x] /\ members'[x] = members[x]
      /\ \A x \in Pods : ~Locking(x)' /\ (Locking(x) <=> x = p)
  BY <1>1, LockIs, lockPodOrderQuiet
<1>3. PICK f \in FinalOrders(members[p]) : members'[p] = Numbered(members[p], f)
  BY <1>1, LockIs
<1>. DEFINE t == [a \in RosterOf(members'[p]) |->
                   members'[p][SlotOf(members'[p], a)].finalOrder]
<1>4. /\ RosterOf(members'[p]) = RosterOf(members[p])
      /\ t \in Round!Turns(RosterOf(members[p]))
  <2>1. \A i, j \in DOMAIN members[p] :
          members[p][i].who = members[p][j].who /\ members[p][i].who # Bot => i = j
    BY DEF OnceInv, OneMembershipPerAccount
  <2>. QED
    BY <1>2, <1>3, <2>1, TurnsAllowed
<1>5. TurnOf(pod'[p], FALSE, members'[p]) = t
  BY <1>2 DEF TurnOf, SettledAs
<1>. HIDE DEF t
<1>6. Phases[p] = "gathering"
  BY <1>2 DEF Phases, PhaseOf, SettledAs
<1>7. Phases' = [Phases EXCEPT ![p] = "settled"]
  <2>1. ASSUME NEW x \in Pods
        PROVE  PhaseOf(pod'[x], Locking(x)') =
                 IF x = p THEN "settled" ELSE PhaseOf(pod[x], Locking(x))
    BY <1>2 DEF PhaseOf, SettledAs
  <2>. QED
    BY <2>1, PrimedViews DEF Phases
<1>8. UNCHANGED Rosters
  BY <1>2, <1>4, PrimedViews DEF Rosters
<1>9. TurnsTaken' = [TurnsTaken EXCEPT ![p] = t]
  <2>1. ASSUME NEW x \in Pods
        PROVE  TurnOf(pod'[x], Locking(x)', members'[x]) =
                 IF x = p THEN t ELSE TurnOf(pod[x], Locking(x), members[x])
    <3>1. CASE x = p
      <4>1. TurnOf(pod'[x], Locking(x)', members'[x]) = TurnOf(pod'[p], FALSE, members'[p])
        BY <1>2, <3>1 DEF TurnOf, SettledAs
      <4>. QED
        BY <1>5, <3>1, <4>1
    <3>2. CASE x # p
      BY <1>2, <3>2 DEF TurnOf, SettledAs
    <3>. QED
      BY <3>1, <3>2
  <2>. QED
    BY <2>1, PrimedViews DEF TurnsTaken
<1>10. Rosters[p] = RosterOf(members[p]) /\ Rosters[p] # {}
  BY <1>2 DEF Rosters, RosterOf
<1>. QED
  BY <1>4, <1>6, <1>7, <1>8, <1>9, <1>10, RoundSettles

LEMMA PromiseStep ==
  IInv /\ OnceInv /\ (~disturbed => QuietInv) /\ [WatchedNext]_watched =>
    [disturbed' \/ Round!Next]_(Round!vars)
<1>. SUFFICES ASSUME IInv, OnceInv, ~disturbed => QuietInv, [WatchedNext]_watched,
                     ~disturbed'
              PROVE  Round!Next \/ UNCHANGED Round!vars
  OBVIOUS
<1>1. CASE WatchedNext
  <2>1. QuietInv /\ ~CutOff /\ OneAtATime' /\ Next
    BY <1>1 DEF WatchedNext, OneAtATime
  <2>2. SameRound \/ OpensOne \/ JoinsOne \/ \E r \in Requests : lockPodOrder(r)
    BY <2>1, QuietNext
  <2>. QED
    BY <2>1, <2>2, SameRoundStutters, OpeningOpens, JoiningEnrols, OrderingSettles
<1>2. CASE UNCHANGED watched
  BY <1>2, RoundViews DEF watched, vars, Phases, Rosters, TurnsTaken, Locking
<1>. QED
  BY <1>1, <1>2

LEMMA PromiseStart == WatchedInit => Round!Init
<1>. SUFFICES ASSUME WatchedInit PROVE Round!Init
  OBVIOUS
<1>1. \A p \in Pods : pod[p].status = "none" /\ members[p] = <<>>
  BY DEF WatchedInit, Init, NoRow
<1>2. \A p \in Pods : Gathered(p) = {} /\ ~Settled(p)
  BY <1>1 DEF Gathered, Settled
<1>. QED
  BY <1>1, <1>2 DEF Round!Init

\* While requests come one at a time and are not cut off, the code implements
\* PodRound: people gather in one pod at a time, and once it is settled neither
\* who is in it nor anybody's turn ever changes, the turns nobody took being first.
THEOREM RoundPromiseKept == WatchedSpec => QuietRoundPromise
<1>1. WatchedInit => Round!Init
  BY PromiseStart
<1>. QED
  BY <1>1, PromiseStep, QuietInductive, WatchedIsSpec, OnceInductive, PTL
  DEF WatchedSpec, QuietRoundPromise
=============================================================================
