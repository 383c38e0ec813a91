----------------------------- MODULE Gregorian -----------------------------
(***************************************************************************)
(* The Gregorian calendar behind JavaScript's Date, as the months' first   *)
(* days: what MC modules pass to PodCalendar as MonthStart.  Day 0 is the  *)
(* first of January of FirstYear.                                          *)
(***************************************************************************)
EXTENDS Integers

FirstYear == 2023

IsLeap(year) == year % 4 = 0 /\ (year % 100 # 0 \/ year % 400 = 0)

\* Length of month m, counted from January of FirstYear.
MonthLength(m) ==
  LET year == FirstYear + (m \div 12)
      long == {0, 2, 4, 6, 7, 9, 11}
  IN  IF m % 12 \in long THEN 31
      ELSE IF m % 12 # 1 THEN 30
      ELSE IF IsLeap(year) THEN 29 ELSE 28

FirstDays(months) ==
  LET first[m \in 0..months] == IF m = 0 THEN 0
                                ELSE first[m - 1] + MonthLength(m - 1)
  IN  first
=============================================================================
