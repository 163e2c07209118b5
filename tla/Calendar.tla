-------------------------------- MODULE Calendar --------------------------------
(***************************************************************************)
(* Dates of the Gregorian calendar and the month arithmetic of             *)
(* utils/datetime_utils.py.                                                *)
(***************************************************************************)
EXTENDS Integers

IsLeap(y) == y % 4 = 0 /\ (y % 100 # 0 \/ y % 400 = 0)

DaysIn(y, m) ==
  CASE m \in {4, 6, 9, 11} -> 30
    [] m = 2 -> IF IsLeap(y) THEN 29 ELSE 28
    [] m \in {1, 3, 5, 7, 8, 10, 12} -> 31

Date(y, m, d) == [year |-> y, month |-> m, day |-> d]

IsDate(e) ==
  /\ e \in [year : Nat \ {0}, month : 1..12, day : 1..31]
  /\ e.day <= DaysIn(e.year, e.month)

\* date.__le__ compares year, then month, then day.
NotAfter(e, f) ==
  \/ e.year < f.year
  \/ e.year = f.year /\ e.month < f.month
  \/ e.year = f.year /\ e.month = f.month /\ e.day <= f.day

\* e + timedelta(days=1), and e - timedelta(days=1).
DayAfter(e) ==
  IF e.day < DaysIn(e.year, e.month) THEN Date(e.year, e.month, e.day + 1)
  ELSE IF e.month < 12 THEN Date(e.year, e.month + 1, 1)
  ELSE Date(e.year + 1, 1, 1)

DayBefore(e) ==
  IF e.day > 1 THEN Date(e.year, e.month, e.day - 1)
  ELSE IF e.month > 1 THEN Date(e.year, e.month - 1, DaysIn(e.year, e.month - 1))
  ELSE Date(e.year - 1, 12, 31)

IsSameMonth(e, reference) ==
  e.year = reference.year /\ e.month = reference.month

\* Mutant: December is followed by January of the same year.
NextMonthMutant(e) == Date(e.year, (e.month % 12) + 1, 1)
NextMonth(e) ==
  IF e.month = 12 THEN Date(e.year + 1, 1, 1) ELSE Date(e.year, e.month + 1, 1)

\* month_range: the first and the last day of the month of the reference.
FirstDay(reference) == Date(reference.year, reference.month, 1)
LastDay(reference) == DayBefore(NextMonth(reference))

\* Column.between: both ends included.
InMonthRange(e, reference) ==
  NotAfter(FirstDay(reference), e) /\ NotAfter(e, LastDay(reference))
================================================================================
