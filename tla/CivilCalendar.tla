---------------------------- MODULE CivilCalendar ----------------------------
(* The Gregorian calendar of Go's time package, on dates alone: a date is  *)
(* its day number, 1 January of year 1 (a Monday) being day 1.  Everything *)
(* here is the library's; the code under internal/ only calls it.          *)
EXTENDS Integers

IsLeap(y) == y % 4 = 0 /\ (y % 100 # 0 \/ y % 400 = 0)

daysInMonth(y, m) ==
  IF m = 2 THEN (IF IsLeap(y) THEN 29 ELSE 28)
  ELSE IF m \in {4, 6, 9, 11} THEN 30 ELSE 31

DaysBeforeYear(y) ==
  LET p == y - 1 IN p * 365 + p \div 4 - p \div 100 + p \div 400

DaysBeforeMonth(y, m) ==
  <<0, 31, 59, 90, 120, 151, 181, 212, 243, 273, 304, 334>>[m]
    + (IF m > 2 /\ IsLeap(y) THEN 1 ELSE 0)

DateOf(y, m, d) == DaysBeforeYear(y) + DaysBeforeMonth(y, m) + d

YearOf(date) ==
  CHOOSE y \in (date \div 366) .. (date \div 365 + 1) :
    DaysBeforeYear(y) < date /\ date <= DaysBeforeYear(y + 1)

MonthOf(date) ==
  LET y == YearOf(date)
      n == date - DaysBeforeYear(y)
  IN CHOOSE m \in 1 .. 12 : /\ DaysBeforeMonth(y, m) < n
                            /\ n <= DaysBeforeMonth(y, m) + daysInMonth(y, m)

DomOf(date) == date - DateOf(YearOf(date), MonthOf(date), 0)

(* time.Weekday: 0 is Sunday.                                              *)
Weekday(date) == date % 7

MondayOf(date) == date - ((Weekday(date) + 6) % 7)

(* Months counted from year 0: arithmetic on them is time.Date's           *)
(* normalization of a month past December.                                 *)
MonthIndex(date) == YearOf(date) * 12 + MonthOf(date) - 1
InMonth(index, d) == DateOf(index \div 12, (index % 12) + 1, d)
LengthOf(index) == daysInMonth(index \div 12, (index % 12) + 1)
=============================================================================
