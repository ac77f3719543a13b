------------------------------ MODULE HabitPeriod ------------------------------
(* Habit cadences (internal/habitperiod): the period a date falls in, the  *)
(* neighbouring periods, and the streaks of completed ones.                *)
EXTENDS CivilCalendar, FiniteSets

Frequencies == {"daily", "weekly", "fortnightly", "monthly"}

(* Fortnights run from this Monday.                                        *)
fortnightEpoch == DateOf(1970, 1, 12)

NextPeriod(start, frequency) ==
  CASE frequency = "weekly" -> start + 7
    [] frequency = "fortnightly" -> start + 14
    [] frequency = "monthly" -> InMonth(MonthIndex(start) + 1, 1)
    [] OTHER -> start + 1

Previous(start, frequency) ==
  CASE frequency = "weekly" -> start - 7
    [] frequency = "fortnightly" -> start - 14
    [] frequency = "monthly" -> InMonth(MonthIndex(start) - 1, 1)
    [] OTHER -> start - 1

(* The period a date falls in, by its first date.                          *)
ForDate(date, frequency) ==
  CASE frequency = "weekly" -> MondayOf(date)
    [] frequency = "fortnightly" ->
         MondayOf(date) - 7 * (((MondayOf(date) - fortnightEpoch) \div 7) % 2)
    [] frequency = "monthly" -> InMonth(MonthIndex(date), 1)
    [] OTHER -> date

Period(date, frequency) ==
  LET start == ForDate(date, frequency) IN start .. NextPeriod(start, frequency) - 1

CompletedPeriods(logs, frequency) == {ForDate(d, frequency) : d \in logs}

(* Mutant: an unfinished current period breaks the streak.                 *)
CurrentStreakStrict(logs, frequency, today) ==
  LET completed == CompletedPeriods(logs, frequency)
      back[p \in Nat] == IF p \in completed THEN 1 + back[Previous(p, frequency)] ELSE 0
  IN back[ForDate(today, frequency)]

(* An unfinished current period is still open: the streak then ends with   *)
(* the one before it.                                                      *)
CurrentStreak(logs, frequency, today) ==
  LET completed == CompletedPeriods(logs, frequency)
      back[p \in Nat] == IF p \in completed THEN 1 + back[Previous(p, frequency)] ELSE 0
      cursor == ForDate(today, frequency)
  IN back[IF cursor \in completed THEN cursor ELSE Previous(cursor, frequency)]

(* The run of consecutive periods that ends with each completed one.       *)
LongestStreak(logs, frequency) ==
  LET completed == CompletedPeriods(logs, frequency)
      run[p \in Nat] ==
        IF Previous(p, frequency) \in completed THEN run[Previous(p, frequency)] + 1 ELSE 1
      runs == {run[p] : p \in completed}
  IN IF runs = {} THEN 0 ELSE CHOOSE n \in runs : \A m \in runs : m <= n

CountOverlapping(from, to, frequency) ==
  LET count[p \in Nat] == IF p > to THEN 0 ELSE 1 + count[NextPeriod(p, frequency)]
  IN IF to < from THEN 0 ELSE count[ForDate(from, frequency)]
=============================================================================
