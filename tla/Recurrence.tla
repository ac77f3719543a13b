------------------------------ MODULE Recurrence ------------------------------
(* The repeat rule of internal/reminder/recurrence.go: Normalize fills a   *)
(* rule in from its start, NextOccurrence (Next) computes the one after   *)
(* the current.  A time is a date and a local clock hour; GapDays are the dates on *)
(* which the clock skips GapHour (daylight saving), where time.Date yields *)
(* an hour of one of the two offsets instead.  Reminders use it directly,  *)
(* repeating tasks through internal/taskrepeat.                            *)
EXTENDS CivilCalendar

CONSTANTS
  GapDays,    \* dates with a skipped hour in the owner's time zone
  GapHour,    \* the hour they skip
  GapTo       \* what time.Date makes of it: the hour before or after

ASSUME GapAssumption ==
  GapDays \subseteq Nat /\ GapHour \in 1 .. 22 /\ GapTo \in {GapHour - 1, GapHour + 1}

Least(n, P(_)) ==
  IF \E i \in 1 .. n : P(i)
  THEN {CHOOSE i \in 1 .. n : P(i) /\ \A j \in 1 .. i - 1 : ~P(j)} ELSE {}

Smaller(a, b) == IF a < b THEN a ELSE b

At(date, hour) ==
  [date |-> date, hour |-> IF date \in GapDays /\ hour = GapHour THEN GapTo ELSE hour]

localDateTime(index, day, clock) ==
  At(InMonth(index, Smaller(day, LengthOf(index))), clock.hour)

ordinalInMonth(date) ==
  IF DomOf(date) + 7 > LengthOf(MonthIndex(date)) THEN -1 ELSE (DomOf(date) - 1) \div 7 + 1

(* Only rules the checks of Normalize let through; 0 and {} are left out   *)
(* by the client.                                                          *)
Accepted(rule) ==
  /\ rule.interval \in 0 .. 999 /\ rule.count \in 0 .. 100000
  /\ rule.freq = "weekly" => rule.weekdays \subseteq 0 .. 6
  /\ rule.freq = "monthly" /\ rule.mode = "date" => rule.monthDay \in 0 .. 31
  /\ rule.freq = "monthly" /\ rule.mode = "weekday" =>
       rule.weekday \in 0 .. 6 /\ rule.ordinal \in {-1, 0, 1, 2, 3, 4, 5}

Normalize(rule, start) ==
  LET monthly(mode) == rule.freq = "monthly" /\ rule.mode = mode
  IN [rule EXCEPT
       !.interval = IF @ = 0 THEN 1 ELSE @,
       !.weekdays = IF rule.freq # "weekly" THEN {}
                    ELSE IF @ = {} THEN {Weekday(start)} ELSE @,
       !.mode = IF rule.freq = "monthly" THEN @ ELSE "",
       !.monthDay = IF ~monthly("date") THEN 0 ELSE IF @ = 0 THEN DomOf(start) ELSE @,
       !.weekday = IF monthly("weekday") THEN @ ELSE 0,
       !.ordinal = IF ~monthly("weekday") THEN 0
                   ELSE IF @ = 0 THEN ordinalInMonth(start) ELSE @]

(* The first date of a selected weekday, in a week a whole number of       *)
(* intervals after the start's; the search gives up after ten years.       *)
WeeklyHorizon == 3660

nextWeekly(start, current, rule) ==
  LET fits(n) ==
        LET date == current.date + n
            weeks == (MondayOf(date) - MondayOf(start.date)) \div 7
        IN weeks >= 0 /\ weeks % rule.interval = 0 /\ Weekday(date) \in rule.weekdays
  IN {At(current.date + n, start.hour) : n \in Least(WeeklyHorizon, fits)}

(* The ordinal's weekday in a month, if the month has one.                 *)
nthWeekday(index, rule, clock) ==
  LET last == LengthOf(index)
      first == Weekday(InMonth(index, 1))
      nth == 1 + ((rule.weekday - first + 7) % 7) + (rule.ordinal - 1) * 7
      days == IF rule.ordinal = -1
              THEN {d \in last - 6 .. last : Weekday(InMonth(index, d)) = rule.weekday}
              ELSE {nth} \cap 1 .. last
  IN {localDateTime(index, d, clock) : d \in days}

(* Mutant of nextMonthly: a clamped day is kept in the months that follow. *)
nextMonthlyClamped(current, rule) ==
  IF rule.mode = "weekday"
  THEN LET found(n) == nthWeekday(MonthIndex(current.date) + n * rule.interval, rule, current) # {}
       IN UNION {nthWeekday(MonthIndex(current.date) + n * rule.interval, rule, current)
                   : n \in Least(1200, found)}
  ELSE {localDateTime(MonthIndex(current.date) + rule.interval, DomOf(current.date), current)}

nextMonthly(current, rule) ==
  IF rule.mode = "weekday"
  THEN LET month(n) == MonthIndex(current.date) + n * rule.interval
           found(n) == nthWeekday(month(n), rule, current) # {}
       IN UNION {nthWeekday(month(n), rule, current) : n \in Least(1200, found)}
  ELSE {localDateTime(MonthIndex(current.date) + rule.interval, rule.monthDay, current)}

(* Mutant of nextYearly: the clock is taken from the current occurrence.   *)
nextYearlySlipping(start, current, rule) ==
  {localDateTime((YearOf(current.date) + rule.interval) * 12 + MonthOf(start.date) - 1,
                 DomOf(start.date), current)}

nextYearly(start, current, rule) ==
  {localDateTime((YearOf(current.date) + rule.interval) * 12 + MonthOf(start.date) - 1,
                 DomOf(start.date), start)}

nextDaily(current, rule) == {At(current.date + rule.interval, current.hour)}

Candidate(start, current, rule) ==
  CASE rule.freq = "daily" -> nextDaily(current, rule)
    [] rule.freq = "weekly" -> nextWeekly(start, current, rule)
    [] rule.freq = "monthly" -> nextMonthly(current, rule)
    [] rule.freq = "yearly" -> nextYearly(start, current, rule)
    [] OTHER -> {}

(* Mutant of NextOccurrence: the end date no longer counts.                *)
NextOccurrenceBefore(start, current, sequence, rule) ==
  {t \in Candidate(start, current, rule) :
     /\ rule.count = 0 \/ sequence < rule.count
     /\ rule.until = 0 \/ t.date < rule.until}

(* The next occurrence, as a set of at most one time: empty when the       *)
(* series is over.                                                         *)
NextOccurrence(start, current, sequence, rule) ==
  {t \in Candidate(start, current, rule) :
     /\ rule.count = 0 \/ sequence < rule.count
     /\ rule.until = 0 \/ t.date <= rule.until}

-----------------------------------------------------------------------------
(* The rule as its owner reads it, independently of the search for the     *)
(* next: the dates of the series that began at start.                                *)
OnRule(rule, start, date) ==
  LET months == MonthIndex(date) - MonthIndex(start)
      dom == DomOf(date)
      length == LengthOf(MonthIndex(date))
  IN CASE rule.freq = "daily" -> (date - start) % rule.interval = 0
       [] rule.freq = "weekly" ->
            /\ Weekday(date) \in rule.weekdays
            /\ ((MondayOf(date) - MondayOf(start)) \div 7) % rule.interval = 0
       [] rule.freq = "monthly" ->
            /\ months > 0 /\ months % rule.interval = 0
            /\ IF rule.mode = "date"
               THEN dom = rule.monthDay \/ (dom = length /\ rule.monthDay > length)
               ELSE /\ Weekday(date) = rule.weekday
                    /\ \/ rule.ordinal = -1 /\ dom + 7 > length
                       \/ rule.ordinal = (dom - 1) \div 7 + 1
       [] rule.freq = "yearly" ->
            /\ months > 0 /\ months % (12 * rule.interval) = 0
            /\ dom = DomOf(start) \/ (dom = length /\ DomOf(start) > length)
       [] OTHER -> FALSE
=============================================================================
