------------------------------ MODULE TaskRepeat ------------------------------
(* How a repeating task moves (internal/taskrepeat): the rule's fit to the *)
(* task's scope (a day, a week by its Monday, a month by its 1st) and the  *)
(* date it moves to once its period has ended, or when it is skipped.      *)
EXTENDS Recurrence

(* Normalize: the rules a scope takes.                                     *)
Fits(rule, kind) ==
  /\ kind = "week" => rule.freq = "weekly"
  /\ kind = "month" => rule.freq = "monthly"

FitRule(rule, kind, date) ==
  IF kind = "day" THEN [Normalize(rule, date) EXCEPT !.until = 0, !.count = 0]
  ELSE [rule EXCEPT !.interval = IF @ = 0 THEN 1 ELSE @, !.weekdays = {}, !.mode = "",
                    !.monthDay = 0, !.weekday = 0, !.ordinal = 0, !.until = 0, !.count = 0]

ScopeStart(kind, date) ==
  CASE kind = "week" -> MondayOf(date)
    [] kind = "month" -> InMonth(MonthIndex(date), 1)
    [] OTHER -> date

(* One turn of the loop in Next.                                           *)
StepDate(rule, kind, from, current) ==
  CASE kind = "week" -> {current + 7 * rule.interval}
    [] kind = "month" -> {InMonth(MonthIndex(current) + rule.interval, 1)}
    [] OTHER -> {t.date : t \in NextOccurrence([date |-> from, hour |-> 0],
                               [date |-> current, hour |-> 0], 1, rule)}

(* taskrepeat.Next: the first date of the series after from that is on or  *)
(* after notBefore.                                                        *)
NextDate(rule, kind, from, notBefore) ==
  LET reach[current \in Nat] ==
        UNION {IF d >= notBefore THEN {d} ELSE reach[d]
                 : d \in StepDate(rule, kind, from, current)}
  IN reach[from]

(* Mutant of Moves: a lapse moves one step, to a date already past.        *)
MovesOneStep(rule, kind, date, today, skip) ==
  IF skip \/ date < ScopeStart(kind, today)
  THEN StepDate(rule, kind, date, date) ELSE {}

(* The date Advance moves a task to, if it moves: a lapse needs the whole  *)
(* period behind it, a skip does not.                                      *)
Moves(rule, kind, date, today, skip) ==
  LET current == ScopeStart(kind, today)
      after == IF skip /\ kind = "day" /\ date + 1 > current THEN date + 1 ELSE current
  IN IF skip \/ date < current THEN NextDate(rule, kind, date, after) ELSE {}

(* The dates of a repeating task that was first given the date start.      *)
OnTaskRule(rule, kind, start, date) ==
  CASE kind = "week" -> (date - start) % (7 * rule.interval) = 0
    [] kind = "month" -> /\ (MonthIndex(date) - MonthIndex(start)) % rule.interval = 0
                         /\ DomOf(date) = 1
    [] OTHER -> OnRule(rule, start, date)
=============================================================================
