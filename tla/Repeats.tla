-------------------------------- MODULE Repeats --------------------------------
(* The life of one repeating thing: a reminder series that occurs again    *)
(* and again (internal/reminder), or a repeating task that the quarter-hour *)
(* sweep or its owner moves to its next date (internal/taskrepeat).  What  *)
(* happens around an occurrence is in StandaloneReminders and TaskLinks; here  *)
(* the dates themselves are checked against the rule their owner set.      *)
EXTENDS TaskRepeat

CONSTANTS
  RuleInputs,   \* rules as clients send them
  Starts,       \* first dates
  Hours,        \* local clock hours of a reminder
  MaxSequence,  \* bound: occurrences followed
  Window,       \* bound: days a task is followed, by the rule's frequency
  Pauses        \* days that pass between two steps of a task, by frequency

VARIABLES
  subject,   \* "series", or the task's scope: "day", "week", "month"
  rule, start, current,
  sequence,  \* the current occurrence's number
  today,     \* the task owner's local date
  over       \* the series has ended

repeatVars == <<subject, rule, start, current, sequence, today, over>>

Subjects == {"series", "day", "week", "month"}

RepeatInit ==
  \E raw \in {r \in RuleInputs : Accepted(r)}, date \in Starts, hour \in Hours, s \in Subjects :
    LET first == IF s = "series" THEN At(date, hour) ELSE [date |-> ScopeStart(s, date), hour |-> 0]
    IN /\ s # "series" => Fits(raw, s)
       /\ subject = s /\ start = first /\ current = first
       /\ rule = IF s = "series" THEN Normalize(raw, date) ELSE FitRule(raw, s, first.date)
       /\ sequence = 1 /\ today = date /\ over = FALSE

(* advanceTx: the next occurrence is scheduled, or the series ends.        *)
Occur ==
  /\ subject = "series" /\ sequence < MaxSequence
  /\ current' \in NextOccurrence(start, current, sequence, rule)
  /\ sequence' = sequence + 1
  /\ UNCHANGED <<subject, rule, start, today, over>>

Finish ==
  /\ subject = "series" /\ ~over
  /\ NextOccurrence(start, current, sequence, rule) = {}
  /\ over' = TRUE
  /\ UNCHANGED <<subject, rule, start, current, sequence, today>>

(* Days on which the sweep runs late or not at all are one step.          *)
NewDay ==
  /\ subject # "series" /\ rule.freq # "" /\ today - start.date < Window[rule.freq]
  /\ \E days \in Pauses[rule.freq] : today' = today + days
  /\ UNCHANGED <<subject, rule, start, current, sequence, over>>

(* Advance, by the sweep (a lapse) or by the owner (a skip).               *)
Move(skip) ==
  /\ subject # "series" /\ rule.freq # ""
  /\ current.date - start.date < Window[rule.freq]
  /\ \E date \in Moves(rule, subject, current.date, today, skip) :
       current' = [date |-> date, hour |-> 0]
  /\ UNCHANGED <<subject, rule, start, sequence, today, over>>

Lapse == Move(FALSE)
Skip == Move(TRUE)

RepeatNext == Occur \/ Finish \/ NewDay \/ Lapse \/ Skip

-----------------------------------------------------------------------------
(* A yearly task that began on a leap day keeps the clamped date it was    *)
(* last moved to: 28 February, also in the next leap year.                 *)
ClampedLeapDay(date) ==
  /\ subject = "day" /\ rule.freq = "yearly" /\ DomOf(start.date) = 29
  /\ MonthOf(date) = 2 /\ DomOf(date) = 28
  /\ (YearOf(date) - YearOf(start.date)) % rule.interval = 0

RuleDate(date) ==
  IF subject = "series" THEN OnRule(rule, start.date, date)
  ELSE OnTaskRule(rule, subject, start.date, date)

(* However many times it occurred, was skipped or lapsed, and however late *)
(* the sweep ran, a repeating thing is on a date of the rule as counted    *)
(* from its very first date: clamped months and missed weeks do not drift. *)
OnCadence ==
  current = start \/ RuleDate(current.date) \/ ClampedLeapDay(current.date)

(* A step never jumps over a date of the rule: a series goes to the very   *)
(* next one, a task to the first one its sweep or skip may still reach.    *)
NothingSkipped ==
  [][current' # current =>
       LET from == IF subject = "series" \/ current.date + 1 > ScopeStart(subject, today)
                   THEN current.date + 1 ELSE ScopeStart(subject, today)
       IN /\ current'.date >= from
          /\ \A d \in from .. current'.date - 1 :
               RuleDate(d) => d = current.date + 1 /\ ClampedLeapDay(current.date)]_repeatVars

(* A series ends at its count or its last date and for no other reason,    *)
(* but one: weekdays more than ten years apart are not searched for.       *)
EndsByRule ==
  over =>
    \/ rule.freq = ""
    \/ rule.count > 0 /\ sequence = rule.count
    \/ rule.until > 0 /\ \A d \in current.date + 1 .. rule.until : ~OnRule(rule, start.date, d)
    \/ rule.freq = "weekly" /\ 7 * rule.interval + 7 > WeeklyHorizon

(* An occurrence is at the start's local hour.  Where the clock skips that *)
(* hour, weekly and yearly series are off on that date only; daily and     *)
(* monthly ones continue from the hour they slipped to.                    *)
KeepsClock ==
  subject = "series" /\ current.hour # start.hour =>
    /\ start.hour = GapHour
    /\ IF rule.freq \in {"weekly", "yearly"} THEN current.date \in GapDays
       ELSE \E d \in GapDays : start.date < d /\ d <= current.date

\* Whatever is completed, skipped or swept late, a repeating reminder or task
\* follows the rule its owner gave: its cadence, its end and its clock.
FollowsRule == OnCadence /\ EndsByRule /\ KeepsClock

=============================================================================
