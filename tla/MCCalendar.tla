------------------------------ MODULE MCCalendar ------------------------------
(* Repeats and Habits over real dates of 2024 to 2029, and Releases over   *)
(* three days: components that share nothing but the calendar.  A behaviour *)
(* is one of them, the others stand still.                                  *)
EXTENDS Repeats, Habits, Releases

VARIABLE checked   \* "repeat", "habit" or "release"

R(freq, interval) ==
  [freq |-> freq, interval |-> interval, weekdays |-> {}, mode |-> "", monthDay |-> 0,
   weekday |-> 0, ordinal |-> 0, until |-> 0, count |-> 0]

Jan31 == DateOf(2024, 1, 31)
Feb29 == DateOf(2024, 2, 29)
Aug17 == DateOf(2026, 8, 17)

MCRules ==
  {R("", 0), R("daily", 0), [R("daily", 3) EXCEPT !.count = 3],
   R("weekly", 1), [R("weekly", 2) EXCEPT !.weekdays = {1, 4}],
   [R("weekly", 3) EXCEPT !.weekdays = {0, 2}, !.until = Aug17 + 40],
   [R("weekly", 600) EXCEPT !.weekdays = {3}],
   [R("monthly", 1) EXCEPT !.mode = "date"],
   [R("monthly", 2) EXCEPT !.mode = "date", !.monthDay = 31, !.until = DateOf(2026, 10, 31)],
   [R("monthly", 1) EXCEPT !.mode = "weekday", !.weekday = 1],
   [R("monthly", 1) EXCEPT !.mode = "weekday", !.weekday = 4, !.ordinal = 5],
   [R("monthly", 5) EXCEPT !.mode = "weekday", !.weekday = 0, !.ordinal = -1],
   R("yearly", 1), R("yearly", 2)}
MCStarts == {Jan31, Feb29, Aug17}
MCGaps == {DateOf(2024, 3, 31), DateOf(2025, 3, 30), DateOf(2026, 8, 24), DateOf(2028, 2, 29)}
MCWindow == [daily |-> 25, weekly |-> 90, monthly |-> 400, yearly |-> 2300]
MCPauses == [daily |-> {1, 2, 9}, weekly |-> {1, 6, 30}, monthly |-> {29, 95},
             yearly |-> {360, 740}]
MCFirstDay == DateOf(2026, 7, 31)

NoRepeat ==
  /\ subject = "series" /\ rule = R("", 0) /\ sequence = 1 /\ today = 1 /\ over = TRUE
  /\ start = [date |-> 1, hour |-> 0] /\ current = start
NoHabit ==
  /\ frequency = "none" /\ logs = {} /\ localDay = FirstDay
  /\ request = [r \in Requests |-> NoRequest] /\ writes = 0
NoTitle == ReleasesRest

Init ==
  \/ checked = "repeat" /\ RepeatInit /\ NoHabit /\ NoTitle
  \/ checked = "habit" /\ HabitInit /\ NoRepeat /\ NoTitle
  \/ checked = "release" /\ ReleasesInit /\ NoRepeat /\ NoHabit

Sweeping == checked = "release" /\ Graduate /\ UNCHANGED <<repeatVars, habitVars, checked>>

Next ==
  /\ UNCHANGED checked
  /\ \/ checked = "repeat" /\ RepeatNext /\ UNCHANGED <<habitVars, releaseVars>>
     \/ checked = "habit" /\ HabitNext /\ UNCHANGED <<repeatVars, releaseVars>>
     \/ checked = "release" /\ ReleasesNext /\ UNCHANGED <<repeatVars, habitVars>>

calendarVars == <<checked, repeatVars, habitVars, releaseVars>>

\* The fairness is that of Releases.
Spec == Init /\ [][Next]_calendarVars /\ WF_calendarVars(Sweeping)
=============================================================================
