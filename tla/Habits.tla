--------------------------------- MODULE Habits ---------------------------------
(* One habit, its check-ins and the concurrent requests that set or flip   *)
(* them (internal/api/habits.go, logHabitPeriodTool in internal/ai/tools.go).*)
(* A handler reads whether the day or period is logged in one statement    *)
(* and writes in another, without a transaction around the two.            *)
EXTENDS HabitPeriod

CONSTANTS
  Requests,   \* requests in flight at once
  FirstDay,   \* the local date the habit is created on
  Past,       \* bound: days before it that are checked in
  MaxDays,    \* bound: days that pass
  MaxWrites   \* bound: requests and edits

VARIABLES
  frequency,  \* habits.frequency; "none" when there is no habit
  logs,       \* the habit_logs rows, as dates
  localDay,   \* the owner's date today
  request,    \* check-in requests between their read and their write
  writes      \* requests and edits so far

habitVars == <<frequency, logs, localDay, request, writes>>

NoRequest == [want |-> "none", days |-> {}, logged |-> FALSE]

HabitInit ==
  /\ frequency = "none" /\ logs = {} /\ localDay = FirstDay
  /\ request = [r \in Requests |-> NoRequest]
  /\ writes = 0

Count == writes < MaxWrites /\ writes' = writes + 1

CreateHabit ==
  /\ frequency = "none" /\ writes = 0 /\ Count
  /\ frequency' \in Frequencies
  /\ UNCHANGED <<logs, localDay, request>>

UpdateHabit ==
  /\ frequency # "none" /\ Count
  /\ frequency' \in Frequencies
  /\ UNCHANGED <<logs, localDay, request>>

(* The logs go with the habit (ON DELETE CASCADE).                         *)
DeleteHabit ==
  /\ frequency # "none" /\ Count
  /\ frequency' = "none" /\ logs' = {}
  /\ UNCHANGED <<localDay, request>>

(* The first half of toggleLog and toggleHabitPeriodForDate: the days the  *)
(* request is about, and whether one is logged.  A wanted state that       *)
(* already holds is the answer; without one (want "flip") it is inverted.  *)
Read(r, days, want) ==
  LET logged == logs \intersect days # {}
  IN /\ frequency # "none" /\ request[r] = NoRequest /\ Count
     /\ request' = IF want = (IF logged THEN "on" ELSE "off") THEN request
                   ELSE [request EXCEPT ![r] = [want |-> want, days |-> days, logged |-> logged]]
     /\ UNCHANGED <<frequency, logs, localDay>>

Wants == {"on", "off", "flip"}
Dates == FirstDay - Past .. FirstDay + MaxDays + 1

(* toggleHabitLog, toggleHabitLogForDate: not a future day.                *)
ReadDay(r) ==
  \E date \in Dates, want \in Wants : date <= localDay /\ Read(r, {date}, want)

(* toggleHabitPeriodForDate: not a period after the current one.           *)
ReadPeriod(r) ==
  \E date \in Dates, want \in Wants :
    /\ frequency # "none"
    /\ ForDate(date, frequency) <= ForDate(localDay, frequency)
    /\ Read(r, Period(date, frequency), want)

First(days) == CHOOSE d \in days : \A e \in days : d <= e

(* Mutant of Write: the state that was asked for is ignored.               *)
WriteFlipped(r) ==
  LET days == request[r].days
  IN /\ request[r] # NoRequest
     /\ request' = [request EXCEPT ![r] = NoRequest]
     /\ logs' = IF logs \intersect days # {} THEN logs \ days
                ELSE IF frequency = "none" THEN logs ELSE logs \union {First(days)}
     /\ UNCHANGED <<frequency, localDay, writes>>

(* The second half acts on what the first one read.  A period is logged on *)
(* its first day; the insert of a row that exists by now, or whose habit   *)
(* is gone, changes nothing.                                               *)
Write(r) ==
  LET days == request[r].days
  IN /\ request[r] # NoRequest
     /\ request' = [request EXCEPT ![r] = NoRequest]
     /\ logs' = IF request[r].logged THEN logs \ days
                ELSE IF frequency = "none" THEN logs ELSE logs \union {First(days)}
     /\ UNCHANGED <<frequency, localDay, writes>>

(* logHabitPeriodTool: one INSERT ... WHERE NOT EXISTS.                    *)
LogTool ==
  \E date \in Dates :
    /\ frequency # "none" /\ Count
    /\ ForDate(date, frequency) <= ForDate(localDay, frequency)
    /\ logs' = IF logs \intersect Period(date, frequency) # {} THEN logs
               ELSE logs \union {ForDate(date, frequency)}
    /\ UNCHANGED <<frequency, localDay, request>>

NextDay ==
  /\ localDay < FirstDay + MaxDays
  /\ localDay' = localDay + 1
  /\ UNCHANGED <<frequency, logs, request, writes>>

HabitNext ==
  \/ CreateHabit \/ UpdateHabit \/ DeleteHabit \/ LogTool \/ NextDay
  \/ \E r \in Requests : ReadDay(r) \/ ReadPeriod(r) \/ Write(r)

HabitSpec == HabitInit /\ [][HabitNext]_habitVars

-----------------------------------------------------------------------------
(* Number of a period on its own calendar.                                 *)
PeriodNumber(date, freq) ==
  CASE freq = "weekly" -> (date - 1) \div 7
    [] freq = "fortnightly" -> (date - fortnightEpoch) \div 14
    [] freq = "monthly" -> MonthIndex(date)
    [] OTHER -> date

(* Streaks shown in the app are the runs of consecutive logged periods,    *)
(* whatever mix of days was logged and however the frequency was changed:  *)
(* the longest run anywhere, and the one that reaches this or the last     *)
(* period.  Insights count a window's periods by the same calendar.        *)
StreaksAreRuns ==
  frequency # "none" =>
    LET done == {PeriodNumber(d, frequency) : d \in logs}
        now == PeriodNumber(localDay, frequency)
        ends(p, n) == p - n + 1 .. p \subseteq done
        cur == CurrentStreak(logs, frequency, localDay)
        top == LongestStreak(logs, frequency)
        anchor == IF now \in done THEN now ELSE now - 1
    IN /\ ends(anchor, cur) /\ ~ends(anchor, cur + 1)
       /\ \A p \in done : ~ends(p, top + 1)
       /\ top > 0 => \E p \in done : ends(p, top)
       /\ \A d \in logs : CountOverlapping(d, localDay, frequency)
                            = IF d > localDay THEN 0 ELSE now - PeriodNumber(d, frequency) + 1

(* A check-in the phone sends again from its outbox cannot undo itself, in *)
(* any interleaving with other requests: a request that wants the state on *)
(* removes nothing, one that wants it off adds nothing.                    *)
ResendHarmless ==
  [][\A r \in Requests :
       request[r] # NoRequest /\ request'[r] = NoRequest =>
         /\ request[r].want = "on" => logs \subseteq logs'
         /\ request[r].want = "off" => logs' \subseteq logs]_habitVars

=============================================================================
