----------------------------- MODULE TaskSchedule -----------------------------
(* When a task is due and when it rings: the scope columns (due_date,       *)
(* week_of, month_of), the repeat rule that must fit them, the task's own   *)
(* reminder and one extra reminder, and everything that moves them: REST    *)
(* patches and reschedules, the assistant's tools, plans, the repeat sweep  *)
(* and the handlers that deliver (internal/api/tasks.go, reminders.go,      *)
(* task_reschedule.go, internal/taskrepeat, internal/ai/tools.go).          *)
(* One transaction is one step; a delivery is a claim, a send and a stamp.  *)
EXTENDS Delivery

CONSTANTS
  Horizon,      \* bound: the clock
  Asked,        \* bound: times, and by them days, that requests ask for
  Bounds,       \* bound: requests after the task was created, mishaps, and
                \*        the reminder switches, frequencies and last moment
  MaxFields,    \* bound: fields one patch changes
  Kept          \* a field that is not sent

ASSUME ScheduleAssumption ==
  /\ {Horizon, MaxFields} \subseteq Nat
  /\ Bounds \subseteq [edits : Nat, mishaps : Nat, on : SUBSET BOOLEAN,
                       freqs : SUBSET {"daily", "weekly", "monthly"}, until : 1 .. Horizon]
  /\ Asked \subseteq 1 .. Horizon /\ Kept \notin Int

VARIABLES
  now,        \* the clock
  task,       \* status, scope columns and rule of the row
  bell,       \* by kind: the row's own reminder and its task_reminders row
  fires,      \* Cloud Tasks not yet answered with a 2xx
  handler,    \* the delivery each handler is at
  rung,       \* history: armings somebody was told of
  twice,      \* history: armings told more than once
  lost,       \* history: armings whose handler died
  disturbed,  \* history: armings begun or unclaimed under a handler at work
  excused,    \* history: armings that need the safety sweep to be noticed
  unfitted,   \* history: the scope changed without taskrepeat.Fit
  edits, mishaps, \* what is left of the bound of this behaviour
  allowed     \* bound: the switches, frequencies and last moment of this behaviour

scheduleVars == <<now, task, bell, fires, handler, rung, twice, lost, disturbed,
                  excused, unfitted, edits, mishaps, allowed>>

Kinds == {"task", "multi"}       \* reminderqueue.KindTask, KindMulti
Days == {Day(t) : t \in Asked}

NoRule == [freq |-> "none", filled |-> FALSE]
Rules == [freq : allowed.freqs, filled : {FALSE}]  \* as asked for
Silent == [at |-> Never, on |-> FALSE, stamped |-> FALSE, claim |-> 0, arming |-> 0]
AtRest == [pc |-> "idle", kind |-> "task", arming |-> 0, fire |-> {}, since |-> 0]

Open == task.status = "open"     \* todo, in_progress or blocked
Busy(k) == {h \in Handlers : handler[h].pc # "idle" /\ handler[h].kind = k}

Mishap == mishaps > 0 /\ mishaps' = mishaps - 1

-----------------------------------------------------------------------------
(* Scopes and rules.                                                       *)

(* Scope.anchor: the first of the three columns that is set.               *)
Kind(row) ==
  IF row.due # Never THEN "day" ELSE IF row.week # Never THEN "week"
  ELSE IF row.month # Never THEN "month" ELSE "none"

Anchor(row) ==
  CASE Kind(row) = "day" -> row.due [] Kind(row) = "week" -> row.week
    [] Kind(row) = "month" -> row.month [] OTHER -> Never

(* taskrepeat.Normalize: a day task stores which weekday or month day, a   *)
(* week or month task only how many weeks or months.                       *)
Accepts(rule, kind) ==
  \/ rule.freq = "none" \/ kind = "day"
  \/ kind = "week" /\ rule.freq = "weekly"
  \/ kind = "month" /\ rule.freq = "monthly"

Normalized(rule, kind) ==
  [rule EXCEPT !.filled = kind = "day" /\ rule.freq # "none"]

(* Mutant of Fit: a stored rule is kept as it is.                          *)
FitGiven(row, rule) ==
  IF rule = Kept THEN row ELSE [row EXCEPT !.rule = Normalized(rule, Kind(row))]

(* taskrepeat.Fit; a rule that is given and refused rolls the edit back.   *)
Fit(row, rule) ==
  LET wanted == IF rule = Kept THEN row.rule ELSE rule
  IN [row EXCEPT !.rule = IF Accepts(wanted, Kind(row)) THEN Normalized(wanted, Kind(row))
                          ELSE NoRule]

(* taskrepeat.Next: dates from notBefore on within one period (which of    *)
(* them is TaskRepeat's).  A weekly rule without weekdays finds none; a    *)
(* monthly one without a day finds the last of the month, over and over.   *)
NextDates(row, notBefore) ==
  LET from == Anchor(row)
      first == IF notBefore > from THEN notBefore ELSE from + 1
      dates(period) == first .. first + period - 1
  IN CASE Kind(row) = "week" -> {d \in dates(WeekDays) : d % WeekDays = 0}
       [] Kind(row) = "month" -> {d \in dates(MonthDays) : d % MonthDays = 0}
       [] row.rule.freq = "daily" -> {first}
       [] ~row.rule.filled -> IF row.rule.freq = "weekly" THEN {}
                              ELSE {MonthOf(from) + MonthDays - 1} \cap (first .. from + MonthDays)
       [] OTHER -> dates(IF row.rule.freq = "weekly" THEN WeekDays ELSE MonthDays)

-----------------------------------------------------------------------------
(* Reminders of the row.                                                   *)

(* A user request replaces the bells; a new time, a new switch or a        *)
(* cleared stamp is a new arming.  What is queued is decided afterwards.   *)
Ring(new) ==
  LET arms(k) == \/ new[k].at # bell[k].at \/ new[k].on # bell[k].on
                 \/ bell[k].stamped /\ ~new[k].stamped
      unclaims(k) == new[k].claim # bell[k].claim
      arming(k) == bell[k].arming + (IF arms(k) THEN 1 ELSE 0)
  IN /\ bell' = [k \in Kinds |-> [new[k] EXCEPT !.arming = arming(k)]]
     /\ disturbed' = disturbed \union
          {<<k, arming(k)>> : k \in {j \in Kinds : (arms(j) \/ unclaims(j)) /\ Busy(j) # {}}}

(* enqueue...: best effort, one append-only Cloud Task per kind in due.    *)
Queue(due) ==
  \E some \in SUBSET due :
    /\ fires' = fires \union {[kind |-> k, at |-> bell'[k].at] : k \in some}
    /\ IF some = due THEN UNCHANGED mishaps ELSE Mishap

(* What no fire can make up for when its time comes: none is queued, or    *)
(* the window is over, or the lease of an earlier delivery covers it.      *)
Excuse ==
  excused' = excused \union
    {<<k, bell'[k].arming>> : k \in {j \in Kinds :
       /\ bell'[j].on /\ bell'[j].at # Never /\ ~bell'[j].stamped
       /\ \/ \A f \in fires' : ~(f.kind = j /\ f.at \in bell'[j].at .. bell'[j].at + Grace)
          \/ bell'[j].at + Grace < now
          \/ bell'[j].claim >= bell'[j].at}}

(* enqueueTaskReminderFromDB reads what was committed.                     *)
ReadDue ==
  {k \in {"task"} : bell'[k].on /\ ~bell'[k].stamped /\ bell'[k].at # Never /\ task'.status = "open"}

Edit ==
  /\ edits > 0 /\ edits' = edits - 1
  /\ task.status # "none"
  /\ UNCHANGED <<allowed, now, handler, rung, twice, lost>>

-----------------------------------------------------------------------------
(* Requests of the user and the assistant.                                 *)

NewRow(due, time, week, month) ==
  [status |-> "open", week |-> week, month |-> month, rule |-> NoRule,
   due |-> CASE week # Never \/ month # Never -> Never
             [] due = Never /\ time # Never -> Day(time) [] OTHER -> due]

(* The create_task tool lets a month push out a week; the API keeps both.  *)
ToolRow(due, time, week, month) ==
  NewRow(due, time, IF month = Never THEN week ELSE Never, month)

(* createTask and the create_task tool: week_of and month_of push out the  *)
(* day and the time.                                                       *)
Create ==
  /\ task.status = "none"
  /\ \E byTool \in BOOLEAN, due \in Days \union {Never}, at \in Asked \union {Never},
       week \in {WeekOf(Day(now)), Never}, month \in {MonthOf(Day(now)), Never},
       on \in allowed.on, rule \in Rules \union {NoRule} :
       LET time == IF week # Never \/ month # Never THEN Never ELSE at
           row == IF byTool THEN ToolRow(due, time, week, month) ELSE NewRow(due, time, week, month)
       IN /\ Accepts(rule, Kind(row))
          /\ task' = Fit(row, rule)
          /\ Ring([bell EXCEPT !["task"].at = time, !["task"].on = on])
          /\ Queue(ReadDue) /\ Excuse
  /\ UNCHANGED <<now, handler, rung, twice, lost, unfitted, edits, allowed>>

(* The requests that send exactly the fields in sent.                      *)
Sending(sent) ==
  LET Value(field, values) == IF field \in sent THEN values ELSE {Kept}
  IN [due : Value("due", Days), clearDue : Value("clearDue", {TRUE}),
      week : Value("week", {0, Never}), month : Value("month", {0, Never}),
      at : Value("at", Asked \union {Never}), on : Value("on", allowed.on),
      rule : Value("rule", Rules \union {NoRule})]

FieldSets ==
  {sent \in SUBSET {"due", "clearDue", "week", "month", "at", "on", "rule"} :
     Cardinality(sent) \in 1 .. MaxFields}

(* Mutant of Patched: a new time keeps the stamp of the old one.           *)
PatchedStamped(old, body) ==
  IF body.at = Kept THEN old ELSE [old EXCEPT !.at = body.at]

(* The reminder columns: a real change of time or switch re-arms.          *)
Patched(old, body) ==
  LET timed == IF body.at = Kept THEN old
               ELSE [old EXCEPT !.at = body.at, !.stamped = @ /\ body.at = old.at]
  IN IF body.on = Kept THEN timed
     ELSE [timed EXCEPT !.on = body.on, !.stamped = @ /\ body.on = old.on]

(* The scope columns, in the order of the statements: a day pushes out     *)
(* week and month unless they are sent too; a time brings its day; a week  *)
(* or month pushes out the rest.                                           *)
Rescoped(row, body) ==
  LET byDay == IF body.due = Kept THEN row
               ELSE [row EXCEPT !.due = body.due, !.week = IF body.week = Kept THEN Never ELSE @,
                                !.month = IF body.month = Kept THEN Never ELSE @]
      byTime == IF body.at \in {Kept, Never} \/ body.due # Kept THEN byDay
                ELSE [byDay EXCEPT !.due = Day(body.at)]
      byWeek == IF body.week = Kept THEN byTime
                ELSE IF body.week = Never THEN [byTime EXCEPT !.week = Never]
                ELSE [byTime EXCEPT !.week = WeekOf(Day(now)), !.due = Never, !.month = Never]
      byMonth == IF body.month = Kept THEN byWeek
                 ELSE IF body.month = Never THEN [byWeek EXCEPT !.month = Never]
                 ELSE [byWeek EXCEPT !.month = MonthOf(Day(now)), !.due = Never, !.week = Never]
  IN IF body.clearDue = Kept THEN byMonth ELSE [byMonth EXCEPT !.due = Never]

(* updateTask, without status.                                             *)
Patch ==
  /\ Edit
  /\ \E sent \in FieldSets : \E body \in Sending(sent) :
       LET scoped == Rescoped(task, body)
           timeless == body.week = 0 \/ body.month = 0
           own == Patched(bell["task"], body)
       IN /\ body.rule # Kept => Accepts(body.rule, Kind(scoped))
          /\ task' = Fit(scoped, body.rule)
          /\ Ring([bell EXCEPT !["task"] = IF timeless THEN [own EXCEPT !.at = Never] ELSE own])
          /\ Queue(IF sent \cap {"at", "on"} # {} THEN ReadDue ELSE {})
          /\ Excuse
  /\ UNCHANGED unfitted

(* Completing, scratching and reopening leave the reminders alone.         *)
SetStatus ==
  /\ Edit
  /\ \E status \in {"open", "done", "scratched"} \ {task.status} :
       task' = [task EXCEPT !.status = status]
  /\ Ring(bell) /\ Queue({}) /\ Excuse
  /\ UNCHANGED unfitted

Shifted(b, days) == IF b.at = Never THEN b ELSE [b EXCEPT !.at = @ + days * DayTicks]
Rearmed(b) == [b EXCEPT !.stamped = FALSE, !.claim = 0]
Dated(date) == [task EXCEPT !.due = date, !.week = Never, !.month = Never]
Ahead(b) == b.at # Never => b.at > now

(* Mutant of RescheduleTaskDate: the reminder keeps its stamp.             *)
RescheduleKeepsStamp ==
  /\ Edit /\ task.due # Never
  /\ \E target \in {d \in Days : d >= Day(now)} :
       LET new == [bell EXCEPT !["task"] = Shifted(@, target - task.due), !["multi"] = Rearmed(Shifted(@, target - task.due))]
       IN /\ \A k \in Kinds : Ahead(new[k])
          /\ task' = Dated(target)
          /\ Ring(new)
          /\ Queue(ReadDue \union {k \in {"multi"} : new[k].on})
          /\ Excuse
  /\ UNCHANGED unfitted

(* rescheduleTaskDate: the day moves, the time and the extra reminders     *)
(* move with it (or are set, or cleared), and everything is armed anew.    *)
RescheduleTaskDate ==
  /\ Edit /\ task.due # Never
  /\ \E target \in {d \in Days : d >= Day(now)}, at \in Asked \union {Never, Kept} :
       LET moved == [k \in Kinds |-> Rearmed(Shifted(bell[k], target - task.due))]
           new == CASE at = Kept -> moved
                    [] at = Never -> [moved EXCEPT !["task"].at = Never, !["task"].on = FALSE]
                    [] OTHER -> [moved EXCEPT !["task"].at = at]
       IN /\ at \notin {Kept, Never} => Day(at) = target
          /\ \A k \in Kinds : Ahead(new[k])
          /\ task' = Dated(target)
          /\ Ring(new)
          /\ Queue(ReadDue \union {k \in {"multi"} : new[k].on})
          /\ Excuse
  /\ UNCHANGED unfitted

(* The rule was not checked against the scope the row has now.             *)
MovedUnfit == unfitted' = (unfitted \/ Kind(task') # Kind(task))

(* rescheduleTaskTool: the same for the assistant, on tasks of any scope;  *)
(* a restated switch releases the claim of a delivery under way.           *)
RescheduleTaskTool ==
  /\ Edit
  /\ \E due \in Days \union {Kept}, at \in Asked \union {Kept}, on \in allowed.on \union {Kept} :
       LET date == IF due = Kept /\ at # Kept THEN Day(at) ELSE due
           delta == IF date = Kept \/ task.due = Never THEN 0 ELSE date - task.due
           timed == IF at # Kept THEN [bell["task"] EXCEPT !.at = at] ELSE Shifted(bell["task"], delta)
           armed == IF date = Kept THEN timed ELSE Rearmed(timed)
           switched == IF on = Kept THEN armed
                       ELSE [armed EXCEPT !.on = on, !.stamped = @ /\ on = armed.on, !.claim = 0]
           extra == IF delta = 0 THEN bell["multi"] ELSE Rearmed(Shifted(bell["multi"], delta))
       IN /\ ~(due = Kept /\ at = Kept /\ on = Kept)
          /\ date # Kept => date >= Day(now)
          /\ at # Kept => Day(at) = date
          /\ Ahead(switched) /\ (delta # 0 => Ahead(extra))
          /\ task' = IF date = Kept THEN task ELSE Dated(date)
          /\ Ring([k \in Kinds |-> IF k = "task" THEN switched ELSE extra])
          /\ Queue(ReadDue \union {k \in {"multi"} : delta # 0 /\ extra.on})
          /\ Excuse
  /\ MovedUnfit

(* updateTaskTool: a new day or rule, reminders left alone.                *)
UpdateTaskTool ==
  /\ Edit
  /\ \E due \in Days \union {Kept}, rule \in Rules \union {NoRule, Kept} :
       LET row == IF due = Kept THEN task ELSE Dated(due)
       IN /\ ~(due = Kept /\ rule = Kept)
          /\ rule # Kept => Accepts(rule, Kind(row))
          /\ task' = Fit(row, rule)
  /\ Ring(bell) /\ Queue({}) /\ Excuse
  /\ UNCHANGED unfitted

(* plan.AddTask: onto a day the plan runs, the clock time kept.            *)
AddTask ==
  /\ Edit
  /\ \E date \in Days :
       LET old == bell["task"]
           at == IF old.at = Never THEN Never ELSE (date * DayTicks) + (old.at % DayTicks)
       IN /\ task' = Dated(date)
          /\ Ring([bell EXCEPT !["task"] = [old EXCEPT !.at = at, !.stamped = @ /\ at = old.at]])
          /\ Queue({k \in {"task"} : old.on /\ at # Never /\ at > now /\ Open})
          /\ Excuse
  /\ MovedUnfit

(* Mutant of Advance: the moved task's reminders are not queued.           *)
AdvanceSilently(skip) ==
  /\ task.rule.freq # "none" /\ Kind(task) # "none" /\ task.status # "scratched"
  /\ ~skip /\ Anchor(task) < Day(now)
  /\ \E next \in NextDates(task, Day(now)) :
       /\ task' = [Dated(next) EXCEPT !.status = "open"]
       /\ Ring([k \in Kinds |-> Rearmed(Shifted(bell[k], next - Anchor(task)))])
       /\ Queue({})
  /\ UNCHANGED <<now, handler, rung, twice, lost, unfitted, excused>>

(* taskrepeat.Advance, then Enqueue: once its period is over, or by Skip,  *)
(* the row moves to its next date and everything is armed anew.            *)
Advance(skip) ==
  LET kind == Kind(task)
      from == Anchor(task)
      period == CASE kind = "week" -> WeekOf(Day(now)) [] kind = "month" -> MonthOf(Day(now))
                  [] OTHER -> Day(now)
      notBefore == IF skip /\ kind = "day" /\ from >= period THEN from + 1 ELSE period
  IN /\ task.rule.freq # "none" /\ kind # "none" /\ task.status # "scratched"
     /\ ~skip => from < period
     /\ \E next \in NextDates(task, notBefore) :
          LET moved == [k \in Kinds |-> Rearmed(Shifted(bell[k], next - from))]
              new == IF kind = "day" THEN moved ELSE [moved EXCEPT !["task"].at = Never]
          IN /\ task' = [task EXCEPT !.status = "open",
                            !.due = IF kind = "day" THEN next ELSE Never,
                            !.week = IF kind = "week" THEN next ELSE Never,
                            !.month = IF kind = "month" THEN next ELSE Never]
             /\ Ring(new)
             /\ Queue({k \in Kinds : /\ new[k].on /\ new[k].at # Never
                                     /\ k = "task" \/ new[k].at > now})
             /\ Excuse
     /\ UNCHANGED <<now, handler, rung, twice, lost, unfitted>>

Skip == Edit /\ Advance(TRUE)
RepeatSweep == Advance(FALSE) /\ UNCHANGED <<edits, allowed>>

(* addTaskReminder and add_task_reminder: one extra reminder is enough.    *)
AddTaskReminder ==
  /\ Edit /\ bell["multi"].arming = 0 /\ TRUE \in allowed.on
  /\ \E at \in Asked : Ring([bell EXCEPT !["multi"].at = at, !["multi"].on = TRUE])
  /\ Queue({"multi"}) /\ Excuse
  /\ UNCHANGED <<task, unfitted>>

DeleteTaskReminder ==
  /\ Edit /\ bell["multi"].on
  /\ Ring([bell EXCEPT !["multi"] = Silent]) /\ Queue({}) /\ Excuse
  /\ UNCHANGED <<task, unfitted>>

-----------------------------------------------------------------------------
(* Delivery.                                                               *)

Delivering == UNCHANGED <<now, task, unfitted, disturbed, edits, allowed>>
Retried(h) == (fires \ handler[h].fire) \union {[f EXCEPT !.at = now] : f \in handler[h].fire}
Rest(h) == handler' = [handler EXCEPT ![h] = AtRest]
Of(h) == <<handler[h].kind, handler[h].arming>>

(* Mutant of Unclaimed: another handler's lease is not looked at.          *)
UnclaimedAnyhow(b) == TRUE

Unclaimed(b) == b.claim < now

RingsNow(b) ==
  /\ b.on /\ ~b.stamped /\ Unclaimed(b)
  /\ b.at # Never /\ b.at <= now /\ now <= b.at + Grace

Claim(h, k, fire) ==
  /\ bell' = [bell EXCEPT ![k].claim = now + Lease]
  /\ handler' = [handler EXCEPT ![h] =
       [pc |-> "sending", kind |-> k, arming |-> bell[k].arming, fire |-> fire, since |-> now]]

(* sendSingleTaskReminder, sendSingleMultiReminder: the claim of an extra  *)
(* reminder looks at the task only afterwards; anything else is a success  *)
(* without effect.                                                         *)
Fire(h) ==
  /\ handler[h].pc = "idle"
  /\ \E f \in fires :
       LET b == bell[f.kind]
       IN /\ f.at <= now /\ \A g \in Handlers : f \notin handler[g].fire
          /\ IF RingsNow(b) /\ Open THEN Claim(h, f.kind, {f}) /\ UNCHANGED fires
             ELSE /\ fires' = fires \ {f} /\ UNCHANGED handler
                  /\ bell' = IF RingsNow(b) /\ f.kind = "multi"
                             THEN [bell EXCEPT !["multi"].claim = now + Lease] ELSE bell
  /\ UNCHANGED <<rung, twice, lost, excused, mishaps>> /\ Delivering

(* ProcessReminderCron and processTaskReminders.                           *)
Sweep(h) ==
  /\ handler[h].pc = "idle" /\ Open
  /\ \E k \in Kinds : RingsNow(bell[k]) /\ Claim(h, k, {})
  /\ UNCHANGED <<fires, rung, twice, lost, excused, mishaps>> /\ Delivering

(* deliverTaskReminder; when no channel worked, whoever holds the claim    *)
(* loses it, and the queue is answered with an error.                      *)
Attempt(h) ==
  /\ handler[h].pc = "sending"
  /\ \/ /\ rung' = rung \union {Of(h)}
        /\ twice' = IF Of(h) \in rung THEN twice \union {Of(h)} ELSE twice
        /\ handler' = [handler EXCEPT ![h].pc = "sent"]
        /\ UNCHANGED <<bell, fires, excused, mishaps>>
     \/ /\ Mishap
        /\ bell' = [bell EXCEPT ![handler[h].kind].claim = 0]
        /\ fires' = Retried(h) /\ Rest(h)
        /\ Excuse
        /\ UNCHANGED <<rung, twice>>
  /\ UNCHANGED lost /\ Delivering

(* The stamp, on whatever the row has become.                              *)
Stamp(h) ==
  LET k == handler[h].kind
  IN /\ handler[h].pc = "sent"
     /\ bell' = IF (k = "multi" /\ ~bell[k].on) \/ (handler[h].fire # {} /\ bell[k].stamped) THEN bell
                ELSE [bell EXCEPT ![k].stamped = TRUE, ![k].claim = 0]
     /\ fires' = fires \ handler[h].fire /\ Rest(h)
     /\ UNCHANGED <<rung, twice, lost, excused, mishaps>> /\ Delivering

(* The request dies, its context cancelled; the fire will be tried again.  *)
Abort(h) ==
  /\ handler[h].pc # "idle" /\ Mishap
  /\ UNCHANGED bell
  /\ fires' = Retried(h) /\ Rest(h) /\ Excuse
  /\ lost' = lost \union {Of(h)}
  /\ UNCHANGED <<rung, twice>> /\ Delivering

(* Time: no request outlives MaxRun, a fire that is due is dispatched.     *)
Tick ==
  /\ now < allowed.until /\ now' = now + 1 /\ task.status # "none"
  /\ \A h \in Handlers : handler[h].pc # "idle" => now - handler[h].since < MaxRun
  /\ \A f \in fires : f.at <= now => \E h \in Handlers : handler[h].fire = {f}
  /\ UNCHANGED <<task, bell, fires, handler, rung, twice, lost, disturbed, excused, unfitted, edits, mishaps, allowed>>

-----------------------------------------------------------------------------
ScheduleInit ==
  /\ now = 1 /\ fires = {}
  /\ task = [status |-> "none", due |-> Never, week |-> Never, month |-> Never, rule |-> NoRule]
  /\ bell = [k \in Kinds |-> Silent]
  /\ handler = [h \in Handlers |-> AtRest]
  /\ rung = {} /\ twice = {} /\ lost = {} /\ disturbed = {} /\ excused = {}
  /\ unfitted = FALSE
  /\ \E b \in Bounds : edits = b.edits /\ mishaps = b.mishaps /\ allowed = [on |-> b.on, freqs |-> b.freqs, until |-> b.until]

ScheduleNext ==
  \/ Create \/ Patch \/ SetStatus \/ RescheduleTaskDate \/ RescheduleTaskTool \/ UpdateTaskTool
  \/ AddTask \/ Skip \/ RepeatSweep \/ AddTaskReminder \/ DeleteTaskReminder
  \/ \E h \in Handlers : Fire(h) \/ Sweep(h) \/ Attempt(h) \/ Stamp(h) \/ Abort(h)
  \/ Tick

ScheduleSpec == ScheduleInit /\ [][ScheduleNext]_scheduleVars

-----------------------------------------------------------------------------
(* Properties.                                                             *)

(* "reminded_at is the idempotency gate": a reminder that counts as sent   *)
(* was sent for the time and switch it now has; only an edit that lands    *)
(* between a handler's claim and its stamp can have a new time stamped     *)
(* that nobody was told of.                                                *)
StampTold ==
  \A k \in Kinds : bell[k].stamped /\ bell[k].on /\ bell[k].at # Never =>
                    <<k, bell[k].arming>> \in rung \union disturbed

(* Nobody is told twice of the same arming, unless a request died after    *)
(* telling or an edit took the claim away from a handler at work.          *)
ToldOnce == twice \subseteq lost \union disturbed

(* With no sweep at all, a reminder of an open task is missed only for the *)
(* reasons Excuse and Abort name: its fire was never queued (a failed      *)
(* call, or the task was closed when the time was set), its window was     *)
(* over, or the lease of an earlier delivery or a dead request covers it.  *)
MissedOnlyExcused ==
  \A k \in Kinds :
    /\ bell[k].on /\ ~bell[k].stamped /\ Open /\ bell[k].at # Never
    /\ bell[k].at + Grace < now /\ Busy(k) = {}
    => <<k, bell[k].arming>> \in excused

(* "The repeat rule must fit the task's scope", or the task stops moving:  *)
(* it always does, unless the assistant's reschedule_task or a plan moved  *)
(* a week or month task to a day.                                          *)
RuleFits ==
  task.rule.freq # "none" /\ ~unfitted =>
    /\ Kind(task) # "none"
    /\ task.rule.filled <=> Kind(task) = "day"
    /\ Kind(task) = "week" => task.rule.freq = "weekly"
    /\ Kind(task) = "month" => task.rule.freq = "monthly"

\* A reminder is stamped only for a time that was told, and a time is told once,
\* but for the crossings the parts name.
ToldOfItsTime == StampTold /\ ToldOnce

\* A reminder that is due is told unless something named swallowed it, and a
\* task's rule fits its scope, so that the next one comes.
KeepsReminding == MissedOnlyExcused /\ RuleFits

=============================================================================
