------------------------------- MODULE Digests -------------------------------
(* The weekly and the monthly digest of one user's tasks: a run of the      *)
(* quarter-hourly job in the user's 10:00 window selects the pending tasks   *)
(* of each kind, sends them in one notice and stamps digested_at, which the *)
(* two kinds share and nobody claims (internal/api/reminders_digest.go).    *)
EXTENDS Delivery

CONSTANTS
  WeekLength, MonthLength,  \* a small calendar of its own
  WeekTasks,    \* the user's tasks
  DigestDays,   \* bound: days
  DigestEdits,  \* bound: changes of the tasks
  MaxDigestRuns \* bound: runs of the job in one window

ASSUME DigestAssumption ==
  /\ {WeekLength, MonthLength} \subseteq Nat \ {0}
  /\ {DigestDays, DigestEdits, MaxDigestRuns} \subseteq Nat

VARIABLES
  date, window, \* the local date; before, in or after its 10:00 quarter hour
  todo,         \* the tasks' scope, status and digested_at
  digester,     \* by handler: the digest it is at
  ran,          \* the runs of the job in today's window
  digestEdits,  \* what is left of the bound
  told,         \* history: the tasks in a digest of today
  doubled,      \* history: those in more than one
  shaken        \* history: today a notice failed, a request died, a task was
                \*   edited after ten, or two runs met

digestVars == <<date, window, todo, digester, ran, digestEdits, told, doubled, shaken>>

DigestKinds == {"week", "month"}
Period == [week |-> WeekLength, month |-> MonthLength]
Current(kind) == date - (date % Period[kind])
Begins(kind) == {Never, Current(kind), Current(kind) + Period[kind]}
Quiet == [pc |-> "idle", left |-> {}, tasks |-> {}]

(* The last day of the small week stands for Friday; isLastDayOfMonth.     *)
KindsOn(d) == {kind \in DigestKinds : (d + 1) % Period[kind] = 0}

(* Mutant of Eligible: a period that begins today has not begun.           *)
EligibleLater(kind) ==
  {t \in WeekTasks :
    /\ todo[t][kind] # Never /\ todo[t][kind] < Current(kind)
    /\ todo[t].open
    /\ todo[t].digested # date}

(* The WHERE clause: begun, still pending, not digested since local        *)
(* midnight.                                                               *)
Eligible(kind) ==
  {t \in WeekTasks :
    /\ todo[t][kind] # Never /\ todo[t][kind] <= Current(kind)
    /\ todo[t].open
    /\ todo[t].digested # date}

-----------------------------------------------------------------------------
(* Requests of the user: create, re-scope, complete and reopen; none of    *)
(* them touches digested_at.                                               *)
EditTask ==
  /\ digestEdits > 0 /\ digestEdits' = digestEdits - 1
  /\ \E t \in WeekTasks, w \in Begins("week"), m \in Begins("month"), open \in BOOLEAN :
       todo' = [todo EXCEPT ![t].week = w, ![t].month = m, ![t].open = open]
  /\ shaken' = (shaken \/ window # "before")
  /\ UNCHANGED <<date, window, digester, ran, told, doubled>>

(* processDigestCronAt: outside the window nothing, else the week's digest *)
(* and then the month's, as the date calls for.                            *)
StartRun(h) ==
  /\ digester[h].pc = "idle" /\ window = "in" /\ ran < MaxDigestRuns
  /\ digester' = [digester EXCEPT ![h].pc = "select", ![h].left = KindsOn(date)]
  /\ ran' = ran + 1
  /\ shaken' = (shaken \/ \E g \in Handlers : digester[g].pc # "idle")
  /\ UNCHANGED <<date, window, todo, digestEdits, told, doubled>>

(* The query of processWeeklyDigest, processMonthlyDigest; no tasks, no    *)
(* notice.                                                                 *)
SelectTasks(h) ==
  /\ digester[h].pc = "select"
  /\ LET kind == IF "week" \in digester[h].left THEN "week" ELSE "month"
         found == Eligible(kind)
     IN digester' = [digester EXCEPT ![h] =
          IF @.left = {} THEN Quiet
          ELSE [pc |-> IF found = {} THEN "select" ELSE "notify",
                left |-> @.left \ {kind}, tasks |-> found]]
  /\ UNCHANGED <<date, window, todo, ran, digestEdits, told, doubled, shaken>>

(* deliverDigests: a notice no channel takes leaves the stamp unset.       *)
Notify(h) ==
  /\ digester[h].pc = "notify"
  /\ \/ /\ told' = told \union digester[h].tasks
        /\ doubled' = doubled \union (digester[h].tasks \cap told)
        /\ digester' = [digester EXCEPT ![h].pc = "stamp"]
        /\ UNCHANGED shaken
     \/ /\ digester' = [digester EXCEPT ![h].pc = "select"]
        /\ shaken' = TRUE
        /\ UNCHANGED <<told, doubled>>
  /\ UNCHANGED <<date, window, todo, ran, digestEdits>>

(* The stamp, by id; a request that dies here or before leaves it unset.   *)
StampTasks(h) ==
  /\ digester[h].pc = "stamp"
  /\ \/ /\ todo' = [t \in WeekTasks |->
              IF t \in digester[h].tasks THEN [todo[t] EXCEPT !.digested = date] ELSE todo[t]]
        /\ digester' = [digester EXCEPT ![h].pc = "select"]
        /\ UNCHANGED shaken
     \/ /\ digester' = [digester EXCEPT ![h] = Quiet]
        /\ shaken' = TRUE
        /\ UNCHANGED todo
  /\ UNCHANGED <<date, window, ran, digestEdits, told, doubled>>

(* The window opens and closes, with at least one run in it, and the day   *)
(* ends; no run is still at work then.                                     *)
Pass ==
  /\ \A h \in Handlers : digester[h].pc = "idle"
  /\ \/ window = "before" /\ window' = "in" /\ UNCHANGED <<date, ran>>
     \/ window = "in" /\ ran > 0 /\ window' = "after" /\ UNCHANGED <<date, ran>>
     \/ window = "after" /\ date < DigestDays
        /\ date' = date + 1 /\ window' = "before" /\ ran' = 0
  /\ IF date' = date THEN UNCHANGED <<told, doubled, shaken>>
     ELSE told' = {} /\ doubled' = {} /\ shaken' = FALSE
  /\ UNCHANGED <<todo, digester, digestEdits>>

DigestInit ==
  /\ date \in 0 .. WeekLength - 1 /\ window = "before" /\ ran = 0
  /\ todo = [t \in WeekTasks |-> [week |-> Never, month |-> Never, open |-> FALSE, digested |-> Never]]
  /\ digester = [h \in Handlers |-> Quiet]
  /\ digestEdits = DigestEdits /\ told = {} /\ doubled = {} /\ shaken = FALSE

DigestNext ==
  \/ EditTask \/ Pass
  \/ \E h \in Handlers : StartRun(h) \/ SelectTasks(h) \/ Notify(h) \/ StampTasks(h)

DigestSpec == DigestInit /\ [][DigestNext]_digestVars

-----------------------------------------------------------------------------
(* "A still-pending task is nudged once per cycle": on a digest day without *)
(* a failure, runs side by side or an edit after ten, each task of the      *)
(* digest's kind is told of exactly once, also when both digests fall on    *)
(* the day and whatever the stamp says of earlier cycles.                   *)
NudgedOnce ==
  window = "after" /\ ~shaken =>
    /\ \A kind \in KindsOn(date), t \in WeekTasks :
         todo[t].open /\ todo[t][kind] # Never /\ todo[t][kind] <= Current(kind)
           => t \in told
    /\ doubled = {}
=============================================================================
