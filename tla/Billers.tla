------------------------------ MODULE Billers ------------------------------
(***************************************************************************)
(* A recurring bill or subscription: api/billers.go, the assistant's       *)
(* pay_biller (ai/tools_billers.go) and the 15-minute notification job.    *)
(*                                                                         *)
(* One biller; months stand for dates, a period is some months long.       *)
(* Paying and the job read the biller, record the cycle in a transaction   *)
(* of its own and then write the next due date by id: what an open request *)
(* has read waits in asked, and others run in between.                     *)
(***************************************************************************)
EXTENDS Integers, FiniteSets

CONSTANTS
  Requests,   \* requests and job runs that may be open at the same time
  Periods,    \* lengths of a period, in months
  LastMonth,  \* bound: the calendar, and payment ahead of it, end here
  MaxCalls,   \* bound: requests and runs of one behaviour
  Crashes,    \* bound: requests that die half way
  Gone        \* the biller has been deleted

\* A quarter is the longest frequency there is (validFrequency).
ASSUME BillersAssumption == LastMonth \in Nat \ {0} /\ Periods \subseteq 1..3

AlertMonths == 1    \* alert_days
Cycles == 1..(LastMonth + 3)
Resting == [kind |-> "none"]

VARIABLES
  month,     \* today
  bank,      \* does the account the biller may be charged to exist?
  biller,    \* the row, or Gone
  paid,      \* fin_biller_payments: [Cycles -> who recorded it, or "no"]
  alerts,    \* fin_biller_alerts, unique by kind and cycle
  todo,      \* "Pay ..." tasks created for each cycle
  asked,     \* [Requests -> what an open request has read and still does]
  calls, crashes,
  edited,    \* history: the biller or its account was edited
  since,     \* history: the due date that CyclesAccounted counts from
  redated,   \* history: it was set while a request that moves it was open
  dropped    \* history: cycles whose run died between two of its writes

billerVars == <<month, bank, biller, paid, alerts, todo, asked, calls, crashes, edited, since, redated, dropped>>

-----------------------------------------------------------------------------

Does(r, kind, step) == asked[r].kind = kind /\ asked[r].step = step
Goes(r, job) == asked' = [asked EXCEPT ![r] = job]
Finishes(r) == Goes(r, Resting)
Same == UNCHANGED <<month, bank, crashes, edited, since, redated, dropped>>
Moves(job) == job.kind \in {"pay", "run"} /\ job.step \notin {"alert", "spawn"}

Asks(r, job) == /\ calls > 0 /\ asked[r] = Resting
                 /\ calls' = calls - 1
                 /\ Goes(r, job)

\* The payment row first: ON CONFLICT (biller_id, due_date) DO NOTHING gates
\* the transaction posted with it.  Foreign keys need the biller and account.
Posted(c, by, charges) ==
  /\ biller # Gone
  /\ charges => bank
  /\ paid' = IF paid[c] = "no" THEN [paid EXCEPT ![c] = by] ELSE paid

\* UPDATE ... SET next_due_date by id, whatever it is by now.
Rolled(due) == biller' = IF biller = Gone THEN Gone ELSE [biller EXCEPT !.due = due]

-----------------------------------------------------------------------------
(* Paying: by request or by the assistant, posting an expense or attaching  *)
(* transactions that exist.                                                 *)

StartPay(r) ==
  /\ biller # Gone /\ biller.due <= LastMonth
  /\ \E posts, tool \in BOOLEAN :
       /\ posts => biller.account
       /\ Asks(r, [kind |-> "pay", step |-> "post", due |-> biller.due, every |-> biller.every,
                   posts |-> posts, tool |-> tool])
  /\ Same
  /\ UNCHANGED <<biller, paid, alerts, todo>>

\* The assistant stops at a cycle that is already recorded, the API rolls on.
RecordPay(r) ==
  /\ Does(r, "pay", "post")
  /\ Posted(asked[r].due, "user", asked[r].posts)
  /\ IF asked[r].tool /\ asked[r].posts /\ paid[asked[r].due] # "no" THEN Finishes(r)
     ELSE Goes(r, [asked[r] EXCEPT !.step = "roll"])
  /\ Same
  /\ UNCHANGED <<biller, alerts, todo, calls>>

\* pay_biller knows no quarterly frequency: it falls to one month.  The grid
\* that CyclesAccounted counts on then starts again, as when the owner sets it.
PeriodOf(job) == IF job.tool /\ job.every = 3 THEN 1 ELSE job.every

RollPay(r) ==
  /\ Does(r, "pay", "roll")
  /\ Rolled(asked[r].due + PeriodOf(asked[r]))
  /\ Finishes(r)
  /\ IF biller # Gone /\ PeriodOf(asked[r]) # asked[r].every
     THEN /\ since' = biller'.due
          /\ redated' = \E o \in Requests \ {r} : Moves(asked[o])
     ELSE UNCHANGED <<since, redated>>
  /\ UNCHANGED <<month, bank, paid, alerts, todo, calls, crashes, edited, dropped>>

-----------------------------------------------------------------------------
(* ProcessBillerCron. *)

\* With auto_renew and no account there is neither a charge nor an alert.
StartPass(r) ==
  /\ biller # Gone /\ biller.live
  /\ IF biller.auto THEN biller.account ELSE biller.due - month \in 0..AlertMonths
  /\ Asks(r, [kind |-> "run", step |-> IF biller.auto THEN "cycle" ELSE "alert",
               due |-> biller.due, every |-> biller.every, task |-> biller.task, today |-> month])
  /\ Same
  /\ UNCHANGED <<biller, paid, alerts, todo>>

PostCycleUntold(r) ==  \* mutant: the charge is not told
  /\ Does(r, "run", "cycle")
  /\ asked[r].due <= asked[r].today
  /\ Posted(asked[r].due, "auto", TRUE)
  /\ Goes(r, [asked[r] EXCEPT !.due = @ + asked[r].every])
  /\ Same
  /\ UNCHANGED <<biller, alerts, todo, calls>>

\* Catch-up: every cycle up to today, skipping those already recorded.
PostCycle(r) ==
  /\ Does(r, "run", "cycle")
  /\ asked[r].due <= asked[r].today
  /\ Posted(asked[r].due, "auto", TRUE)
  /\ Goes(r, IF paid[asked[r].due] = "no" THEN [asked[r] EXCEPT !.step = "told"]
             ELSE [asked[r] EXCEPT !.due = @ + asked[r].every])
  /\ Same
  /\ UNCHANGED <<biller, alerts, todo, calls>>

TellCycle(r) ==
  /\ Does(r, "run", "told") /\ biller # Gone
  /\ alerts' = alerts \cup {<<"auto_paid", asked[r].due>>}
  /\ Goes(r, [asked[r] EXCEPT !.step = "cycle", !.due = @ + asked[r].every])
  /\ Same
  /\ UNCHANGED <<biller, paid, todo, calls>>

RollPassEarly(r) ==  \* mutant: the date of the last cycle posted is skipped
  /\ Does(r, "run", "cycle")
  /\ asked[r].due > asked[r].today
  /\ Rolled(asked[r].due + asked[r].every)
  /\ Finishes(r)
  /\ Same
  /\ UNCHANGED <<paid, alerts, todo, calls>>

\* Written even when nothing was posted.
RollPass(r) ==
  /\ Does(r, "run", "cycle")
  /\ asked[r].due > asked[r].today
  /\ Rolled(asked[r].due)
  /\ Finishes(r)
  /\ Same
  /\ UNCHANGED <<paid, alerts, todo, calls>>

\* The alert row is the sentinel of the task (or of the push).
Remind(r) ==
  /\ Does(r, "run", "alert") /\ biller # Gone
  /\ LET alert == <<IF asked[r].task THEN "reminder_task" ELSE "upcoming", asked[r].due>>
     IN /\ alerts' = alerts \cup {alert}
        /\ IF asked[r].task /\ alert \notin alerts THEN Goes(r, [asked[r] EXCEPT !.step = "spawn"])
           ELSE Finishes(r)
  /\ Same
  /\ UNCHANGED <<biller, paid, todo, calls>>

SpawnBillerTask(r) ==
  /\ Does(r, "run", "spawn")
  /\ todo' = [todo EXCEPT ![asked[r].due] = @ + 1]
  /\ Finishes(r)
  /\ Same
  /\ UNCHANGED <<biller, paid, alerts, calls>>

\* A failed statement, a cut request, an instance that stops.
Die(r) ==
  /\ crashes > 0 /\ asked[r] # Resting
  /\ crashes' = crashes - 1
  /\ dropped' = IF asked[r].step \in {"told", "spawn"} THEN dropped \cup {asked[r].due} ELSE dropped
  /\ Finishes(r)
  /\ UNCHANGED <<month, bank, biller, paid, alerts, todo, calls, edited, since, redated>>

-----------------------------------------------------------------------------
(* Edits. *)

Patches == [field : {"kind"}, value : {"subscription", "bill"}]
           \cup [field : {"auto", "task", "live", "account"}, value : BOOLEAN]
           \cup [field : {"due"}, value : 1..LastMonth]
           \cup [field : {"every"}, value : Periods]

\* updateBiller looks at the kind the row will have, then writes.
StartEdit(r) ==
  /\ biller # Gone
  /\ \E patch \in Patches :
       /\ patch.field = "account" => patch.value /\ bank
       /\ Asks(r, [kind |-> "edit", step |-> "write", patch |-> patch,
                   bill |-> "bill" = IF patch.field = "kind" THEN patch.value ELSE biller.kind])
  /\ Same
  /\ UNCHANGED <<biller, paid, alerts, todo>>

\* A bill has auto_renew forced off.
Written(row, edit) ==
  LET new == [row EXCEPT ![edit.patch.field] = edit.patch.value]
  IN IF edit.bill THEN [new EXCEPT !.auto = FALSE] ELSE new

UpdateBiller(r) ==
  /\ Does(r, "edit", "write") /\ biller # Gone
  /\ LET field == asked[r].patch.field
     IN /\ field = "account" => bank
        /\ biller' = Written(biller, asked[r])
        /\ since' = IF field \in {"due", "every"} THEN biller'.due ELSE since
        /\ redated' = IF field \in {"due", "every"} THEN \E o \in Requests : Moves(asked[o]) ELSE redated
  /\ Finishes(r)
  /\ edited' = TRUE
  /\ UNCHANGED <<month, bank, paid, alerts, todo, calls, crashes, dropped>>

DeleteBiller ==
  /\ biller # Gone /\ calls > 0
  /\ calls' = calls - 1
  /\ biller' = Gone /\ alerts' = {}
  /\ paid' = [c \in Cycles |-> "no"]
  /\ Same
  /\ UNCHANGED <<todo, asked>>

\* ON DELETE SET NULL (account_id)
DeleteAccount ==
  /\ bank /\ calls > 0
  /\ calls' = calls - 1
  /\ bank' = FALSE
  /\ biller' = IF biller = Gone THEN Gone ELSE [biller EXCEPT !.account = FALSE]
  /\ edited' = TRUE
  /\ UNCHANGED <<month, paid, alerts, todo, asked, crashes, since, redated, dropped>>

NextMonth ==
  /\ month < LastMonth
  /\ month' = month + 1
  /\ UNCHANGED <<bank, biller, paid, alerts, todo, asked, calls, crashes, edited, since, redated, dropped>>

-----------------------------------------------------------------------------

\* createBiller: auto_renew is not for bills.  It needs an account; a biller
\* without one is left to DeleteAccount.
Created == {row \in [kind : {"subscription", "bill"}, due : {2}, every : Periods, auto : BOOLEAN,
                     task : BOOLEAN, live : {TRUE}, account : {TRUE}] :
              row.auto => row.kind = "subscription"}

BillersStart(rows) ==
  /\ month = 1 /\ bank = TRUE /\ biller \in rows
  /\ paid = [c \in Cycles |-> "no"]
  /\ todo = [c \in Cycles |-> 0]
  /\ alerts = {} /\ asked = [r \in Requests |-> Resting]
  /\ calls = MaxCalls /\ crashes = Crashes /\ edited = FALSE
  /\ since = 2 /\ redated = FALSE /\ dropped = {}

BillersInit == BillersStart(Created)

BillersNext ==
  \/ \E r \in Requests :
       \/ StartPay(r) \/ RecordPay(r) \/ RollPay(r)
       \/ StartPass(r) \/ PostCycle(r) \/ TellCycle(r) \/ RollPass(r)
       \/ Remind(r) \/ SpawnBillerTask(r)
       \/ StartEdit(r) \/ UpdateBiller(r) \/ Die(r)
  \/ DeleteBiller \/ DeleteAccount \/ NextMonth

BillersSpec == BillersInit /\ [][BillersNext]_billerVars

-----------------------------------------------------------------------------

\* No cycle is passed over: from the due date its owner last set, every cycle
\* before the present one is recorded, however manual payments, the assistant
\* and runs of the job overlap, unless the date was set while one of them was
\* open and wrote over it; where the assistant moved a quarterly date by a
\* month, the count starts again from there.
CyclesAccounted ==
  biller # Gone /\ ~redated =>
    \A c \in since..(biller.due - 1) : (c - since) % biller.every = 0 => paid[c] # "no"

\* An automatic charge is told and a reminder becomes exactly one task, unless
\* the run died between the two writes: nothing repairs those later.
Told ==
  biller # Gone => \A c \in Cycles \ dropped :
    LET open(step) == \E r \in Requests : Does(r, "run", step) /\ asked[r].due = c
    IN /\ paid[c] = "auto" /\ ~open("told") => <<"auto_paid", c>> \in alerts
       /\ <<"reminder_task", c>> \in alerts /\ ~open("spawn") => todo[c] = 1

\* A biller nobody edited is paid at most once in a period: two cycles that
\* were both paid lie a period or more apart, whoever paid them.
OncePerPeriod ==
  biller # Gone /\ ~edited =>
    \A c, d \in {m \in Cycles : paid[m] # "no"} : c < d => d - c >= biller.every

\* Each cycle of a biller is paid or asked for once, and its owner is told.
CyclesTold == CyclesAccounted /\ Told

=============================================================================
