------------------------- MODULE StandaloneReminders -------------------------
(***************************************************************************)
(* One standalone reminder series (internal/reminder/store.go) and its     *)
(* delivery (internal/api/standalone_reminders.go): a reminders row, its   *)
(* reminder_occurrences rows, the Cloud Tasks fires queued for them, and   *)
(* the concurrent handlers that claim an occurrence under a lease, send    *)
(* the notification and complete it.  Rows of different reminders never    *)
(* meet in a statement, so one series is the whole interaction.            *)
(*                                                                         *)
(* Every SQL statement or transaction is one step; the calls between two   *)
(* of them (claim, send, complete) are separate steps, so user requests,   *)
(* other handlers, time and crashes fall in between.                       *)
(***************************************************************************)
EXTENDS Integers, FiniteSets

CONSTANTS
  Workers,      \* concurrent requests to /internal/reminders/fire and /run
  Rules,        \* recurrence rules the user may choose
  Channels,     \* values of users.notify_channel
  Grace,        \* reminderGrace, in ticks
  Lease,        \* reminderClaimLease, in ticks
  SnoozeMin,    \* least distance of a snooze from now, in ticks
  MaxRun,       \* request timeout of the host (Cloud Run), in ticks
  QueueDelay,   \* longest time a due task waits for its next attempt
  SweepPeriod,  \* longest time between two runs of the safety sweep
  MaxOcc,       \* bound: occurrence rows ever inserted
  Horizon,      \* bound: the clock
  MaxEdits,     \* bound: user requests after Create
  Budget        \* bound: how often each event of Events happens

(* A send that reaches nobody, an enqueue that fails, a request that dies, *)
(* an account deletion (or its undoing).                                   *)
Events == {"unsent", "unqueued", "abort", "deletion"}

ASSUME RulesAssumption ==
  Rules \subseteq [step : Nat, count : Nat, until : Nat]

ASSUME TimesAssumption ==
  /\ Grace \in Nat /\ Lease \in Nat \ {0}
  /\ SnoozeMin \in Nat \ {0} /\ MaxRun \in Nat
  /\ QueueDelay \in Nat /\ SweepPeriod \in Nat
  /\ MaxOcc \in Nat /\ Horizon \in Nat /\ MaxEdits \in Nat
  /\ Budget \in [Events -> Nat]

(* The request timeout of the deployment (60 s) lies inside the lease      *)
(* (5 min) and inside the least snooze (1 min).                            *)
ASSUME TimeoutAssumption == MaxRun <= Lease /\ MaxRun < SnoozeMin

VARIABLES
  now,        \* the database clock, from 1
  rem,        \* the reminders row
  occ,        \* the reminder_occurrences rows, by id
  lastId,     \* last id drawn from the BIGSERIAL
  tasks,      \* Cloud Tasks not yet answered with a 2xx
  worker,     \* the request each worker is serving
  lastSweep,  \* when the safety sweep last ran
  channel,    \* the owner's notify_channel
  account,    \* "live", or "deleted" while users.deleted_at is set
  sent,       \* ghost: <<occurrence, fire_at>> pairs notified at least once
  dups,       \* ghost: pairs notified more than once
  lost,       \* ghost: pairs notified by a request that did not complete
  edits,      \* user requests so far
  happened    \* how often each of Events happened

vars == <<now, rem, occ, lastId, tasks, worker, lastSweep, channel, account,
          sent, dups, lost, edits, happened>>

Ids == 1 .. MaxOcc
NoClaim == 0                \* claimed_until NULL: below every clock value
NoRow == [status |-> "none", seq |-> 0, sched |-> 0, fire |-> 0, claim |-> NoClaim, late |-> FALSE]
Idle == [pc |-> "idle", occ |-> 0, fire |-> 0, task |-> {}, since |-> 0]

(* late: created_at, which defaults to NOW(), is after scheduled_at.       *)
NewRow(seq, at) ==
  [status |-> "pending", seq |-> seq, sched |-> at, fire |-> at, claim |-> NoClaim,
   late |-> at < now]

Happens(event) ==
  /\ happened[event] < Budget[event]
  /\ happened' = [happened EXCEPT ![event] = @ + 1]

Pending == {o \in Ids : occ[o].status = "pending"}

(* reminder.Next: none for a one-time rule, or past count or until.        *)
HasNext(rule, sched, seq) ==
  /\ rule.step > 0
  /\ rule.count = 0 \/ seq < rule.count
  /\ rule.until = 0 \/ sched + rule.step <= rule.until

NextAt(rule, sched) == sched + rule.step

(* reminder.enqueue: append-only and best effort.  A failed call, and a    *)
(* crash after the commit, leave the row without a task.                   *)
Enqueued(o, at, kept) ==
  \/ tasks' = kept \union {[occ |-> o, at |-> at]} /\ UNCHANGED happened
  \/ tasks' = kept /\ Happens("unqueued")

-----------------------------------------------------------------------------
(* User requests: one transaction each, then the enqueue.                  *)

UserUnchanged == UNCHANGED <<now, worker, lastSweep, channel, account, sent, dups, lost>>

Edit == edits < MaxEdits /\ edits' = edits + 1

Create ==
  /\ rem.state = "none" /\ lastId < MaxOcc
  /\ \E rule \in Rules, at \in now .. Horizon :
       /\ rem' = [state |-> "live", active |-> TRUE, startsAt |-> at, rule |-> rule]
       /\ occ' = [occ EXCEPT ![lastId + 1] = NewRow(1, at)]
       /\ Enqueued(lastId + 1, at, tasks)
  /\ lastId' = lastId + 1
  /\ UNCHANGED edits /\ UserUnchanged

(* Mutant of ReplaceSequence: a finished series restarts at its last number.*)
ReplaceSequenceReused ==
  LET rows == {o \in Ids : occ[o].status \notin {"none", "gone"}}
      top == {o \in rows : \A p \in rows : occ[p].seq <= occ[o].seq}
  IN IF rows # {} THEN occ[CHOOSE o \in top : TRUE].seq ELSE 1

(* COALESCE(MAX(sequence) of the pending row, MAX(sequence)+1, 1).         *)
ReplaceSequence ==
  LET rows == {o \in Ids : occ[o].status \notin {"none", "gone"}}
      top == {o \in rows : \A p \in rows : occ[p].seq <= occ[o].seq}
  IN IF Pending # {} THEN occ[CHOOSE o \in Pending : TRUE].seq
     ELSE IF rows # {} THEN occ[CHOOSE o \in top : TRUE].seq + 1
     ELSE 1

Replace ==
  /\ rem.state = "live" /\ lastId < MaxOcc /\ Edit
  /\ \E rule \in Rules, at \in now .. Horizon :
       /\ rem' = [rem EXCEPT !.active = TRUE, !.startsAt = at, !.rule = rule]
       /\ occ' = [o \in Ids |->
                    IF o = lastId + 1 THEN NewRow(ReplaceSequence, at)
                    ELSE IF o \in Pending
                      THEN [occ[o] EXCEPT !.status = "cancelled", !.claim = NoClaim]
                    ELSE occ[o]]
       /\ Enqueued(lastId + 1, at, tasks)
  /\ lastId' = lastId + 1
  /\ UserUnchanged

Snooze(o) ==
  /\ rem.state = "live" /\ o \in Pending /\ Edit
  /\ \E at \in now + SnoozeMin .. Horizon :
       /\ occ' = [occ EXCEPT ![o].fire = at, ![o].claim = NoClaim]
       /\ Enqueued(o, at, tasks)
  /\ UNCHANGED <<rem, lastId>> /\ UserUnchanged

(* Mutants of Advance: the end of the series is not recorded; the next     *)
(* occurrence is computed from the snoozed time.                           *)
AdvanceEndless(o, how, kept) ==
  LET row == [occ[o] EXCEPT !.status = how, !.claim = NoClaim]
      at == NextAt(rem.rule, row.sched)
  IN IF rem.active /\ HasNext(rem.rule, row.sched, row.seq)
     THEN /\ lastId < MaxOcc /\ lastId' = lastId + 1
          /\ occ' = [occ EXCEPT ![o] = row, ![lastId + 1] = NewRow(row.seq + 1, at)]
          /\ Enqueued(lastId + 1, at, kept)
          /\ UNCHANGED rem
     ELSE /\ occ' = [occ EXCEPT ![o] = row]
          /\ tasks' = kept
          /\ UNCHANGED <<rem, lastId, happened>>

AdvanceDrifts(o, how, kept) ==
  LET row == [occ[o] EXCEPT !.status = how, !.claim = NoClaim]
      at == NextAt(rem.rule, row.fire)
  IN /\ rem.active /\ HasNext(rem.rule, row.fire, row.seq)
     /\ lastId < MaxOcc /\ lastId' = lastId + 1
     /\ occ' = [occ EXCEPT ![o] = row, ![lastId + 1] = NewRow(row.seq + 1, at)]
     /\ Enqueued(lastId + 1, at, kept)
     /\ UNCHANGED rem

(* The occurrence's UPDATE and advanceTx, in one transaction: the next     *)
(* occurrence is inserted, or the series ends.                             *)
Advance(o, how, kept) ==
  LET row == [occ[o] EXCEPT !.status = how, !.claim = NoClaim]
      at == NextAt(rem.rule, row.sched)
  IN IF rem.active /\ HasNext(rem.rule, row.sched, row.seq)
     THEN /\ lastId < MaxOcc /\ lastId' = lastId + 1
          /\ occ' = [occ EXCEPT ![o] = row, ![lastId + 1] = NewRow(row.seq + 1, at)]
          /\ Enqueued(lastId + 1, at, kept)
          /\ UNCHANGED rem
     ELSE /\ occ' = [occ EXCEPT ![o] = row]
          /\ rem' = [rem EXCEPT !.active = FALSE]
          /\ tasks' = kept
          /\ UNCHANGED <<lastId, happened>>

Skip(o) ==
  /\ rem.state = "live" /\ o \in Pending /\ Edit
  /\ Advance(o, "skipped", tasks)
  /\ UserUnchanged

(* The occurrences go with the reminder (ON DELETE CASCADE).               *)
Delete ==
  /\ rem.state = "live" /\ Edit
  /\ rem' = [rem EXCEPT !.state = "gone", !.active = FALSE]
  /\ occ' = [o \in Ids |-> IF occ[o].status = "none" THEN NoRow
                           ELSE [NoRow EXCEPT !.status = "gone"]]
  /\ UNCHANGED <<lastId, tasks, happened>> /\ UserUnchanged

(* A finished entry goes; a finished reminder goes with its last visible   *)
(* entry.                                                                  *)
DeleteOccurrence(o) ==
  LET rest == {p \in Ids \ {o} : occ[p].status \in {"pending", "delivered", "skipped"}}
      whole == ~rem.active /\ rest = {}
  IN /\ rem.state = "live" /\ occ[o].status \in {"delivered", "skipped"} /\ Edit
     /\ rem' = IF whole THEN [rem EXCEPT !.state = "gone"] ELSE rem
     /\ occ' = [p \in Ids |->
                  IF p = o \/ (whole /\ occ[p].status # "none")
                  THEN [NoRow EXCEPT !.status = "gone"] ELSE occ[p]]
     /\ UNCHANGED <<lastId, tasks, happened>> /\ UserUnchanged

(* Takeout sets users.deleted_at; signing in again within the grace week   *)
(* clears it.                                                              *)
ToggleAccount ==
  /\ Happens("deletion")
  /\ account' = IF account = "live" THEN "deleted" ELSE "live"
  /\ UNCHANGED <<now, rem, occ, lastId, tasks, worker, lastSweep, channel,
                 sent, dups, lost, edits>>

-----------------------------------------------------------------------------
(* Delivery.                                                               *)

(* Mutant of Due: the lease of another handler is ignored.                 *)
DueUnleased(o) ==
  /\ o \in Pending
  /\ occ[o].fire <= now /\ now <= occ[o].fire + Grace

Due(o) ==
  /\ o \in Pending
  /\ occ[o].fire <= now /\ now <= occ[o].fire + Grace
  /\ occ[o].claim < now

(* Mutants of Claim: the lease counts backwards from now; the claim is     *)
(* never let go of.                                                        *)
ClaimBackwards(w, o, task) ==
  /\ occ' = [occ EXCEPT ![o].claim = now - Lease]
  /\ worker' = IF account = "live"
               THEN [worker EXCEPT ![w] = [pc |-> "sending", occ |-> o,
                       fire |-> occ[o].fire, task |-> task, since |-> now]]
               ELSE worker
  /\ tasks' = IF account = "live" THEN tasks ELSE tasks \ task

ClaimForGood(w, o, task) ==
  /\ occ' = [occ EXCEPT ![o].claim = Horizon]
  /\ worker' = IF account = "live"
               THEN [worker EXCEPT ![w] = [pc |-> "sending", occ |-> o,
                       fire |-> occ[o].fire, task |-> task, since |-> now]]
               ELSE worker
  /\ tasks' = IF account = "live" THEN tasks ELSE tasks \ task

(* The claiming CTE of sendStandaloneReminder.  The lease is taken even    *)
(* when the outer SELECT then finds the owner deleted and returns no row.  *)
Claim(w, o, task) ==
  /\ occ' = [occ EXCEPT ![o].claim = now + Lease]
  /\ worker' = IF account = "live"
               THEN [worker EXCEPT ![w] = [pc |-> "sending", occ |-> o,
                       fire |-> occ[o].fire, task |-> task, since |-> now]]
               ELSE worker
  /\ tasks' = IF account = "live" THEN tasks ELSE tasks \ task

DeliveryUnchanged == UNCHANGED <<now, channel, account, edits>>

(* A Cloud Task arrives, at or after its time and perhaps again while an   *)
(* earlier attempt still runs.  A task that claims nothing is answered 200 *)
(* and is gone.                                                            *)
Fire(w) ==
  /\ worker[w].pc = "idle"
  /\ \E t \in tasks :
       /\ t.at <= now
       /\ IF Due(t.occ) /\ rem.active
          THEN Claim(w, t.occ, {t})
          ELSE tasks' = tasks \ {t} /\ UNCHANGED <<occ, worker>>
  /\ UNCHANGED <<rem, lastId, lastSweep, sent, dups, lost, happened>> /\ DeliveryUnchanged

(* processStandaloneReminderCron: the due occurrence, if there is one.     *)
Sweep(w) ==
  /\ worker[w].pc = "idle"
  /\ lastSweep' = now
  /\ \/ \E o \in Ids : Due(o) /\ rem.active /\ Claim(w, o, {})
     \/ /\ \A o \in Ids : ~(Due(o) /\ rem.active)
        /\ UNCHANGED <<occ, worker, tasks>>
  /\ UNCHANGED <<rem, lastId, sent, dups, lost, happened>> /\ DeliveryUnchanged

WantsEmail(pushed) == channel # "push" \/ ~pushed

Delivered(pushed, mailed) == pushed \/ (WantsEmail(pushed) /\ mailed)

(* notifyPush, then the email the channel still wants.  When neither      *)
(* reached the user the claim is released, whoever holds it by now, and    *)
(* the error (500) makes Cloud Tasks try the task again.                   *)
Attempt(w) ==
  LET o == worker[w].occ
      pair == <<o, worker[w].fire>>
      again == {[t EXCEPT !.at = now] : t \in worker[w].task}
  IN /\ worker[w].pc = "sending"
     /\ \E pushed \in (IF channel = "email" THEN {FALSE} ELSE BOOLEAN), mailed \in BOOLEAN :
          LET reached == pushed \/ (WantsEmail(pushed) /\ mailed)
          IN /\ sent' = IF reached THEN sent \union {pair} ELSE sent
             /\ dups' = IF reached /\ pair \in sent THEN dups \union {pair} ELSE dups
             /\ \/ /\ Delivered(pushed, mailed)
                   /\ worker' = [worker EXCEPT ![w].pc = "sent"]
                   /\ UNCHANGED <<occ, tasks, happened>>
                \/ /\ ~Delivered(pushed, mailed) /\ Happens("unsent")
                   /\ worker' = [worker EXCEPT ![w] = Idle]
                   /\ occ' = IF occ[o].status = "gone" THEN occ
                             ELSE [occ EXCEPT ![o].claim = NoClaim]
                   /\ tasks' = (tasks \ worker[w].task) \union again
     /\ UNCHANGED <<rem, lastId, lastSweep, lost>> /\ DeliveryUnchanged

(* Mutant of Complete: a row that is no longer pending is completed too.   *)
CompleteStale(w) ==
  LET o == worker[w].occ
  IN /\ worker[w].pc = "sent"
     /\ worker' = [worker EXCEPT ![w] = Idle]
     /\ IF occ[o].status # "gone"
        THEN Advance(o, "delivered", tasks \ worker[w].task)
        ELSE tasks' = tasks \ worker[w].task /\ UNCHANGED <<rem, occ, lastId, happened>>
     /\ UNCHANGED <<lastSweep, sent, dups, lost>> /\ DeliveryUnchanged

(* reminder.Complete: only a still-pending row moves; otherwise the stale  *)
(* attempt is a success without effect.                                    *)
Complete(w) ==
  LET o == worker[w].occ
  IN /\ worker[w].pc = "sent"
     /\ worker' = [worker EXCEPT ![w] = Idle]
     /\ IF o \in Pending
        THEN Advance(o, "delivered", tasks \ worker[w].task)
        ELSE tasks' = tasks \ worker[w].task /\ UNCHANGED <<rem, occ, lastId, happened>>
     /\ UNCHANGED <<lastSweep, sent, dups, lost>> /\ DeliveryUnchanged

(* The request dies: the instance stops, its 60 s timeout cancels the      *)
(* context (every later statement fails, the release included), or the     *)
(* completing transaction is rolled back.                                  *)
Abort(w) ==
  /\ worker[w].pc # "idle" /\ Happens("abort")
  /\ lost' = IF worker[w].pc = "sent"
             THEN lost \union {<<worker[w].occ, worker[w].fire>>} ELSE lost
  /\ worker' = [worker EXCEPT ![w] = Idle]
  /\ tasks' = (tasks \ worker[w].task) \union {[t EXCEPT !.at = now] : t \in worker[w].task}
  /\ UNCHANGED <<rem, occ, lastId, lastSweep, sent, dups>> /\ DeliveryUnchanged

(* The clock.  No request outlives MaxRun, a due task no worker serves     *)
(* waits at most QueueDelay, and no SweepPeriod goes by without a sweep.   *)
Tick ==
  /\ now < Horizon
  /\ \A w \in Workers : worker[w].pc # "idle" => now - worker[w].since < MaxRun
  /\ \A t \in tasks : \/ now - t.at < QueueDelay
                       \/ \E w \in Workers : worker[w].task = {t}
  /\ now - lastSweep < SweepPeriod
  /\ now' = now + 1
  /\ UNCHANGED <<rem, occ, lastId, tasks, worker, lastSweep, channel, account,
                 sent, dups, lost, edits, happened>>

-----------------------------------------------------------------------------
Init ==
  /\ now = 1 /\ lastSweep = 1
  /\ rem = [state |-> "none", active |-> FALSE, startsAt |-> 0,
            rule |-> [step |-> 0, count |-> 0, until |-> 0]]
  /\ occ = [o \in Ids |-> NoRow]
  /\ lastId = 0
  /\ tasks = {} /\ sent = {} /\ dups = {} /\ lost = {}
  /\ worker = [w \in Workers |-> Idle]
  /\ channel \in Channels
  /\ account = "live"
  /\ edits = 0 /\ happened = [e \in Events |-> 0]

UserStep ==
  \/ Create \/ Replace \/ Delete \/ ToggleAccount
  \/ \E o \in Ids : Snooze(o) \/ Skip(o) \/ DeleteOccurrence(o)

WorkerStep(w) ==
  Fire(w) \/ Sweep(w) \/ Attempt(w) \/ Complete(w) \/ Abort(w)

Next == UserStep \/ Tick \/ \E w \in Workers : WorkerStep(w)

Spec == Init /\ [][Next]_vars

-----------------------------------------------------------------------------
(* Properties.                                                             *)

Stages == {"none", "pending", "delivered", "skipped", "cancelled", "gone"}
Row == [status : Stages, seq : Nat, sched : Nat, fire : Nat, claim : Nat,
        late : BOOLEAN]
Task == [occ : Ids, at : Nat]
Pairs == Ids \X Nat
Request == [pc : {"sending", "sent"}, occ : Ids, fire : Nat, task : SUBSET Task, since : Nat]

(* Every variable holds a value of the column or object it stands for.     *)
TypeOK ==
  /\ now \in Nat \ {0} /\ lastSweep \in Nat /\ edits \in Nat
  /\ rem \in [state : {"none", "live", "gone"}, active : BOOLEAN, startsAt : Nat,
               rule : [step : Nat, count : Nat, until : Nat]]
  /\ occ \in [Ids -> Row]
  /\ lastId \in 0 .. MaxOcc
  /\ tasks \in SUBSET Task
  /\ worker \in [Workers -> Request \union {Idle}]
  /\ channel \in Channels /\ account \in {"live", "deleted"}
  /\ sent \in SUBSET Pairs /\ dups \in SUBSET Pairs /\ lost \in SUBSET Pairs
  /\ happened \in [Events -> Nat]

(* reminders.active and the occurrences agree: an active series always has *)
(* exactly one occurrence still to come, and nothing else has any.  The    *)
(* statements that open, close and advance occurrences never commit half.  *)
SeriesRuns ==
  IF rem.state = "live" /\ rem.active THEN \E o \in Ids : Pending = {o}
  ELSE Pending = {}

(* Across edits of the series, snoozes and skips, sequence numbers are     *)
(* used once: the occurrence to come is numbered after all the history,    *)
(* which is what a count rule ends the series by.                          *)
SequenceOrder ==
  \A p, q \in Ids :
    /\ p \in Pending /\ occ[q].status \in {"delivered", "skipped"} => occ[q].seq < occ[p].seq
    /\ /\ p # q /\ occ[p].status \in {"delivered", "skipped"}
       /\ occ[q].status \in {"delivered", "skipped"}
       => occ[p].seq # occ[q].seq

(* "A one-off delay cannot shift a recurring series": what is to come lies *)
(* on the grid of the series' own anchor, however often it was snoozed.    *)
OnGrid ==
  \A o \in Pending :
    \/ occ[o].sched = rem.startsAt
    \/ /\ rem.rule.step > 0 /\ occ[o].sched > rem.startsAt
       /\ (occ[o].sched - rem.startsAt) % rem.rule.step = 0

(* The lease does its work: with several handlers on one occurrence and    *)
(* the user snoozing it under them, a time is notified twice only when a   *)
(* request that had notified it died before completing.                    *)
DupsOnlyAfterLoss == dups \subseteq lost

(* The occurrence is being delivered, or is not yet past the grace window  *)
(* after which no handler would ever take it.                              *)
Reachable(o) ==
  \/ now <= occ[o].fire + Grace
  \/ \E w \in Workers : worker[w].pc # "idle" /\ worker[w].occ = o

(* "The series is still running" (the comment on HistoryItem.Active, in    *)
(* internal/reminder/store.go): the occurrence to come of an active        *)
(* reminder can still be delivered.                                        *)
NotStranded == rem.active => \A o \in Pending : Reachable(o)

(* Not over when it was opened, or snoozed since.                          *)
Ahead(o) == occ[o].late => occ[o].fire > occ[o].sched

(* "The row is already committed and the reminder sweep still picks it up  *)
(* within the grace window" (enqueue): whatever becomes of the fires, an   *)
(* occurrence that was not over when it was opened, or was snoozed since,  *)
(* is in reach of a handler for as long as its series is active, if sweeps *)
(* come often enough for one, and another after every lease that a setback *)
(* left behind, to fall into the grace.                                    *)
Setbacks == happened["unsent"] + happened["abort"]

StillComes ==
  /\ rem.active /\ happened["deletion"] = 0
  /\ SweepPeriod + Setbacks * (SweepPeriod + Lease) <= Grace
  => \A o \in Pending : Ahead(o) => Reachable(o)

(* The series, as its owner sees it.                                       *)
Promise == INSTANCE ReminderPromise WITH
             stage <- [o \in Ids |-> occ[o].status],
             running <- rem.state = "live" /\ rem.active

(* The series keeps what it promises its owner (ReminderPromise): a closed *)
(* occurrence is never reopened or closed again, and the step that closes  *)
(* the current one opens the next or ends the series.                      *)
KeepsPromise == Promise!Spec

(* Snoozing delays the occurrence: it is not delivered before its new time.*)
SnoozeHolds ==
  [][\A o \in Pending : occ'[o].status = "delivered" => occ[o].fire <= now]_vars

\* The occurrences of a series keep their order and their grid: edits, skips,
\* snoozes and completions in any order neither reuse a sequence number nor move
\* the series off the times its rule gives (reminder.Replace, advanceTx).
SeriesInOrder == SequenceOrder /\ OnGrid

=============================================================================
