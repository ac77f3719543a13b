------------------------------ MODULE PlanAlerts ------------------------------
(* The alert of one plan, a named moment on chosen weekdays: saving and     *)
(* deleting the plan, the fire or the daily sweep that claims the alert,    *)
(* the send, and Advance, which reads the plan in one statement and writes  *)
(* the next alert in another (internal/plan/plan.go, internal/api/plans.go). *)
EXTENDS Delivery, FiniteSetsExt

CONSTANTS
  PlanDay,      \* the ticks of a day
  PlanHorizon,  \* bound: the clock
  PlanEdits,    \* bound: saves and deletions
  PlanMishaps   \* bound: failed sends and enqueues, requests that die

ASSUME PlanAssumption ==
  /\ PlanDay \in Nat \ {0} /\ {PlanHorizon, PlanEdits, PlanMishaps} \subseteq Nat
  /\ Lease < PlanDay  \* minutes, and a day

VARIABLES
  clock, plan,  \* the row of plans
  alerts,       \* Cloud Tasks not yet answered with a 2xx
  sender,       \* what each handler is doing
  swept,        \* the daily sweep has been started at this tick
  planEdits, planMishaps,  \* what is left of the bounds
  alerted,      \* history: occurrences the owner was told of
  repeated,     \* history: those told more than once
  died,         \* history: those whose handler died
  overtaken,    \* history: a save met a handler at work
  raced,        \* history: a save landed between the statements of Advance
  setbacks      \* history: sends that failed, requests that died

planVars == <<clock, plan, alerts, sender, swept, planEdits, planMishaps,
              alerted, repeated, died, overtaken, raced, setbacks>>

Moments == [days : (SUBSET (0 .. WeekDays - 1)) \ {{}}, time : 0 .. PlanDay - 1, notify : BOOLEAN]
NoPlan == [status |-> "none", days |-> {}, time |-> 0, notify |-> FALSE, next |-> Never, claim |-> 0]
Waiting == [pc |-> "idle", at |-> 0, from |-> 0, read |-> NoPlan, fire |-> {}, since |-> 0]

-----------------------------------------------------------------------------
RunsAt(p, t) == ((t \div PlanDay) % WeekDays) \in p.days /\ t % PlanDay = p.time

(* Mutant of Next: the occurrence at hand counts as the next one.          *)
NextFrom(p, after) ==
  LET ahead == {t \in after .. after + ((WeekDays + 1) * PlanDay) : RunsAt(p, t)}
  IN IF ahead = {} THEN Never ELSE Min(ahead)

(* plan.Next: the first occurrence after `after`, on that local day or one *)
(* of the seven that follow; the 0 .. 7 of the loop reaches the same       *)
(* weekday of next week.                                                   *)
Next(p, after) ==
  LET days == (after \div PlanDay) .. (after \div PlanDay) + WeekDays
      ahead == {t \in {(d * PlanDay) + p.time : d \in days} : RunsAt(p, t) /\ t > after}
  IN IF ahead = {} THEN Never ELSE Min(ahead)

Rearm(p, after) == IF p.notify THEN Next(p, after) ELSE Never

Misfortune == planMishaps > 0 /\ planMishaps' = planMishaps - 1

(* plan.enqueue: best effort, logged and not returned.                     *)
Enqueue(at, before) ==
  IF at = Never THEN alerts' = before /\ UNCHANGED planMishaps
  ELSE \/ alerts' = before \union {at} /\ UNCHANGED planMishaps
       \/ alerts' = before /\ Misfortune

SweepTime == clock % PlanDay = 0  \* "0 3 * * *"
Working == {h \in Handlers : sender[h].pc # "idle"}
Turned(h) == (alerts \ sender[h].fire) \union {clock : f \in sender[h].fire}
Leave(h) == sender' = [sender EXCEPT ![h] = Waiting]

(* What a handler at work may get wrong when the plan is saved under it.   *)
Overtaken ==
  /\ raced' = (\E h \in Handlers : sender[h].pc = "write")
  /\ overtaken' = (overtaken \/ Working # {})

-----------------------------------------------------------------------------
(* Mutant of Save: only a change of notify re-arms the alert.              *)
SaveKeepsAlert ==
  /\ planEdits > 0 /\ planEdits' = planEdits - 1
  /\ plan.status # "deleted"
  /\ \E m \in Moments :
       LET next == IF plan.notify = m.notify THEN plan.next ELSE Rearm(m, clock)
       IN /\ plan' = [status |-> "saved", days |-> m.days, time |-> m.time, notify |-> m.notify,
                      next |-> next, claim |-> 0]
          /\ Enqueue(next, alerts)
  /\ Overtaken
  /\ UNCHANGED <<clock, sender, swept, alerted, repeated, died, setbacks>>

(* plan.Save: the whole row is replaced, the claim cleared, the alert armed *)
(* for the first occurrence after now.                                     *)
Save ==
  /\ planEdits > 0 /\ planEdits' = planEdits - 1
  /\ plan.status # "deleted"
  /\ \E m \in Moments :
       LET next == Rearm(m, clock)
       IN /\ plan' = [status |-> "saved", days |-> m.days, time |-> m.time, notify |-> m.notify,
                      next |-> next, claim |-> 0]
          /\ Enqueue(next, alerts)
  /\ Overtaken
  /\ UNCHANGED <<clock, sender, swept, alerted, repeated, died, setbacks>>

(* plan.Delete; handlers at work and queued fires are left alone.          *)
Delete ==
  /\ planEdits > 0 /\ planEdits' = planEdits - 1
  /\ plan.status = "saved"
  /\ plan' = [NoPlan EXCEPT !.status = "deleted"]
  /\ UNCHANGED <<clock, alerts, sender, swept, planMishaps, alerted, repeated, died, overtaken, raced, setbacks>>

-----------------------------------------------------------------------------
Due ==
  /\ plan.status = "saved" /\ plan.notify
  /\ plan.next # Never /\ plan.next <= clock
  /\ plan.claim < clock

(* The claiming UPDATE of sendPlanAlert; an alert older than the grace is  *)
(* not sent, only moved on from now.                                       *)
ClaimAlert(h, fire) ==
  /\ plan' = [plan EXCEPT !.claim = clock + Lease]
  /\ sender' = [sender EXCEPT ![h] =
       [pc |-> IF clock - plan.next > Grace THEN "read" ELSE "send", at |-> plan.next,
        from |-> clock, read |-> NoPlan, fire |-> fire, since |-> clock]]

Taking ==
  UNCHANGED <<clock, planEdits, planMishaps, alerted, repeated, died, overtaken, raced, setbacks>>

(* /internal/reminders/fire: a fire carries the plan and no occurrence.    *)
TakeFire(h) ==
  /\ sender[h].pc = "idle"
  /\ \E f \in alerts :
       /\ f <= clock /\ \A g \in Handlers : f \notin sender[g].fire
       /\ IF Due THEN ClaimAlert(h, {f}) /\ UNCHANGED alerts
          ELSE alerts' = alerts \ {f} /\ UNCHANGED <<plan, sender>>
  /\ UNCHANGED swept /\ Taking

(* Mutant of SweepAlert: like the task reminders, within the grace only.   *)
SweepWithinGrace(h) ==
  /\ sender[h].pc = "idle" /\ SweepTime /\ ~swept
  /\ swept' = TRUE
  /\ IF Due /\ clock - plan.next <= Grace THEN ClaimAlert(h, {}) ELSE UNCHANGED <<plan, sender>>
  /\ UNCHANGED alerts /\ Taking

(* processPlanAlertCron, run once a day.                                   *)
SweepAlert(h) ==
  /\ sender[h].pc = "idle" /\ SweepTime /\ ~swept
  /\ swept' = TRUE
  /\ IF Due THEN ClaimAlert(h, {}) ELSE UNCHANGED <<plan, sender>>
  /\ UNCHANGED alerts /\ Taking

(* Push and email; when neither works the claim is cleared, whoever holds  *)
(* it, and the queue is answered with an error.                            *)
Send(h) ==
  /\ sender[h].pc = "send"
  /\ LET at == sender[h].at
     IN \/ /\ alerted' = alerted \union {at}
           /\ repeated' = IF at \in alerted THEN repeated \union {at} ELSE repeated
           /\ sender' = [sender EXCEPT ![h].pc = "read", ![h].from = at]
           /\ UNCHANGED <<plan, alerts, planMishaps, setbacks>>
        \/ /\ Misfortune /\ setbacks' = setbacks + 1
           /\ plan' = [plan EXCEPT !.claim = 0]
           /\ alerts' = Turned(h) /\ Leave(h)
           /\ UNCHANGED <<alerted, repeated>>
  /\ UNCHANGED <<clock, swept, planEdits, died, overtaken, raced>>

(* plan.Advance, the SELECT: a deleted plan is an error, and the fire is   *)
(* tried again.                                                            *)
AdvanceRead(h) ==
  /\ sender[h].pc = "read"
  /\ IF plan.status = "deleted" THEN alerts' = Turned(h) /\ Leave(h)
     ELSE /\ sender' = [sender EXCEPT ![h].pc = "write", ![h].read = plan]
          /\ UNCHANGED alerts
  /\ UNCHANGED <<clock, plan, swept, planEdits, planMishaps, alerted, repeated, died, overtaken, raced, setbacks>>

(* plan.Advance, the UPDATE by id alone, and the enqueue.                  *)
AdvanceWrite(h) ==
  /\ sender[h].pc = "write"
  /\ LET next == Rearm(sender[h].read, sender[h].from)
     IN /\ plan' = IF plan.status = "deleted" THEN plan
                   ELSE [plan EXCEPT !.next = next, !.claim = 0]
        /\ Enqueue(next, alerts \ sender[h].fire)
  /\ Leave(h)
  /\ UNCHANGED <<clock, swept, planEdits, alerted, repeated, died, overtaken, raced, setbacks>>

(* The request dies where it stands; the fire will be tried again.         *)
Perish(h) ==
  /\ sender[h].pc # "idle" /\ Misfortune /\ setbacks' = setbacks + 1
  /\ alerts' = Turned(h) /\ Leave(h)
  /\ died' = died \union {sender[h].at}
  /\ UNCHANGED <<clock, plan, swept, planEdits, alerted, repeated, overtaken, raced>>

(* Time: no request outlives MaxRun, a fire that is due is dispatched, the *)
(* sweep is started at its hour.                                           *)
PlanTick ==
  /\ clock < PlanHorizon /\ clock' = clock + 1
  /\ \A h \in Working : clock - sender[h].since < MaxRun
  /\ \A f \in alerts : f <= clock => \E h \in Handlers : sender[h].fire = {f}
  /\ SweepTime => swept
  /\ swept' = FALSE
  /\ UNCHANGED <<plan, alerts, sender, planEdits, planMishaps, alerted, repeated, died, overtaken, raced, setbacks>>

PlanInit ==
  /\ clock = 1 /\ plan = NoPlan /\ alerts = {} /\ sender = [h \in Handlers |-> Waiting]
  /\ swept = FALSE /\ planEdits = PlanEdits /\ planMishaps = PlanMishaps
  /\ alerted = {} /\ repeated = {} /\ died = {} /\ overtaken = FALSE /\ raced = FALSE /\ setbacks = 0

PlanNext ==
  \/ Save \/ Delete \/ PlanTick
  \/ \E h \in Handlers : TakeFire(h) \/ SweepAlert(h) \/ Send(h) \/ AdvanceRead(h)
                         \/ AdvanceWrite(h) \/ Perish(h)

PlanSpec == PlanInit /\ [][PlanNext]_planVars

-----------------------------------------------------------------------------
(* The alert a plan waits for is a moment of the plan as it is now, and    *)
(* there is one exactly when it notifies, although Advance writes what it  *)
(* computed from an older read: only a save between its two statements     *)
(* leaves an alert of the old plan (or none, for a plan that notifies).    *)
AlertFollowsPlan ==
  plan.status = "saved" /\ ~raced =>
    /\ plan.notify <=> plan.next # Never
    /\ plan.next # Never => RunsAt(plan, plan.next)

(* The owner is told of an occurrence once, whatever fires, sweeps and     *)
(* retries meet, unless its handler died or a save has met a handler at    *)
(* work (it clears the claim that handler relies on).                      *)
AlertedOnce == ~overtaken => repeated \subseteq died

(* "The row is committed and the daily sweep re-arms a lapsed alert": the  *)
(* next alert is never further in the past than one sweep, two requests    *)
(* (the one that wrote it late and the one at work on it) and the grace (a *)
(* plan saved under a handler may run again before what that handler sent) *)
(* and a sweep more for every failed send or dead request.                 *)
LapsedIsRearmed ==
  plan.status = "saved" /\ plan.notify /\ plan.next # Never =>
    clock - plan.next < ((1 + setbacks) * PlanDay) + (2 * MaxRun) + Grace

\* A plan's alert follows its days and times, is told once, and is armed again
\* after it lapsed.
AlertsInStep == AlertFollowsPlan /\ AlertedOnce /\ LapsedIsRearmed

=============================================================================
