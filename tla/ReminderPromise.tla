--------------------------- MODULE ReminderPromise ---------------------------
(***************************************************************************)
(* What a reminder series promises its owner, without clocks, leases,      *)
(* queues or requests: occurrences are opened one at a time, each is       *)
(* closed once (delivered, skipped or cancelled) and stays so until it is  *)
(* forgotten, and the series either has one open occurrence or is over.    *)
(* StandaloneReminders is shown to implement it.                           *)
(***************************************************************************)
CONSTANT Ids

VARIABLES stage, running

vars == <<stage, running>>

Unborn(o) == stage[o] = "none"
Current(o) == stage[o] = "pending"

(* The series begins, or begins again from a new anchor; what was to come  *)
(* is called off.                                                          *)
Begin(o) ==
  /\ Unborn(o)
  /\ stage' = [p \in Ids |-> IF p = o THEN "pending"
                             ELSE IF Current(p) THEN "cancelled" ELSE stage[p]]
  /\ running' = TRUE

(* The current occurrence is over and the next one, or the end, is there   *)
(* in the same step.                                                       *)
Move(o, how) ==
  /\ running /\ Current(o) /\ how \in {"delivered", "skipped"}
  /\ \/ \E n \in Ids :
          /\ Unborn(n)
          /\ stage' = [stage EXCEPT ![o] = how, ![n] = "pending"]
          /\ running' = running
     \/ /\ stage' = [stage EXCEPT ![o] = how]
        /\ running' = FALSE

(* One entry of the history is removed, the running series untouched.      *)
Forget(o) ==
  /\ stage[o] \in {"delivered", "skipped"}
  /\ stage' = [stage EXCEPT ![o] = "gone"]
  /\ UNCHANGED running

(* The reminder is removed with all it has.                                *)
Drop ==
  /\ stage' = [o \in Ids |-> IF Unborn(o) THEN "none" ELSE "gone"]
  /\ running' = FALSE

Init == stage = [o \in Ids |-> "none"] /\ running = FALSE

Next ==
  \/ Drop
  \/ \E o \in Ids :
       Begin(o) \/ Forget(o) \/ \E how \in {"delivered", "skipped"} : Move(o, how)

Spec == Init /\ [][Next]_vars
=============================================================================
