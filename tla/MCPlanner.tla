------------------------------ MODULE MCPlanner ------------------------------
(* TaskLinks, TaskSchedule, PlanAlerts, Digests and Thinking: the planner.  *)
(* They share the handlers, the calendar and the limits, and no state: a    *)
(* behaviour is one of the five, the others rest.                           *)
EXTENDS MCTaskLinks, TaskSchedule, PlanAlerts, Digests, Thinking

VARIABLE checked   \* "links", "task", "plan", "digest" or "think"

MCBounds ==
  {[edits |-> 1, mishaps |-> 1, on |-> {TRUE}, freqs |-> {"weekly"}, until |-> 4],
   [edits |-> 1, mishaps |-> 0, on |-> BOOLEAN, freqs |-> {"daily", "monthly"}, until |-> 4],
   [edits |-> 2, mishaps |-> 0, on |-> {FALSE}, freqs |-> {"weekly", "monthly"}, until |-> 5]}
\* Requests are handlers, and the tasks of a week are A and B.
Alike == Permutations(Handlers) \union Permutations(WeekTasks)

NoTask ==
  /\ now = 1 /\ fires = {} /\ handler = [h \in Handlers |-> AtRest] /\ bell = [k \in Kinds |-> Silent]
  /\ task = [status |-> "none", due |-> Never, week |-> Never, month |-> Never, rule |-> NoRule]
  /\ rung = {} /\ twice = {} /\ lost = {} /\ disturbed = {} /\ excused = {}
  /\ unfitted = FALSE /\ edits = 0 /\ mishaps = 0 /\ allowed = [on |-> {}, freqs |-> {}, until |-> 1]

NoLinks ==
  /\ board = [t \in {} |-> NoRow]
  /\ request = [r \in Requests |-> Idle] /\ since = [r \in Requests |-> {}]
  /\ races = {} /\ torn = FALSE /\ served = 0

NoDigest == DigestInit /\ date = 0

PlannerInit ==
  /\ PlanInit /\ ThinkingStart
  /\ \/ checked = "links" /\ LinksInit /\ NoTask /\ NoDigest
     \/ checked = "task" /\ NoLinks /\ ScheduleInit /\ NoDigest
     \/ checked = "digest" /\ NoLinks /\ NoTask /\ DigestInit
     \/ checked \in {"plan", "think"} /\ NoLinks /\ NoTask /\ NoDigest

PlannerNext ==
  /\ UNCHANGED checked
  /\ \/ checked = "links" /\ UNCHANGED <<scheduleVars, planVars, digestVars, thinkingVars>> /\ LinksNext
     \/ checked = "task" /\ UNCHANGED <<linkVars, planVars, digestVars, thinkingVars>> /\ ScheduleNext
     \/ checked = "plan" /\ UNCHANGED <<linkVars, scheduleVars, digestVars, thinkingVars>> /\ PlanNext
     \/ checked = "digest" /\ UNCHANGED <<linkVars, scheduleVars, planVars, thinkingVars>> /\ DigestNext
     \/ checked = "think" /\ UNCHANGED <<linkVars, scheduleVars, planVars, digestVars>> /\ ThinkingNext

PlannerSpec ==
  PlannerInit /\ [][PlannerNext]_<<checked, linkVars, scheduleVars, planVars, digestVars, thinkingVars>>
=============================================================================
