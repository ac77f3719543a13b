------------------------------- MODULE TaskLinks -------------------------------
(* How tasks hold each other up: status, the one task a blocked task waits *)
(* for, subtasks, and month goals that finish with their last subtask.     *)
(* REST handlers (internal/api/tasks.go) and the assistant's tools         *)
(* (internal/ai/tools.go) work on the same rows under READ COMMITTED: an    *)
(* update is a transaction that locks its own row, everything else is a    *)
(* series of statements that commit one by one.  The other columns are in  *)
(* TaskSchedule.                                                           *)
EXTENDS Naturals, FiniteSets, Functions

CONSTANTS
  Tasks,      \* task ids; an id is free again when no row or request has it
  Goals,      \* those with month_of set
  Repeating,  \* those with a repeat rule
  Requests,   \* requests in flight at once
  MaxServed,  \* bound: requests after which no more begin
  StartStatuses, StartWaiters, \* bound: statuses on the board a behaviour starts from, and how many are blocked
  None

ASSUME LinksAssumption ==
  /\ IsFiniteSet(Tasks) /\ None \notin Tasks
  /\ Goals \subseteq Tasks /\ Repeating \subseteq Tasks

VARIABLES
  board,     \* the committed rows, by id
  request,  \* what each request has read and is about to write
  since,    \* history: what others committed since a request's checks
  races,    \* history: kinds of races that were lost
  torn,     \* history: a request died after closing a task, before it was through
  served    \* requests begun

linkVars == <<board, request, since, races, torn, served>>

AsIs == "kept"   \* a field the request leaves alone; in_progress is todo here
Statuses == {"todo", "blocked", "done", "scratched"}

NoRow == [status |-> AsIs, parent |-> None, blocker |-> None]
Idle == [op |-> "none", stage |-> "none", id |-> None, row |-> NoRow, goal |-> None, ids |-> {}]
Ask(op, stage, id, row) ==
  [Idle EXCEPT !.op = op, !.stage = stage, !.id = id, !.row = row]

-----------------------------------------------------------------------------
(* Queries.                                                                *)

OpenIn(rows) == {t \in DOMAIN rows : rows[t].status \notin {"done", "scratched"}}
Children(rows, t) == {c \in DOMAIN rows : rows[c].parent = t}

(* Mutant of Chain: only direct waiting is seen.                           *)
ChainShort(rows, b) == {b, rows[b].blocker, None}

(* The recursive query of validateTaskBlocker: b, what b waits for, and so *)
(* on.  On a cycle it does not end; the request then only dies.            *)
Chain(rows, b) ==
  LET upTo[n \in Nat] ==
        IF n = 0 THEN {b}
        ELSE LET prior == upTo[n - 1]
             IN prior \cup {rows[t].blocker : t \in prior \cap DOMAIN rows}
  IN upTo[Cardinality(Tasks)]

(* The subtasks of t at any depth.                                         *)
Tree(rows, t) ==
  LET upTo[n \in Nat] ==
        IF n = 0 THEN {t}
        ELSE LET prior == upTo[n - 1]
             IN prior \cup UNION {Children(rows, p) : p \in prior}
  IN upTo[Cardinality(Tasks)]

(* Mutant of OpenSubtasks: only direct subtasks count.                     *)
OpenChildren(t) == Children(board, t) \cap OpenIn(board)

OpenSubtasks(t) == (Tree(board, t) \ {t}) \cap OpenIn(board)

Circular(rows) ==
  \E ids \in SUBSET {t \in DOMAIN rows : rows[t].blocker # None} :
    ids # {} /\ \A t \in ids : rows[t].blocker \in ids

(* Any board that calls made one after another can build: parents form a   *)
(* forest, blocked tasks wait in chains for open ones.                     *)
OrderlyRows ==
  UNION {{rows \in [ids -> [status : StartStatuses, parent : ids \cup {None}, blocker : ids \cup {None}]] :
            /\ \A t \in ids : IF rows[t].status = "blocked" THEN rows[t].blocker \in OpenIn(rows)
                             ELSE rows[t].blocker = None
            /\ Cardinality({t \in ids : rows[t].status = "blocked"}) <= StartWaiters
            /\ ~Circular(rows)
            /\ \A t \in ids : \A c \in Children(rows, t) : t \notin Tree(rows, c)}
           : ids \in SUBSET Tasks}

LinksInit ==
  /\ board \in OrderlyRows
  /\ request = [r \in Requests |-> Idle] /\ since = [r \in Requests |-> {}]
  /\ races = {} /\ torn = FALSE /\ served = 0

ValidBlocker(t, b) ==
  /\ b \in OpenIn(board) /\ b # t
  /\ LET chain == Chain(board, b) IN t \notin chain /\ None \in chain

(* unblockDependents, on the rows as the closing statement leaves them.    *)
Dependents(rows, closed) ==
  {d \in DOMAIN rows : rows[d].status = "blocked" /\ rows[d].blocker \in closed}
Freed(rows, ids) ==
  [t \in DOMAIN rows |->
     IF t \in ids THEN [rows[t] EXCEPT !.status = "todo", !.blocker = None] ELSE rows[t]]
Closed(rows, id, status) == [rows EXCEPT ![id].status = status, ![id].blocker = None]

(* Mutant of FinishedGoal: a scratched subtask still counts as open.       *)
FinishedGoalStrict(rows, child) ==
  {g \in Goals \cap OpenIn(rows) :
     child \in Children(rows, g) /\ \A c \in Children(rows, g) : rows[c].status = "done"}

(* completeParentGoalIfDone: the child's parent, when it is an open month  *)
(* goal none of whose own subtasks is open.                                *)
FinishedGoal(rows, child) ==
  {g \in Goals \cap OpenIn(rows) :
     child \in Children(rows, g) /\ Children(rows, g) \cap OpenIn(rows) = {}}

-----------------------------------------------------------------------------
(* Commits.  Rows written in an open transaction stay locked.              *)

LockedBy(q) ==
  CASE request[q].op # "patch" -> {}
    [] request[q].stage = "write" -> {request[q].id}
    [] OTHER -> {request[q].id, request[q].goal} \cup request[q].ids
Unlocked(r, ids) == \A q \in Requests \ {r} : LockedBy(q) \cap ids = {}

(* A foreign key needs the row it points to, and waits for the transaction *)
(* that selected that row for update.                                      *)
CanPoint(r, t) ==
  t # None => /\ t \in DOMAIN board
              /\ \A q \in Requests \ {r} : request[q].op = "patch" => request[q].id # t

Changes(rows) ==
  LET linked == \E t \in DOMAIN rows :
                  rows[t].blocker # None /\ (t \in DOMAIN board => board[t].blocker # rows[t].blocker)
      closed == (OpenIn(board) \ OpenIn(rows)) \cup (DOMAIN board \ DOMAIN rows) # {}
      opened == \/ OpenIn(rows) \ OpenIn(board) # {}
                \/ \E t \in DOMAIN rows \cap DOMAIN board : board[t].parent # rows[t].parent
  IN (IF linked THEN {"link"} ELSE {}) \cup (IF closed THEN {"close"} ELSE {})
       \cup (IF opened THEN {"open"} ELSE {})

(* Two links checked side by side; a link and a closing, deletion or move  *)
(* of what it is about, neither of which saw the other.                    *)
Lost(changes, missed) ==
  (IF "link" \in changes \cap missed THEN {"links"} ELSE {})
    \cup (IF \/ "link" \in changes /\ "close" \in missed
             \/ "close" \in changes /\ missed \cap {"link", "open"} # {}
          THEN {"waits"} ELSE {})

Ready(r) == request[r] = Idle /\ served < MaxServed

Begin(r, next) ==
  /\ Ready(r) /\ served' = served + 1
  /\ request' = [request EXCEPT ![r] = next]
  /\ UNCHANGED <<board, since, races, torn>>

SaveRows(r, rows, next) ==
  LET changes == Changes(rows)
  IN /\ board' = rows
     /\ request' = [request EXCEPT ![r] = next]
     /\ since' = [q \in Requests |->
                    IF q = r THEN IF next = Idle THEN {} ELSE since[q]
                    ELSE IF request[q] = Idle THEN {} ELSE since[q] \cup changes]
     /\ races' = races \cup Lost(changes, since[r])
     /\ UNCHANGED <<torn, served>>

(* A request is cut off: a transaction rolls back (also the victim of a    *)
(* lock cycle), the statements already committed stay.                     *)
Die(r) ==
  /\ request[r] # Idle
  /\ request' = [request EXCEPT ![r] = Idle]
  /\ since' = [since EXCEPT ![r] = {}]
  /\ torn' = (torn \/ request[r].stage \in {"unblock", "goal", "release"})
  /\ UNCHANGED <<board, races, served>>

-----------------------------------------------------------------------------
(* createTask; the assistant's create_task has no blocker and status todo. *)

CreateTask(r, t) ==
  /\ t \notin DOMAIN board /\ \A q \in Requests : request[q].id # t
  /\ \E status \in Statuses, parent \in DOMAIN board \cup {None} :
       \E blocker \in IF status = "blocked" THEN OpenIn(board) ELSE {None} :
         Begin(r, Ask("create", "insert", t, [status |-> status, parent |-> parent, blocker |-> blocker]))

Insert(r) ==
  LET ask == request[r]
  IN /\ ask.stage = "insert"
     /\ CanPoint(r, ask.row.parent) /\ CanPoint(r, ask.row.blocker)
     /\ SaveRows(r, [t \in DOMAIN board \cup {ask.id} |-> IF t = ask.id THEN ask.row ELSE board[t]], Idle)

-----------------------------------------------------------------------------
(* updateTask.  The bodies: a new status, a new blocker, a new parent      *)
(* (None clears it), or AsIs.                                              *)

PatchTask(r, t, status, blocker, parent) ==
  LET old == board[t]
      proposed == IF status = AsIs THEN old.status ELSE status
      waitsFor == CASE proposed # "blocked" -> None
                    [] blocker # None -> blocker
                    [] OTHER -> old.blocker
  IN /\ t \in DOMAIN board /\ Unlocked(r, {t})
     /\ proposed = "blocked" => ValidBlocker(t, waitsFor)
     /\ proposed = "done" /\ old.status # "done" => OpenSubtasks(t) = {}
     /\ Begin(r, Ask("patch", "write", t,
          [status |-> IF status = AsIs /\ blocker = None THEN AsIs ELSE proposed,
           blocker |-> waitsFor, parent |-> parent]))

(* The statements inside the transaction see what others have committed    *)
(* and this request's own writes.                                          *)
Write(r) ==
  LET ask == request[r]
      own == IF ask.row.status = AsIs THEN board
             ELSE [board EXCEPT ![ask.id].status = ask.row.status,
                               ![ask.id].blocker = ask.row.blocker]
      goals == IF ask.row.status = "done" THEN FinishedGoal(own, ask.id) ELSE {}
      goal == IF goals = {} THEN None ELSE CHOOSE g \in goals : TRUE
      closing == goals \cup (IF ask.row.status \in {"done", "scratched"} THEN {ask.id} ELSE {})
      ids == Dependents(own, closing) \ goals
  IN /\ ask.stage = "write"
     /\ own[ask.id].blocker # board[ask.id].blocker => CanPoint(r, ask.row.blocker)
     /\ Unlocked(r, goals \cup ids)
     /\ request' = [request EXCEPT ![r].stage = "commit", ![r].goal = goal, ![r].ids = ids]
     /\ UNCHANGED <<board, since, races, torn, served>>

NoLoop(t, parent) == parent \notin Tree(board, t)

(* A parent that is gone, or the task itself, is taken as none.  Other     *)
(* loops of parents are not refused by the code; they are left out here    *)
(* (the bound NoLoop).                                                     *)
Commit(r) ==
  LET ask == request[r]
      own == IF ask.row.status = AsIs THEN board
             ELSE [board EXCEPT ![ask.id].status = ask.row.status,
                               ![ask.id].blocker = ask.row.blocker]
      parent == CASE ask.row.parent = AsIs -> board[ask.id].parent
                  [] ask.row.parent \in DOMAIN board \ {ask.id} -> ask.row.parent
                  [] OTHER -> None
      moved == [own EXCEPT ![ask.id].parent = parent]
      rolled == IF ask.goal = None THEN moved ELSE Closed(moved, ask.goal, "done")
  IN /\ ask.stage = "commit"
     /\ NoLoop(ask.id, parent)
     /\ parent # board[ask.id].parent => CanPoint(r, parent)
     /\ SaveRows(r, Freed(rolled, ask.ids), Idle)

-----------------------------------------------------------------------------
(* The assistant's block_task, complete_task and scratch_task.             *)

Block(r, t, b) ==
  /\ t \in DOMAIN board /\ ValidBlocker(t, b)
  /\ Begin(r, Ask("block", "link", t, [status |-> "blocked", blocker |-> b, parent |-> AsIs]))

Link(r) ==
  LET ask == request[r]
  IN /\ ask.stage = "link"
     /\ Unlocked(r, {ask.id}) /\ CanPoint(r, ask.row.blocker)
     /\ SaveRows(r, IF ask.id \notin DOMAIN board THEN board
                ELSE [board EXCEPT ![ask.id].status = "blocked",
                                  ![ask.id].blocker = ask.row.blocker], Idle)

Complete(r, t) ==
  /\ t \in DOMAIN board /\ OpenSubtasks(t) = {}
  /\ Begin(r, Ask("complete", "close", t, [NoRow EXCEPT !.status = "done"]))

Scratch(r, t, status) ==
  /\ t \in DOMAIN board /\ board[t].status # status
  /\ Begin(r, Ask("scratch", "close", t, [NoRow EXCEPT !.status = status]))

(* Restoring a scratched task (status todo) frees nothing.                 *)
Close(r) ==
  LET ask == request[r]
      done == IF ask.row.status = "todo" THEN Idle ELSE [ask EXCEPT !.stage = "unblock"]
  IN /\ ask.stage = "close" /\ Unlocked(r, {ask.id})
     /\ SaveRows(r, IF ask.id \in DOMAIN board THEN Closed(board, ask.id, ask.row.status) ELSE board, done)

(* Mutant of Unblock: scratching frees nobody.                             *)
UnblockDoneOnly(r) ==
  /\ request[r].stage = "unblock"
  /\ IF request[r].op = "complete"
     THEN SaveRows(r, Freed(board, Dependents(board, {request[r].id})), [request[r] EXCEPT !.stage = "goal"])
     ELSE SaveRows(r, board, Idle)

Unblock(r) ==
  LET ask == request[r]
      ids == Dependents(board, {ask.id})
  IN /\ ask.stage = "unblock" /\ Unlocked(r, ids)
     /\ SaveRows(r, Freed(board, ids),
             IF ask.op = "complete" THEN [ask EXCEPT !.stage = "goal"] ELSE Idle)

FinishGoal(r) ==
  LET ask == request[r]
      goals == FinishedGoal(board, ask.id)
  IN /\ ask.stage = "goal" /\ Unlocked(r, goals)
     /\ IF goals = {} THEN SaveRows(r, board, Idle)
        ELSE \E g \in goals : SaveRows(r, Closed(board, g, "done"),
                                   [ask EXCEPT !.stage = "release", !.goal = g])

Release(r) ==
  LET ids == Dependents(board, {request[r].goal})
  IN /\ request[r].stage = "release" /\ Unlocked(r, ids)
     /\ SaveRows(r, Freed(board, ids), Idle)

-----------------------------------------------------------------------------
(* deleteTask and delete_task: the tree is read and its dependents are     *)
(* freed, then the row goes and the foreign keys do the rest.              *)

DeleteTask(r, t) ==
  /\ t \in DOMAIN board
  /\ Begin(r, [Ask("delete", "free", t, NoRow) EXCEPT !.ids = Tree(board, t)])

Free(r) ==
  LET ids == Dependents(board, request[r].ids)
  IN /\ request[r].stage = "free" /\ Unlocked(r, ids)
     /\ SaveRows(r, Freed(board, ids), [request[r] EXCEPT !.stage = "delete"])

(* ON DELETE CASCADE on parent_task_id, SET NULL on blocked_by_task_id.  A *)
(* transaction about to point at a row of the tree keeps it from going.    *)
Remove(r) ==
  LET gone == Tree(board, request[r].id)
      rest == DOMAIN board \ gone
      touched == gone \cup {t \in rest : board[t].blocker \in gone}
      used == {request[q].row.blocker : q \in {q \in Requests : request[q].op = "patch" /\ request[q].stage = "commit"}}
  IN /\ request[r].stage = "delete"
     /\ Unlocked(r, touched) /\ gone \cap used = {}
     /\ SaveRows(r, [t \in rest |-> IF board[t].blocker \in gone THEN [board[t] EXCEPT !.blocker = None]
                                ELSE board[t]], Idle)

-----------------------------------------------------------------------------
(* taskrepeat.Advance on a repeating task whose period ended (the sweep)   *)
(* or that is skipped: done reopens, blocked stays blocked.                *)
AdvanceTask(t) ==
  /\ t \in Repeating \cap DOMAIN board
  /\ board[t].status = "done"
  /\ \A q \in Requests : t \notin LockedBy(q)
  /\ board' = [board EXCEPT ![t].status = "todo"]
  /\ since' = [q \in Requests |-> IF request[q] = Idle THEN {} ELSE since[q] \cup {"open"}]
  /\ UNCHANGED <<request, races, torn, served>>

LinksNext ==
  \/ \E r \in {q \in Requests : Ready(q)}, t \in Tasks :
       \/ CreateTask(r, t)
       \/ \E status \in Statuses \ {"blocked"} : PatchTask(r, t, status, None, AsIs)
       \/ \E status \in {"blocked", AsIs}, blocker \in Tasks : PatchTask(r, t, status, blocker, AsIs)
       \/ \E parent \in Tasks \cup {None} : PatchTask(r, t, AsIs, None, parent)
       \/ \E blocker \in Tasks : Block(r, t, blocker)
       \/ Complete(r, t)
       \/ \E status \in {"scratched", "todo"} : Scratch(r, t, status)
       \/ DeleteTask(r, t)
  \/ \E r \in Requests :
       \/ Insert(r) \/ Write(r) \/ Commit(r)
       \/ Link(r) \/ Close(r) \/ Unblock(r) \/ FinishGoal(r) \/ Release(r)
       \/ Free(r) \/ Remove(r) \/ Die(r)
  \/ \E t \in Tasks : AdvanceTask(t)

LinksSpec == LinksInit /\ [][LinksNext]_linkVars

-----------------------------------------------------------------------------

Waiters == {t \in DOMAIN board : board[t].status = "blocked"}

(* No task waits for itself through others: validateTaskBlocker and        *)
(* block_task promise it, and every list view walks the chain.             *)
NoCircle == ~Circular(board)

(* What the checks do achieve: a circle closes only when two links were    *)
(* checked before either was committed.                                    *)
CircleNeedsRace == "links" \in races \/ NoCircle

(* A blocked task waits for an open one, and only a blocked task has a     *)
(* blocker; closing a task frees whoever waits for it, also when the task  *)
(* is a goal finished by its last subtask, or goes with its parent.  The   *)
(* ways out: a link overtaken by a closing, a request that died halfway.   *)
WaitsForOpen ==
  \/ "waits" \in races \/ torn
  \/ \A t \in DOMAIN board :
       /\ t \in Waiters <=> board[t].blocker # None
       /\ t \in Waiters => \/ board[t].blocker \in OpenIn(board)
                           \/ \E r \in Requests : /\ request[r].stage \in {"unblock", "release"}
                                                  /\ board[t].blocker \in {request[r].id, request[r].goal}

OpenBelow(t) == (Tree(board, t) \ {t}) \cap OpenIn(board)
Done(t) == t \in DOMAIN board /\ board[t].status = "done"
Finishes(t) == t \in DOMAIN board /\ board[t].status # "done" /\ Done(t)'

(* OpenSubtaskCount's promise: a task is not marked done over an open      *)
(* subtask of any depth.                                                   *)
NotDoneOverOpen ==
  [][\A t \in Tasks : Finishes(t) => OpenBelow(t)' = {}]_linkVars

(* What holds: only a month goal finishing by itself looks no deeper than  *)
(* its own subtasks, and only a subtask opened since the check is missed.  *)
DoneOverOpenNeedsGoalOrRace ==
  [][\A t \in Tasks : Finishes(t) =>
       \/ OpenBelow(t)' = {}
       \/ t \in Goals /\ \A c \in Children(board, t)' : c \notin OpenIn(board)'
       \/ \E r \in Requests : t \in {request[r].id, request[r].goal} /\ "open" \in since[r]]_linkVars

(* A request that completes a task and ends leaves no month goal open over *)
(* that subtask and closed others, unless one closed or opened meanwhile.  *)
GoalFollows ==
  [][\A r \in Requests :
       LET ask == request[r]
       IN /\ ask.stage = "goal" \/ (ask.stage = "commit" /\ ask.row.status = "done")
          /\ ask.row.parent \in {AsIs, None}
          /\ ask.id \in DOMAIN board' /\ board'[ask.id].status = "done"
          /\ request'[r] = Idle /\ ~torn' /\ since[r] \cap {"close", "open"} = {}
          /\ (ask.stage = "commit" => board' # board)
          => \A g \in Goals \cap OpenIn(board') :
               ask.id \in Children(board', g) => Children(board', g) \cap OpenIn(board') # {}]_linkVars

\* Blocked tasks wait for open ones, and in a circle only after a race.
WaitsInOrder == CircleNeedsRace /\ WaitsForOpen

\* Tasks are closed bottom up, and the goal with the last of them, but for the
\* goal's own rule and for races.
ClosesInOrder == DoneOverOpenNeedsGoalOrRace /\ GoalFollows

=============================================================================
