----------------------------- MODULE PlannerProofs -----------------------------
(* The proofs that a day's digests tell of each task once (Digests), that a *)
(* project's brief is flagged when it leaves something out (Thinking), that *)
(* a task's reminders are told once, of their time, and never forgotten     *)
(* (TaskSchedule), and that a plan's alert keeps step with the plan         *)
(* (PlanAlerts).                                                            *)
EXTENDS TaskSchedule, PlanAlerts, Digests, Thinking, SetLemmas, TLAPS

DigestPcs == {"idle", "select", "notify", "stamp"}

IsRun(r) == /\ r = [pc |-> r.pc, left |-> r.left, tasks |-> r.tasks]
            /\ r.pc \in DigestPcs /\ r.left \subseteq DigestKinds /\ r.tasks \subseteq WeekTasks
IsTask(t) == t = [week |-> t.week, month |-> t.month, open |-> t.open, digested |-> t.digested]

AtWork(h) == digester[h].pc # "idle"
AllIdle == \A h \in Handlers : ~ AtWork(h)
Stamped == {t \in WeekTasks : todo[t].digested = date}
Held == UNION {digester[h].tasks : h \in {g \in Handlers : digester[g].pc = "stamp"}}
Selected(h) == IF digester[h].pc \in {"notify", "stamp"} THEN digester[h].tasks ELSE {}

(* No stamp is of a day to come, and a window that has not opened, or has  *)
(* closed, has no run at work.                                             *)
DigestTypes ==
  /\ date \in Nat /\ ran \in Nat /\ window \in {"before", "in", "after"} /\ shaken \in BOOLEAN
  /\ DOMAIN todo = WeekTasks /\ \A t \in WeekTasks : IsTask(todo[t])
  /\ \A t \in WeekTasks : \/ todo[t].digested = Never
                          \/ todo[t].digested \in Nat /\ todo[t].digested <= date
  /\ window = "before" => Stamped = {}
  /\ DOMAIN digester = Handlers /\ \A h \in Handlers : IsRun(digester[h])
  /\ window = "before" => AllIdle /\ ran = 0
  /\ window = "after" => AllIdle /\ ran > 0

(* On a calm day one run is at work, what is told is what is stamped and   *)
(* what is about to be, and a kind a run is through with has nobody left   *)
(* but those the run holds.                                                *)
CalmDay ==
  /\ doubled = {}
  /\ \A g, h \in Handlers : AtWork(g) /\ AtWork(h) => g = h
  /\ told = Stamped \cup Held
  /\ \A h \in Handlers : digester[h].pc = "notify" => digester[h].tasks \cap Stamped = {}
  /\ \A h \in Handlers : AtWork(h) =>
       \A kind \in KindsOn(date) \ digester[h].left : Eligible(kind) \subseteq Selected(h)
  /\ AllIdle /\ ran > 0 => \A kind \in KindsOn(date) : Eligible(kind) = {}

DigestInv == DigestTypes /\ (~ shaken => CalmDay)

LEMMA DigestInvInit == DigestInit => DigestInv
<1> SUFFICES ASSUME DigestInit PROVE DigestInv
  OBVIOUS
<1>1. /\ date \in Nat /\ window = "before" /\ ran = 0 /\ told = {} /\ doubled = {} /\ shaken = FALSE
      /\ DOMAIN todo = WeekTasks /\ DOMAIN digester = Handlers
  BY DigestAssumption DEF DigestInit
<1>2. Quiet = [pc |-> "idle", left |-> {}, tasks |-> {}]
  BY DEF Quiet
<1>3. Quiet.pc = "idle" /\ IsRun(Quiet)
  BY <1>2 DEF IsRun, DigestPcs
<1>4. \A h \in Handlers : digester[h] = Quiet
  BY DEF DigestInit
<1>5. \A t \in WeekTasks : IsTask(todo[t]) /\ todo[t].digested = Never
  BY DEF DigestInit, IsTask
<1>6. Stamped = {}
  BY <1>1, <1>5, DeliveryAssumption DEF Stamped
<1>7. AllIdle /\ Held = {} /\ \A h \in Handlers : digester[h].pc = "idle"
  BY <1>3, <1>4 DEF AllIdle, AtWork, Held
<1>8. DigestTypes
  BY <1>1, <1>3, <1>4, <1>5, <1>6, <1>7 DEF DigestTypes
<1>9. CalmDay
  BY <1>1, <1>6, <1>7 DEF CalmDay, AllIdle
<1> QED
  BY <1>8, <1>9 DEF DigestInv

LEMMA DigestInvNext == DigestInv /\ [DigestNext]_digestVars => DigestInv'
<1> SUFFICES ASSUME DigestInv, [DigestNext]_digestVars PROVE DigestInv'
  OBVIOUS
<1>0. DigestTypes /\ (~ shaken => CalmDay)
  BY DEF DigestInv
<1>1. Quiet = [pc |-> "idle", left |-> {}, tasks |-> {}]
  BY DEF Quiet
<1>2. Quiet.pc = "idle" /\ IsRun(Quiet)
  BY <1>1 DEF IsRun, DigestPcs
<1>3. ASSUME NEW h \in Handlers, NEW run, digester' = [digester EXCEPT ![h] = run]
      PROVE  DOMAIN digester' = Handlers /\ \A g \in Handlers : digester'[g] = IF g = h THEN run ELSE digester[g]
  BY <1>0, <1>3 DEF DigestTypes
<1>4. KindsOn(date) \subseteq DigestKinds
  BY DEF KindsOn
<1>5. ASSUME UNCHANGED <<date, todo>>
      PROVE  Stamped' = Stamped /\ KindsOn(date)' = KindsOn(date) /\ \A kind : Eligible(kind)' = Eligible(kind)
  BY <1>5 DEF Stamped, KindsOn, Eligible, Current
<1>6. CASE EditTask
  <2>0. PICK u \in WeekTasks : \E w, m, open :
          todo' = [todo EXCEPT ![u].week = w, ![u].month = m, ![u].open = open]
    BY <1>6 DEF EditTask
  <2>1. PICK w, m, open : todo' = [todo EXCEPT ![u].week = w, ![u].month = m, ![u].open = open]
    BY <2>0
  <2>2. UNCHANGED <<date, window, digester, ran, told, doubled>> /\ shaken' = (shaken \/ window # "before")
    BY <1>6 DEF EditTask
  <2>3. DOMAIN todo' = WeekTasks /\ \A t \in WeekTasks : IsTask(todo'[t]) /\ todo'[t].digested = todo[t].digested
    <3>1. PICK old, new : old = todo[u] /\ new = [old EXCEPT !.week = w, !.month = m, !.open = open]
      OBVIOUS
    <3>2. IsTask(old)
      BY <1>0, <3>1 DEF DigestTypes
    <3>3. IsTask(new) /\ new.digested = old.digested
      BY <3>1, <3>2 DEF IsTask
    <3>4. DOMAIN todo' = WeekTasks /\ \A t \in WeekTasks : todo'[t] = IF t = u THEN new ELSE todo[t]
      BY <1>0, <2>1, <3>1 DEF DigestTypes
    <3> QED
      BY <1>0, <3>1, <3>3, <3>4 DEF DigestTypes
  <2>4. Stamped' = Stamped
    BY <2>2, <2>3 DEF Stamped
  <2>5. DigestTypes'
    BY <1>0, <2>2, <2>3, <2>4 DEF DigestTypes, AllIdle, AtWork
  <2>6. ~ shaken' => ~ shaken /\ window = "before"
    BY <2>2
  <2>7. ASSUME ~ shaken' PROVE CalmDay'
    <3>1. AllIdle /\ AllIdle' /\ ran' = 0
      BY <1>0, <2>2, <2>6, <2>7 DEF DigestTypes, AllIdle, AtWork
    <3>2. Held' = Held
      BY <2>2 DEF Held
    <3> QED
      BY <1>0, <2>2, <2>4, <2>6, <2>7, <3>1, <3>2 DEF CalmDay, AllIdle, AtWork
  <2> QED
    BY <2>5, <2>7 DEF DigestInv
<1>7. CASE Pass
  <2>1. AllIdle /\ UNCHANGED <<todo, digester>>
    BY <1>7 DEF Pass, AllIdle, AtWork
  <2>2. AllIdle' /\ Held = {} /\ Held' = {}
    BY <2>1 DEF AllIdle, AtWork, Held
  <2>3. CASE window = "before" /\ window' = "in" /\ UNCHANGED <<date, ran>>
    <3>1. UNCHANGED <<date, ran, told, doubled, shaken>>
      BY <1>7, <2>3 DEF Pass
    <3>2. DigestTypes'
      BY <1>0, <1>5, <2>1, <2>2, <2>3, <3>1 DEF DigestTypes
    <3>3. CalmDay => CalmDay'
      BY <1>5, <2>1, <2>2, <3>1 DEF CalmDay, AllIdle, AtWork
    <3> QED
      BY <1>0, <3>1, <3>2, <3>3 DEF DigestInv
  <2>4. CASE window = "in" /\ ran > 0 /\ window' = "after" /\ UNCHANGED <<date, ran>>
    <3>1. UNCHANGED <<date, ran, told, doubled, shaken>>
      BY <1>7, <2>4 DEF Pass
    <3>2. DigestTypes'
      BY <1>0, <1>5, <2>1, <2>2, <2>4, <3>1 DEF DigestTypes
    <3>3. CalmDay => CalmDay'
      BY <1>5, <2>1, <2>2, <3>1 DEF CalmDay, AllIdle, AtWork
    <3> QED
      BY <1>0, <3>1, <3>2, <3>3 DEF DigestInv
  <2>5. CASE window = "after" /\ date' = date + 1 /\ window' = "before" /\ ran' = 0
    <3>1. told' = {} /\ doubled' = {} /\ shaken' = FALSE
      BY <1>0, <1>7, <2>5 DEF Pass, DigestTypes
    <3>2. \A t \in WeekTasks : \/ todo'[t].digested = Never
                               \/ todo'[t].digested \in Nat /\ todo'[t].digested <= date
      BY <1>0, <2>1 DEF DigestTypes
    <3>3. Stamped' = {}
      BY <1>0, <2>5, <3>2, DeliveryAssumption DEF DigestTypes, Stamped
    <3>4. DigestTypes'
      <4>1. \A t \in WeekTasks : \/ todo'[t].digested = Never
                                 \/ todo'[t].digested \in Nat /\ todo'[t].digested <= date'
        BY <1>0, <2>5, <3>2 DEF DigestTypes
      <4>2. date' \in Nat /\ ran' \in Nat /\ window' = "before"
        BY <1>0, <2>5 DEF DigestTypes
      <4>3. shaken' \in BOOLEAN
        BY <3>1
      <4> QED
        BY <1>0, <2>1, <2>2, <2>5, <3>3, <4>1, <4>2, <4>3 DEF DigestTypes
    <3>5. CalmDay'
      BY <2>2, <2>5, <3>1, <3>3 DEF CalmDay, AllIdle, AtWork
    <3> QED
      BY <3>4, <3>5 DEF DigestInv
  <2> QED
    BY <1>7, <2>3, <2>4, <2>5 DEF Pass
<1>8. ASSUME NEW h \in Handlers, StartRun(h) PROVE DigestInv'
  <2>1. PICK run : run = [digester[h] EXCEPT !.pc = "select", !.left = KindsOn(date)]
    OBVIOUS
  <2>2. /\ IsRun(run) /\ run.pc = "select" /\ run.left = KindsOn(date)
    <3>1. PICK old : old = digester[h]
      OBVIOUS
    <3>2. IsRun(old)
      BY <1>0, <3>1 DEF DigestTypes
    <3>3. /\ run = [pc |-> run.pc, left |-> run.left, tasks |-> run.tasks]
          /\ run.pc = "select" /\ run.left = KindsOn(date) /\ run.tasks = old.tasks
      BY <2>1, <3>1, <3>2 DEF IsRun
    <3> QED
      BY <1>4, <3>2, <3>3 DEF IsRun, DigestPcs
  <2>3. digester' = [digester EXCEPT ![h] = run]
    BY <1>8, <2>1 DEF StartRun
  <2>4. /\ digester[h].pc = "idle" /\ window = "in" /\ ran' = ran + 1
        /\ UNCHANGED <<date, window, todo, told, doubled>>
        /\ shaken' = (shaken \/ \E g \in Handlers : digester[g].pc # "idle")
    BY <1>8 DEF StartRun
  <2>5. DOMAIN digester' = Handlers /\ \A g \in Handlers : digester'[g] = IF g = h THEN run ELSE digester[g]
    BY <1>3, <2>3
  <2>6. DigestTypes'
    BY <1>0, <1>5, <2>2, <2>4, <2>5 DEF DigestTypes
  <2>7. ASSUME ~ shaken' PROVE CalmDay'
    <3>1. ~ shaken /\ AllIdle
      BY <2>4, <2>7 DEF AllIdle, AtWork
    <3>2. Held' = {} /\ Held = {}
      BY <2>2, <2>5, <3>1 DEF Held, AllIdle, AtWork
    <3>3. \A g \in Handlers : AtWork(g)' <=> g = h
      BY <2>2, <2>5, <3>1 DEF AllIdle, AtWork
    <3> QED
      BY <1>0, <1>5, <2>2, <2>4, <2>5, <3>1, <3>2, <3>3 DEF CalmDay, AllIdle
  <2> QED
    BY <2>6, <2>7 DEF DigestInv
<1>9. ASSUME NEW h \in Handlers, SelectTasks(h) PROVE DigestInv'
  <2>1. PICK old : old = digester[h]
    OBVIOUS
  <2>2. IsRun(old) /\ old.pc = "select"
    BY <1>0, <1>9, <2>1 DEF DigestTypes, SelectTasks
  <2>3. UNCHANGED <<date, window, todo, ran, told, doubled, shaken>>
    BY <1>9 DEF SelectTasks
  <2>4. window = "in"
    BY <1>0, <2>1, <2>2 DEF DigestTypes, AllIdle, AtWork
  <2>5. ASSUME NEW run, IsRun(run), digester' = [digester EXCEPT ![h] = run] PROVE DigestTypes'
    <3>1. DOMAIN digester' = Handlers /\ \A g \in Handlers : digester'[g] = IF g = h THEN run ELSE digester[g]
      BY <1>3, <2>5
    <3> QED
      BY <1>0, <1>5, <2>3, <2>4, <2>5, <3>1 DEF DigestTypes
  <2>6. CASE old.left = {}
    <3>1. digester' = [digester EXCEPT ![h] = Quiet]
      BY <1>9, <2>1, <2>6 DEF SelectTasks
    <3>2. DOMAIN digester' = Handlers /\ \A g \in Handlers : digester'[g] = IF g = h THEN Quiet ELSE digester[g]
      BY <1>3, <3>1
    <3>3. DigestTypes'
      BY <1>2, <2>5, <3>1
    <3>4. ASSUME ~ shaken' PROVE CalmDay'
      <4>1. CalmDay
        BY <1>0, <2>3, <3>4
      <4>2. AllIdle' /\ Held = {} /\ Held' = {}
        BY <1>2, <2>1, <2>2, <3>2, <4>1 DEF CalmDay, AllIdle, AtWork, Held
      <4>3. \A kind \in KindsOn(date) : Eligible(kind) = {}
        BY <2>1, <2>2, <2>6, <4>1 DEF CalmDay, AtWork, Selected
      <4> QED
        BY <1>2, <1>5, <2>3, <3>2, <4>1, <4>2, <4>3 DEF CalmDay, AllIdle, AtWork
    <3> QED
      BY <3>3, <3>4 DEF DigestInv
  <2>7. CASE old.left # {}
    <3>1. PICK kind, found : kind = (IF "week" \in old.left THEN "week" ELSE "month") /\ found = Eligible(kind)
      OBVIOUS
    <3>2. PICK run : run = [pc |-> IF found = {} THEN "select" ELSE "notify", left |-> old.left \ {kind}, tasks |-> found]
      OBVIOUS
    <3>3. digester' = [digester EXCEPT ![h] = run]
      BY <1>9, <2>1, <2>7, <3>1, <3>2 DEF SelectTasks
    <3>4. found \subseteq WeekTasks /\ found \cap Stamped = {}
      BY <3>1 DEF Eligible, Stamped
    <3>5. /\ run = [pc |-> run.pc, left |-> run.left, tasks |-> run.tasks]
          /\ run.pc = (IF found = {} THEN "select" ELSE "notify") /\ run.left = old.left \ {kind} /\ run.tasks = found
      BY <3>2
    <3>6. IsRun(run)
      BY <2>2, <3>4, <3>5 DEF IsRun, DigestPcs
    <3>7. DigestTypes'
      BY <2>5, <3>3, <3>6
    <3>8. DOMAIN digester' = Handlers /\ \A g \in Handlers : digester'[g] = IF g = h THEN run ELSE digester[g]
      BY <1>3, <3>3
    <3>9. ASSUME ~ shaken' PROVE CalmDay'
      <4>1. CalmDay
        BY <1>0, <2>3, <3>9
      <4>2. \A g \in Handlers : (AtWork(g) <=> g = h) /\ (AtWork(g)' <=> g = h)
        BY <2>1, <2>2, <3>5, <3>8, <4>1 DEF CalmDay, AtWork
      <4>3. Held = {} /\ Held' = {}
        BY <2>1, <2>2, <3>5, <3>8, <4>2 DEF AtWork, Held
      <4>4. Selected(h) = {} /\ Selected(h)' = found
        BY <2>1, <2>2, <3>5, <3>8 DEF Selected
      <4>5. \A k \in KindsOn(date) \ run.left : Eligible(k) \subseteq found
        BY <2>1, <3>1, <3>5, <4>1, <4>2, <4>4 DEF CalmDay
      <4> QED
        BY <1>5, <2>3, <3>4, <3>5, <3>8, <4>1, <4>2, <4>3, <4>4, <4>5 DEF CalmDay, AllIdle
    <3> QED
      BY <3>7, <3>9 DEF DigestInv
  <2> QED
    BY <2>6, <2>7
<1>10. ASSUME NEW h \in Handlers, Notify(h) PROVE DigestInv'
  <2>1. PICK old : old = digester[h]
    OBVIOUS
  <2>2. IsRun(old) /\ old.pc = "notify"
    BY <1>0, <1>10, <2>1 DEF DigestTypes, Notify
  <2>3. UNCHANGED <<date, window, todo, ran>>
    BY <1>10 DEF Notify
  <2>4. window = "in"
    BY <1>0, <2>1, <2>2 DEF DigestTypes, AllIdle, AtWork
  <2>5. PICK run, pc : /\ pc \in DigestPcs /\ run = [old EXCEPT !.pc = pc] /\ digester' = [digester EXCEPT ![h] = run]
                       /\ \/ pc = "stamp" /\ UNCHANGED shaken /\ told' = told \cup old.tasks
                             /\ doubled' = doubled \cup (old.tasks \cap told)
                          \/ shaken' = TRUE
    BY <1>10, <2>1 DEF Notify, DigestPcs
  <2>6. IsRun(run) /\ run.pc = pc /\ run.left = old.left /\ run.tasks = old.tasks
    <3>1. /\ run = [pc |-> run.pc, left |-> run.left, tasks |-> run.tasks]
          /\ run.pc = pc /\ run.left = old.left /\ run.tasks = old.tasks
      BY <2>2, <2>5 DEF IsRun
    <3> QED
      BY <2>2, <2>5, <3>1 DEF IsRun
  <2>7. DOMAIN digester' = Handlers /\ \A g \in Handlers : digester'[g] = IF g = h THEN run ELSE digester[g]
    BY <1>3, <2>5
  <2>8. DigestTypes'
    <3>1. shaken' \in BOOLEAN
      BY <1>0, <2>5 DEF DigestTypes
    <3> QED
      BY <1>0, <1>5, <2>3, <2>4, <2>6, <2>7, <3>1 DEF DigestTypes
  <2>9. ASSUME ~ shaken' PROVE CalmDay'
    <3>1. /\ pc = "stamp" /\ ~ shaken /\ told' = told \cup old.tasks
          /\ doubled' = doubled \cup (old.tasks \cap told)
      BY <2>5, <2>9
    <3>2. CalmDay
      BY <1>0, <3>1
    <3>3. \A g \in Handlers : (AtWork(g) <=> g = h) /\ (AtWork(g)' <=> g = h)
      BY <2>1, <2>2, <2>6, <2>7, <3>1, <3>2 DEF CalmDay, AtWork
    <3>4. Held = {} /\ Held' = old.tasks
      BY <2>1, <2>2, <2>6, <2>7, <3>1, <3>3 DEF AtWork, Held
    <3>5. Selected(h)' = Selected(h)
      BY <2>1, <2>2, <2>6, <2>7, <3>1 DEF Selected
    <3>6. old.tasks \cap told = {}
      BY <2>1, <2>2, <3>2, <3>4 DEF CalmDay
    <3> QED
      BY <1>5, <2>1, <2>3, <2>6, <2>7, <3>1, <3>2, <3>3, <3>4, <3>5, <3>6 DEF CalmDay, AllIdle
  <2> QED
    BY <2>8, <2>9 DEF DigestInv
<1>11. ASSUME NEW h \in Handlers, StampTasks(h) PROVE DigestInv'
  <2>1. PICK old : old = digester[h]
    OBVIOUS
  <2>2. IsRun(old) /\ old.pc = "stamp"
    BY <1>0, <1>11, <2>1 DEF DigestTypes, StampTasks
  <2>3. UNCHANGED <<date, window, ran, told, doubled>>
    BY <1>11 DEF StampTasks
  <2>4. window = "in"
    BY <1>0, <2>1, <2>2 DEF DigestTypes, AllIdle, AtWork
  <2>5. CASE shaken' = TRUE /\ digester' = [digester EXCEPT ![h] = Quiet] /\ UNCHANGED todo
    <3>1. DOMAIN digester' = Handlers /\ \A g \in Handlers : digester'[g] = IF g = h THEN Quiet ELSE digester[g]
      BY <1>3, <2>5
    <3>2. shaken' \in BOOLEAN
      BY <2>5
    <3>3. DigestTypes'
      BY <1>0, <1>2, <1>5, <2>3, <2>4, <2>5, <3>1, <3>2 DEF DigestTypes
    <3> QED
      BY <2>5, <3>3 DEF DigestInv
  <2>6. CASE /\ todo' = [t \in WeekTasks |-> IF t \in old.tasks THEN [todo[t] EXCEPT !.digested = date] ELSE todo[t]]
             /\ digester' = [digester EXCEPT ![h].pc = "select"] /\ UNCHANGED shaken
    <3>1. PICK run : run = [old EXCEPT !.pc = "select"]
      OBVIOUS
    <3>2. /\ run = [pc |-> run.pc, left |-> run.left, tasks |-> run.tasks]
          /\ run.pc = "select" /\ run.left = old.left /\ run.tasks = old.tasks
      BY <2>2, <3>1 DEF IsRun
    <3>3. IsRun(run)
      BY <2>2, <3>2 DEF IsRun, DigestPcs
    <3>4. DOMAIN digester' = Handlers /\ \A g \in Handlers : digester'[g] = IF g = h THEN run ELSE digester[g]
      BY <1>3, <2>1, <2>6, <3>1
    <3>5. ASSUME NEW t \in WeekTasks
          PROVE  /\ IsTask(todo'[t]) /\ todo'[t].digested = (IF t \in old.tasks THEN date ELSE todo[t].digested)
                 /\ todo'[t].week = todo[t].week /\ todo'[t].month = todo[t].month /\ todo'[t].open = todo[t].open
      <4>1. PICK row, new : row = todo[t] /\ new = [row EXCEPT !.digested = date]
        OBVIOUS
      <4>2. IsTask(row)
        BY <1>0, <4>1 DEF DigestTypes
      <4>3. /\ IsTask(new) /\ new.digested = date
            /\ new.week = row.week /\ new.month = row.month /\ new.open = row.open
        BY <4>1, <4>2 DEF IsTask
      <4>4. todo'[t] = IF t \in old.tasks THEN new ELSE row
        BY <2>6, <4>1
      <4> QED
        BY <4>1, <4>2, <4>3, <4>4
    <3>6. DigestTypes'
      <4>1. \A t \in WeekTasks : \/ todo'[t].digested = Never
                                 \/ todo'[t].digested \in Nat /\ todo'[t].digested <= date
        BY <1>0, <3>5 DEF DigestTypes
      <4>2. DOMAIN todo' = WeekTasks
        BY <2>6
      <4> QED
        BY <1>0, <2>3, <2>4, <2>6, <3>3, <3>4, <3>5, <4>1, <4>2 DEF DigestTypes
    <3>7. ASSUME ~ shaken' PROVE CalmDay'
      <4>1. CalmDay
        BY <1>0, <2>6, <3>7
      <4>2. \A g \in Handlers : (AtWork(g) <=> g = h) /\ (AtWork(g)' <=> g = h)
        BY <2>1, <2>2, <3>2, <3>4, <4>1 DEF CalmDay, AtWork
      <4>3. Held = old.tasks /\ Held' = {}
        BY <2>1, <2>2, <3>2, <3>4, <4>2 DEF AtWork, Held
      <4>4. Stamped' = Stamped \cup old.tasks
        BY <2>2, <2>3, <3>5 DEF Stamped, IsRun
      <4>5. Selected(h) = old.tasks /\ Selected(h)' = {}
        BY <2>1, <2>2, <3>2, <3>4 DEF Selected
      <4>6. \A kind \in DigestKinds : Eligible(kind)' = Eligible(kind) \ old.tasks
        <5>1. \A kind : Current(kind)' = Current(kind)
          BY <2>3 DEF Current
        <5>2. ASSUME NEW kind \in DigestKinds, NEW t \in WeekTasks
              PROVE  todo'[t][kind] = todo[t][kind]
          BY <3>5 DEF DigestKinds
        <5> QED
          BY <2>3, <3>5, <5>1, <5>2 DEF Eligible
      <4>7. KindsOn(date)' = KindsOn(date)
        BY <2>3
      <4>8. \A g \in Handlers : AtWork(g)' =>
              \A kind \in KindsOn(date)' \ digester'[g].left : Eligible(kind)' \subseteq Selected(g)'
        <5>1. \A kind \in KindsOn(date) \ old.left : Eligible(kind) \subseteq old.tasks
          BY <2>1, <4>1, <4>2, <4>5 DEF CalmDay
        <5>2. \A kind \in KindsOn(date) \ old.left : Eligible(kind)' = {}
          BY <1>4, <4>6, <5>1
        <5> QED
          BY <3>2, <3>4, <4>2, <4>5, <4>7, <5>2
      <4>9. told' = Stamped' \cup Held'
        BY <2>3, <4>1, <4>3, <4>4 DEF CalmDay
      <4>10. ~ AllIdle' /\ \A g \in Handlers : digester'[g].pc # "notify"
        BY <3>2, <3>4, <4>2 DEF AllIdle, AtWork
      <4> QED
        BY <2>3, <4>1, <4>2, <4>8, <4>9, <4>10 DEF CalmDay
    <3> QED
      BY <3>6, <3>7 DEF DigestInv
  <2> QED
    BY <1>11, <2>1, <2>5, <2>6 DEF StampTasks
<1>12. CASE UNCHANGED digestVars
  <2>1. UNCHANGED <<date, window, todo, digester, ran, told, doubled, shaken>>
    BY <1>12 DEF digestVars
  <2>2. DigestTypes'
    BY <1>0, <1>5, <2>1 DEF DigestTypes, AllIdle, AtWork
  <2>3. CalmDay => CalmDay'
    BY <1>5, <2>1 DEF CalmDay, AllIdle, AtWork, Held, Selected
  <2> QED
    BY <1>0, <2>1, <2>2, <2>3 DEF DigestInv
<1> QED
  BY <1>6, <1>7, <1>8, <1>9, <1>10, <1>11, <1>12 DEF DigestNext

(* On a digest day without a failure, runs side by side or an edit after   *)
(* ten, each pending task of the digest's kind is told of exactly once, for*)
(* any number of tasks, runs and handlers (processDigestCronAt and         *)
(* deliverDigests of internal/api/reminders_digest.go).                    *)
THEOREM DigestsNudgeOnce == DigestSpec => []NudgedOnce
<1>1. ASSUME DigestInv PROVE NudgedOnce
  <2> SUFFICES ASSUME window = "after", ~ shaken
               PROVE  /\ \A kind \in KindsOn(date), t \in WeekTasks :
                           todo[t].open /\ todo[t][kind] # Never /\ todo[t][kind] <= Current(kind) => t \in told
                      /\ doubled = {}
    BY DEF NudgedOnce
  <2>1. CalmDay /\ AllIdle /\ ran > 0
    BY <1>1 DEF DigestInv, DigestTypes
  <2>2. told = Stamped \cup Held /\ doubled = {} /\ \A kind \in KindsOn(date) : Eligible(kind) = {}
    BY <2>1 DEF CalmDay
  <2>3. ASSUME NEW kind \in KindsOn(date), NEW t \in WeekTasks,
               todo[t].open, todo[t][kind] # Never, todo[t][kind] <= Current(kind)
        PROVE  t \in Stamped
    BY <2>2, <2>3 DEF Eligible, Stamped
  <2> QED
    BY <2>2, <2>3
<1> QED
  BY <1>1, DigestInvInit, DigestInvNext, PTL DEF DigestSpec

-----------------------------------------------------------------------------
(* A project's brief. A request that changes the project is begun, then     *)
(* holds its card's lock, or touches the project after a creation; one that *)
(* writes the brief read the project before.                                *)
JobSteps == {"quiet", "begun", "locked", "touch", "synthesis"}
Writing(w) == StepOf(w) = "synthesis"
Touching(w) == StepOf(w) = "touch"

JobTypes ==
  /\ DOMAIN thinking = Thinkers
  /\ \A w \in Thinkers :
       /\ StepOf(w) \in JobSteps /\ "step" \in DOMAIN thinking[w]
       /\ Changing(w) => "early" \in DOMAIN thinking[w] /\ thinking[w].early \in BOOLEAN
       /\ Writing(w) => /\ {"alone", "tells"} \subseteq DOMAIN thinking[w]
                        /\ thinking[w].alone \in BOOLEAN /\ thinking[w].tells \in BOOLEAN

ThinkingTypes ==
  /\ DOMAIN project = {"here", "written", "stale", "tells", "alone"}
  /\ project.here \in BOOLEAN /\ project.written \in BOOLEAN /\ project.stale \in BOOLEAN
  /\ project.tells \in BOOLEAN /\ project.alone \in BOOLEAN
  /\ JobTypes

(* A brief nobody interferes with tells all, and nothing is under way.     *)
WritesAlone ==
  \A w \in Thinkers : Writing(w) /\ thinking[w].alone = TRUE =>
    thinking[w].tells = TRUE /\ \A v \in Thinkers : ~Changing(v)

(* A brief that was written alone: what is under way is younger, and what  *)
(* it leaves out is flagged, or is about to be.                            *)
Flagged ==
  project.here = TRUE /\ project.written = TRUE /\ project.alone = TRUE =>
    /\ \A w \in Thinkers : Changing(w) => thinking[w].early = FALSE
    /\ project.stale = TRUE => project.tells = FALSE
    /\ \A w \in Thinkers : Touching(w) => project.tells = FALSE
    /\ project.tells = FALSE => project.stale = TRUE \/ \E w \in Thinkers : Touching(w)

BriefInv == ThinkingTypes /\ WritesAlone /\ Flagged

LEMMA BriefInvInit == ThinkingStart => BriefInv
<1> SUFFICES ASSUME ThinkingStart PROVE BriefInv
  OBVIOUS
<1>1. /\ project = [here |-> TRUE, written |-> FALSE, stale |-> FALSE, tells |-> FALSE, alone |-> FALSE]
      /\ thinking = [w \in Thinkers |-> NoJob]
  BY DEF ThinkingStart
<1>2. \A w \in Thinkers : StepOf(w) = "quiet" /\ DOMAIN thinking[w] = {"step"}
  BY <1>1 DEF StepOf, NoJob
<1>3. ThinkingTypes
  BY <1>1, <1>2 DEF ThinkingTypes, JobTypes, Changing, Writing, JobSteps
<1>4. WritesAlone /\ Flagged
  BY <1>1, <1>2 DEF WritesAlone, Flagged, Writing
<1> QED
  BY <1>3, <1>4 DEF BriefInv

(* What a job keeps of the one it was.                                     *)
Goes(w) ==
  /\ StepOf(w)' \in JobSteps /\ "step" \in DOMAIN thinking'[w]
  /\ Changing(w)' => /\ Changing(w) /\ "early" \in DOMAIN thinking'[w] /\ thinking'[w].early = thinking[w].early
  /\ Writing(w)' => /\ Writing(w) /\ {"alone", "tells"} \subseteq DOMAIN thinking'[w]
                    /\ thinking'[w].alone = thinking[w].alone /\ thinking'[w].tells = thinking[w].tells
  /\ Touching(w)' => Touching(w)

(* A step that leaves the project alone, and no touch undone.              *)
LEMMA QuietStep ==
  ASSUME BriefInv, UNCHANGED project, DOMAIN thinking' = Thinkers, 
         \A w \in Thinkers : Goes(w) /\ (Touching(w) => Touching(w)')
  PROVE  BriefInv'
<1>1. ThinkingTypes'
  BY DEF BriefInv, ThinkingTypes, JobTypes, Goes
<1>2. WritesAlone'
  BY DEF BriefInv, WritesAlone, Goes
<1>3. Flagged'
  BY DEF BriefInv, Flagged, Goes
<1> QED
  BY <1>1, <1>2, <1>3 DEF BriefInv

LEMMA SameJob ==
  ASSUME ThinkingTypes, NEW w \in Thinkers, thinking'[w] = thinking[w]
  PROVE  Goes(w) /\ (Touching(w) <=> Touching(w)') /\ (Changing(w) <=> Changing(w)')
BY DEF ThinkingTypes, JobTypes, Goes, StepOf, Changing, Writing, Touching

LEMMA JobOver ==
  ASSUME ThinkingTypes, NEW w \in Thinkers, thinking'[w] = NoJob
  PROVE  Goes(w) /\ ~Touching(w)' /\ ~Changing(w)' /\ ~Writing(w)'
BY DEF Goes, StepOf, Changing, Writing, Touching, NoJob, JobSteps

LEMMA RefuseKeepsBrief ==
  ASSUME BriefInv, NEW w \in Thinkers, ~Touching(w), ThoughtEnds(w), UNCHANGED project
  PROVE  BriefInv'
<1>1. thinking' = [thinking EXCEPT ![w] = NoJob] /\ DOMAIN thinking = Thinkers
  BY DEF ThoughtEnds, BriefInv, ThinkingTypes, JobTypes
<1>2. thinking'[w] = NoJob /\ \A v \in Thinkers \ {w} : thinking'[v] = thinking[v]
  BY <1>1
<1>3. \A v \in Thinkers : Goes(v) /\ (Touching(v) => Touching(v)')
  BY <1>2, SameJob, JobOver DEF BriefInv
<1> QED
  BY <1>1, <1>3, QuietStep

LEMMA LockKeepsBrief ==
  ASSUME BriefInv, NEW w \in Thinkers, LockCard(w)
  PROVE  BriefInv'
<1>1. /\ StepOf(w) = "begun" /\ thinking' = [thinking EXCEPT ![w] = WithLock(@)] /\ UNCHANGED project
      /\ DOMAIN thinking = Thinkers
  BY DEF LockCard, BriefInv, ThinkingTypes, JobTypes
<1>2. thinking'[w] = WithLock(thinking[w]) /\ \A v \in Thinkers \ {w} : thinking'[v] = thinking[v]
  BY <1>1
<1>3. Goes(w) /\ ~Touching(w)
  <2>1. CASE CardHere(thinking[w].card)
    <3>1. /\ thinking'[w].step = "locked" /\ thinking'[w].early = thinking[w].early
          /\ {"step", "early"} \subseteq DOMAIN thinking'[w]
      BY <1>2, <2>1 DEF WithLock
    <3> QED
      BY <1>1, <3>1 DEF Goes, StepOf, Changing, Writing, Touching, JobSteps
  <2>2. CASE ~CardHere(thinking[w].card)
    BY <1>1, <1>2, <2>2, JobOver DEF WithLock, BriefInv, Touching
  <2> QED
    BY <2>1, <2>2
<1>4. \A v \in Thinkers : Goes(v) /\ (Touching(v) => Touching(v)')
  BY <1>2, <1>3, SameJob DEF BriefInv
<1> QED
  BY <1>1, <1>4, QuietStep

(* The same job, if it is a brief now told of a change: it is not alone, or *)
(* it does not tell all.                                                    *)
Blinded(f, job) ==
  /\ f.step = job.step /\ (job.step # "synthesis" => f = job)
  /\ job.step = "synthesis" => f.alone = FALSE /\ f.tells = job.tells /\ DOMAIN f = DOMAIN job
Outdated(f, job) ==
  /\ f.step = job.step /\ (job.step # "synthesis" => f = job)
  /\ job.step = "synthesis" => f.alone = job.alone /\ f.tells = FALSE /\ DOMAIN f = DOMAIN job
Brief(job) == job.step = "synthesis" => {"step", "alone", "tells"} \subseteq DOMAIN job

LEMMA InterferesBlinds ==
  ASSUME NEW jobs, NEW v \in Thinkers, Brief(jobs[v])
  PROVE  Blinded(Interferes(jobs)[v], jobs[v])
<1>1. PICK f, job : f = Interferes(jobs)[v] /\ job = jobs[v]
  OBVIOUS
<1>2. CASE job.step = "synthesis"
  <2>1. f = [job EXCEPT !.alone = FALSE]
    BY <1>1, <1>2 DEF Interferes
  <2> QED
    BY <1>1, <1>2, <2>1 DEF Blinded, Brief
<1>3. CASE job.step # "synthesis"
  BY <1>1, <1>3 DEF Interferes, Blinded
<1> QED
  BY <1>2, <1>3

LEMMA OutdatesPast ==
  ASSUME NEW jobs, NEW v \in Thinkers, Brief(jobs[v])
  PROVE  Outdated(Outdates(jobs)[v], jobs[v])
<1>1. PICK f, job : f = Outdates(jobs)[v] /\ job = jobs[v]
  OBVIOUS
<1>2. CASE job.step = "synthesis"
  <2>1. f = [job EXCEPT !.tells = FALSE]
    BY <1>1, <1>2 DEF Outdates
  <2> QED
    BY <1>1, <1>2, <2>1 DEF Outdated, Brief
<1>3. CASE job.step # "synthesis"
  BY <1>1, <1>3 DEF Outdates, Outdated
<1> QED
  BY <1>2, <1>3

(* What becomes of the other jobs when one of them, w, changes something:  *)
(* they go on, and no brief among them counts as alone.                    *)
Onward(w) ==
  /\ DOMAIN thinking' = Thinkers
  /\ \A v \in Thinkers \ {w} :
       /\ StepOf(v)' = StepOf(v)
       /\ ~Writing(v) => thinking'[v] = thinking[v]
       /\ Writing(v) => /\ DOMAIN thinking'[v] = DOMAIN thinking[v]
                        /\ thinking'[v].alone \in BOOLEAN /\ thinking'[v].tells \in BOOLEAN

OthersAlike(w) ==
  \A v \in Thinkers \ {w} :
    /\ Changing(v)' <=> Changing(v)
    /\ Changing(v) => thinking'[v] = thinking[v]
    /\ Touching(v)' <=> Touching(v)
    /\ Writing(v)' <=> Writing(v)

LEMMA OnwardTypes ==
  ASSUME BriefInv, NEW w \in Thinkers, Onward(w), StepOf(w)' \in JobSteps, "step" \in DOMAIN thinking'[w],
         ~Writing(w)', Changing(w)' => "early" \in DOMAIN thinking'[w] /\ thinking'[w].early \in BOOLEAN
  PROVE  JobTypes' /\ OthersAlike(w)
<1>1. ASSUME NEW v \in Thinkers, v # w
      PROVE  /\ Changing(v)' <=> Changing(v)
             /\ Changing(v) => thinking'[v] = thinking[v] /\ ~Writing(v)
             /\ Touching(v)' <=> Touching(v)
             /\ Writing(v)' <=> Writing(v)
             /\ StepOf(v)' = StepOf(v)
             /\ ~Writing(v) => thinking'[v] = thinking[v]
  BY <1>1 DEF Onward, Changing, Touching, Writing
<1>2. ASSUME NEW v \in Thinkers, v # w
      PROVE  /\ StepOf(v)' \in JobSteps /\ "step" \in DOMAIN thinking'[v]
             /\ Changing(v)' => "early" \in DOMAIN thinking'[v] /\ thinking'[v].early \in BOOLEAN
             /\ Writing(v)' => /\ {"alone", "tells"} \subseteq DOMAIN thinking'[v]
                              /\ thinking'[v].alone \in BOOLEAN /\ thinking'[v].tells \in BOOLEAN
  <2>1. CASE Writing(v)
    BY <1>1, <1>2, <2>1 DEF BriefInv, ThinkingTypes, JobTypes, Onward, Changing
  <2>2. CASE ~Writing(v)
    BY <1>1, <1>2, <2>2 DEF BriefInv, ThinkingTypes, JobTypes
  <2> QED
    BY <2>1, <2>2
<1> QED
  BY <1>1, <1>2 DEF Onward, OthersAlike, JobTypes

LEMMA InterfereOnward ==
  ASSUME BriefInv, NEW w \in Thinkers, NEW job, Brief(job),
         thinking' = Interferes([thinking EXCEPT ![w] = job])
  PROVE  /\ Onward(w) /\ Blinded(thinking'[w], job)
         /\ \A v \in Thinkers \ {w} : Writing(v) => thinking'[v].alone = FALSE
<1>1. PICK jobs : jobs = [thinking EXCEPT ![w] = job]
  OBVIOUS
<1>2. jobs[w] = job /\ \A v \in Thinkers \ {w} : jobs[v] = thinking[v]
  BY <1>1 DEF BriefInv, ThinkingTypes, JobTypes
<1>3. \A v \in Thinkers : Brief(thinking[v])
  BY DEF BriefInv, ThinkingTypes, JobTypes, Brief, Writing, StepOf
<1>4. \A v \in Thinkers : Brief(jobs[v])
  BY <1>2, <1>3
<1>5. \A v \in Thinkers : Blinded(Interferes(jobs)[v], jobs[v])
  BY <1>4, InterferesBlinds
<1>6. thinking' = Interferes(jobs) /\ DOMAIN thinking' = Thinkers
  BY <1>1 DEF Interferes
<1>7. Blinded(thinking'[w], job) /\ \A v \in Thinkers \ {w} : Blinded(thinking'[v], thinking[v])
  BY <1>2, <1>5, <1>6
<1> QED
  BY <1>6, <1>7 DEF Onward, Blinded, Writing, StepOf, BriefInv, ThinkingTypes, JobTypes

LEMMA OutdateOnward ==
  ASSUME BriefInv, NEW w \in Thinkers, NEW job, Brief(job),
         thinking' = Outdates([thinking EXCEPT ![w] = job])
  PROVE  /\ Onward(w) /\ Outdated(thinking'[w], job)
         /\ \A v \in Thinkers \ {w} : Writing(v) => thinking'[v].alone = thinking[v].alone
<1>1. PICK jobs : jobs = [thinking EXCEPT ![w] = job]
  OBVIOUS
<1>2. jobs[w] = job /\ \A v \in Thinkers \ {w} : jobs[v] = thinking[v]
  BY <1>1 DEF BriefInv, ThinkingTypes, JobTypes
<1>3. \A v \in Thinkers : Brief(thinking[v])
  BY DEF BriefInv, ThinkingTypes, JobTypes, Brief, Writing, StepOf
<1>4. \A v \in Thinkers : Brief(jobs[v])
  BY <1>2, <1>3
<1>5. \A v \in Thinkers : Outdated(Outdates(jobs)[v], jobs[v])
  BY <1>4, OutdatesPast
<1>6. thinking' = Outdates(jobs) /\ DOMAIN thinking' = Thinkers
  BY <1>1 DEF Outdates
<1>7. Outdated(thinking'[w], job) /\ \A v \in Thinkers \ {w} : Outdated(thinking'[v], thinking[v])
  BY <1>2, <1>5, <1>6
<1> QED
  BY <1>6, <1>7 DEF Onward, Outdated, Writing, StepOf, BriefInv, ThinkingTypes, JobTypes

Alone(w, job) ==
  /\ job.step # "synthesis" => thinking'[w] = job
  /\ \A v \in Thinkers \ {w} : Writing(v) => thinking'[v].alone = FALSE

LEMMA BothOnward ==
  ASSUME BriefInv, NEW w \in Thinkers, NEW job, Brief(job), NEW jobs,
         jobs[w] = job, \A v \in Thinkers \ {w} : jobs[v] = thinking[v],
         thinking' = Outdates(Interferes(jobs))
  PROVE  Onward(w) /\ Alone(w, job)
<1>1. PICK mid : mid = Interferes(jobs)
  OBVIOUS
<1>3. \A v \in Thinkers : Brief(thinking[v])
  BY DEF BriefInv, ThinkingTypes, JobTypes, Brief, Writing, StepOf
<1>4. \A v \in Thinkers : Brief(jobs[v])
  BY <1>3
<1>5. \A v \in Thinkers : Blinded(mid[v], jobs[v])
  BY <1>1, <1>4, InterferesBlinds
<1>6. \A v \in Thinkers : Brief(mid[v])
  BY <1>4, <1>5 DEF Brief, Blinded
<1>7. \A v \in Thinkers : Outdated(Outdates(mid)[v], mid[v])
  BY <1>6, OutdatesPast
<1>8. thinking' = Outdates(mid) /\ DOMAIN thinking' = Thinkers
  BY <1>1 DEF Outdates
<1>9. /\ Blinded(mid[w], job) /\ Outdated(thinking'[w], mid[w])
      /\ \A v \in Thinkers \ {w} : Blinded(mid[v], thinking[v]) /\ Outdated(thinking'[v], mid[v])
  BY <1>5, <1>7, <1>8
<1>10. job.step # "synthesis" => thinking'[w] = job
  BY <1>9 DEF Blinded, Outdated
<1>11. ASSUME NEW v \in Thinkers, v # w
       PROVE  /\ StepOf(v)' = StepOf(v) /\ (~Writing(v) => thinking'[v] = thinking[v])
              /\ Writing(v) => /\ thinking'[v].alone = FALSE /\ thinking'[v].tells = FALSE
                               /\ DOMAIN thinking'[v] = DOMAIN thinking[v]
  BY <1>9, <1>11 DEF Blinded, Outdated, Writing, StepOf
<1> QED
  BY <1>8, <1>10, <1>11 DEF Onward, Alone

LEMMA BeginKeepsBrief ==
  ASSUME BriefInv, NEW w \in Thinkers, BeginChange(w)
  PROVE  BriefInv'
<1>1. PICK c, ask : Thinks(w, [step |-> "begun", card |-> c, ask |-> ask, early |-> FALSE])
  BY DEF BeginChange
<1>2. PICK job : job = [step |-> "begun", card |-> c, ask |-> ask, early |-> FALSE]
  OBVIOUS
<1>3. job.step = "begun" /\ job.early = FALSE /\ {"step", "early"} \subseteq DOMAIN job /\ Brief(job)
  BY <1>2 DEF Brief
<1>4. thinking' = Interferes([thinking EXCEPT ![w] = job]) /\ UNCHANGED project
  BY <1>1, <1>2 DEF Thinks, BeginChange
<1>5. /\ Onward(w) /\ thinking'[w] = job
      /\ \A v \in Thinkers \ {w} : Writing(v) => thinking'[v].alone = FALSE
  BY <1>3, <1>4, InterfereOnward DEF Blinded
<1>6. /\ StepOf(w)' = "begun" /\ ~Writing(w)' /\ ~Touching(w)' /\ Changing(w)'
      /\ thinking'[w].early = FALSE /\ {"step", "early"} \subseteq DOMAIN thinking'[w]
  BY <1>3, <1>5 DEF StepOf, Writing, Touching, Changing
<1>7. ~Touching(w)
  BY <1>1 DEF Thinks, NoJob, Touching, StepOf
<1>8. JobTypes' /\ OthersAlike(w)
  BY <1>5, <1>6, OnwardTypes DEF JobSteps
<1>9. ThinkingTypes'
  BY <1>4, <1>8 DEF BriefInv, ThinkingTypes, JobTypes
<1>10. WritesAlone'
  BY <1>5, <1>6, <1>8 DEF WritesAlone, OthersAlike
<1>11. Flagged'
  <2>1. \A v \in Thinkers : Touching(v)' <=> Touching(v)
    BY <1>6, <1>7, <1>8 DEF OthersAlike
  <2>2. ASSUME \A v \in Thinkers : Changing(v) => thinking[v].early = FALSE
        PROVE  \A v \in Thinkers : Changing(v)' => thinking'[v].early = FALSE
    BY <1>6, <1>8, <2>2 DEF OthersAlike
  <2> QED
    BY <1>4, <2>1, <2>2 DEF BriefInv, Flagged
<1> QED
  BY <1>9, <1>10, <1>11 DEF BriefInv

LEMMA CommitKeepsBrief ==
  ASSUME BriefInv, NEW w \in Thinkers, StepOf(w) = "locked", Commits(w)
  PROVE  BriefInv'
<1>1. /\ Changing(w) /\ thinking[w].early \in BOOLEAN
      /\ thinking' = Outdates([thinking EXCEPT ![w] = NoJob])
      /\ project' = [project EXCEPT !.stale = ~thinking[w].early, !.tells = FALSE]
  BY DEF Commits, BriefInv, ThinkingTypes, JobTypes, Changing
<1>2. NoJob.step = "quiet" /\ "step" \in DOMAIN NoJob /\ Brief(NoJob)
  BY DEF NoJob, Brief
<1>3. /\ Onward(w) /\ thinking'[w] = NoJob
      /\ \A v \in Thinkers \ {w} : Writing(v) => thinking'[v].alone = thinking[v].alone
  BY <1>1, <1>2, OutdateOnward DEF Outdated
<1>4. /\ StepOf(w)' = "quiet" /\ ~Writing(w)' /\ ~Touching(w)' /\ ~Changing(w)' /\ "step" \in DOMAIN thinking'[w]
  BY <1>2, <1>3 DEF StepOf, Writing, Touching, Changing
<1>5. ~Touching(w)
  BY DEF Touching
<1>6. JobTypes' /\ OthersAlike(w)
  BY <1>3, <1>4, OnwardTypes DEF JobSteps
<1>7. /\ DOMAIN project' = {"here", "written", "stale", "tells", "alone"} /\ project'.here = project.here
      /\ project'.written = project.written /\ project'.alone = project.alone /\ project'.tells = FALSE
      /\ project'.stale \in BOOLEAN /\ (thinking[w].early = FALSE => project'.stale = TRUE)
  BY <1>1 DEF BriefInv, ThinkingTypes, JobTypes
<1>8. ThinkingTypes'
  BY <1>6, <1>7 DEF BriefInv, ThinkingTypes, JobTypes
<1>9. WritesAlone'
  BY <1>1, <1>3, <1>4, <1>6 DEF BriefInv, WritesAlone, OthersAlike
<1>10. Flagged'
  BY <1>1, <1>4, <1>5, <1>6, <1>7 DEF BriefInv, Flagged, OthersAlike
<1> QED
  BY <1>8, <1>9, <1>10 DEF BriefInv

LEMMA CreateKeepsBrief ==
  ASSUME BriefInv, NEW w \in Thinkers, CreateCard(w)
  PROVE  BriefInv'
<1>1. PICK c, byApp :
        /\ thinking' = Outdates(Interferes([thinking EXCEPT ![w] = [step |-> "touch", early |-> FALSE, card |-> c, byApp |-> byApp]]))
        /\ project' = [project EXCEPT !.tells = FALSE]
  BY DEF CreateCard
<1>2. PICK job : job = [step |-> "touch", early |-> FALSE, card |-> c, byApp |-> byApp]
  OBVIOUS
<1>3. job.step = "touch" /\ job.early = FALSE /\ {"step", "early"} \subseteq DOMAIN job /\ Brief(job)
  BY <1>2 DEF Brief
<1>4. /\ Onward(w) /\ thinking'[w] = job
      /\ \A v \in Thinkers \ {w} : Writing(v) => thinking'[v].alone = FALSE
  <2>1. PICK jobs : jobs = [thinking EXCEPT ![w] = job]
    OBVIOUS
  <2>2. jobs[w] = job /\ \A v \in Thinkers \ {w} : jobs[v] = thinking[v]
    BY <2>1 DEF BriefInv, ThinkingTypes, JobTypes
  <2>3. Onward(w) /\ Alone(w, job)
    BY <1>1, <1>2, <1>3, <2>1, <2>2, BothOnward
  <2> QED
    BY <1>3, <2>3 DEF Alone
<1>5. /\ StepOf(w)' = "touch" /\ ~Writing(w)' /\ Touching(w)' /\ Changing(w)'
      /\ thinking'[w].early = FALSE /\ {"step", "early"} \subseteq DOMAIN thinking'[w]
  BY <1>3, <1>4 DEF StepOf, Writing, Touching, Changing
<1>6. JobTypes' /\ OthersAlike(w)
  BY <1>4, <1>5, OnwardTypes DEF JobSteps
<1>7. /\ DOMAIN project' = {"here", "written", "stale", "tells", "alone"} /\ project'.here = project.here
      /\ project'.written = project.written /\ project'.alone = project.alone /\ project'.tells = FALSE
      /\ project'.stale = project.stale
  BY <1>1 DEF BriefInv, ThinkingTypes, JobTypes
<1>8. ThinkingTypes'
  BY <1>6, <1>7 DEF BriefInv, ThinkingTypes, JobTypes
<1>9. WritesAlone'
  BY <1>4, <1>5, <1>6 DEF WritesAlone, OthersAlike
<1>10. Flagged'
  BY <1>5, <1>6, <1>7 DEF BriefInv, Flagged, OthersAlike
<1> QED
  BY <1>8, <1>9, <1>10 DEF BriefInv

LEMMA TouchKeepsBrief ==
  ASSUME BriefInv, NEW w \in Thinkers, TouchProject(w)
  PROVE  BriefInv'
<1>1. /\ Touching(w) /\ thinking' = [thinking EXCEPT ![w] = NoJob] /\ DOMAIN thinking = Thinkers
      /\ project' = [project EXCEPT !.stale = TRUE]
  BY DEF TouchProject, ThoughtEnds, Touching, BriefInv, ThinkingTypes, JobTypes
<1>2. thinking'[w] = NoJob /\ \A v \in Thinkers \ {w} : thinking'[v] = thinking[v]
  BY <1>1
<1>3. /\ ~Touching(w)' /\ ~Changing(w)' /\ ~Writing(w)' /\ Goes(w)
      /\ \A v \in Thinkers \ {w} : Goes(v) /\ (Touching(v) <=> Touching(v)')
  BY <1>2, SameJob, JobOver DEF BriefInv
<1>4. /\ DOMAIN project' = {"here", "written", "stale", "tells", "alone"} /\ project'.here = project.here
      /\ project'.written = project.written /\ project'.alone = project.alone /\ project'.tells = project.tells
      /\ project'.stale = TRUE
  BY <1>1 DEF BriefInv, ThinkingTypes, JobTypes
<1>5. ThinkingTypes'
  BY <1>1, <1>3, <1>4 DEF BriefInv, ThinkingTypes, JobTypes, Goes
<1>6. WritesAlone'
  BY <1>3 DEF BriefInv, WritesAlone, Goes
<1>7. Flagged'
  BY <1>1, <1>3, <1>4 DEF BriefInv, Flagged, Goes
<1> QED
  BY <1>5, <1>6, <1>7 DEF BriefInv

LEMMA UpdateKeepsBrief ==
  ASSUME BriefInv, NEW w \in Thinkers, UpdateProject(w)
  PROVE  BriefInv'
<1>1. /\ thinking[w] = NoJob /\ thinking' = Outdates(Interferes(thinking)) /\ DOMAIN thinking = Thinkers
      /\ project' = [project EXCEPT !.stale = TRUE, !.tells = FALSE]
  BY DEF UpdateProject, BriefInv, ThinkingTypes, JobTypes
<1>2. NoJob.step = "quiet" /\ "step" \in DOMAIN NoJob /\ Brief(NoJob)
  BY DEF NoJob, Brief
<1>3. PICK jobs : jobs = thinking
  OBVIOUS
<1>4. thinking' = Outdates(Interferes(jobs)) /\ jobs[w] = NoJob /\ \A v \in Thinkers \ {w} : jobs[v] = thinking[v]
  BY <1>1, <1>3
<1>5. /\ Onward(w) /\ thinking'[w] = NoJob
      /\ \A v \in Thinkers \ {w} : Writing(v) => thinking'[v].alone = FALSE
  <2>1. Onward(w) /\ Alone(w, NoJob)
    BY <1>1, <1>2, <1>4, BothOnward
  <2> QED
    BY <1>2, <2>1 DEF Alone
<1>6. /\ StepOf(w)' = "quiet" /\ ~Writing(w)' /\ ~Touching(w)' /\ ~Changing(w)' /\ "step" \in DOMAIN thinking'[w]
  BY <1>2, <1>5 DEF StepOf, Writing, Touching, Changing
<1>7. JobTypes' /\ OthersAlike(w)
  BY <1>5, <1>6, OnwardTypes DEF JobSteps
<1>8. /\ DOMAIN project' = {"here", "written", "stale", "tells", "alone"} /\ project'.here = project.here
      /\ project'.written = project.written /\ project'.alone = project.alone /\ project'.tells = FALSE
      /\ project'.stale = TRUE
  BY <1>1 DEF BriefInv, ThinkingTypes, JobTypes
<1>9. ThinkingTypes'
  BY <1>7, <1>8 DEF BriefInv, ThinkingTypes, JobTypes
<1>10. WritesAlone'
  BY <1>5, <1>6, <1>7 DEF WritesAlone, OthersAlike
<1>11. Flagged'
  BY <1>6, <1>7, <1>8 DEF BriefInv, Flagged, OthersAlike
<1> QED
  BY <1>9, <1>10, <1>11 DEF BriefInv

LEMMA ReadKeepsBrief ==
  ASSUME BriefInv, NEW w \in Thinkers, ReadProject(w)
  PROVE  BriefInv'
<1>1. /\ thinking' = [thinking EXCEPT ![w] = [step |-> "synthesis", tells |-> TRUE,
                                              alone |-> \A v \in Thinkers \ {w} : ~Changing(v)]]
      /\ thinking[w] = NoJob /\ UNCHANGED project /\ DOMAIN thinking = Thinkers
  BY DEF ReadProject, BriefInv, ThinkingTypes, JobTypes
<1>2. /\ thinking'[w].step = "synthesis" /\ thinking'[w].tells = TRUE /\ thinking'[w].alone \in BOOLEAN
      /\ DOMAIN thinking'[w] = {"step", "tells", "alone"}
      /\ thinking'[w].alone = TRUE => \A v \in Thinkers \ {w} : ~Changing(v)
  BY <1>1
<1>3. DOMAIN thinking' = Thinkers /\ \A v \in Thinkers \ {w} : thinking'[v] = thinking[v]
  BY <1>1
<1>4. /\ StepOf(w)' = "synthesis" /\ Writing(w)' /\ ~Changing(w)' /\ ~Touching(w)' /\ ~Touching(w)
  BY <1>1, <1>2 DEF StepOf, Writing, Changing, Touching, NoJob
<1>5. \A v \in Thinkers \ {w} :
        Goes(v) /\ (Touching(v) <=> Touching(v)') /\ (Changing(v) <=> Changing(v)')
  BY <1>3, SameJob DEF BriefInv
<1>6. JobTypes'
  BY <1>2, <1>3, <1>4, <1>5 DEF BriefInv, ThinkingTypes, JobTypes, Goes, JobSteps
<1>7. ThinkingTypes'
  BY <1>1, <1>6 DEF BriefInv, ThinkingTypes
<1>8. WritesAlone'
  BY <1>2, <1>4, <1>5 DEF BriefInv, WritesAlone, Goes
<1>9. Flagged'
  BY <1>1, <1>4, <1>5 DEF BriefInv, Flagged, Goes
<1> QED
  BY <1>7, <1>8, <1>9 DEF BriefInv

LEMMA SynthesizeKeepsBrief ==
  ASSUME BriefInv, NEW w \in Thinkers, Synthesize(w)
  PROVE  BriefInv'
<1>1. /\ Writing(w)
      /\ project' = (IF project.here
                     THEN [project EXCEPT !.written = TRUE, !.stale = FALSE,
                                          !.tells = thinking[w].tells, !.alone = thinking[w].alone]
                     ELSE project)
      /\ thinking' = [v \in Thinkers |-> IF v = w THEN NoJob
                                         ELSE IF Changing(v) THEN [thinking[v] EXCEPT !.early = TRUE] ELSE thinking[v]]
  BY DEF Synthesize, Writing, StepOf
<1>2. thinking'[w] = NoJob /\ DOMAIN thinking' = Thinkers
  BY <1>1
<1>3. ~Changing(w)' /\ ~Touching(w)' /\ ~Writing(w)' /\ Goes(w)
  BY <1>2, JobOver DEF BriefInv
<1>4. ASSUME NEW v \in Thinkers, v # w
      PROVE  /\ StepOf(v)' = StepOf(v)
             /\ "step" \in DOMAIN thinking'[v]
             /\ Changing(v) => "early" \in DOMAIN thinking'[v] /\ thinking'[v].early = TRUE
             /\ ~Changing(v) => thinking'[v] = thinking[v]
  <2>1. CASE Changing(v)
    <3>1. thinking'[v] = [thinking[v] EXCEPT !.early = TRUE] /\ {"step", "early"} \subseteq DOMAIN thinking[v]
      BY <1>1, <1>4, <2>1 DEF BriefInv, ThinkingTypes, JobTypes
    <3> QED
      BY <2>1, <3>1 DEF StepOf
  <2>2. CASE ~Changing(v)
    BY <1>1, <1>4, <2>2 DEF StepOf, BriefInv, ThinkingTypes, JobTypes
  <2> QED
    BY <2>1, <2>2
<1>5. \A v \in Thinkers \ {w} :
        (Changing(v)' <=> Changing(v)) /\ (Touching(v)' <=> Touching(v)) /\ (Writing(v)' <=> Writing(v))
  BY <1>4 DEF Changing, Touching, Writing
<1>6. \A v \in Thinkers \ {w} : Writing(v) => thinking'[v] = thinking[v]
  BY <1>4 DEF Changing, Writing
<1>7. JobTypes'
  BY <1>2, <1>3, <1>4, <1>5, <1>6 DEF BriefInv, ThinkingTypes, JobTypes, Goes
<1>8. WritesAlone'
  BY <1>3, <1>5, <1>6 DEF BriefInv, WritesAlone
<1>9. CASE project.here = TRUE
  <2>1. /\ DOMAIN project' = {"here", "written", "stale", "tells", "alone"} /\ project'.here = TRUE
        /\ project'.written = TRUE /\ project'.stale = FALSE
        /\ project'.tells = thinking[w].tells /\ project'.alone = thinking[w].alone
    BY <1>1, <1>9 DEF BriefInv, ThinkingTypes
  <2>2. ThinkingTypes'
    BY <1>1, <1>7, <2>1 DEF BriefInv, ThinkingTypes, JobTypes
  <2>3. project'.alone = TRUE => project'.tells = TRUE /\ \A v \in Thinkers : ~Changing(v)'
    BY <1>1, <1>3, <1>5, <2>1 DEF BriefInv, WritesAlone
  <2>4. Flagged'
    BY <2>1, <2>3 DEF Flagged, Touching, Changing
  <2> QED
    BY <1>8, <2>2, <2>4 DEF BriefInv
<1>10. CASE project.here = FALSE
  <2>1. project' = project
    BY <1>1, <1>10
  <2> QED
    BY <1>7, <1>8, <1>10, <2>1 DEF BriefInv, ThinkingTypes, Flagged
<1> QED
  BY <1>9, <1>10 DEF BriefInv, ThinkingTypes

LEMMA GivesUpKeepsBrief ==
  ASSUME BriefInv, NEW w \in Thinkers, GivesUp(w)
  PROVE  BriefInv'
<1>1. CASE ~Touching(w)
  <2>1. /\ thinking' = [thinking EXCEPT ![w] = NoJob] /\ UNCHANGED project /\ DOMAIN thinking = Thinkers
    BY <1>1 DEF GivesUp, Touching, BriefInv, ThinkingTypes, JobTypes
  <2>2. thinking'[w] = NoJob /\ \A v \in Thinkers \ {w} : thinking'[v] = thinking[v]
    BY <2>1
  <2>3. \A v \in Thinkers : Goes(v) /\ (Touching(v) => Touching(v)')
    BY <1>1, <2>2, SameJob, JobOver DEF BriefInv
  <2> QED
    BY <2>1, <2>3, QuietStep
<1>2. CASE Touching(w)
  <2>1. /\ thinking' = Interferes([thinking EXCEPT ![w] = NoJob])
        /\ project' = [project EXCEPT !.alone = FALSE]
    BY <1>2 DEF GivesUp, Touching
  <2>2. NoJob.step = "quiet" /\ "step" \in DOMAIN NoJob /\ Brief(NoJob)
    BY DEF NoJob, Brief
  <2>3. /\ Onward(w) /\ thinking'[w] = NoJob
        /\ \A v \in Thinkers \ {w} : Writing(v) => thinking'[v].alone = FALSE
    BY <2>1, <2>2, InterfereOnward DEF Blinded
  <2>4. StepOf(w)' = "quiet" /\ ~Writing(w)' /\ ~Changing(w)' /\ "step" \in DOMAIN thinking'[w]
    BY <2>2, <2>3 DEF StepOf, Writing, Changing
  <2>5. JobTypes' /\ OthersAlike(w)
    BY <2>3, <2>4, OnwardTypes DEF JobSteps
  <2>6. /\ DOMAIN project' = {"here", "written", "stale", "tells", "alone"} /\ project'.here = project.here
        /\ project'.written = project.written /\ project'.alone = FALSE /\ project'.tells = project.tells
        /\ project'.stale = project.stale
    BY <2>1 DEF BriefInv, ThinkingTypes
  <2>7. ThinkingTypes'
    BY <2>5, <2>6 DEF BriefInv, ThinkingTypes
  <2>8. WritesAlone'
    BY <2>3, <2>4, <2>5 DEF WritesAlone, OthersAlike
  <2>9. Flagged'
    BY <2>6 DEF Flagged
  <2> QED
    BY <2>7, <2>8, <2>9 DEF BriefInv
<1> QED
  BY <1>1, <1>2

(* Nothing of the project or of a request changes but that the project may *)
(* go.                                                                     *)
LEMMA ApartKeepsBrief ==
  ASSUME BriefInv, UNCHANGED thinking,
         UNCHANGED project \/ project' = [project EXCEPT !.here = FALSE]
  PROVE  BriefInv'
<1>1. \A w \in Thinkers : /\ Changing(w)' <=> Changing(w)
                          /\ Touching(w)' <=> Touching(w)
                          /\ Writing(w)' <=> Writing(w)
                          /\ StepOf(w)' = StepOf(w)
  BY DEF Changing, Touching, Writing, StepOf
<1>2. JobTypes' /\ WritesAlone'
  BY <1>1 DEF BriefInv, ThinkingTypes, JobTypes, WritesAlone
<1>3. CASE UNCHANGED project
  BY <1>1, <1>2, <1>3 DEF BriefInv, ThinkingTypes, Flagged
<1>4. CASE project' = [project EXCEPT !.here = FALSE]
  <2>1. /\ DOMAIN project' = {"here", "written", "stale", "tells", "alone"} /\ project'.here = FALSE
        /\ project'.written = project.written /\ project'.alone = project.alone /\ project'.tells = project.tells
        /\ project'.stale = project.stale
    BY <1>4 DEF BriefInv, ThinkingTypes
  <2> QED
    BY <1>2, <2>1 DEF BriefInv, ThinkingTypes, Flagged
<1> QED
  BY <1>3, <1>4

LEMMA BriefInvNext == BriefInv /\ [ThinkingNext]_thinkingVars => BriefInv'
<1> SUFFICES ASSUME BriefInv, [ThinkingNext]_thinkingVars PROVE BriefInv'
  OBVIOUS
<1>1. ASSUME NEW w \in Thinkers, StepOf(w) = "locked", ThoughtEnds(w), UNCHANGED project PROVE BriefInv'
  BY <1>1, RefuseKeepsBrief DEF Touching
<1>2. ASSUME NEW w \in Thinkers,
             \/ SetClosed(w) \/ UpdateCard(w) \/ AddComment(w) \/ UpdateComment(w) \/ DeleteComment(w)
             \/ DeleteCard(w) \/ SaveEnrichment(w)
      PROVE  BriefInv'
  <2>1. StepOf(w) = "locked"
    BY <1>2 DEF SetClosed, UpdateCard, AddComment, UpdateComment, DeleteComment, DeleteCard, SaveEnrichment, Does
  <2>2. Commits(w) \/ (ThoughtEnds(w) /\ UNCHANGED project)
    BY <1>2 DEF SetClosed, UpdateCard, AddComment, UpdateComment, DeleteComment, DeleteCard, SaveEnrichment,
                WritesCard, Refuses
  <2> QED
    BY <1>1, <2>1, <2>2, CommitKeepsBrief
<1>3. ASSUME NEW w \in Thinkers, BeginChange(w) PROVE BriefInv'
  BY <1>3, BeginKeepsBrief
<1>4. ASSUME NEW w \in Thinkers, LockCard(w) PROVE BriefInv'
  BY <1>4, LockKeepsBrief
<1>5. ASSUME NEW w \in Thinkers, UpdateProject(w) PROVE BriefInv'
  BY <1>5, UpdateKeepsBrief
<1>6. ASSUME NEW w \in Thinkers, ReadProject(w) PROVE BriefInv'
  BY <1>6, ReadKeepsBrief
<1>7. ASSUME NEW w \in Thinkers, Synthesize(w) PROVE BriefInv'
  BY <1>7, SynthesizeKeepsBrief
<1>8. ASSUME NEW w \in Thinkers, GivesUp(w) PROVE BriefInv'
  BY <1>8, GivesUpKeepsBrief
<1>9. ASSUME NEW w \in Thinkers, CreateCard(w) PROVE BriefInv'
  BY <1>9, CreateKeepsBrief
<1>10. ASSUME NEW w \in Thinkers, TouchProject(w) PROVE BriefInv'
  BY <1>10, TouchKeepsBrief
<1>11. ASSUME NEW w \in Thinkers, EnrichCard(w) \/ DeleteProject(w) PROVE BriefInv'
  BY <1>11, ApartKeepsBrief DEF EnrichCard, DeleteProject
<1>12. ASSUME NEW m \in musings, ReadSiblings(m) \/ Enriched(m) \/ EndsMusing(m) PROVE BriefInv'
  <2>1. UNCHANGED <<thinking, project>>
    BY <1>12 DEF ReadSiblings, Enriched, EndsMusing
  <2> QED
    BY <2>1, ApartKeepsBrief
<1>13. CASE UNCHANGED thinkingVars
  BY <1>13, ApartKeepsBrief DEF thinkingVars
<1> QED
  BY <1>2, <1>3, <1>4, <1>5, <1>6, <1>7, <1>8, <1>9, <1>10, <1>11, <1>12, <1>13 DEF ThinkingNext

(* A brief during whose writing no change began, was open or committed asks *)
(* for a new one if and only if something changed after its cards were      *)
(* read, for any number of requests and cards; of a brief that a change     *)
(* overlapped nothing is said, since its stamp hides that change            *)
(* (api/thinking.go).                                                       *)
THEOREM BriefsAreFlagged == ThinkingSpec => []BriefFlagged
<1>1. ASSUME BriefInv PROVE BriefFlagged
  <2>1. /\ project.here \in BOOLEAN /\ project.written \in BOOLEAN /\ project.stale \in BOOLEAN
        /\ project.tells \in BOOLEAN /\ project.alone \in BOOLEAN
    BY <1>1 DEF BriefInv, ThinkingTypes
  <2> QED
    BY <1>1, <2>1 DEF BriefInv, Flagged, BriefFlagged, NeedsSynthesis, Touching
<1> QED
  BY <1>1, BriefInvInit, BriefInvNext, PTL DEF ThinkingSpec

-----------------------------------------------------------------------------
(* TaskSchedule: who is told of a task's reminders.                        *)

BellRow == [at : Int \cup {Never}, on : BOOLEAN, stamped : BOOLEAN, claim : Nat, arming : Nat]
IsSchedule(row) ==
  /\ DOMAIN row = {"status", "due", "week", "month", "rule"}
  /\ row.due \in Int \cup {Never} /\ row.week \in Int \cup {Never} /\ row.month \in Int \cup {Never}
IsHandler(x) ==
  x \in [pc : {"idle", "sending", "sent"}, kind : Kinds, arming : Nat, fire : {x.fire}, since : Nat]
Delivers(h) == handler[h].pc # "idle"

(* Before the task is there, nothing was ever armed.                       *)
ScheduleTypes ==
  /\ now \in Nat /\ allowed.on \subseteq BOOLEAN /\ IsSchedule(task)
  /\ bell \in [Kinds -> BellRow]
  /\ DOMAIN handler = Handlers /\ \A h \in Handlers : IsHandler(handler[h])
  /\ task.status = "none" => \A k \in Kinds : bell[k].arming = 0
  /\ \A k \in Kinds : bell[k].arming = 0 => ~ bell[k].on /\ ~ bell[k].stamped

(* A handler whose arming was replaced has disturbed the one that replaced *)
(* it; one that nobody disturbed holds the claim for as long as it may run;*)
(* and it tells what was not told, unless one that told it died.           *)
AtHand(h) ==
  LET k == handler[h].kind a == handler[h].arming IN
  /\ 1 <= a /\ a <= bell[k].arming
  /\ handler[h].since <= now /\ now <= handler[h].since + MaxRun
  /\ a # bell[k].arming => <<k, bell[k].arming>> \in disturbed
  /\ a = bell[k].arming => bell[k].on
  /\ a = bell[k].arming /\ <<k, a>> \notin disturbed => bell[k].claim >= handler[h].since + Lease
  /\ handler[h].pc = "sent" => <<k, a>> \in rung
  /\ handler[h].pc = "sending" /\ <<k, a>> \in rung => <<k, a>> \in lost \cup disturbed
OneAtHand ==
  \A g, h \in Handlers : Delivers(g) /\ Delivers(h) /\ Of(g) = Of(h) /\ Of(h) \notin disturbed => g = h

(* What was told of the arming a bell has is stamped, or about to be.      *)
HeardOf ==
  \A k \in Kinds : \A a \in Nat : <<k, a>> \in rung =>
    /\ a <= bell[k].arming
    /\ a = bell[k].arming /\ <<k, a>> \notin lost \cup disturbed =>
         bell[k].stamped \/ \E h \in Handlers : handler[h].pc = "sent" /\ Of(h) = <<k, a>>

TellInv ==
  /\ ScheduleTypes /\ \A h \in Handlers : Delivers(h) => AtHand(h)
  /\ OneAtHand /\ HeardOf /\ StampTold /\ ToldOnce

(* Every fire, queued or being delivered, is of one of the two bells.      *)
IsFire(f) == DOMAIN f = {"kind", "at"} /\ f.kind \in Kinds
FiresKnown == (\A f \in fires : IsFire(f)) /\ \A h \in Handlers : \A f \in handler[h].fire : IsFire(f)

LEMMA TellInvInit == ScheduleInit => TellInv
<1> SUFFICES ASSUME ScheduleInit PROVE TellInv
  OBVIOUS
<1>1. PICK b \in Bounds : allowed = [on |-> b.on, freqs |-> b.freqs, until |-> b.until]
  BY DEF ScheduleInit
<1>2. allowed.on \subseteq BOOLEAN
  <2>1. b.on \in SUBSET BOOLEAN
    BY <1>1, ScheduleAssumption
  <2> QED
    BY <1>1, <2>1
<1>3. /\ now = 1 /\ bell = [k \in Kinds |-> Silent] /\ handler = [h \in Handlers |-> AtRest]
      /\ rung = {} /\ twice = {} /\ lost = {} /\ disturbed = {}
      /\ task = [status |-> "none", due |-> Never, week |-> Never, month |-> Never, rule |-> NoRule]
  BY DEF ScheduleInit
<1>4. IsSchedule(task)
  BY <1>3 DEF IsSchedule
<1>5. Silent \in BellRow /\ Silent.arming = 0 /\ ~ Silent.on /\ ~ Silent.stamped
  BY DEF Silent, BellRow
<1>6. bell \in [Kinds -> BellRow] /\ \A k \in Kinds : bell[k] = Silent
  BY <1>3, <1>5
<1>7. IsHandler(AtRest) /\ AtRest.pc = "idle"
  BY DEF AtRest, IsHandler, Kinds
<1>8. DOMAIN handler = Handlers /\ \A h \in Handlers : handler[h] = AtRest
  BY <1>3
<1>9. ScheduleTypes
  BY <1>2, <1>3, <1>4, <1>5, <1>6, <1>7, <1>8 DEF ScheduleTypes
<1>10. \A h \in Handlers : ~ Delivers(h)
  BY <1>7, <1>8 DEF Delivers
<1>11. OneAtHand /\ HeardOf /\ ToldOnce
  BY <1>3, <1>10 DEF OneAtHand, HeardOf, ToldOnce
<1>12. StampTold
  BY <1>5, <1>6 DEF StampTold
<1> QED
  BY <1>9, <1>10, <1>11, <1>12 DEF TellInv

(* What an edit may do to a bell: it stamps nothing, and a stamp stays     *)
(* only where the time and the switch do, or where no time is left.        *)
Spares(k, b) ==
  /\ b \in BellRow
  /\ b.stamped => /\ bell[k].stamped
                  /\ b.at = Never \/ (b.at = bell[k].at /\ b.on = bell[k].on)

LEMMA EditTells ==
  ASSUME TellInv, NEW new, \A k \in Kinds : Spares(k, new[k]), Ring(new),
         UNCHANGED <<now, handler, rung, twice, lost, allowed>>,
         IsSchedule(task'), task'.status # "none"
  PROVE  TellInv'
<1> DEFINE arms(k) == \/ new[k].at # bell[k].at \/ new[k].on # bell[k].on
                      \/ bell[k].stamped /\ ~new[k].stamped
           number(k) == bell[k].arming + (IF arms(k) THEN 1 ELSE 0)
<1>0. /\ ScheduleTypes /\ \A h \in Handlers : Delivers(h) => AtHand(h)
      /\ OneAtHand /\ HeardOf /\ StampTold /\ ToldOnce
  BY DEF TellInv
<1>1. \A k \in Kinds : bell[k] \in BellRow /\ new[k] \in BellRow
  BY <1>0 DEF ScheduleTypes, Spares
<1>2. PICK armed \in SUBSET Kinds : \A k \in Kinds : k \in armed <=> arms(k)
  <2>1. {k \in Kinds : arms(k)} \in SUBSET Kinds
    OBVIOUS
  <2> QED
    BY <2>1
<1>3. /\ bell' = [k \in Kinds |-> [new[k] EXCEPT !.arming = number(k)]]
      /\ disturbed' = disturbed \union
           {<<k, number(k)>> : k \in {j \in Kinds : (arms(j) \/ new[j].claim # bell[j].claim) /\ Busy(j) # {}}}
  BY DEF Ring
<1>4. \A k \in Kinds : number(k) = (IF k \in armed THEN bell[k].arming + 1 ELSE bell[k].arming) /\ number(k) \in Nat
  BY <1>1, <1>2 DEF BellRow
<1>5. \A k \in Kinds : k \notin armed =>
        /\ new[k].at = bell[k].at /\ new[k].on = bell[k].on /\ new[k].stamped = bell[k].stamped
  <2> SUFFICES ASSUME NEW k \in Kinds, k \notin armed
               PROVE  new[k].at = bell[k].at /\ new[k].on = bell[k].on /\ new[k].stamped = bell[k].stamped
    OBVIOUS
  <2>1. ~ arms(k)
    BY <1>2
  <2>2. new[k].stamped \in BOOLEAN /\ bell[k].stamped \in BOOLEAN /\ (new[k].stamped => bell[k].stamped)
    BY <1>1 DEF BellRow, Spares
  <2> QED
    BY <2>1, <2>2
<1> HIDE DEF arms, number
<1>6. ASSUME NEW k \in Kinds
      PROVE  /\ bell'[k] \in BellRow /\ bell'[k].arming = number(k)
             /\ bell'[k].at = new[k].at /\ bell'[k].on = new[k].on
             /\ bell'[k].stamped = new[k].stamped /\ bell'[k].claim = new[k].claim
  <2>1. bell'[k] = [new[k] EXCEPT !.arming = number(k)]
    BY <1>3
  <2> QED
    BY <1>1, <1>4, <2>1 DEF BellRow
<1>7. bell' \in [Kinds -> BellRow]
  <2>1. DOMAIN bell' = Kinds /\ bell' = [k \in Kinds |-> bell'[k]]
    BY <1>3
  <2> QED
    BY <1>6, <2>1
<1>8. disturbed \subseteq disturbed'
  BY <1>3
<1>9. ASSUME NEW k \in Kinds, NEW h \in Handlers, Delivers(h), handler[h].kind = k,
             k \in armed \/ new[k].claim # bell[k].claim
      PROVE  <<k, number(k)>> \in disturbed'
  <2>1. h \in Busy(k)
    BY <1>9 DEF Busy, Delivers
  <2> QED
    BY <1>2, <1>3, <1>9, <2>1
<1>10. ScheduleTypes'
  <2>1. \A k \in Kinds : bell'[k].arming = 0 => ~ bell'[k].on /\ ~ bell'[k].stamped
    <3> SUFFICES ASSUME NEW k \in Kinds, bell'[k].arming = 0 PROVE ~ bell'[k].on /\ ~ bell'[k].stamped
      OBVIOUS
    <3>1. k \notin armed /\ bell[k].arming = 0
      BY <1>1, <1>4, <1>6 DEF BellRow
    <3> QED
      BY <1>0, <1>5, <1>6, <3>1 DEF ScheduleTypes
  <2> QED
    BY <1>0, <1>7, <2>1 DEF ScheduleTypes
<1>11. ASSUME NEW h \in Handlers, Delivers(h)' PROVE AtHand(h)'
  <2>1. Delivers(h) /\ AtHand(h)
    BY <1>0, <1>11 DEF Delivers
  <2>2. PICK k \in Kinds, a \in Nat : k = handler[h].kind /\ a = handler[h].arming
    BY <1>0 DEF ScheduleTypes, IsHandler
  <2>3. /\ a <= bell'[k].arming /\ bell[k].arming \in Nat
        /\ a # bell'[k].arming => <<k, bell'[k].arming>> \in disturbed'
    <3>1. a <= bell[k].arming /\ bell[k].arming \in Nat
      BY <1>1, <2>1, <2>2 DEF AtHand, BellRow
    <3>2. CASE k \in armed
      BY <1>4, <1>6, <1>9, <2>1, <2>2, <3>1, <3>2
    <3>3. CASE k \notin armed
      <4>1. bell'[k].arming = bell[k].arming
        BY <1>4, <1>6, <3>3
      <4>2. a # bell[k].arming => <<k, bell[k].arming>> \in disturbed
        BY <2>1, <2>2 DEF AtHand
      <4> QED
        BY <1>8, <3>1, <4>1, <4>2
    <3> QED
      BY <3>2, <3>3
  <2>4. ASSUME a = bell'[k].arming
        PROVE  bell'[k].on /\ (<<k, a>> \notin disturbed' => bell'[k].claim >= handler[h].since + Lease)
    <3>1. a <= bell[k].arming /\ bell[k].arming \in Nat
      BY <1>1, <2>1, <2>2 DEF AtHand, BellRow
    <3>2. k \notin armed /\ a = bell[k].arming /\ number(k) = a
      BY <1>4, <1>6, <2>4, <3>1
    <3>3. bell'[k].on
      BY <1>5, <1>6, <2>1, <2>2, <3>2 DEF AtHand
    <3>4. <<k, a>> \notin disturbed' => bell'[k].claim = bell[k].claim /\ <<k, a>> \notin disturbed
      BY <1>6, <1>8, <1>9, <2>1, <2>2, <3>2
    <3> QED
      BY <2>1, <2>2, <3>2, <3>3, <3>4 DEF AtHand
  <2>5. /\ handler' = handler /\ now' = now /\ rung' = rung /\ lost' = lost
        /\ handler[h].kind = k /\ handler[h].arming = a
    BY <2>2
  <2>6. /\ 1 <= a /\ handler[h].since <= now /\ now <= handler[h].since + MaxRun
        /\ handler[h].pc = "sent" => <<k, a>> \in rung
        /\ handler[h].pc = "sending" /\ <<k, a>> \in rung => <<k, a>> \in lost \cup disturbed'
    BY <1>8, <2>1, <2>5 DEF AtHand
  <2> QED
    BY <2>3, <2>4, <2>5, <2>6 DEF AtHand
<1>12. OneAtHand'
  BY <1>0, <1>8 DEF OneAtHand, Delivers, Of
<1>13. HeardOf'
  <2> SUFFICES ASSUME NEW k \in Kinds, NEW a \in Nat, <<k, a>> \in rung
               PROVE  /\ a <= bell'[k].arming
                      /\ a = bell'[k].arming /\ <<k, a>> \notin lost \cup disturbed' =>
                           bell'[k].stamped \/ \E h \in Handlers : handler[h].pc = "sent" /\ Of(h) = <<k, a>>
    BY DEF HeardOf, Of
  <2>1. a <= bell[k].arming /\ bell[k].arming \in Nat
    BY <1>0, <1>1 DEF HeardOf, BellRow
  <2>2. a <= bell'[k].arming
    BY <1>4, <1>6, <2>1
  <2>3. ASSUME a = bell'[k].arming, <<k, a>> \notin lost \cup disturbed'
        PROVE  bell'[k].stamped \/ \E h \in Handlers : handler[h].pc = "sent" /\ Of(h) = <<k, a>>
    <3>1. k \notin armed /\ a = bell[k].arming
      BY <1>4, <1>6, <2>1, <2>3
    <3>2. bell'[k].stamped = bell[k].stamped
      BY <1>5, <1>6, <3>1
    <3>3. <<k, a>> \notin lost \cup disturbed
      BY <1>8, <2>3
    <3> QED
      BY <1>0, <3>1, <3>2, <3>3 DEF HeardOf
  <2> QED
    BY <2>2, <2>3
<1>14. StampTold'
  <2> SUFFICES ASSUME NEW k \in Kinds, bell'[k].stamped, bell'[k].on, bell'[k].at # Never
               PROVE  <<k, bell'[k].arming>> \in rung \cup disturbed'
    BY DEF StampTold
  <2>1. new[k].stamped /\ new[k].on /\ new[k].at # Never
    BY <1>6
  <2>2. bell[k].stamped /\ new[k].at = bell[k].at /\ new[k].on = bell[k].on
    BY <2>1 DEF Spares
  <2>3. k \notin armed
    BY <1>2, <2>1, <2>2 DEF arms
  <2>4. <<k, bell[k].arming>> \in rung \cup disturbed
    BY <1>0, <2>1, <2>2 DEF StampTold
  <2> QED
    BY <1>4, <1>6, <1>8, <2>3, <2>4
<1>15. ToldOnce'
  BY <1>0, <1>8 DEF ToldOnce
<1> QED
  BY <1>10, <1>11, <1>12, <1>13, <1>14, <1>15 DEF TellInv

LEMMA BellClaimed ==
  ASSUME bell \in [Kinds -> BellRow], NEW k \in Kinds, NEW c \in Nat, bell' = [bell EXCEPT ![k].claim = c]
  PROVE  /\ bell' \in [Kinds -> BellRow] /\ bell'[k].claim = c
         /\ \A j \in Kinds : /\ bell'[j].at = bell[j].at /\ bell'[j].on = bell[j].on
                             /\ bell'[j].stamped = bell[j].stamped /\ bell'[j].arming = bell[j].arming
                             /\ j # k => bell'[j].claim = bell[j].claim
<1>1. PICK b : b = [bell[k] EXCEPT !.claim = c]
  OBVIOUS
<1>2. /\ b \in BellRow /\ b.claim = c /\ b.at = bell[k].at /\ b.on = bell[k].on
      /\ b.stamped = bell[k].stamped /\ b.arming = bell[k].arming
  BY <1>1 DEF BellRow
<1>3. bell' = [bell EXCEPT ![k] = b]
  BY <1>1
<1> QED
  BY <1>2, <1>3

(* A bell keeps its time, switch, stamp and arming, and loses no claim of  *)
(* a handler that may count on it.                                         *)
LEMMA ClaimsTell ==
  ASSUME TellInv, bell' \in [Kinds -> BellRow],
         \A j \in Kinds : /\ bell'[j].at = bell[j].at /\ bell'[j].on = bell[j].on
                          /\ bell'[j].stamped = bell[j].stamped /\ bell'[j].arming = bell[j].arming,
         UNCHANGED <<now, task, rung, twice, disturbed, allowed>>, lost \subseteq lost',
         NEW rests \in SUBSET Handlers,
         DOMAIN handler' = Handlers,
         \A g \in Handlers : handler'[g] = IF g \in rests THEN AtRest ELSE handler[g],
         \A g \in rests : handler[g].pc = "sent" => Of(g) \in lost',
         \A g \in Handlers \ rests : Delivers(g) /\ handler[g].arming = bell[handler[g].kind].arming
                                     /\ Of(g) \notin disturbed =>
           bell'[handler[g].kind].claim >= bell[handler[g].kind].claim
  PROVE  TellInv'
<1>0. /\ ScheduleTypes /\ \A h \in Handlers : Delivers(h) => AtHand(h)
      /\ OneAtHand /\ HeardOf /\ StampTold /\ ToldOnce
  BY DEF TellInv
<1>1. AtRest.pc = "idle" /\ IsHandler(AtRest)
  BY DEF AtRest, IsHandler, Kinds
<1>2. \A g \in Handlers : Delivers(g)' => g \notin rests /\ Delivers(g) /\ handler'[g] = handler[g]
  BY <1>1 DEF Delivers
<1>3. ScheduleTypes'
  <2>1. \A g \in Handlers : IsHandler(handler'[g])
    BY <1>0, <1>1 DEF ScheduleTypes
  <2> QED
    BY <1>0, <2>1 DEF ScheduleTypes
<1>4. ASSUME NEW h \in Handlers, Delivers(h)' PROVE AtHand(h)'
  <2>1. h \notin rests /\ Delivers(h) /\ AtHand(h) /\ handler'[h] = handler[h]
    BY <1>0, <1>2, <1>4
  <2>2. PICK k \in Kinds, a \in Nat, since \in Nat :
          k = handler[h].kind /\ a = handler[h].arming /\ since = handler[h].since
    BY <1>0 DEF ScheduleTypes, IsHandler
  <2>3. a = bell[k].arming /\ <<k, a>> \notin disturbed => bell'[k].claim >= since + Lease
    <3> SUFFICES ASSUME a = bell[k].arming, <<k, a>> \notin disturbed PROVE bell'[k].claim >= since + Lease
      OBVIOUS
    <3>1. bell[k].claim >= since + Lease
      BY <2>1, <2>2 DEF AtHand
    <3>2. bell'[k].claim >= bell[k].claim
      BY <2>1, <2>2 DEF Of
    <3>3. bell[k].claim \in Nat /\ bell'[k].claim \in Nat
      BY <1>0 DEF ScheduleTypes, BellRow
    <3> QED
      BY <3>1, <3>2, <3>3, DeliveryAssumption
  <2>4. /\ 1 <= a /\ a <= bell[k].arming /\ since <= now /\ now <= since + MaxRun
        /\ a # bell[k].arming => <<k, bell[k].arming>> \in disturbed
        /\ a = bell[k].arming => bell[k].on
        /\ handler[h].pc = "sent" => <<k, a>> \in rung
        /\ handler[h].pc = "sending" /\ <<k, a>> \in rung => <<k, a>> \in lost' \cup disturbed
    BY <2>1, <2>2 DEF AtHand
  <2>5. /\ handler'[h].kind = k /\ handler'[h].arming = a /\ handler'[h].since = since
        /\ handler'[h].pc = handler[h].pc
        /\ bell'[k].arming = bell[k].arming /\ bell'[k].on = bell[k].on
    BY <2>1, <2>2
  <2> QED
    BY <2>3, <2>4, <2>5 DEF AtHand
<1>5. OneAtHand'
  BY <1>0, <1>2 DEF OneAtHand, Of
<1>6. HeardOf'
  <2> SUFFICES ASSUME NEW k \in Kinds, NEW a \in Nat, <<k, a>> \in rung
               PROVE  /\ a <= bell[k].arming
                      /\ a = bell[k].arming /\ <<k, a>> \notin lost' \cup disturbed =>
                           bell[k].stamped \/ \E h \in Handlers : handler'[h].pc = "sent" /\ Of(h)' = <<k, a>>
    BY DEF HeardOf
  <2>1. a <= bell[k].arming
    BY <1>0 DEF HeardOf
  <2>2. ASSUME a = bell[k].arming, <<k, a>> \notin lost' \cup disturbed, ~ bell[k].stamped
        PROVE  \E h \in Handlers : handler'[h].pc = "sent" /\ Of(h)' = <<k, a>>
    <3>1. <<k, a>> \notin lost \cup disturbed
      BY <2>2
    <3>2. PICK h \in Handlers : handler[h].pc = "sent" /\ Of(h) = <<k, a>>
      BY <1>0, <2>2, <3>1 DEF HeardOf
    <3>3. h \notin rests
      BY <2>2, <3>2
    <3>4. handler'[h] = handler[h]
      BY <3>3
    <3> QED
      BY <3>2, <3>4 DEF Of
  <2> QED
    BY <2>1, <2>2
<1>7. StampTold' /\ ToldOnce'
  BY <1>0 DEF StampTold, ToldOnce
<1> QED
  BY <1>3, <1>4, <1>5, <1>6, <1>7 DEF TellInv

LEMMA ClaimTells ==
  ASSUME TellInv, NEW h \in Handlers, ~ Delivers(h), NEW k \in Kinds, NEW fire,
         RingsNow(bell[k]), Claim(h, k, fire),
         UNCHANGED <<now, task, rung, twice, lost, disturbed, allowed>>
  PROVE  TellInv'
<1>0. /\ ScheduleTypes /\ \A g \in Handlers : Delivers(g) => AtHand(g)
      /\ OneAtHand /\ HeardOf /\ StampTold /\ ToldOnce
  BY DEF TellInv
<1>1. PICK x : x = [pc |-> "sending", kind |-> k, arming |-> bell[k].arming, fire |-> fire, since |-> now]
  OBVIOUS
<1>2. bell[k] \in BellRow /\ bell[k].arming \in Nat /\ bell[k].claim \in Nat /\ now \in Nat /\ now + Lease \in Nat
  BY <1>0, DeliveryAssumption DEF ScheduleTypes, BellRow
<1>3. /\ x.pc = "sending" /\ x.kind = k /\ x.arming = bell[k].arming /\ x.since = now /\ IsHandler(x)
  BY <1>1, <1>2 DEF IsHandler
<1>4. DOMAIN handler' = Handlers /\ \A g \in Handlers : handler'[g] = IF g = h THEN x ELSE handler[g]
  BY <1>0, <1>1 DEF Claim, ScheduleTypes
<1>5. /\ bell' \in [Kinds -> BellRow] /\ bell'[k].claim = now + Lease
      /\ \A j \in Kinds : /\ bell'[j].at = bell[j].at /\ bell'[j].on = bell[j].on
                          /\ bell'[j].stamped = bell[j].stamped /\ bell'[j].arming = bell[j].arming
                          /\ j # k => bell'[j].claim = bell[j].claim
  <2>1. bell \in [Kinds -> BellRow] /\ bell' = [bell EXCEPT ![k].claim = now + Lease]
    BY <1>0 DEF Claim, ScheduleTypes
  <2> QED
    BY <1>2, <2>1, BellClaimed
<1>6. bell[k].on /\ ~ bell[k].stamped /\ bell[k].claim < now /\ 1 <= bell[k].arming
  <2>1. bell[k].on /\ ~ bell[k].stamped /\ bell[k].claim < now
    BY DEF RingsNow, Unclaimed
  <2>2. bell[k].arming # 0
    BY <1>0, <2>1 DEF ScheduleTypes
  <2> QED
    BY <1>2, <2>1, <2>2
<1>7. ASSUME NEW g \in Handlers, Delivers(g), Of(g) = <<k, bell[k].arming>>
      PROVE  <<k, bell[k].arming>> \in disturbed
  <2>1. AtHand(g) /\ handler[g].kind = k /\ handler[g].arming = bell[k].arming
    BY <1>0, <1>7 DEF Of
  <2>2. PICK since \in Nat : since = handler[g].since
    BY <1>0 DEF ScheduleTypes, IsHandler
  <2>3. now <= since + MaxRun
    BY <2>1, <2>2 DEF AtHand
  <2>4. <<k, bell[k].arming>> \notin disturbed => bell[k].claim >= since + Lease
    BY <2>1, <2>2 DEF AtHand
  <2> QED
    BY <1>2, <1>6, <2>3, <2>4, DeliveryAssumption
<1>8. \A g \in Handlers : g # h => (Delivers(g)' <=> Delivers(g)) /\ Of(g)' = Of(g) /\ handler'[g] = handler[g]
  BY <1>4 DEF Delivers, Of
<1>9. Of(h)' = <<k, bell[k].arming>>
  BY <1>3, <1>4 DEF Of
<1>10. ScheduleTypes'
  <2>1. \A g \in Handlers : IsHandler(handler'[g])
    BY <1>0, <1>3, <1>4 DEF ScheduleTypes
  <2> QED
    BY <1>0, <1>4, <1>5, <2>1 DEF ScheduleTypes
<1>11. AtHand(h)'
  <2>1. <<k, bell[k].arming>> \in rung => <<k, bell[k].arming>> \in lost \cup disturbed
    <3> SUFFICES ASSUME <<k, bell[k].arming>> \in rung, <<k, bell[k].arming>> \notin lost \cup disturbed
                 PROVE  FALSE
      OBVIOUS
    <3>1. PICK g \in Handlers : handler[g].pc = "sent" /\ Of(g) = <<k, bell[k].arming>>
      BY <1>0, <1>2, <1>6 DEF HeardOf
    <3> QED
      BY <1>7, <3>1 DEF Delivers
  <2>2. /\ handler'[h].kind = k /\ handler'[h].arming = bell[k].arming /\ handler'[h].since = now
        /\ handler'[h].pc = "sending"
    BY <1>3, <1>4
  <2>3. now <= now + MaxRun /\ bell[k].arming <= bell[k].arming
    BY <1>2, DeliveryAssumption
  <2> QED
    BY <1>2, <1>5, <1>6, <2>1, <2>2, <2>3 DEF AtHand
<1>12. ASSUME NEW g \in Handlers, g # h, Delivers(g)' PROVE AtHand(g)'
  <2>1. Delivers(g) /\ AtHand(g) /\ handler'[g] = handler[g]
    BY <1>0, <1>8, <1>12
  <2>2. PICK j \in Kinds, a \in Nat, since \in Nat :
          j = handler[g].kind /\ a = handler[g].arming /\ since = handler[g].since
    BY <1>0 DEF ScheduleTypes, IsHandler
  <2>3. a = bell[j].arming /\ <<j, a>> \notin disturbed => bell'[j].claim >= since + Lease
    <3>1. CASE j = k
      BY <1>7, <2>1, <2>2, <3>1 DEF Of
    <3>2. CASE j # k
      BY <1>5, <2>1, <2>2, <3>2 DEF AtHand
    <3> QED
      BY <3>1, <3>2
  <2>4. /\ 1 <= a /\ a <= bell[j].arming /\ since <= now /\ now <= since + MaxRun
        /\ a # bell[j].arming => <<j, bell[j].arming>> \in disturbed
        /\ a = bell[j].arming => bell[j].on
        /\ handler[g].pc = "sent" => <<j, a>> \in rung
        /\ handler[g].pc = "sending" /\ <<j, a>> \in rung => <<j, a>> \in lost \cup disturbed
    BY <2>1, <2>2 DEF AtHand
  <2>5. /\ handler'[g].kind = j /\ handler'[g].arming = a /\ handler'[g].since = since
        /\ handler'[g].pc = handler[g].pc
        /\ bell'[j].arming = bell[j].arming /\ bell'[j].on = bell[j].on
    BY <1>5, <2>1, <2>2
  <2> QED
    BY <2>3, <2>4, <2>5 DEF AtHand
<1>13. OneAtHand'
  <2> SUFFICES ASSUME NEW f \in Handlers, NEW g \in Handlers, Delivers(f)', Delivers(g)', Of(f)' = Of(g)',
                      Of(g)' \notin disturbed
               PROVE  f = g
    BY DEF OneAtHand
  <2>1. CASE f # h /\ g # h
    BY <1>0, <1>8, <2>1 DEF OneAtHand
  <2>2. CASE f = h /\ g # h
    BY <1>7, <1>8, <1>9, <2>2
  <2>3. CASE f # h /\ g = h
    BY <1>7, <1>8, <1>9, <2>3
  <2> QED
    BY <2>1, <2>2, <2>3
<1>14. HeardOf'
  <2>1. \A g \in Handlers : handler[g].pc = "sent" => handler'[g] = handler[g] /\ Of(g)' = Of(g)
    BY <1>8 DEF Delivers
  <2> SUFFICES ASSUME NEW j \in Kinds, NEW a \in Nat, <<j, a>> \in rung
               PROVE  /\ a <= bell[j].arming
                      /\ a = bell[j].arming /\ <<j, a>> \notin lost \cup disturbed =>
                           bell[j].stamped \/ \E g \in Handlers : handler'[g].pc = "sent" /\ Of(g)' = <<j, a>>
    BY <1>5 DEF HeardOf
  <2>2. a <= bell[j].arming
    BY <1>0 DEF HeardOf
  <2>3. ASSUME a = bell[j].arming, <<j, a>> \notin lost \cup disturbed, ~ bell[j].stamped
        PROVE  \E g \in Handlers : handler'[g].pc = "sent" /\ Of(g)' = <<j, a>>
    <3>1. PICK g \in Handlers : handler[g].pc = "sent" /\ Of(g) = <<j, a>>
      BY <1>0, <2>3 DEF HeardOf
    <3> QED
      BY <2>1, <3>1
  <2> QED
    BY <2>2, <2>3
<1>15. StampTold' /\ ToldOnce'
  BY <1>0, <1>5 DEF StampTold, ToldOnce
<1>16. \A g \in Handlers : Delivers(g)' => AtHand(g)'
  BY <1>11, <1>12
<1> QED
  BY <1>10, <1>13, <1>14, <1>15, <1>16 DEF TellInv

(* Nobody else at work counts on the claim of the arming h is at.          *)
LEMMA OthersOffClaim ==
  ASSUME TellInv, NEW h \in Handlers, Delivers(h), NEW g \in Handlers, g # h, Delivers(g),
         handler[g].kind = handler[h].kind, handler[g].arming = bell[handler[g].kind].arming
  PROVE  Of(g) \in disturbed
<1>1. AtHand(h) /\ OneAtHand
  BY DEF TellInv
<1>2. CASE handler[h].arming = bell[handler[h].kind].arming
  BY <1>1, <1>2 DEF OneAtHand, Of
<1>3. CASE handler[h].arming # bell[handler[h].kind].arming
  BY <1>1, <1>3 DEF AtHand, Of
<1> QED
  BY <1>2, <1>3

LEMMA HandlerRests ==
  ASSUME TellInv, NEW h \in Handlers, Rest(h)
  PROVE  /\ {h} \in SUBSET Handlers /\ DOMAIN handler' = Handlers
         /\ \A g \in Handlers : handler'[g] = IF g \in {h} THEN AtRest ELSE handler[g]
BY DEF TellInv, ScheduleTypes, Rest

LEMMA FireTells ==
  ASSUME TellInv, FiresKnown, NEW h \in Handlers, Fire(h) \/ Sweep(h)
  PROVE  TellInv'
<1>0. /\ ScheduleTypes /\ ~ Delivers(h)
      /\ UNCHANGED <<now, task, rung, twice, lost, disturbed, allowed>>
  BY DEF TellInv, Fire, Sweep, Delivering, Delivers
<1>1. ASSUME NEW k \in Kinds, NEW fire, RingsNow(bell[k]), Claim(h, k, fire) PROVE TellInv'
  BY <1>0, <1>1, ClaimTells
<1>2. CASE Sweep(h)
  BY <1>1, <1>2 DEF Sweep
<1>3. CASE Fire(h)
  <2>1. PICK f \in fires :
          IF RingsNow(bell[f.kind]) /\ Open THEN Claim(h, f.kind, {f}) /\ UNCHANGED fires
          ELSE /\ fires' = fires \ {f} /\ UNCHANGED handler
               /\ bell' = IF RingsNow(bell[f.kind]) /\ f.kind = "multi"
                          THEN [bell EXCEPT !["multi"].claim = now + Lease] ELSE bell
    BY <1>3 DEF Fire
  <2>2. CASE RingsNow(bell[f.kind]) /\ Open
    <3>1. f.kind \in Kinds
      BY DEF FiresKnown, IsFire
    <3> QED
      BY <1>1, <2>1, <2>2, <3>1
  <2>3. CASE ~ (RingsNow(bell[f.kind]) /\ Open)
    <3>1. /\ bell \in [Kinds -> BellRow] /\ {} \in SUBSET Handlers /\ DOMAIN handler' = Handlers
          /\ \A g \in Handlers : handler'[g] = IF g \in {} THEN AtRest ELSE handler[g]
      BY <1>0, <2>1, <2>3 DEF ScheduleTypes
    <3>2. CASE bell' = bell
      <4>1. \A j \in Kinds : /\ bell'[j].at = bell[j].at /\ bell'[j].on = bell[j].on
                             /\ bell'[j].stamped = bell[j].stamped /\ bell'[j].arming = bell[j].arming
        BY <3>2
      <4>2. \A g \in Handlers : Delivers(g) => handler[g].kind \in Kinds
        BY <1>0 DEF ScheduleTypes, IsHandler
      <4>3. \A g \in Handlers : Delivers(g) => bell'[handler[g].kind].claim >= bell[handler[g].kind].claim
        <5>1. \A j \in Kinds : bell[j].claim \in Nat
          BY <3>1 DEF BellRow
        <5> QED
          BY <3>2, <4>2, <5>1
      <4> QED
        BY <1>0, <3>1, <3>2, <4>1, <4>3, ClaimsTell
    <3>3. CASE bell' # bell
      <4>1. /\ f.kind = "multi" /\ "multi" \in Kinds /\ RingsNow(bell["multi"])
            /\ bell' = [bell EXCEPT !["multi"].claim = now + Lease]
        BY <2>1, <2>3, <3>3 DEF Kinds
      <4>2. now \in Nat /\ now + Lease \in Nat /\ \A j \in Kinds : bell[j].claim \in Nat
        BY <1>0, DeliveryAssumption DEF ScheduleTypes, BellRow
      <4>3. /\ bell' \in [Kinds -> BellRow] /\ bell'["multi"].claim = now + Lease
            /\ \A j \in Kinds : /\ bell'[j].at = bell[j].at /\ bell'[j].on = bell[j].on
                                /\ bell'[j].stamped = bell[j].stamped /\ bell'[j].arming = bell[j].arming
                                /\ j # "multi" => bell'[j].claim = bell[j].claim
        BY <3>1, <4>1, <4>2, BellClaimed
      <4>4. bell["multi"].claim < now
        BY <4>1 DEF RingsNow, Unclaimed
      <4>5. \A j \in Kinds : bell'[j].claim >= bell[j].claim
        <5>1. now + Lease >= bell["multi"].claim
          BY <4>1, <4>2, <4>4, DeliveryAssumption
        <5> QED
          BY <4>2, <4>3, <5>1
      <4>6. \A g \in Handlers : Delivers(g) => handler[g].kind \in Kinds
        BY <1>0 DEF ScheduleTypes, IsHandler
      <4> QED
        BY <1>0, <3>1, <4>3, <4>5, <4>6, ClaimsTell
    <3> QED
      BY <3>2, <3>3
  <2> QED
    BY <2>2, <2>3
<1> QED
  BY <1>2, <1>3

LEMMA FailTells ==
  ASSUME TellInv, NEW h \in Handlers, handler[h].pc = "sending",
         bell' = [bell EXCEPT ![handler[h].kind].claim = 0], Rest(h), UNCHANGED <<rung, twice, lost>>, Delivering
  PROVE  TellInv'
<1>0. ScheduleTypes /\ Delivers(h)
  BY DEF TellInv, Delivers
<1>1. PICK k \in Kinds : k = handler[h].kind
  BY <1>0 DEF ScheduleTypes, IsHandler
<1>2. /\ bell' \in [Kinds -> BellRow]
      /\ \A j \in Kinds : /\ bell'[j].at = bell[j].at /\ bell'[j].on = bell[j].on
                          /\ bell'[j].stamped = bell[j].stamped /\ bell'[j].arming = bell[j].arming
                          /\ j # k => bell'[j].claim = bell[j].claim
  <2>1. bell \in [Kinds -> BellRow] /\ bell' = [bell EXCEPT ![k].claim = 0] /\ 0 \in Nat
    BY <1>0, <1>1 DEF ScheduleTypes
  <2> QED
    BY <2>1, BellClaimed
<1>3. \A g \in Handlers \ {h} : Delivers(g) /\ handler[g].arming = bell[handler[g].kind].arming
                                /\ Of(g) \notin disturbed =>
        bell'[handler[g].kind].claim >= bell[handler[g].kind].claim
  <2> SUFFICES ASSUME NEW g \in Handlers \ {h}, Delivers(g), handler[g].arming = bell[handler[g].kind].arming,
                      Of(g) \notin disturbed
               PROVE  bell'[handler[g].kind].claim >= bell[handler[g].kind].claim
    OBVIOUS
  <2>1. handler[g].kind # k
    BY <1>0, <1>1, OthersOffClaim
  <2>2. handler[g].kind \in Kinds
    BY <1>0 DEF ScheduleTypes, IsHandler
  <2>3. bell[handler[g].kind].claim \in Nat
    BY <1>0, <2>2 DEF ScheduleTypes, BellRow
  <2> QED
    BY <1>2, <2>1, <2>2, <2>3
<1>4. /\ UNCHANGED <<now, task, rung, twice, disturbed, allowed>> /\ lost \subseteq lost'
      /\ \A g \in {h} : handler[g].pc = "sent" => Of(g) \in lost'
  BY DEF Delivering
<1> QED
  BY <1>2, <1>3, <1>4, HandlerRests, ClaimsTell

LEMMA AbortTells ==
  ASSUME TellInv, NEW h \in Handlers, Abort(h)
  PROVE  TellInv'
<1>0. ScheduleTypes
  BY DEF TellInv
<1>1. /\ UNCHANGED <<bell, now, task, rung, twice, disturbed, allowed>> /\ lost \subseteq lost'
      /\ \A g \in {h} : handler[g].pc = "sent" => Of(g) \in lost'
  BY DEF Abort, Delivering
<1>2. /\ bell' \in [Kinds -> BellRow]
      /\ \A j \in Kinds : /\ bell'[j].at = bell[j].at /\ bell'[j].on = bell[j].on
                          /\ bell'[j].stamped = bell[j].stamped /\ bell'[j].arming = bell[j].arming
  BY <1>0, <1>1 DEF ScheduleTypes
<1>3. \A g \in Handlers \ {h} : bell'[handler[g].kind].claim >= bell[handler[g].kind].claim
  <2> SUFFICES ASSUME NEW g \in Handlers PROVE bell'[handler[g].kind].claim >= bell[handler[g].kind].claim
    OBVIOUS
  <2>1. PICK j \in Kinds : j = handler[g].kind
    BY <1>0 DEF ScheduleTypes, IsHandler
  <2>2. bell[j].claim \in Nat
    BY <1>0 DEF ScheduleTypes, BellRow
  <2> QED
    BY <1>1, <2>1, <2>2
<1>4. /\ {h} \in SUBSET Handlers /\ DOMAIN handler' = Handlers
      /\ \A g \in Handlers : handler'[g] = IF g \in {h} THEN AtRest ELSE handler[g]
  BY HandlerRests DEF Abort
<1> QED
  BY <1>1, <1>2, <1>3, <1>4, ClaimsTell

LEMMA SentTells ==
  ASSUME TellInv, NEW h \in Handlers, handler[h].pc = "sending",
         rung' = rung \union {Of(h)}, twice' = (IF Of(h) \in rung THEN twice \union {Of(h)} ELSE twice),
         handler' = [handler EXCEPT ![h].pc = "sent"], UNCHANGED <<bell, lost>>, Delivering
  PROVE  TellInv'
<1>0. /\ ScheduleTypes /\ \A g \in Handlers : Delivers(g) => AtHand(g)
      /\ OneAtHand /\ HeardOf /\ StampTold /\ ToldOnce
      /\ Delivers(h) /\ UNCHANGED <<now, task, disturbed, allowed>>
  BY DEF TellInv, Delivers, Delivering
<1>1. PICK x : x = [handler[h] EXCEPT !.pc = "sent"]
  OBVIOUS
<1>2. PICK k \in Kinds, a \in Nat, since \in Nat :
        k = handler[h].kind /\ a = handler[h].arming /\ since = handler[h].since
  BY <1>0 DEF ScheduleTypes, IsHandler
<1>3. x.pc = "sent" /\ x.kind = k /\ x.arming = a /\ x.since = since /\ IsHandler(x)
  <2>1. handler[h] \in [pc : {"idle", "sending", "sent"}, kind : Kinds, arming : Nat,
                        fire : {handler[h].fire}, since : Nat]
    BY <1>0 DEF ScheduleTypes, IsHandler
  <2> QED
    BY <1>1, <1>2, <2>1 DEF IsHandler
<1>4. DOMAIN handler' = Handlers /\ \A g \in Handlers : handler'[g] = IF g = h THEN x ELSE handler[g]
  BY <1>0, <1>1 DEF ScheduleTypes
<1>5. \A g \in Handlers : (Delivers(g)' <=> Delivers(g)) /\ Of(g)' = Of(g)
  BY <1>0, <1>2, <1>3, <1>4 DEF Delivers, Of
<1>6. ScheduleTypes'
  <2>1. \A g \in Handlers : IsHandler(handler'[g])
    BY <1>0, <1>3, <1>4 DEF ScheduleTypes
  <2> QED
    BY <1>0, <1>4, <2>1 DEF ScheduleTypes
<1>7. ASSUME NEW g \in Handlers, Delivers(g)' PROVE AtHand(g)'
  <2>1. Delivers(g) /\ AtHand(g)
    BY <1>0, <1>5, <1>7
  <2>2. PICK j \in Kinds, b \in Nat, since_g \in Nat :
          j = handler[g].kind /\ b = handler[g].arming /\ since_g = handler[g].since
    BY <1>0 DEF ScheduleTypes, IsHandler
  <2>3. /\ handler'[g].kind = j /\ handler'[g].arming = b /\ handler'[g].since = since_g
        /\ g # h => handler'[g].pc = handler[g].pc
        /\ g = h => handler'[g].pc = "sent" /\ <<j, b>> = Of(h)
    BY <1>2, <1>3, <1>4, <2>2 DEF Of
  <2>4. /\ 1 <= b /\ b <= bell[j].arming /\ since_g <= now /\ now <= since_g + MaxRun
        /\ b # bell[j].arming => <<j, bell[j].arming>> \in disturbed
        /\ b = bell[j].arming => bell[j].on
        /\ b = bell[j].arming /\ <<j, b>> \notin disturbed => bell[j].claim >= since_g + Lease
    BY <2>1, <2>2 DEF AtHand
  <2>5. handler'[g].pc = "sent" => <<j, b>> \in rung'
    BY <2>1, <2>2, <2>3 DEF AtHand
  <2>6. handler'[g].pc = "sending" /\ <<j, b>> \in rung' => <<j, b>> \in lost \cup disturbed
    <3> SUFFICES ASSUME handler'[g].pc = "sending", <<j, b>> \in rung' PROVE <<j, b>> \in lost \cup disturbed
      OBVIOUS
    <3>1. g # h /\ handler[g].pc = "sending"
      BY <2>3
    <3>2. CASE <<j, b>> \in rung
      BY <2>1, <2>2, <3>1, <3>2 DEF AtHand
    <3>3. CASE <<j, b>> = Of(h)
      BY <1>0, <2>1, <2>2, <3>1, <3>3 DEF OneAtHand, Of
    <3> QED
      BY <3>2, <3>3
  <2>7. UNCHANGED <<bell, now, disturbed, lost>>
    BY <1>0
  <2> QED
    BY <2>3, <2>4, <2>5, <2>6, <2>7 DEF AtHand
<1>8. OneAtHand'
  BY <1>0, <1>5 DEF OneAtHand
<1>9. HeardOf'
  <2> SUFFICES ASSUME NEW j \in Kinds, NEW b \in Nat, <<j, b>> \in rung'
               PROVE  /\ b <= bell[j].arming
                      /\ b = bell[j].arming /\ <<j, b>> \notin lost \cup disturbed =>
                           bell[j].stamped \/ \E g \in Handlers : handler'[g].pc = "sent" /\ Of(g)' = <<j, b>>
    BY <1>0 DEF HeardOf
  <2>1. CASE <<j, b>> = Of(h)
    <3>1. j = k /\ b = a
      BY <1>2, <2>1 DEF Of
    <3>2. b <= bell[j].arming
      BY <1>0, <1>2, <3>1 DEF AtHand
    <3>3. handler'[h].pc = "sent" /\ Of(h)' = <<j, b>>
      BY <1>3, <1>4, <1>5, <2>1
    <3> QED
      BY <3>2, <3>3
  <2>2. CASE <<j, b>> \in rung
    <3>1. \A g \in Handlers : handler[g].pc = "sent" => handler'[g].pc = "sent"
      BY <1>3, <1>4
    <3> QED
      BY <1>0, <1>5, <2>2, <3>1 DEF HeardOf
  <2> QED
    BY <2>1, <2>2
<1>10. StampTold'
  BY <1>0 DEF StampTold
<1>11. ToldOnce'
  <2>1. Of(h) \in rung => Of(h) \in lost \cup disturbed
    BY <1>0 DEF AtHand, Of
  <2> QED
    BY <1>0, <2>1 DEF ToldOnce
<1> QED
  BY <1>6, <1>7, <1>8, <1>9, <1>10, <1>11 DEF TellInv

LEMMA StampTells ==
  ASSUME TellInv, NEW h \in Handlers, Stamp(h)
  PROVE  TellInv'
<1>0. /\ ScheduleTypes /\ \A g \in Handlers : Delivers(g) => AtHand(g)
      /\ OneAtHand /\ HeardOf /\ StampTold /\ ToldOnce /\ AtHand(h)
      /\ Delivers(h) /\ handler[h].pc = "sent" /\ Rest(h)
      /\ UNCHANGED <<now, task, rung, twice, lost, disturbed, allowed>>
  BY DEF TellInv, Delivers, Delivering, Stamp
<1>1. PICK k \in Kinds, a \in Nat : k = handler[h].kind /\ a = handler[h].arming
  BY <1>0 DEF ScheduleTypes, IsHandler
<1>2. /\ DOMAIN handler' = Handlers /\ \A g \in Handlers : handler'[g] = IF g = h THEN AtRest ELSE handler[g]
      /\ AtRest.pc = "idle" /\ IsHandler(AtRest)
  BY <1>0 DEF ScheduleTypes, Rest, AtRest, IsHandler, Kinds
<1>3. \A g \in Handlers : Delivers(g)' => g # h /\ Delivers(g) /\ handler'[g] = handler[g]
  BY <1>2 DEF Delivers
<1>4. bell \in [Kinds -> BellRow] /\ bell[k] \in BellRow
  BY <1>0 DEF ScheduleTypes
<1>5. PICK c \in {bell[k].claim, 0} :
        /\ bell' \in [Kinds -> BellRow] /\ bell'[k].claim = c
        /\ \A j \in Kinds : /\ bell'[j].at = bell[j].at /\ bell'[j].on = bell[j].on
                            /\ bell'[j].arming = bell[j].arming
                            /\ j # k => bell'[j] = bell[j]
        /\ bell'[k].stamped \/ (~ bell[k].on /\ bell'[k].stamped = bell[k].stamped)
  <2>1. CASE /\ bell' = bell
             /\ (k = "multi" /\ ~bell[k].on) \/ (handler[h].fire # {} /\ bell[k].stamped)
    BY <1>4, <2>1
  <2>2. CASE bell' = [bell EXCEPT ![k].stamped = TRUE, ![k].claim = 0]
    <3>1. PICK b : b = [bell[k] EXCEPT !.stamped = TRUE, !.claim = 0]
      OBVIOUS
    <3>2. /\ b \in BellRow /\ b.claim = 0 /\ b.at = bell[k].at /\ b.on = bell[k].on
          /\ b.stamped = TRUE /\ b.arming = bell[k].arming
      BY <1>4, <3>1 DEF BellRow
    <3>3. bell' = [bell EXCEPT ![k] = b]
      BY <1>4, <2>2, <3>1
    <3>4. bell'[k] = b /\ bell' \in [Kinds -> BellRow] /\ \A j \in Kinds : j # k => bell'[j] = bell[j]
      BY <1>4, <3>2, <3>3
    <3> QED
      BY <3>2, <3>4
  <2> QED
    BY <1>1, <2>1, <2>2 DEF Stamp
<1>6. a = bell[k].arming => bell[k].on
  BY <1>0, <1>1 DEF AtHand
<1>7. ScheduleTypes'
  <2>1. \A g \in Handlers : IsHandler(handler'[g])
    BY <1>0, <1>2 DEF ScheduleTypes
  <2>2. bell[k].arming # 0
    <3>1. 1 <= a /\ a <= bell[k].arming /\ bell[k].arming \in Nat
      BY <1>0, <1>1, <1>4 DEF AtHand, BellRow
    <3> QED
      BY <3>1
  <2>3. \A j \in Kinds : bell'[j].arming = 0 => ~ bell'[j].on /\ ~ bell'[j].stamped
    BY <1>0, <1>5, <2>2 DEF ScheduleTypes
  <2>4. task'.status = "none" => \A j \in Kinds : bell'[j].arming = 0
    BY <1>0, <1>5 DEF ScheduleTypes
  <2> QED
    BY <1>0, <1>2, <1>5, <2>1, <2>3, <2>4 DEF ScheduleTypes
<1>8. ASSUME NEW g \in Handlers, Delivers(g)' PROVE AtHand(g)'
  <2>1. g # h /\ Delivers(g) /\ AtHand(g) /\ handler'[g] = handler[g]
    BY <1>0, <1>3, <1>8
  <2>2. PICK j \in Kinds, b \in Nat, since \in Nat :
          j = handler[g].kind /\ b = handler[g].arming /\ since = handler[g].since
    BY <1>0 DEF ScheduleTypes, IsHandler
  <2>3. b = bell[j].arming /\ <<j, b>> \notin disturbed => bell'[j].claim >= since + Lease
    <3>1. CASE j = k
      BY <1>0, <1>1, <2>1, <2>2, <3>1, OthersOffClaim DEF Of
    <3>2. CASE j # k
      BY <1>5, <2>1, <2>2, <3>2 DEF AtHand
    <3> QED
      BY <3>1, <3>2
  <2>4. /\ 1 <= b /\ b <= bell[j].arming /\ since <= now /\ now <= since + MaxRun
        /\ b # bell[j].arming => <<j, bell[j].arming>> \in disturbed
        /\ b = bell[j].arming => bell[j].on
        /\ handler[g].pc = "sent" => <<j, b>> \in rung
        /\ handler[g].pc = "sending" /\ <<j, b>> \in rung => <<j, b>> \in lost \cup disturbed
    BY <2>1, <2>2 DEF AtHand
  <2>5. /\ handler'[g].kind = j /\ handler'[g].arming = b /\ handler'[g].since = since
        /\ handler'[g].pc = handler[g].pc
        /\ bell'[j].arming = bell[j].arming /\ bell'[j].on = bell[j].on
    BY <1>5, <2>1, <2>2
  <2>6. UNCHANGED <<now, disturbed, rung, lost>>
    BY <1>0
  <2> QED
    BY <2>3, <2>4, <2>5, <2>6 DEF AtHand
<1>9. OneAtHand'
  BY <1>0, <1>3 DEF OneAtHand, Of
<1>10. HeardOf'
  <2> SUFFICES ASSUME NEW j \in Kinds, NEW b \in Nat, <<j, b>> \in rung
               PROVE  /\ b <= bell[j].arming
                      /\ b = bell[j].arming /\ <<j, b>> \notin lost \cup disturbed =>
                           bell'[j].stamped \/ \E g \in Handlers : handler'[g].pc = "sent" /\ Of(g)' = <<j, b>>
    BY <1>0, <1>5 DEF HeardOf
  <2>1. b <= bell[j].arming
    BY <1>0 DEF HeardOf
  <2>2. ASSUME b = bell[j].arming, <<j, b>> \notin lost \cup disturbed, ~ bell'[j].stamped
        PROVE  \E g \in Handlers : handler'[g].pc = "sent" /\ Of(g)' = <<j, b>>
    <3>1. ~ bell[j].stamped
      BY <1>5, <2>2
    <3>2. PICK g \in Handlers : handler[g].pc = "sent" /\ Of(g) = <<j, b>>
      BY <1>0, <2>2, <3>1 DEF HeardOf
    <3>3. g # h
      <4>1. CASE g = h
        <5>1. j = k /\ b = a
          BY <1>1, <3>2, <4>1 DEF Of
        <5> QED
          BY <1>5, <1>6, <2>2, <5>1
      <4> QED
        BY <4>1
    <3>4. handler'[g] = handler[g]
      BY <1>2, <3>3
    <3> QED
      BY <3>2, <3>4 DEF Of
  <2> QED
    BY <2>1, <2>2
<1>11. StampTold'
  <2> SUFFICES ASSUME NEW j \in Kinds, bell'[j].stamped, bell'[j].on, bell'[j].at # Never
               PROVE  <<j, bell[j].arming>> \in rung \cup disturbed
    BY <1>0, <1>5 DEF StampTold
  <2>1. CASE j # k
    BY <1>0, <1>5, <2>1 DEF StampTold
  <2>2. CASE j = k /\ a = bell[k].arming
    BY <1>0, <1>1, <2>2 DEF AtHand
  <2>3. CASE j = k /\ a # bell[k].arming
    BY <1>0, <1>1, <2>3 DEF AtHand
  <2> QED
    BY <2>1, <2>2, <2>3
<1>12. ToldOnce'
  BY <1>0 DEF ToldOnce
<1> QED
  BY <1>7, <1>8, <1>9, <1>10, <1>11, <1>12 DEF TellInv

LEMMA TickTells ==
  ASSUME TellInv, Tick
  PROVE  TellInv'
<1>0. /\ ScheduleTypes /\ \A g \in Handlers : Delivers(g) => AtHand(g)
      /\ OneAtHand /\ HeardOf /\ StampTold /\ ToldOnce
      /\ UNCHANGED <<task, bell, handler, rung, twice, lost, disturbed, allowed>> /\ now' = now + 1
      /\ \A g \in Handlers : Delivers(g) => now - handler[g].since < MaxRun
  BY DEF TellInv, Tick, Delivers
<1>1. ScheduleTypes'
  BY <1>0 DEF ScheduleTypes
<1>2. ASSUME NEW g \in Handlers, Delivers(g)' PROVE AtHand(g)'
  <2>1. Delivers(g) /\ AtHand(g)
    BY <1>0, <1>2 DEF Delivers
  <2>2. PICK since \in Nat : since = handler[g].since
    BY <1>0 DEF ScheduleTypes, IsHandler
  <2>3. since <= now /\ now - since < MaxRun /\ now \in Nat
    BY <1>0, <2>1, <2>2 DEF AtHand, ScheduleTypes
  <2>4. since <= now' /\ now' <= since + MaxRun
    BY <1>0, <2>3, DeliveryAssumption
  <2> QED
    BY <1>0, <2>1, <2>2, <2>4 DEF AtHand
<1>3. OneAtHand' /\ HeardOf' /\ StampTold' /\ ToldOnce'
  BY <1>0 DEF OneAtHand, HeardOf, StampTold, ToldOnce, Delivers, Of
<1> QED
  BY <1>1, <1>2, <1>3 DEF TellInv

LEMMA DatesAreInt ==
  ASSUME NEW t \in Int
  PROVE  Day(t) \in Int /\ WeekOf(t) \in Int /\ MonthOf(t) \in Int
<1>1. DayTicks \in Nat \ {0} /\ WeekDays \in Nat \ {0} /\ MonthDays \in Nat \ {0}
  BY DeliveryAssumption
<1> QED
  BY <1>1 DEF Day, WeekOf, MonthOf

LEMMA AskedAreInt == Asked \subseteq Int /\ Days \subseteq Int /\ Kept \notin Int
<1>1. Asked \subseteq Int /\ Kept \notin Int
  BY ScheduleAssumption
<1> QED
  BY <1>1, DatesAreInt DEF Days

(* The rows an edit writes.                                                *)
LEMMA FitKeeps ==
  ASSUME NEW row, IsSchedule(row), NEW rule
  PROVE  IsSchedule(Fit(row, rule)) /\ Fit(row, rule).status = row.status
<1>1. PICK r : Fit(row, rule) = [row EXCEPT !.rule = r]
  BY DEF Fit
<1> QED
  BY <1>1 DEF IsSchedule

LEMMA DatedKeeps ==
  ASSUME IsSchedule(task), NEW d \in Int
  PROVE  /\ IsSchedule(Dated(d)) /\ Dated(d).status = task.status
         /\ Dated(d).rule = task.rule /\ Dated(d).due = d
BY DEF IsSchedule, Dated

LEMMA DueKeeps ==
  ASSUME NEW row, IsSchedule(row), NEW d \in Int \cup {Never}
  PROVE  /\ IsSchedule([row EXCEPT !.due = d]) /\ [row EXCEPT !.due = d].status = row.status
         /\ [row EXCEPT !.due = d].rule = row.rule
BY DEF IsSchedule

LEMMA RescopedKeeps ==
  ASSUME ScheduleTypes, NEW body, body.due = Kept \/ body.due \in Int,
         body.at \in {Kept, Never} \/ body.at \in Int
  PROVE  /\ IsSchedule(Rescoped(task, body)) /\ Rescoped(task, body).status = task.status
         /\ Rescoped(task, body).rule = task.rule
<1>0. IsSchedule(task) /\ now \in Int
  BY DEF ScheduleTypes
<1>1. PICK byDay : byDay = IF body.due = Kept THEN task
                           ELSE [task EXCEPT !.due = body.due, !.week = IF body.week = Kept THEN Never ELSE @,
                                             !.month = IF body.month = Kept THEN Never ELSE @]
  OBVIOUS
<1>2. IsSchedule(byDay) /\ byDay.status = task.status /\ byDay.rule = task.rule
  <2>1. CASE body.due = Kept
    BY <1>0, <1>1, <2>1
  <2>2. CASE body.due # Kept
    <3>1. PICK w, m : /\ w = (IF body.week = Kept THEN Never ELSE task.week)
                      /\ m = (IF body.month = Kept THEN Never ELSE task.month)
      OBVIOUS
    <3>2. byDay = [task EXCEPT !.due = body.due, !.week = w, !.month = m]
      BY <1>1, <2>2, <3>1
    <3>3. body.due \in Int \cup {Never} /\ w \in Int \cup {Never} /\ m \in Int \cup {Never}
      BY <1>0, <2>2, <3>1 DEF IsSchedule
    <3> QED
      BY <1>0, <3>2, <3>3 DEF IsSchedule
  <2> QED
    BY <2>1, <2>2
<1>3. PICK byTime : byTime = IF body.at \in {Kept, Never} \/ body.due # Kept THEN byDay
                             ELSE [byDay EXCEPT !.due = Day(body.at)]
  OBVIOUS
<1>4. IsSchedule(byTime) /\ byTime.status = task.status /\ byTime.rule = task.rule
  <2>1. CASE body.at \in {Kept, Never} \/ body.due # Kept
    BY <1>2, <1>3, <2>1
  <2>2. CASE ~ (body.at \in {Kept, Never} \/ body.due # Kept)
    <3>1. Day(body.at) \in Int \cup {Never}
      BY <2>2, DatesAreInt
    <3> QED
      BY <1>2, <1>3, <2>2, <3>1, DueKeeps
  <2> QED
    BY <2>1, <2>2
<1>5. PICK byWeek : byWeek = IF body.week = Kept THEN byTime
                             ELSE IF body.week = Never THEN [byTime EXCEPT !.week = Never]
                             ELSE [byTime EXCEPT !.week = WeekOf(Day(now)), !.due = Never, !.month = Never]
  OBVIOUS
<1>6. WeekOf(Day(now)) \in Int /\ MonthOf(Day(now)) \in Int
  BY <1>0, DatesAreInt
<1>7. IsSchedule(byWeek) /\ byWeek.status = task.status /\ byWeek.rule = task.rule
  BY <1>4, <1>5, <1>6 DEF IsSchedule
<1>8. PICK byMonth : byMonth = IF body.month = Kept THEN byWeek
                               ELSE IF body.month = Never THEN [byWeek EXCEPT !.month = Never]
                               ELSE [byWeek EXCEPT !.month = MonthOf(Day(now)), !.due = Never, !.week = Never]
  OBVIOUS
<1>9. IsSchedule(byMonth) /\ byMonth.status = task.status /\ byMonth.rule = task.rule
  BY <1>6, <1>7, <1>8 DEF IsSchedule
<1>10. Rescoped(task, body) = IF body.clearDue = Kept THEN byMonth ELSE [byMonth EXCEPT !.due = Never]
  BY <1>1, <1>3, <1>5, <1>8 DEF Rescoped
<1> QED
  BY <1>9, <1>10 DEF IsSchedule

LEMMA NextAreInt ==
  ASSUME NEW row, IsSchedule(row), Kind(row) # "none", NEW notBefore \in Int
  PROVE  Anchor(row) \in Int /\ NextDates(row, notBefore) \subseteq Int
<1>1. Anchor(row) \in Int
  <2>1. CASE Kind(row) = "day"
    BY <2>1 DEF Anchor, Kind, IsSchedule
  <2>2. CASE Kind(row) = "week"
    BY <2>2 DEF Anchor, Kind, IsSchedule
  <2>3. CASE Kind(row) = "month"
    BY <2>3 DEF Anchor, Kind, IsSchedule
  <2> QED
    BY <2>1, <2>2, <2>3 DEF Kind
<1>2. PICK first \in Int : first = IF notBefore > Anchor(row) THEN notBefore ELSE Anchor(row) + 1
  BY <1>1
<1>3. \A x, y : x .. y \subseteq Int
  OBVIOUS
<1>4. NextDates(row, notBefore) \subseteq Int
  BY <1>2, <1>3 DEF NextDates
<1> QED
  BY <1>1, <1>4

(* The bells an edit writes.                                               *)
LEMMA SparesOne ==
  ASSUME bell \in [Kinds -> BellRow], NEW k \in Kinds, NEW b, Spares(k, b)
  PROVE  \A j \in Kinds : Spares(j, [bell EXCEPT ![k] = b][j])
<1> SUFFICES ASSUME NEW j \in Kinds PROVE Spares(j, [bell EXCEPT ![k] = b][j])
  OBVIOUS
<1>1. CASE j = k
  BY <1>1
<1>2. CASE j # k
  BY <1>2 DEF Spares
<1> QED
  BY <1>1, <1>2

LEMMA SparesAll ==
  ASSUME bell \in [Kinds -> BellRow]
  PROVE  \A j \in Kinds : Spares(j, bell[j])
BY DEF Spares

LEMMA RearmedIs ==
  ASSUME NEW b \in BellRow
  PROVE  Rearmed(b) \in BellRow /\ ~ Rearmed(b).stamped
BY DEF Rearmed, BellRow

LEMMA ShiftedIs ==
  ASSUME NEW b \in BellRow, NEW days \in Int
  PROVE  /\ Shifted(b, days) \in BellRow /\ Shifted(b, days).on = b.on
         /\ Shifted(b, days).stamped = b.stamped
         /\ days = 0 => Shifted(b, days) = b
<1>1. CASE b.at = Never
  BY <1>1 DEF Shifted
<1>2. CASE b.at # Never
  <2>1. PICK at \in Int : at = b.at + days * DayTicks
    BY <1>2, DeliveryAssumption DEF BellRow
  <2>2. Shifted(b, days) = [b EXCEPT !.at = at]
    BY <1>2, <2>1 DEF Shifted
  <2>3. days = 0 => at = b.at
    BY <1>2, <2>1, DeliveryAssumption DEF BellRow
  <2>4. [b EXCEPT !.at = b.at] = b
    BY DEF BellRow
  <2> QED
    BY <2>2, <2>3, <2>4 DEF BellRow
<1> QED
  BY <1>1, <1>2

LEMMA QuietSpares ==
  ASSUME NEW k \in Kinds, NEW b \in BellRow, ~ b.stamped
  PROVE  Spares(k, b)
BY DEF Spares

LEMMA PatchedSpares ==
  ASSUME bell \in [Kinds -> BellRow], allowed.on \subseteq BOOLEAN, NEW body,
         body.at = Kept \/ body.at \in Int \cup {Never}, body.on = Kept \/ body.on \in BOOLEAN
  PROVE  /\ Spares("task", Patched(bell["task"], body))
         /\ Spares("task", [Patched(bell["task"], body) EXCEPT !.at = Never])
<1>1. PICK old \in BellRow : old = bell["task"] /\ "task" \in Kinds
  BY DEF Kinds
<1>2. PICK timed : timed = IF body.at = Kept THEN old
                           ELSE [old EXCEPT !.at = body.at, !.stamped = @ /\ body.at = old.at]
  OBVIOUS
<1>3. /\ timed \in BellRow /\ timed.on = old.on
      /\ timed.stamped => old.stamped /\ timed.at = old.at
  <2>1. CASE body.at = Kept
    BY <1>2, <2>1
  <2>2. CASE body.at # Kept
    <3>1. PICK s \in BOOLEAN : s = (old.stamped /\ body.at = old.at)
      OBVIOUS
    <3>2. timed = [old EXCEPT !.at = body.at, !.stamped = s]
      BY <1>2, <2>2, <3>1
    <3> QED
      BY <2>2, <3>1, <3>2 DEF BellRow
  <2> QED
    BY <2>1, <2>2
<1>4. PICK own : own = Patched(old, body)
  OBVIOUS
<1>5. own = IF body.on = Kept THEN timed ELSE [timed EXCEPT !.on = body.on, !.stamped = @ /\ body.on = old.on]
  BY <1>2, <1>4 DEF Patched
<1>6. own \in BellRow /\ (own.stamped => old.stamped /\ own.at = old.at /\ own.on = old.on)
  <2>1. CASE body.on = Kept
    BY <1>3, <1>5, <2>1
  <2>2. CASE body.on # Kept
    <3>1. PICK s \in BOOLEAN : s = (timed.stamped /\ body.on = old.on)
      OBVIOUS
    <3>2. own = [timed EXCEPT !.on = body.on, !.stamped = s]
      BY <1>5, <2>2, <3>1
    <3>3. /\ own \in BellRow /\ own.on = body.on /\ own.stamped = s /\ own.at = timed.at
      BY <1>3, <2>2, <3>2 DEF BellRow
    <3> QED
      BY <1>3, <3>1, <3>3
  <2> QED
    BY <2>1, <2>2
<1>7. PICK none : none = [own EXCEPT !.at = Never]
  OBVIOUS
<1>8. none \in BellRow /\ none.at = Never /\ none.stamped = own.stamped
  BY <1>6, <1>7 DEF BellRow
<1> QED
  BY <1>1, <1>4, <1>6, <1>7, <1>8 DEF Spares

(* One lemma for each edit.                                                *)
Unsent == UNCHANGED <<now, handler, rung, twice, lost, allowed>>

LEMMA OneBellTells ==
  ASSUME TellInv, NEW k \in Kinds, NEW b, Spares(k, b), Ring([bell EXCEPT ![k] = b]), Unsent,
         IsSchedule(task'), task'.status # "none"
  PROVE  TellInv'
<1>1. bell \in [Kinds -> BellRow]
  BY DEF TellInv, ScheduleTypes
<1>2. PICK new : new = [bell EXCEPT ![k] = b]
  OBVIOUS
<1>3. \A j \in Kinds : Spares(j, new[j])
  BY <1>1, <1>2, SparesOne
<1>4. Ring(new)
  BY <1>2
<1> QED
  BY <1>3, <1>4, EditTells DEF Unsent

LEMMA SameBellsTell ==
  ASSUME TellInv, Ring(bell), Unsent, IsSchedule(task'), task'.status # "none"
  PROVE  TellInv'
<1>1. \A j \in Kinds : Spares(j, bell[j])
  BY SparesAll DEF TellInv, ScheduleTypes
<1>2. PICK new : new = bell
  OBVIOUS
<1>3. Ring(new) /\ \A j \in Kinds : Spares(j, new[j])
  BY <1>1, <1>2
<1> QED
  BY <1>3, EditTells DEF Unsent

LEMMA QuietBellsTell ==
  ASSUME TellInv, NEW new, \A k \in Kinds : new[k] \in BellRow /\ ~ new[k].stamped, Ring(new), Unsent,
         IsSchedule(task'), task'.status # "none"
  PROVE  TellInv'
<1>1. \A k \in Kinds : Spares(k, new[k])
  BY DEF Spares
<1> QED
  BY <1>1, EditTells DEF Unsent

LEMMA NewRowIs ==
  ASSUME NEW due \in Int \cup {Never}, NEW time \in Int \cup {Never},
         NEW week \in Int \cup {Never}, NEW month \in Int \cup {Never},
         week # Never \/ month # Never => time = Never
  PROVE  /\ IsSchedule(NewRow(due, time, week, month)) /\ NewRow(due, time, week, month).status = "open"
         /\ NewRow(due, time, week, month).rule = NoRule
         /\ IsSchedule(ToolRow(due, time, week, month)) /\ ToolRow(due, time, week, month).status = "open"
         /\ ToolRow(due, time, week, month).rule = NoRule
<1>1. ASSUME NEW w \in Int \cup {Never}, w # Never \/ month # Never => time = Never
      PROVE  /\ IsSchedule(NewRow(due, time, w, month)) /\ NewRow(due, time, w, month).status = "open"
             /\ NewRow(due, time, w, month).rule = NoRule
  <2>1. PICK d : d = CASE w # Never \/ month # Never -> Never
                       [] due = Never /\ time # Never -> Day(time) [] OTHER -> due
    OBVIOUS
  <2>2. d \in Int \cup {Never}
    <3>1. CASE w # Never \/ month # Never
      BY <1>1, <2>1, <3>1
    <3>2. CASE ~ (w # Never \/ month # Never) /\ due = Never /\ time # Never
      <4>1. Day(time) \in Int
        BY <3>2, DatesAreInt
      <4> QED
        BY <2>1, <3>2, <4>1
    <3>3. CASE ~ (w # Never \/ month # Never) /\ ~ (due = Never /\ time # Never)
      BY <2>1, <3>3
    <3> QED
      BY <3>1, <3>2, <3>3
  <2>3. NewRow(due, time, w, month) =
          [status |-> "open", week |-> w, month |-> month, rule |-> NoRule, due |-> d]
    BY <2>1 DEF NewRow
  <2> QED
    BY <2>2, <2>3 DEF IsSchedule
<1>2. PICK w \in Int \cup {Never} : w = IF month = Never THEN week ELSE Never
  OBVIOUS
<1>3. ToolRow(due, time, week, month) = NewRow(due, time, w, month)
  BY <1>2 DEF ToolRow
<1>4. w # Never \/ month # Never => time = Never
  BY <1>2
<1>5. /\ IsSchedule(NewRow(due, time, week, month)) /\ NewRow(due, time, week, month).status = "open"
      /\ NewRow(due, time, week, month).rule = NoRule
  BY <1>1
<1>6. /\ IsSchedule(NewRow(due, time, w, month)) /\ NewRow(due, time, w, month).status = "open"
      /\ NewRow(due, time, w, month).rule = NoRule
  BY <1>1, <1>4
<1> QED
  BY <1>3, <1>5, <1>6

LEMMA CreateTells ==
  ASSUME TellInv, Create
  PROVE  TellInv'
<1>0. /\ allowed.on \subseteq BOOLEAN /\ bell \in [Kinds -> BellRow] /\ now \in Int /\ "task" \in Kinds
      /\ ~ bell["task"].stamped /\ Unsent
  BY DEF TellInv, ScheduleTypes, Create, Kinds, Unsent
<1>1. PICK byTool \in BOOLEAN, due \in Days \union {Never}, at \in Asked \union {Never},
           week \in {WeekOf(Day(now)), Never}, month \in {MonthOf(Day(now)), Never},
           on \in allowed.on, rule \in Rules \union {NoRule} :
        LET time == IF week # Never \/ month # Never THEN Never ELSE at
            row == IF byTool THEN ToolRow(due, time, week, month) ELSE NewRow(due, time, week, month)
        IN /\ Accepts(rule, Kind(row))
           /\ task' = Fit(row, rule)
           /\ Ring([bell EXCEPT !["task"].at = time, !["task"].on = on])
           /\ Queue(ReadDue) /\ Excuse
  BY DEF Create
<1>2. PICK time \in Int \cup {Never} : time = IF week # Never \/ month # Never THEN Never ELSE at
  BY AskedAreInt
<1>3. due \in Int \cup {Never} /\ week \in Int \cup {Never} /\ month \in Int \cup {Never}
  <2>1. WeekOf(Day(now)) \in Int /\ MonthOf(Day(now)) \in Int
    BY <1>0, DatesAreInt
  <2> QED
    BY <2>1, AskedAreInt
<1>4. PICK row : row = IF byTool THEN ToolRow(due, time, week, month) ELSE NewRow(due, time, week, month)
  OBVIOUS
<1>5. IsSchedule(row) /\ row.status = "open"
  <2>1. CASE byTool
    BY <1>2, <1>3, <1>4, <2>1, NewRowIs
  <2>2. CASE ~ byTool
    BY <1>2, <1>3, <1>4, <2>2, NewRowIs
  <2> QED
    BY <2>1, <2>2
<1>6. task' = Fit(row, rule) /\ Ring([bell EXCEPT !["task"].at = time, !["task"].on = on])
  BY <1>1, <1>2, <1>4
<1>7. IsSchedule(task') /\ task'.status # "none"
  BY <1>5, <1>6, FitKeeps
<1>8. PICK b : b = [bell["task"] EXCEPT !.at = time, !.on = on]
  OBVIOUS
<1>9. b \in BellRow /\ ~ b.stamped
  BY <1>0, <1>2, <1>8 DEF BellRow
<1>10. [bell EXCEPT !["task"].at = time, !["task"].on = on] = [bell EXCEPT !["task"] = b]
  BY <1>0, <1>8
<1>11. Ring([bell EXCEPT !["task"] = b])
  BY <1>6, <1>10
<1>12. Spares("task", b)
  BY <1>0, <1>9, QuietSpares
<1> QED
  BY <1>0, <1>7, <1>11, <1>12, OneBellTells

LEMMA SendingHas ==
  ASSUME NEW sent, NEW body \in Sending(sent)
  PROVE  /\ body.due = Kept \/ body.due \in Days
         /\ body.at = Kept \/ body.at \in Asked \union {Never}
         /\ body.on = Kept \/ body.on \in allowed.on
<1>1. body.due \in (IF "due" \in sent THEN Days ELSE {Kept})
  BY DEF Sending
<1>2. body.at \in (IF "at" \in sent THEN Asked \union {Never} ELSE {Kept})
  BY DEF Sending
<1>3. body.on \in (IF "on" \in sent THEN allowed.on ELSE {Kept})
  BY DEF Sending
<1> QED
  BY <1>1, <1>2, <1>3

LEMMA EditUnsent ==
  ASSUME TellInv, Edit
  PROVE  /\ Unsent /\ task.status # "none" /\ IsSchedule(task) /\ now \in Int
         /\ bell \in [Kinds -> BellRow] /\ allowed.on \subseteq BOOLEAN
         /\ "task" \in Kinds /\ "multi" \in Kinds
BY DEF TellInv, ScheduleTypes, Edit, Unsent, Kinds

LEMMA PatchTells ==
  ASSUME TellInv, Patch
  PROVE  TellInv'
<1>0. /\ Unsent /\ task.status # "none" /\ IsSchedule(task) /\ ScheduleTypes
      /\ bell \in [Kinds -> BellRow] /\ allowed.on \subseteq BOOLEAN /\ "task" \in Kinds
  BY EditUnsent DEF Patch, TellInv
<1>1. PICK sent \in FieldSets :
        \E body \in Sending(sent) :
          LET scoped == Rescoped(task, body)
              timeless == body.week = 0 \/ body.month = 0
              own == Patched(bell["task"], body)
          IN /\ task' = Fit(scoped, body.rule)
             /\ Ring([bell EXCEPT !["task"] = IF timeless THEN [own EXCEPT !.at = Never] ELSE own])
  BY DEF Patch
<1>2. PICK body \in Sending(sent) :
        LET scoped == Rescoped(task, body)
            timeless == body.week = 0 \/ body.month = 0
            own == Patched(bell["task"], body)
        IN /\ task' = Fit(scoped, body.rule)
           /\ Ring([bell EXCEPT !["task"] = IF timeless THEN [own EXCEPT !.at = Never] ELSE own])
  BY <1>1
<1>3. /\ body.due = Kept \/ body.due \in Int
      /\ body.at = Kept \/ body.at \in Int \cup {Never}
      /\ body.on = Kept \/ body.on \in BOOLEAN
  BY <1>0, SendingHas, AskedAreInt
<1>4. PICK scoped, rule : scoped = Rescoped(task, body) /\ rule = body.rule
  OBVIOUS
<1>5. IsSchedule(scoped) /\ scoped.status = task.status
  BY <1>0, <1>3, <1>4, RescopedKeeps
<1>6. IsSchedule(task') /\ task'.status # "none"
  <2>1. task' = Fit(scoped, rule)
    BY <1>2, <1>4
  <2> QED
    BY <1>0, <1>5, <2>1, FitKeeps
<1>7. /\ Spares("task", Patched(bell["task"], body))
      /\ Spares("task", [Patched(bell["task"], body) EXCEPT !.at = Never])
  BY <1>0, <1>3, PatchedSpares
<1>8. PICK b : b = IF body.week = 0 \/ body.month = 0 THEN [Patched(bell["task"], body) EXCEPT !.at = Never]
                   ELSE Patched(bell["task"], body)
  OBVIOUS
<1>9. Spares("task", b)
  BY <1>7, <1>8
<1>10. Ring([bell EXCEPT !["task"] = b])
  BY <1>2, <1>8
<1> QED
  BY <1>0, <1>6, <1>9, <1>10, OneBellTells

LEMMA SetStatusTells ==
  ASSUME TellInv, SetStatus
  PROVE  TellInv'
<1>1. Unsent /\ IsSchedule(task) /\ Ring(bell)
  BY EditUnsent DEF SetStatus
<1>2. PICK status \in {"open", "done", "scratched"} : task' = [task EXCEPT !.status = status]
  BY DEF SetStatus
<1>3. IsSchedule(task') /\ task'.status # "none"
  BY <1>1, <1>2 DEF IsSchedule
<1> QED
  BY <1>1, <1>3, SameBellsTell

LEMMA UpdateTaskToolTells ==
  ASSUME TellInv, UpdateTaskTool
  PROVE  TellInv'
<1>1. Unsent /\ IsSchedule(task) /\ task.status # "none" /\ Ring(bell)
  BY EditUnsent DEF UpdateTaskTool
<1>2. PICK due \in Days \union {Kept}, rule \in Rules \union {NoRule, Kept} :
        task' = Fit(IF due = Kept THEN task ELSE Dated(due), rule)
  BY DEF UpdateTaskTool
<1>3. PICK row : row = IF due = Kept THEN task ELSE Dated(due)
  OBVIOUS
<1>4. IsSchedule(row) /\ row.status = task.status
  <2>1. CASE due = Kept
    BY <1>1, <1>3, <2>1
  <2>2. CASE due # Kept
    BY <1>1, <1>3, <2>2, DatedKeeps, AskedAreInt
  <2> QED
    BY <2>1, <2>2
<1>5. task' = Fit(row, rule)
  BY <1>2, <1>3
<1>6. IsSchedule(task') /\ task'.status # "none"
  BY <1>1, <1>4, <1>5, FitKeeps
<1> QED
  BY <1>1, <1>6, SameBellsTell

LEMMA MovedQuiet ==
  ASSUME NEW b \in BellRow, NEW days \in Int
  PROVE  Rearmed(Shifted(b, days)) \in BellRow /\ ~ Rearmed(Shifted(b, days)).stamped
BY ShiftedIs, RearmedIs

LEMMA RescheduleTaskDateTells ==
  ASSUME TellInv, RescheduleTaskDate
  PROVE  TellInv'
<1>0. /\ Unsent /\ task.status # "none" /\ IsSchedule(task) /\ task.due \in Int
      /\ bell \in [Kinds -> BellRow] /\ "task" \in Kinds
  BY EditUnsent DEF RescheduleTaskDate, IsSchedule
<1>1. PICK target \in {d \in Days : d >= Day(now)}, at \in Asked \union {Never, Kept} :
        LET moved == [k \in Kinds |-> Rearmed(Shifted(bell[k], target - task.due))]
            new == CASE at = Kept -> moved
                     [] at = Never -> [moved EXCEPT !["task"].at = Never, !["task"].on = FALSE]
                     [] OTHER -> [moved EXCEPT !["task"].at = at]
        IN /\ at \notin {Kept, Never} => Day(at) = target
           /\ \A k \in Kinds : Ahead(new[k])
           /\ task' = Dated(target)
           /\ Ring(new)
           /\ Queue(ReadDue \union {k \in {"multi"} : new[k].on})
           /\ Excuse
  BY DEF RescheduleTaskDate
<1>2. PICK moved : moved = [k \in Kinds |-> Rearmed(Shifted(bell[k], target - task.due))]
  OBVIOUS
<1>3. \A k \in Kinds : moved[k] \in BellRow /\ ~ moved[k].stamped
  <2> SUFFICES ASSUME NEW k \in Kinds PROVE moved[k] \in BellRow /\ ~ moved[k].stamped
    OBVIOUS
  <2>1. PICK days \in Int : days = target - task.due
    BY <1>0, AskedAreInt
  <2>2. PICK b \in BellRow : b = bell[k]
    BY <1>0
  <2>3. moved[k] = Rearmed(Shifted(b, days))
    BY <1>2, <2>1, <2>2
  <2> QED
    BY <2>3, MovedQuiet
<1>4. PICK new : new = CASE at = Kept -> moved
                         [] at = Never -> [moved EXCEPT !["task"].at = Never, !["task"].on = FALSE]
                         [] OTHER -> [moved EXCEPT !["task"].at = at]
  OBVIOUS
<1>5. new \in {moved, [moved EXCEPT !["task"].at = Never, !["task"].on = FALSE], [moved EXCEPT !["task"].at = at]}
      /\ (new = [moved EXCEPT !["task"].at = at] => new = moved \/ at \in Int \cup {Never})
  BY <1>4, AskedAreInt
<1>6. \A k \in Kinds : new[k] \in BellRow /\ ~ new[k].stamped
  <2>1. CASE new = moved
    BY <1>3, <2>1
  <2>2. CASE new = [moved EXCEPT !["task"].at = Never, !["task"].on = FALSE]
    BY <1>0, <1>2, <1>3, <2>2 DEF BellRow
  <2>3. CASE new = [moved EXCEPT !["task"].at = at] /\ at \in Int \cup {Never}
    BY <1>0, <1>2, <1>3, <2>3 DEF BellRow
  <2> QED
    BY <1>5, <2>1, <2>2, <2>3
<1>7. task' = Dated(target) /\ Ring(new)
  BY <1>1, <1>2, <1>4
<1>8. IsSchedule(task') /\ task'.status # "none"
  BY <1>0, <1>7, DatedKeeps, AskedAreInt
<1> QED
  BY <1>0, <1>6, <1>7, <1>8, QuietBellsTell

LEMMA AddTaskTells ==
  ASSUME TellInv, AddTask
  PROVE  TellInv'
<1>0. /\ Unsent /\ task.status # "none" /\ IsSchedule(task)
      /\ bell \in [Kinds -> BellRow] /\ "task" \in Kinds
  BY EditUnsent DEF AddTask
<1>1. PICK d \in Days :
        LET old == bell["task"]
            at == IF old.at = Never THEN Never ELSE (d * DayTicks) + (old.at % DayTicks)
        IN /\ task' = Dated(d)
           /\ Ring([bell EXCEPT !["task"] = [old EXCEPT !.at = at, !.stamped = @ /\ at = old.at]])
           /\ Queue({k \in {"task"} : old.on /\ at # Never /\ at > now /\ Open})
           /\ Excuse
  BY DEF AddTask
<1>2. PICK old \in BellRow : old = bell["task"]
  BY <1>0
<1>3. PICK at \in Int \cup {Never} : at = IF old.at = Never THEN Never ELSE (d * DayTicks) + (old.at % DayTicks)
  <2>1. CASE old.at = Never
    BY <2>1
  <2>2. CASE old.at # Never
    <3>1. d \in Int /\ old.at \in Int /\ DayTicks \in Nat \ {0}
      BY <2>2, AskedAreInt, DeliveryAssumption DEF BellRow
    <3>2. d * DayTicks \in Int /\ old.at % DayTicks \in Int
      BY <3>1
    <3> QED
      BY <2>2, <3>2
  <2> QED
    BY <2>1, <2>2
<1>4. PICK s \in BOOLEAN : s = (old.stamped /\ at = old.at)
  OBVIOUS
<1>5. PICK b : b = [old EXCEPT !.at = at, !.stamped = s]
  OBVIOUS
<1>6. b \in BellRow /\ b.stamped = s /\ b.at = at /\ b.on = old.on
  BY <1>5 DEF BellRow
<1>7. Spares("task", b)
  BY <1>2, <1>4, <1>6 DEF Spares
<1>8. Ring([bell EXCEPT !["task"] = b]) /\ task' = Dated(d)
  BY <1>1, <1>2, <1>3, <1>4, <1>5
<1>9. IsSchedule(task') /\ task'.status # "none"
  BY <1>0, <1>8, DatedKeeps, AskedAreInt
<1> QED
  BY <1>0, <1>7, <1>8, <1>9, OneBellTells

LEMMA AddTaskReminderTells ==
  ASSUME TellInv, AddTaskReminder
  PROVE  TellInv'
<1>0. /\ Unsent /\ task.status # "none" /\ IsSchedule(task)
      /\ bell \in [Kinds -> BellRow] /\ "multi" \in Kinds
  BY EditUnsent DEF AddTaskReminder
<1>1. PICK at \in Asked : Ring([bell EXCEPT !["multi"].at = at, !["multi"].on = TRUE])
  BY DEF AddTaskReminder
<1>2. ~ bell["multi"].stamped
  BY <1>0 DEF AddTaskReminder, TellInv, ScheduleTypes
<1>3. PICK b : b = [bell["multi"] EXCEPT !.at = at, !.on = TRUE]
  OBVIOUS
<1>4. b \in BellRow /\ ~ b.stamped
  BY <1>0, <1>2, <1>3, AskedAreInt DEF BellRow
<1>5. [bell EXCEPT !["multi"].at = at, !["multi"].on = TRUE] = [bell EXCEPT !["multi"] = b]
  BY <1>0, <1>3
<1>6. Ring([bell EXCEPT !["multi"] = b])
  BY <1>1, <1>5
<1>7. Spares("multi", b)
  BY <1>0, <1>4, QuietSpares
<1>8. task' = task
  BY DEF AddTaskReminder
<1> QED
  BY <1>0, <1>6, <1>7, <1>8, OneBellTells

LEMMA DeleteTaskReminderTells ==
  ASSUME TellInv, DeleteTaskReminder
  PROVE  TellInv'
<1>0. Unsent /\ task.status # "none" /\ IsSchedule(task) /\ "multi" \in Kinds
  BY EditUnsent DEF DeleteTaskReminder
<1>1. PICK b : b = Silent
  OBVIOUS
<1>2. b \in BellRow /\ ~ b.stamped
  BY <1>1 DEF Silent, BellRow
<1>3. Ring([bell EXCEPT !["multi"] = b]) /\ task' = task
  BY <1>1 DEF DeleteTaskReminder
<1>4. Spares("multi", b)
  BY <1>0, <1>2, QuietSpares
<1> QED
  BY <1>0, <1>3, <1>4, OneBellTells

LEMMA AdvanceTells ==
  ASSUME TellInv, NEW skip \in BOOLEAN, Advance(skip), Unsent
  PROVE  TellInv'
<1>0. /\ IsSchedule(task) /\ bell \in [Kinds -> BellRow] /\ now \in Int /\ "task" \in Kinds
      /\ Kind(task) # "none"
  BY DEF TellInv, ScheduleTypes, Advance, Kinds
<1> DEFINE kind == Kind(task)
           from == Anchor(task)
           period == CASE kind = "week" -> WeekOf(Day(now)) [] kind = "month" -> MonthOf(Day(now))
                       [] OTHER -> Day(now)
           notBefore == IF skip /\ kind = "day" /\ from >= period THEN from + 1 ELSE period
<1>1. from \in Int
  BY <1>0, NextAreInt
<1>2. period \in Int
  <2>1. Day(now) \in Int /\ WeekOf(Day(now)) \in Int /\ MonthOf(Day(now)) \in Int
    BY <1>0, DatesAreInt
  <2> QED
    BY <2>1
<1>3. notBefore \in Int
  BY <1>1, <1>2
<1>4. PICK next \in NextDates(task, notBefore) :
        LET moved == [k \in Kinds |-> Rearmed(Shifted(bell[k], next - from))]
            new == IF kind = "day" THEN moved ELSE [moved EXCEPT !["task"].at = Never]
        IN /\ task' = [task EXCEPT !.status = "open",
                          !.due = IF kind = "day" THEN next ELSE Never,
                          !.week = IF kind = "week" THEN next ELSE Never,
                          !.month = IF kind = "month" THEN next ELSE Never]
           /\ Ring(new)
           /\ Queue({k \in Kinds : /\ new[k].on /\ new[k].at # Never
                                   /\ k = "task" \/ new[k].at > now})
           /\ Excuse
  BY DEF Advance
<1>5. next \in Int
  <2>1. PICK first \in Int : first = notBefore
    BY <1>3
  <2> QED
    BY <1>0, <2>1, NextAreInt
<1>6. PICK moved : moved = [k \in Kinds |-> Rearmed(Shifted(bell[k], next - from))]
  OBVIOUS
<1> HIDE DEF notBefore, period
<1>7. \A k \in Kinds : moved[k] \in BellRow /\ ~ moved[k].stamped
  <2> SUFFICES ASSUME NEW k \in Kinds PROVE moved[k] \in BellRow /\ ~ moved[k].stamped
    OBVIOUS
  <2>1. PICK days \in Int : days = next - from
    BY <1>1, <1>5
  <2>2. PICK b \in BellRow : b = bell[k]
    BY <1>0
  <2>3. moved[k] = Rearmed(Shifted(b, days))
    BY <1>6, <2>1, <2>2
  <2> QED
    BY <2>3, MovedQuiet
<1>8. PICK new : new = IF kind = "day" THEN moved ELSE [moved EXCEPT !["task"].at = Never]
  OBVIOUS
<1>9. \A k \in Kinds : new[k] \in BellRow /\ ~ new[k].stamped
  <2>1. CASE new = moved
    BY <1>7, <2>1
  <2>2. CASE new = [moved EXCEPT !["task"].at = Never]
    BY <1>0, <1>6, <1>7, <2>2 DEF BellRow
  <2> QED
    BY <1>8, <2>1, <2>2
<1>10. PICK d, w, m : /\ d = (IF kind = "day" THEN next ELSE Never)
                      /\ w = (IF kind = "week" THEN next ELSE Never)
                      /\ m = (IF kind = "month" THEN next ELSE Never)
  OBVIOUS
<1>11. Ring(new) /\ task' = [task EXCEPT !.status = "open", !.due = d, !.week = w, !.month = m]
  BY <1>4, <1>6, <1>8, <1>10
<1>12. IsSchedule(task') /\ task'.status # "none"
  BY <1>0, <1>5, <1>10, <1>11 DEF IsSchedule
<1> QED
  BY <1>9, <1>11, <1>12, QuietBellsTell

LEMMA RescheduleTaskToolTells ==
  ASSUME TellInv, RescheduleTaskTool
  PROVE  /\ TellInv' /\ \E some \in SUBSET {"multi"} : Queue(ReadDue \union some)
         /\ Excuse /\ (task' = task \/ \E d \in Int : task' = Dated(d))
<1>0. /\ Unsent /\ task.status # "none" /\ IsSchedule(task) /\ allowed.on \subseteq BOOLEAN
      /\ bell \in [Kinds -> BellRow] /\ "task" \in Kinds /\ "multi" \in Kinds
  BY EditUnsent DEF RescheduleTaskTool
<1>1. PICK due \in Days \union {Kept}, at \in Asked \union {Kept}, on \in allowed.on \union {Kept} :
        LET d == IF due = Kept /\ at # Kept THEN Day(at) ELSE due
            delta == IF d = Kept \/ task.due = Never THEN 0 ELSE d - task.due
            timed == IF at # Kept THEN [bell["task"] EXCEPT !.at = at] ELSE Shifted(bell["task"], delta)
            armed == IF d = Kept THEN timed ELSE Rearmed(timed)
            switched == IF on = Kept THEN armed
                        ELSE [armed EXCEPT !.on = on, !.stamped = @ /\ on = armed.on, !.claim = 0]
            extra == IF delta = 0 THEN bell["multi"] ELSE Rearmed(Shifted(bell["multi"], delta))
        IN /\ ~(due = Kept /\ at = Kept /\ on = Kept)
           /\ d # Kept => d >= Day(now)
           /\ at # Kept => Day(at) = d
           /\ Ahead(switched) /\ (delta # 0 => Ahead(extra))
           /\ task' = IF d = Kept THEN task ELSE Dated(d)
           /\ Ring([k \in Kinds |-> IF k = "task" THEN switched ELSE extra])
           /\ Queue(ReadDue \union {k \in {"multi"} : delta # 0 /\ extra.on})
           /\ Excuse
  BY DEF RescheduleTaskTool
<1>2. PICK d : d = IF due = Kept /\ at # Kept THEN Day(at) ELSE due
  OBVIOUS
<1>3. PICK delta : delta = IF d = Kept \/ task.due = Never THEN 0 ELSE d - task.due
  OBVIOUS
<1>4. PICK own, more : own = bell["task"] /\ more = bell["multi"]
  OBVIOUS
<1>5. PICK timed : timed = IF at # Kept THEN [own EXCEPT !.at = at] ELSE Shifted(own, delta)
  OBVIOUS
<1>6. PICK armed : armed = IF d = Kept THEN timed ELSE Rearmed(timed)
  OBVIOUS
<1>7. PICK switched : switched = IF on = Kept THEN armed
                                 ELSE [armed EXCEPT !.on = on, !.stamped = @ /\ on = armed.on, !.claim = 0]
  OBVIOUS
<1>8. PICK extra : extra = IF delta = 0 THEN more ELSE Rearmed(Shifted(more, delta))
  OBVIOUS
<1>9. PICK new : new = [k \in Kinds |-> IF k = "task" THEN switched ELSE extra]
  OBVIOUS
<1>10. (task' = IF d = Kept THEN task ELSE Dated(d)) /\ Ring(new)
  BY <1>1, <1>2, <1>3, <1>4, <1>5, <1>6, <1>7, <1>8, <1>9
<1>11. /\ at = Kept \/ at \in Int
       /\ d = Kept => at = Kept
       /\ d # Kept => d \in Int
  <2>1. due = Kept \/ due \in Int
    BY AskedAreInt
  <2>2. at = Kept \/ at \in Int
    BY AskedAreInt
  <2>3. at # Kept => Day(at) \in Int
    BY <2>2, DatesAreInt
  <2> QED
    BY <1>2, <2>1, <2>2, <2>3, AskedAreInt
<1>12. delta \in Int /\ (d = Kept => delta = 0)
  BY <1>0, <1>3, <1>11 DEF IsSchedule
<1>13. own \in BellRow /\ more \in BellRow
  BY <1>0, <1>4
<1>14. timed \in BellRow /\ (d = Kept => timed = own)
  <2>1. Shifted(own, delta) \in BellRow /\ (delta = 0 => Shifted(own, delta) = own)
    BY <1>12, <1>13, ShiftedIs
  <2>2. at # Kept => [own EXCEPT !.at = at] \in BellRow
    BY <1>11, <1>13 DEF BellRow
  <2> QED
    BY <1>5, <1>11, <1>12, <2>1, <2>2
<1>15. armed \in BellRow /\ (armed.stamped => armed = own)
  BY <1>6, <1>14, RearmedIs
<1>16. switched \in BellRow /\ switched.at = armed.at /\ (switched.stamped => armed.stamped /\ switched.on = armed.on)
  <2>1. CASE on = Kept
    BY <1>7, <1>15, <2>1
  <2>2. CASE on # Kept
    <3>1. PICK s \in BOOLEAN : s = (armed.stamped /\ on = armed.on)
      OBVIOUS
    <3>2. switched = [armed EXCEPT !.on = on, !.stamped = s, !.claim = 0]
      BY <1>7, <2>2, <3>1
    <3>3. on \in BOOLEAN
      BY <1>0, <2>2
    <3>4. /\ switched \in BellRow /\ switched.at = armed.at
          /\ switched.stamped = s /\ switched.on = on
      BY <1>15, <3>2, <3>3 DEF BellRow
    <3> QED
      BY <3>1, <3>4
  <2> QED
    BY <2>1, <2>2
<1>17. Spares("task", switched)
  <2>1. switched.stamped => own.stamped /\ switched.at = own.at /\ switched.on = own.on
    BY <1>15, <1>16
  <2> QED
    BY <1>4, <1>16, <2>1 DEF Spares
<1>18. Spares("multi", extra)
  <2>1. CASE delta = 0
    BY <1>4, <1>8, <1>13, <2>1 DEF Spares
  <2>2. CASE delta # 0
    BY <1>0, <1>8, <1>12, <1>13, <2>2, MovedQuiet, QuietSpares
  <2> QED
    BY <2>1, <2>2
<1>19. \A k \in Kinds : Spares(k, new[k])
  BY <1>9, <1>17, <1>18 DEF Kinds
<1>20. IsSchedule(task') /\ task'.status # "none"
  <2>1. d \in Int => IsSchedule(Dated(d)) /\ Dated(d).status = task.status
    BY <1>0, DatedKeeps
  <2> QED
    BY <1>0, <1>10, <1>11, <2>1
<1>21. \E some \in SUBSET {"multi"} : Queue(ReadDue \union some)
  <2>1. PICK some : some = {k \in {"multi"} : delta # 0 /\ extra.on}
    OBVIOUS
  <2>2. Queue(ReadDue \union some)
    BY <1>1, <1>2, <1>3, <1>4, <1>8, <2>1
  <2> QED
    BY <2>1, <2>2
<1>22. Excuse /\ (task' = task \/ \E moved \in Int : task' = Dated(moved))
  <2>1. Excuse
    BY <1>1
  <2> QED
    BY <1>10, <1>11, <2>1
<1> QED
  BY <1>0, <1>10, <1>19, <1>20, <1>21, <1>22, EditTells DEF Unsent

(* Fires.                                                                  *)
LEMMA FiresKnownInit == ScheduleInit => FiresKnown
<1> SUFFICES ASSUME ScheduleInit PROVE FiresKnown
  OBVIOUS
<1>1. fires = {} /\ \A h \in Handlers : handler[h] = AtRest
  BY DEF ScheduleInit
<1> QED
  BY <1>1 DEF FiresKnown, AtRest

LEMMA QueueKeepsFires ==
  ASSUME FiresKnown, NEW due \in SUBSET Kinds, Queue(due), handler' = handler
  PROVE  FiresKnown'
<1>1. PICK some \in SUBSET due : fires' = fires \union {[kind |-> k, at |-> bell'[k].at] : k \in some}
  BY DEF Queue
<1>2. \A f \in fires' : IsFire(f)
  BY <1>1 DEF FiresKnown, IsFire
<1> QED
  BY <1>2 DEF FiresKnown

LEMMA ReadDueAreKinds == ReadDue \in SUBSET Kinds
BY DEF ReadDue, Kinds

LEMMA EditsKeepFires ==
  ASSUME TellInv, FiresKnown,
         \/ Create \/ Patch \/ SetStatus \/ RescheduleTaskDate \/ RescheduleTaskTool \/ UpdateTaskTool
         \/ AddTask \/ Skip \/ RepeatSweep \/ AddTaskReminder \/ DeleteTaskReminder
  PROVE  FiresKnown'
<1>1. handler' = handler
  BY DEF Create, Patch, SetStatus, RescheduleTaskDate, RescheduleTaskTool, UpdateTaskTool, AddTask,
         Skip, RepeatSweep, Advance, AddTaskReminder, DeleteTaskReminder, Edit
<1>2. ReadDue \in SUBSET Kinds /\ {} \in SUBSET Kinds /\ {"multi"} \in SUBSET Kinds
  BY ReadDueAreKinds DEF Kinds
<1>3. \E due \in SUBSET Kinds : Queue(due)
  <2>1. CASE Create
    <3>1. Queue(ReadDue)
      BY <2>1 DEF Create
    <3> QED
      BY <1>2, <3>1
  <2>2. CASE Patch
    <3>1. PICK sent \in FieldSets : Queue(IF sent \cap {"at", "on"} # {} THEN ReadDue ELSE {})
      BY <2>2 DEF Patch
    <3> QED
      BY <1>2, <3>1
  <2>3. CASE SetStatus \/ UpdateTaskTool \/ DeleteTaskReminder
    <3>1. Queue({})
      BY <2>3 DEF SetStatus, UpdateTaskTool, DeleteTaskReminder
    <3> QED
      BY <1>2, <3>1
  <2>4. CASE AddTaskReminder
    <3>1. Queue({"multi"})
      BY <2>4 DEF AddTaskReminder
    <3> QED
      BY <1>2, <3>1
  <2>5. CASE RescheduleTaskDate
    <3>1. \E some \in SUBSET {"multi"} : Queue(ReadDue \union some)
      BY <2>5 DEF RescheduleTaskDate
    <3> QED
      BY <1>2, <3>1
  <2>6. CASE RescheduleTaskTool
    <3>1. \E some \in SUBSET {"multi"} : Queue(ReadDue \union some)
      BY <2>6, RescheduleTaskToolTells
    <3> QED
      BY <1>2, <3>1
  <2>7. CASE AddTask
    <3>1. \E some \in SUBSET {"task"} : Queue(some)
      BY <2>7 DEF AddTask
    <3> QED
      BY <3>1 DEF Kinds
  <2>8. CASE Skip \/ RepeatSweep
    <3>1. \E skip \in BOOLEAN : Advance(skip)
      BY <2>8 DEF Skip, RepeatSweep
    <3> QED
      BY <3>1 DEF Advance
  <2> QED
    BY <2>1, <2>2, <2>3, <2>4, <2>5, <2>6, <2>7, <2>8
<1> QED
  BY <1>1, <1>3, QueueKeepsFires

LEMMA RetriedAreFires ==
  ASSUME FiresKnown, NEW h \in Handlers
  PROVE  \A f \in Retried(h) : IsFire(f)
<1>1. \A f \in handler[h].fire : IsFire([f EXCEPT !.at = now])
  BY DEF FiresKnown, IsFire
<1> QED
  BY <1>1 DEF Retried, FiresKnown

LEMMA DeliveryKeepsFires ==
  ASSUME FiresKnown, DOMAIN handler = Handlers, NEW h \in Handlers,
         Fire(h) \/ Sweep(h) \/ Attempt(h) \/ Stamp(h) \/ Abort(h)
  PROVE  FiresKnown'
<1>1. \A f \in fires' : IsFire(f)
  <2>1. CASE fires' \subseteq fires
    BY <2>1 DEF FiresKnown
  <2>2. CASE fires' = Retried(h)
    BY <2>2, RetriedAreFires
  <2>3. fires' \subseteq fires \/ fires' = Retried(h)
    BY DEF Fire, Sweep, Attempt, Stamp, Abort
  <2> QED
    BY <2>1, <2>2, <2>3
<1>2. handler'[h].fire \in {{}, handler[h].fire} \cup {{f} : f \in fires}
  <2>1. CASE Fire(h)
    <3>1. PICK f \in fires : handler' = handler \/ Claim(h, f.kind, {f})
      BY <2>1 DEF Fire
    <3> QED
      BY <3>1 DEF Claim
  <2>2. CASE Sweep(h)
    BY <2>2 DEF Sweep, Claim
  <2>3. CASE Attempt(h)
    <3>1. CASE handler' = [handler EXCEPT ![h].pc = "sent"]
      <4>1. handler'[h] = [handler[h] EXCEPT !.pc = "sent"]
        BY <3>1
      <4> QED
        BY <4>1
    <3>2. CASE Rest(h)
      BY <3>2 DEF Rest, AtRest
    <3> QED
      BY <2>3, <3>1, <3>2 DEF Attempt
  <2>4. CASE Stamp(h) \/ Abort(h)
    <3>1. Rest(h)
      BY <2>4 DEF Stamp, Abort
    <3> QED
      BY <3>1 DEF Rest, AtRest
  <2> QED
    BY <2>1, <2>2, <2>3, <2>4
<1>3. \A g \in Handlers : g # h => handler'[g] = handler[g]
  BY DEF Fire, Sweep, Attempt, Stamp, Abort, Claim, Rest
<1>4. \A f \in handler'[h].fire : IsFire(f)
  BY <1>2 DEF FiresKnown
<1> QED
  BY <1>1, <1>3, <1>4 DEF FiresKnown

(* The steps together.                                                     *)
TellingInv == TellInv /\ FiresKnown

LEMMA TellingNext ==
  ASSUME TellingInv, [ScheduleNext]_scheduleVars
  PROVE  TellingInv'
<1>0. TellInv /\ FiresKnown /\ DOMAIN handler = Handlers
  BY DEF TellingInv, TellInv, ScheduleTypes
<1>1. CASE \/ Create \/ Patch \/ SetStatus \/ RescheduleTaskDate \/ RescheduleTaskTool \/ UpdateTaskTool
           \/ AddTask \/ Skip \/ RepeatSweep \/ AddTaskReminder \/ DeleteTaskReminder
  <2>1. FiresKnown'
    BY <1>0, <1>1, EditsKeepFires
  <2>2. CASE Skip
    <3>1. Advance(TRUE) /\ Unsent
      BY <2>2 DEF Skip, Edit, Unsent
    <3> QED
      BY <1>0, <2>1, <3>1, AdvanceTells DEF TellingInv
  <2>3. CASE RepeatSweep
    <3>1. Advance(FALSE) /\ Unsent
      BY <2>3 DEF RepeatSweep, Advance, Unsent
    <3> QED
      BY <1>0, <2>1, <2>3, <3>1, AdvanceTells DEF TellingInv
  <2>4. CASE \/ Create \/ Patch \/ SetStatus \/ RescheduleTaskDate \/ RescheduleTaskTool \/ UpdateTaskTool
             \/ AddTask \/ AddTaskReminder \/ DeleteTaskReminder
    BY <1>0, <2>1, <2>4, CreateTells, PatchTells, SetStatusTells, RescheduleTaskDateTells,
       RescheduleTaskToolTells, UpdateTaskToolTells, AddTaskTells, AddTaskReminderTells,
       DeleteTaskReminderTells DEF TellingInv
  <2> QED
    BY <1>1, <2>2, <2>3, <2>4
<1>2. ASSUME NEW h \in Handlers, Fire(h) \/ Sweep(h) \/ Attempt(h) \/ Stamp(h) \/ Abort(h)
      PROVE  TellingInv'
  <2>1. FiresKnown'
    BY <1>0, <1>2, DeliveryKeepsFires
  <2>2. CASE Fire(h) \/ Sweep(h)
    BY <1>0, <2>1, <2>2, FireTells DEF TellingInv
  <2>3. CASE Attempt(h)
    <3>1. handler[h].pc = "sending" /\ UNCHANGED lost /\ Delivering
      BY <2>3 DEF Attempt
    <3>2. CASE /\ rung' = rung \union {Of(h)}
               /\ twice' = (IF Of(h) \in rung THEN twice \union {Of(h)} ELSE twice)
               /\ handler' = [handler EXCEPT ![h].pc = "sent"] /\ UNCHANGED bell
      BY <1>0, <2>1, <3>1, <3>2, SentTells DEF TellingInv
    <3>3. CASE /\ bell' = [bell EXCEPT ![handler[h].kind].claim = 0]
               /\ Rest(h) /\ UNCHANGED <<rung, twice>>
      BY <1>0, <2>1, <3>1, <3>3, FailTells DEF TellingInv
    <3> QED
      BY <2>3, <3>2, <3>3 DEF Attempt
  <2>4. CASE Stamp(h)
    BY <1>0, <2>1, <2>4, StampTells DEF TellingInv
  <2>5. CASE Abort(h)
    BY <1>0, <2>1, <2>5, AbortTells DEF TellingInv
  <2> QED
    BY <1>2, <2>2, <2>3, <2>4, <2>5
<1>3. CASE Tick
  <2>1. FiresKnown'
    BY <1>0, <1>3 DEF Tick, FiresKnown
  <2> QED
    BY <1>0, <1>3, <2>1, TickTells DEF TellingInv
<1>4. CASE UNCHANGED scheduleVars
  <2>1. UNCHANGED <<now, task, bell, fires, handler, rung, twice, lost, disturbed, allowed>>
    BY <1>4 DEF scheduleVars
  <2>2. FiresKnown'
    BY <1>0, <2>1 DEF FiresKnown
  <2>3. ScheduleTypes'
    BY <1>0, <2>1 DEF TellInv, ScheduleTypes
  <2>4. \A h \in Handlers : Delivers(h)' => AtHand(h)'
    BY <1>0, <2>1 DEF TellInv, Delivers, AtHand
  <2>5. OneAtHand' /\ HeardOf' /\ StampTold' /\ ToldOnce'
    BY <1>0, <2>1 DEF TellInv, OneAtHand, HeardOf, StampTold, ToldOnce, Delivers, Of
  <2> QED
    BY <2>2, <2>3, <2>4, <2>5 DEF TellingInv, TellInv
<1> QED
  BY <1>1, <1>2, <1>3, <1>4 DEF ScheduleNext

(* A reminder counts as sent only if somebody was told of it at the time   *)
(* and switch it has, and no handler tells a second time what was told,    *)
(* whatever edits, retries and deliveries interleave: the claim outlasts   *)
(* every request.  Left out are the armings an edit replaced or unclaimed  *)
(* under a handler at work and, for the second telling, a handler that     *)
(* died before its stamp.                                                  *)
THEOREM RemindersToldOnce == ScheduleSpec => []ToldOfItsTime
<1>1. ScheduleInit => TellingInv
  BY TellInvInit, FiresKnownInit DEF TellingInv
<1>2. TellingInv /\ [ScheduleNext]_scheduleVars => TellingInv'
  BY TellingNext
<1>3. TellingInv => ToldOfItsTime
  BY DEF TellingInv, TellInv, ToldOfItsTime
<1> QED
  BY <1>1, <1>2, <1>3, PTL DEF ScheduleSpec

-----------------------------------------------------------------------------
(* TaskSchedule: what is told in the end.                                  *)

(* The fire a handler holds is of the bell it rings.                       *)
FireIsHeld(h) ==
  /\ handler[h].fire # {} => Delivers(h)
  /\ \A f \in handler[h].fire : f.kind = handler[h].kind

(* A bell that has to ring, and nothing excuses it, is in a handler's      *)
(* hands, or its time is not over, no claim covers it, and a fire is       *)
(* queued that comes in time.                                              *)
Obliged(k) ==
  /\ bell[k].on /\ ~ bell[k].stamped /\ Open /\ bell[k].at # Never
  /\ <<k, bell[k].arming>> \notin excused
InTime(f, k) == f.kind = k /\ f.at \in bell[k].at .. bell[k].at + Grace
ToCome(k) ==
  /\ now <= bell[k].at + Grace /\ bell[k].claim < bell[k].at
  /\ \E f \in fires : InTime(f, k)
WillRing ==
  /\ \A h \in Handlers : FireIsHeld(h)
  /\ \A k \in Kinds : Obliged(k) => Busy(k) # {} \/ ToCome(k)

(* The rule of a row, and that it fits the row's scope.                    *)
RuleRow == [freq : {"none", "daily", "weekly", "monthly"}, filled : BOOLEAN]
FitsScope(row) ==
  row.rule.freq # "none" =>
    /\ Kind(row) # "none"
    /\ row.rule.filled <=> Kind(row) = "day"
    /\ Kind(row) = "week" => row.rule.freq = "weekly"
    /\ Kind(row) = "month" => row.rule.freq = "monthly"
RuleInv ==
  /\ task.rule \in RuleRow /\ allowed.freqs \subseteq {"daily", "weekly", "monthly"}
  /\ ~ unfitted => FitsScope(task)

RemindInv == TellingInv /\ WillRing /\ RuleInv

LEMMA RemindInvInit == ScheduleInit => RemindInv
<1> SUFFICES ASSUME ScheduleInit PROVE RemindInv
  OBVIOUS
<1>1. PICK b \in Bounds : allowed = [on |-> b.on, freqs |-> b.freqs, until |-> b.until]
  BY DEF ScheduleInit
<1>2. allowed.freqs \subseteq {"daily", "weekly", "monthly"}
  <2>1. b.freqs \in SUBSET {"daily", "weekly", "monthly"}
    BY <1>1, ScheduleAssumption
  <2> QED
    BY <1>1, <2>1
<1>3. /\ task.rule = NoRule /\ NoRule \in RuleRow /\ NoRule.freq = "none"
      /\ bell = [k \in Kinds |-> Silent] /\ handler = [h \in Handlers |-> AtRest]
  BY DEF ScheduleInit, NoRule, RuleRow
<1>4. WillRing
  <2>1. \A k \in Kinds : ~ Obliged(k)
    BY <1>3 DEF Obliged, Silent
  <2>2. \A h \in Handlers : FireIsHeld(h)
    BY <1>3 DEF FireIsHeld, AtRest
  <2> QED
    BY <2>1, <2>2 DEF WillRing
<1>5. RuleInv
  BY <1>2, <1>3 DEF RuleInv, FitsScope
<1> QED
  BY <1>4, <1>5, TellInvInit, FiresKnownInit DEF RemindInv, TellingInv

LEMMA ExcuseLeaves ==
  ASSUME Excuse, now' = now, now \in Nat, bell' \in [Kinds -> BellRow], NEW k \in Kinds, Obliged(k)'
  PROVE  ToCome(k)'
<1>1. PICK b \in BellRow : b = bell'[k]
  OBVIOUS
<1>2. b.on /\ ~ b.stamped /\ b.at # Never /\ <<k, b.arming>> \notin excused'
  BY <1>1 DEF Obliged
<1>3. b.at \in Int /\ b.claim \in Nat /\ b.at + Grace \in Int
  BY <1>2, DeliveryAssumption DEF BellRow
<1>4. ~ (\/ \A f \in fires' : ~ (f.kind = k /\ f.at \in b.at .. b.at + Grace)
         \/ b.at + Grace < now \/ b.claim >= b.at)
  BY <1>1, <1>2 DEF Excuse
<1>5. now <= b.at + Grace /\ b.claim < b.at
  BY <1>3, <1>4
<1>6. \E f \in fires' : f.kind = k /\ f.at \in b.at .. b.at + Grace
  BY <1>4
<1> QED
  BY <1>1, <1>5, <1>6 DEF ToCome, InTime

LEMMA EditsExcuse ==
  ASSUME TellInv,
         \/ Create \/ Patch \/ SetStatus \/ RescheduleTaskDate \/ RescheduleTaskTool \/ UpdateTaskTool
         \/ AddTask \/ Skip \/ RepeatSweep \/ AddTaskReminder \/ DeleteTaskReminder
  PROVE  Excuse /\ UNCHANGED <<now, handler, allowed>>
<1>1. UNCHANGED <<now, handler, allowed>>
  BY DEF Create, Patch, SetStatus, RescheduleTaskDate, RescheduleTaskTool, UpdateTaskTool, AddTask,
         Skip, RepeatSweep, Advance, AddTaskReminder, DeleteTaskReminder, Edit
<1>2. CASE Create
  BY <1>1, <1>2 DEF Create
<1>3. CASE Patch
  BY <1>1, <1>3 DEF Patch
<1>4. CASE SetStatus \/ UpdateTaskTool \/ AddTaskReminder \/ DeleteTaskReminder
  BY <1>1, <1>4 DEF SetStatus, UpdateTaskTool, AddTaskReminder, DeleteTaskReminder
<1>5. CASE RescheduleTaskDate
  BY <1>1, <1>5 DEF RescheduleTaskDate
<1>6. CASE RescheduleTaskTool
  BY <1>1, <1>6, RescheduleTaskToolTells
<1>7. CASE AddTask
  BY <1>1, <1>7 DEF AddTask
<1>8. CASE Skip \/ RepeatSweep
  <2>1. \E skip \in BOOLEAN : Advance(skip)
    BY <1>8 DEF Skip, RepeatSweep
  <2> QED
    BY <1>1, <2>1 DEF Advance
<1> QED
  BY <1>2, <1>3, <1>4, <1>5, <1>6, <1>7, <1>8

LEMMA ExcusedRing ==
  ASSUME TellingInv, TellingInv', Excuse, now' = now, \A h \in Handlers : FireIsHeld(h)'
  PROVE  WillRing'
<1>1. now \in Nat /\ bell' \in [Kinds -> BellRow]
  BY DEF TellingInv, TellInv, ScheduleTypes
<1>2. \A k \in Kinds : Obliged(k)' => ToCome(k)'
  BY <1>1, ExcuseLeaves
<1> QED
  BY <1>2 DEF WillRing

LEMMA RestHolds ==
  ASSUME DOMAIN handler = Handlers, \A g \in Handlers : FireIsHeld(g), NEW h \in Handlers, Rest(h)
  PROVE  /\ \A g \in Handlers : FireIsHeld(g)'
         /\ \A g \in Handlers : g # h => handler'[g] = handler[g]
<1>1. \A g \in Handlers : handler'[g] = IF g = h THEN AtRest ELSE handler[g]
  BY DEF Rest
<1>2. \A g \in Handlers : g # h => FireIsHeld(g)'
  BY <1>1 DEF FireIsHeld, Delivers
<1>3. FireIsHeld(h)'
  BY <1>1 DEF FireIsHeld, AtRest
<1> QED
  BY <1>1, <1>2, <1>3

(* A bell that is as it was, its handlers too, has the fires it had.       *)
LEMMA OthersRing ==
  ASSUME WillRing, NEW k \in Kinds, bell'[k] = bell[k], UNCHANGED <<now, task, excused>>,
         \A h \in Busy(k) : h \in Busy(k)', \A f \in fires : f.kind = k => f \in fires', Obliged(k)'
  PROVE  Busy(k)' # {} \/ ToCome(k)'
<1>1. Obliged(k)
  BY DEF Obliged, Open
<1>2. CASE Busy(k) # {}
  BY <1>2
<1>3. CASE ToCome(k)
  <2>1. PICK f \in fires : InTime(f, k)
    BY <1>3 DEF ToCome
  <2>2. f \in fires' /\ InTime(f, k)'
    BY <2>1 DEF InTime
  <2> QED
    BY <1>3, <2>2 DEF ToCome
<1> QED
  BY <1>1, <1>2, <1>3 DEF WillRing

LEMMA ClaimRings ==
  ASSUME RemindInv, NEW h \in Handlers, ~ Delivers(h), NEW k \in Kinds, NEW fire,
         \A f \in fire : f.kind = k, Claim(h, k, fire), UNCHANGED <<now, task, excused, fires>>
  PROVE  WillRing'
<1>1. /\ DOMAIN handler = Handlers /\ \A g \in Handlers : FireIsHeld(g)
      /\ bell \in [Kinds -> BellRow] /\ WillRing
  BY DEF RemindInv, TellingInv, TellInv, ScheduleTypes, WillRing
<1>2. PICK x : x = [pc |-> "sending", kind |-> k, arming |-> bell[k].arming, fire |-> fire, since |-> now]
  OBVIOUS
<1>3. x.pc = "sending" /\ x.kind = k /\ x.fire = fire
  BY <1>2
<1>4. \A g \in Handlers : handler'[g] = IF g = h THEN x ELSE handler[g]
  BY <1>1, <1>2 DEF Claim
<1>5. \A g \in Handlers : FireIsHeld(g)'
  <2>1. \A g \in Handlers : g # h => FireIsHeld(g)'
    BY <1>1, <1>4 DEF FireIsHeld, Delivers
  <2>2. FireIsHeld(h)'
    BY <1>3, <1>4 DEF FireIsHeld, Delivers
  <2> QED
    BY <2>1, <2>2
<1>6. ASSUME NEW j \in Kinds, Obliged(j)' PROVE Busy(j)' # {} \/ ToCome(j)'
  <2>1. CASE j = k
    <3>1. h \in Busy(j)'
      BY <1>3, <1>4, <2>1 DEF Busy
    <3> QED
      BY <3>1
  <2>2. CASE j # k
    <3>1. bell'[j] = bell[j]
      BY <1>1, <2>2 DEF Claim
    <3>2. \A g \in Busy(j) : g \in Busy(j)'
      BY <1>4 DEF Busy, Delivers
    <3> QED
      BY <1>1, <1>6, <3>1, <3>2, OthersRing
  <2> QED
    BY <2>1, <2>2
<1> QED
  BY <1>5, <1>6 DEF WillRing

(* A fire that is answered without effect was not the one awaited.         *)
LEMMA SpentRings ==
  ASSUME RemindInv, NEW f \in fires, f.at <= now, ~ (RingsNow(bell[f.kind]) /\ Open),
         fires' = fires \ {f}, UNCHANGED <<now, task, handler, excused>>,
         bell' = IF RingsNow(bell[f.kind]) /\ f.kind = "multi"
                 THEN [bell EXCEPT !["multi"].claim = now + Lease] ELSE bell
  PROVE  WillRing'
<1>1. /\ \A g \in Handlers : FireIsHeld(g)
      /\ now \in Nat /\ bell \in [Kinds -> BellRow] /\ WillRing
  BY DEF RemindInv, TellingInv, TellInv, ScheduleTypes, WillRing
<1>2. \A g \in Handlers : FireIsHeld(g)'
  BY <1>1 DEF FireIsHeld, Delivers
<1>3. ASSUME NEW k \in Kinds, Obliged(k)' PROVE Busy(k)' # {} \/ ToCome(k)'
  <2>1. Open
    BY <1>3 DEF Obliged, Open
  <2>2. bell' = bell
    BY <2>1
  <2>3. Obliged(k)
    BY <1>3, <2>2 DEF Obliged, Open
  <2>4. CASE Busy(k) # {}
    BY <2>4 DEF Busy
  <2>5. CASE ToCome(k)
    <3>1. PICK g \in fires : InTime(g, k)
      BY <2>5 DEF ToCome
    <3>2. g # f
      <4> SUFFICES ASSUME g = f PROVE FALSE
        OBVIOUS
      <4>1. PICK b \in BellRow : b = bell[k]
        BY <1>1
      <4>2. f.kind = k /\ f.at \in b.at .. b.at + Grace
        BY <3>1, <4>1 DEF InTime
      <4>3. b.on /\ ~ b.stamped /\ b.at # Never
        BY <2>3, <4>1 DEF Obliged
      <4>4. b.at \in Int /\ b.claim \in Nat
        BY <4>3 DEF BellRow
      <4>5. now <= b.at + Grace /\ b.claim < b.at
        BY <2>5, <4>1 DEF ToCome
      <4>6. b.at <= now /\ b.claim < now
        BY <1>1, <4>2, <4>4, <4>5, DeliveryAssumption
      <4>7. RingsNow(b)
        BY <4>3, <4>5, <4>6 DEF RingsNow, Unclaimed
      <4> QED
        BY <2>1, <4>1, <4>2, <4>7
    <3>3. g \in fires' /\ InTime(g, k)'
      BY <2>2, <3>1, <3>2 DEF InTime
    <3> QED
      BY <2>2, <2>5, <3>3 DEF ToCome
  <2> QED
    BY <1>1, <2>3, <2>4, <2>5 DEF WillRing
<1> QED
  BY <1>2, <1>3 DEF WillRing

LEMMA FireRings ==
  ASSUME RemindInv, NEW h \in Handlers, Fire(h) \/ Sweep(h)
  PROVE  WillRing'
<1>0. ~ Delivers(h) /\ UNCHANGED <<now, task, excused>> /\ FiresKnown
  BY DEF Fire, Sweep, Delivering, Delivers, RemindInv, TellingInv
<1>1. CASE Sweep(h)
  <2>1. PICK k \in Kinds : Claim(h, k, {})
    BY <1>1 DEF Sweep
  <2>2. UNCHANGED fires
    BY <1>1 DEF Sweep
  <2> QED
    BY <1>0, <2>1, <2>2, ClaimRings
<1>2. CASE Fire(h)
  <2>1. PICK f \in fires :
          /\ f.at <= now
          /\ IF RingsNow(bell[f.kind]) /\ Open THEN Claim(h, f.kind, {f}) /\ UNCHANGED fires
             ELSE /\ fires' = fires \ {f} /\ UNCHANGED handler
                  /\ bell' = IF RingsNow(bell[f.kind]) /\ f.kind = "multi"
                             THEN [bell EXCEPT !["multi"].claim = now + Lease] ELSE bell
    BY <1>2 DEF Fire
  <2>2. CASE RingsNow(bell[f.kind]) /\ Open
    <3>1. f.kind \in Kinds
      BY <1>0 DEF FiresKnown, IsFire
    <3>2. Claim(h, f.kind, {f}) /\ UNCHANGED fires
      BY <2>1, <2>2
    <3>3. \A g \in {f} : g.kind = f.kind
      OBVIOUS
    <3> QED
      BY <1>0, <3>1, <3>2, <3>3, ClaimRings
  <2>3. CASE ~ (RingsNow(bell[f.kind]) /\ Open)
    BY <1>0, <2>1, <2>3, SpentRings
  <2> QED
    BY <2>2, <2>3
<1> QED
  BY <1>1, <1>2

LEMMA AttemptRings ==
  ASSUME RemindInv, TellingInv', NEW h \in Handlers, Attempt(h)
  PROVE  WillRing'
<1>1. /\ DOMAIN handler = Handlers /\ \A g \in Handlers : FireIsHeld(g) /\ IsHandler(handler[g])
      /\ TellingInv /\ WillRing /\ handler[h].pc = "sending" /\ UNCHANGED <<now, task>>
  BY DEF RemindInv, TellingInv, TellInv, ScheduleTypes, WillRing, Attempt, Delivering
<1>2. CASE handler' = [handler EXCEPT ![h].pc = "sent"] /\ UNCHANGED <<bell, fires, excused>>
  <2>1. PICK x : x = [handler[h] EXCEPT !.pc = "sent"]
    OBVIOUS
  <2>2. x.pc = "sent" /\ x.kind = handler[h].kind /\ x.fire = handler[h].fire
    BY <1>1, <2>1 DEF IsHandler
  <2>3. \A g \in Handlers : handler'[g] = IF g = h THEN x ELSE handler[g]
    BY <1>1, <1>2, <2>1
  <2>4. \A g \in Handlers : /\ handler'[g].kind = handler[g].kind /\ handler'[g].fire = handler[g].fire
                            /\ handler[g].pc # "idle" => handler'[g].pc # "idle"
    BY <2>2, <2>3
  <2>5. \A g \in Handlers : FireIsHeld(g)'
    BY <1>1, <2>4 DEF FireIsHeld, Delivers
  <2>6. \A k \in Kinds : \A g \in Busy(k) : g \in Busy(k)'
    BY <2>4 DEF Busy
  <2>7. \A k \in Kinds : Obliged(k)' => Busy(k)' # {} \/ ToCome(k)'
    BY <1>1, <1>2, <2>6, OthersRing
  <2> QED
    BY <2>5, <2>7 DEF WillRing
<1>3. CASE Rest(h) /\ Excuse
  BY <1>1, <1>3, RestHolds, ExcusedRing
<1> QED
  BY <1>2, <1>3 DEF Attempt

LEMMA AbortRings ==
  ASSUME RemindInv, TellingInv', NEW h \in Handlers, Abort(h)
  PROVE  WillRing'
<1>1. /\ DOMAIN handler = Handlers /\ \A g \in Handlers : FireIsHeld(g)
      /\ TellingInv /\ Rest(h) /\ Excuse /\ now' = now
  BY DEF RemindInv, TellingInv, TellInv, ScheduleTypes, WillRing, Abort, Delivering
<1> QED
  BY <1>1, RestHolds, ExcusedRing

LEMMA StampRings ==
  ASSUME RemindInv, NEW h \in Handlers, Stamp(h)
  PROVE  WillRing'
<1>1. /\ DOMAIN handler = Handlers /\ \A g \in Handlers : FireIsHeld(g) /\ IsHandler(handler[g])
      /\ bell \in [Kinds -> BellRow] /\ WillRing
      /\ Rest(h) /\ UNCHANGED <<now, task, excused>> /\ fires' = fires \ handler[h].fire
  BY DEF RemindInv, TellingInv, TellInv, ScheduleTypes, WillRing, Stamp, Delivering
<1>2. PICK k \in Kinds : k = handler[h].kind
  BY <1>1 DEF IsHandler
<1>3. /\ \A g \in Handlers : FireIsHeld(g)'
      /\ \A g \in Handlers : g # h => handler'[g] = handler[g]
  BY <1>1, RestHolds
<1>4. /\ bell'[k].stamped \/ (~ bell[k].on /\ bell' = bell)
      /\ \A j \in Kinds : j # k => bell'[j] = bell[j]
  <2>1. CASE /\ bell' = bell
             /\ (k = "multi" /\ ~bell[k].on) \/ (handler[h].fire # {} /\ bell[k].stamped)
    BY <2>1
  <2>2. CASE bell' = [bell EXCEPT ![k].stamped = TRUE, ![k].claim = 0]
    <3>1. PICK b : b = [bell[k] EXCEPT !.stamped = TRUE, !.claim = 0]
      OBVIOUS
    <3>2. b.stamped
      BY <1>1, <3>1 DEF BellRow
    <3>3. bell' = [bell EXCEPT ![k] = b]
      BY <1>1, <2>2, <3>1
    <3> QED
      BY <1>1, <3>2, <3>3
  <2> QED
    BY <1>2, <2>1, <2>2 DEF Stamp
<1>5. ASSUME NEW j \in Kinds, Obliged(j)' PROVE Busy(j)' # {} \/ ToCome(j)'
  <2>1. j # k
    BY <1>4, <1>5 DEF Obliged
  <2>2. \A g \in Busy(j) : g \in Busy(j)'
    BY <1>2, <1>3, <2>1 DEF Busy
  <2>3. \A f \in fires : f.kind = j => f \in fires'
    BY <1>1, <1>2, <2>1 DEF FireIsHeld
  <2> QED
    BY <1>1, <1>4, <1>5, <2>1, <2>2, <2>3, OthersRing
<1> QED
  BY <1>3, <1>5 DEF WillRing

(* A fire that is due is in the hands of a handler before time passes.     *)
LEMMA TickRings ==
  ASSUME RemindInv, Tick
  PROVE  WillRing'
<1>1. /\ \A g \in Handlers : FireIsHeld(g)
      /\ now \in Nat /\ bell \in [Kinds -> BellRow] /\ WillRing
      /\ UNCHANGED <<task, bell, fires, handler, excused>> /\ now' = now + 1
      /\ \A f \in fires : f.at <= now => \E h \in Handlers : handler[h].fire = {f}
  BY DEF RemindInv, TellingInv, TellInv, ScheduleTypes, WillRing, Tick
<1>2. \A g \in Handlers : FireIsHeld(g)'
  BY <1>1 DEF FireIsHeld, Delivers
<1>3. ASSUME NEW k \in Kinds, Obliged(k)' PROVE Busy(k)' # {} \/ ToCome(k)'
  <2>1. Obliged(k)
    BY <1>1, <1>3 DEF Obliged, Open
  <2>2. CASE Busy(k) # {}
    BY <1>1, <2>2 DEF Busy
  <2>3. CASE ToCome(k)
    <3>1. PICK f \in fires : InTime(f, k)
      BY <2>3 DEF ToCome
    <3>2. CASE f.at <= now
      <4>1. PICK h \in Handlers : handler[h].fire = {f}
        BY <1>1, <3>2
      <4>2. h \in Busy(k)
        BY <1>1, <3>1, <4>1 DEF FireIsHeld, Delivers, Busy, InTime
      <4> QED
        BY <1>1, <4>2 DEF Busy
    <3>3. CASE ~ (f.at <= now)
      <4>1. PICK b \in BellRow : b = bell[k]
        BY <1>1
      <4>2. b.at \in Int
        BY <2>1, <4>1 DEF Obliged, BellRow
      <4>3. f.at \in b.at .. b.at + Grace
        BY <3>1, <4>1 DEF InTime
      <4>4. now + 1 <= b.at + Grace
        BY <1>1, <3>3, <4>2, <4>3, DeliveryAssumption
      <4>5. InTime(f, k)' /\ f \in fires'
        BY <1>1, <3>1 DEF InTime
      <4> QED
        BY <1>1, <2>3, <4>1, <4>4, <4>5 DEF ToCome
    <3> QED
      BY <3>2, <3>3
  <2> QED
    BY <1>1, <2>1, <2>2, <2>3 DEF WillRing
<1> QED
  BY <1>2, <1>3 DEF WillRing

(* Rules.                                                                  *)
LEMMA FitFits ==
  ASSUME NEW row, IsSchedule(row), row.rule \in RuleRow, NEW rule, rule = Kept \/ rule \in RuleRow
  PROVE  Fit(row, rule).rule \in RuleRow /\ FitsScope(Fit(row, rule))
<1>1. PICK wanted \in RuleRow : wanted = IF rule = Kept THEN row.rule ELSE rule
  OBVIOUS
<1>2. PICK kind \in {"day", "week", "month", "none"} : kind = Kind(row)
  BY DEF Kind
<1>3. PICK r : r = IF Accepts(wanted, kind) THEN Normalized(wanted, kind) ELSE NoRule
  OBVIOUS
<1>4. Fit(row, rule) = [row EXCEPT !.rule = r]
  BY <1>1, <1>2, <1>3 DEF Fit
<1>5. Fit(row, rule).rule = r /\ Kind(Fit(row, rule)) = kind
  BY <1>2, <1>4 DEF IsSchedule, Kind
<1>6. /\ r \in RuleRow
      /\ r.freq # "none" =>
           /\ kind # "none" /\ (r.filled <=> kind = "day")
           /\ kind = "week" => r.freq = "weekly"
           /\ kind = "month" => r.freq = "monthly"
  <2>1. CASE Accepts(wanted, kind)
    <3>1. PICK f \in BOOLEAN : f = (kind = "day" /\ wanted.freq # "none")
      OBVIOUS
    <3>2. r = [wanted EXCEPT !.filled = f]
      BY <1>3, <2>1, <3>1 DEF Normalized
    <3>3. r \in RuleRow /\ r.freq = wanted.freq /\ r.filled = f
      BY <3>2 DEF RuleRow
    <3> QED
      BY <2>1, <3>1, <3>3 DEF Accepts
  <2>2. CASE ~ Accepts(wanted, kind)
    BY <1>3, <2>2 DEF NoRule, RuleRow
  <2> QED
    BY <2>1, <2>2
<1> QED
  BY <1>5, <1>6 DEF FitsScope

(* A row of the same scope and rule fits as well.                          *)
LEMMA SameScopeFits ==
  ASSUME RuleInv, allowed' = allowed, task'.rule = task.rule,
         ~ unfitted' => ~ unfitted /\ Kind(task)' = Kind(task)
  PROVE  RuleInv'
BY DEF RuleInv, FitsScope

LEMMA FittedFits ==
  ASSUME RuleInv, allowed' = allowed, NEW row, IsSchedule(row), row.rule \in RuleRow,
         NEW rule, rule = Kept \/ rule \in RuleRow, task' = Fit(row, rule)
  PROVE  RuleInv'
<1>1. Fit(row, rule).rule \in RuleRow /\ FitsScope(Fit(row, rule))
  BY FitFits
<1> QED
  BY <1>1 DEF RuleInv, FitsScope, Kind

LEMMA AskedRules ==
  ASSUME RuleInv
  PROVE  Rules \cup {NoRule} \subseteq RuleRow
<1>1. Rules \subseteq RuleRow
  <2> SUFFICES ASSUME NEW r \in Rules PROVE r \in RuleRow
    OBVIOUS
  <2>1. PICK freq \in {"daily", "weekly", "monthly"} : r = [freq |-> freq, filled |-> FALSE]
    BY DEF RuleInv, Rules
  <2> QED
    BY <2>1 DEF RuleRow
<1>2. NoRule \in RuleRow
  BY DEF NoRule, RuleRow
<1> QED
  BY <1>1, <1>2

LEMMA CreateFits ==
  ASSUME TellInv, RuleInv, Create
  PROVE  RuleInv'
<1>0. now \in Int /\ allowed' = allowed
  BY DEF TellInv, ScheduleTypes, Create
<1>1. PICK byTool \in BOOLEAN, due \in Days \union {Never}, at \in Asked \union {Never},
           week \in {WeekOf(Day(now)), Never}, month \in {MonthOf(Day(now)), Never},
           rule \in Rules \union {NoRule} :
        LET time == IF week # Never \/ month # Never THEN Never ELSE at
            row == IF byTool THEN ToolRow(due, time, week, month) ELSE NewRow(due, time, week, month)
        IN task' = Fit(row, rule)
  BY DEF Create
<1>2. PICK time \in Int \cup {Never} : time = IF week # Never \/ month # Never THEN Never ELSE at
  BY AskedAreInt
<1>3. due \in Int \cup {Never} /\ week \in Int \cup {Never} /\ month \in Int \cup {Never}
  <2>1. WeekOf(Day(now)) \in Int /\ MonthOf(Day(now)) \in Int
    BY <1>0, DatesAreInt
  <2> QED
    BY <2>1, AskedAreInt
<1>4. PICK row : row = IF byTool THEN ToolRow(due, time, week, month) ELSE NewRow(due, time, week, month)
  OBVIOUS
<1>5. IsSchedule(row) /\ row.rule = NoRule
  <2>1. CASE byTool
    BY <1>2, <1>3, <1>4, <2>1, NewRowIs
  <2>2. CASE ~ byTool
    BY <1>2, <1>3, <1>4, <2>2, NewRowIs
  <2> QED
    BY <2>1, <2>2
<1>6. task' = Fit(row, rule)
  BY <1>1, <1>2, <1>4
<1>7. rule \in RuleRow /\ NoRule \in RuleRow
  BY AskedRules
<1> QED
  BY <1>0, <1>5, <1>6, <1>7, FittedFits

LEMMA PatchFits ==
  ASSUME TellInv, RuleInv, Patch
  PROVE  RuleInv'
<1>0. Unsent /\ ScheduleTypes /\ task.rule \in RuleRow /\ allowed' = allowed
  BY EditUnsent DEF Patch, TellInv, RuleInv, Unsent
<1>1. PICK sent \in FieldSets :
        \E body \in Sending(sent) : task' = Fit(Rescoped(task, body), body.rule)
  BY DEF Patch
<1>2. PICK body \in Sending(sent) : task' = Fit(Rescoped(task, body), body.rule)
  BY <1>1
<1>3. /\ body.due = Kept \/ body.due \in Int
      /\ body.at \in {Kept, Never} \/ body.at \in Int
  BY <1>0, SendingHas, AskedAreInt
<1>4. body.rule = Kept \/ body.rule \in RuleRow
  <2>1. body.rule \in (IF "rule" \in sent THEN Rules \union {NoRule} ELSE {Kept})
    BY DEF Sending
  <2> QED
    BY <2>1, AskedRules
<1>5. PICK scoped, rule : scoped = Rescoped(task, body) /\ rule = body.rule
  OBVIOUS
<1>6. IsSchedule(scoped) /\ scoped.rule = task.rule
  BY <1>0, <1>3, <1>5, RescopedKeeps
<1> QED
  BY <1>0, <1>2, <1>4, <1>5, <1>6, FittedFits

LEMMA UpdateTaskToolFits ==
  ASSUME TellInv, RuleInv, UpdateTaskTool
  PROVE  RuleInv'
<1>1. Unsent /\ IsSchedule(task) /\ task.rule \in RuleRow /\ allowed' = allowed
  BY EditUnsent DEF UpdateTaskTool, RuleInv, Unsent
<1>2. PICK due \in Days \union {Kept}, rule \in Rules \union {NoRule, Kept} :
        task' = Fit(IF due = Kept THEN task ELSE Dated(due), rule)
  BY DEF UpdateTaskTool
<1>3. PICK row : row = IF due = Kept THEN task ELSE Dated(due)
  OBVIOUS
<1>4. IsSchedule(row) /\ row.rule = task.rule
  <2>1. CASE due = Kept
    BY <1>1, <1>3, <2>1
  <2>2. CASE due # Kept
    BY <1>1, <1>3, <2>2, DatedKeeps, AskedAreInt
  <2> QED
    BY <2>1, <2>2
<1>5. task' = Fit(row, rule)
  BY <1>2, <1>3
<1>6. rule = Kept \/ rule \in RuleRow
  BY AskedRules
<1> QED
  BY <1>1, <1>4, <1>5, <1>6, FittedFits

LEMMA DatedIsDay ==
  ASSUME IsSchedule(task), NEW d \in Int
  PROVE  Kind(Dated(d)) = "day" /\ Dated(d).rule = task.rule
<1>1. d # Never
  BY DeliveryAssumption
<1>2. Dated(d).due = d /\ Dated(d).rule = task.rule
  BY DatedKeeps
<1> QED
  BY <1>1, <1>2 DEF Kind

LEMMA DatedFits ==
  ASSUME TellInv, RuleInv, allowed' = allowed, NEW d \in Int, task' = Dated(d),
         MovedUnfit \/ (Kind(task) = "day" /\ unfitted' = unfitted)
  PROVE  RuleInv'
<1>1. Kind(Dated(d)) = "day" /\ Dated(d).rule = task.rule
  BY DatedIsDay DEF TellInv, ScheduleTypes
<1>2. task'.rule = task.rule /\ Kind(task)' = "day"
  BY <1>1 DEF Kind
<1>3. ~ unfitted' => ~ unfitted /\ Kind(task)' = Kind(task)
  BY <1>2 DEF MovedUnfit
<1> QED
  BY <1>2, <1>3, SameScopeFits

LEMMA SameTaskFits ==
  ASSUME RuleInv, allowed' = allowed, task' = task, unfitted' = unfitted \/ MovedUnfit
  PROVE  RuleInv'
BY DEF RuleInv, FitsScope, MovedUnfit

LEMMA AdvanceFits ==
  ASSUME TellInv, RuleInv, NEW skip \in BOOLEAN, Advance(skip), allowed' = allowed
  PROVE  RuleInv'
<1>0. /\ IsSchedule(task) /\ now \in Int /\ unfitted' = unfitted
      /\ Kind(task) # "none"
  BY DEF TellInv, ScheduleTypes, Advance
<1> DEFINE kind == Kind(task)
           from == Anchor(task)
           period == CASE kind = "week" -> WeekOf(Day(now)) [] kind = "month" -> MonthOf(Day(now))
                       [] OTHER -> Day(now)
           notBefore == IF skip /\ kind = "day" /\ from >= period THEN from + 1 ELSE period
<1>1. from \in Int
  BY <1>0, NextAreInt
<1>2. period \in Int
  <2>1. Day(now) \in Int /\ WeekOf(Day(now)) \in Int /\ MonthOf(Day(now)) \in Int
    BY <1>0, DatesAreInt
  <2> QED
    BY <2>1
<1>3. notBefore \in Int
  BY <1>1, <1>2
<1>4. PICK next \in NextDates(task, notBefore) :
        task' = [task EXCEPT !.status = "open",
                    !.due = IF kind = "day" THEN next ELSE Never,
                    !.week = IF kind = "week" THEN next ELSE Never,
                    !.month = IF kind = "month" THEN next ELSE Never]
  BY DEF Advance
<1>5. next \in Int /\ next # Never
  <2>1. PICK first \in Int : first = notBefore
    BY <1>3
  <2> QED
    BY <1>0, <2>1, NextAreInt, DeliveryAssumption
<1> HIDE DEF notBefore, period
<1>6. PICK d, w, m : /\ d = (IF kind = "day" THEN next ELSE Never)
                     /\ w = (IF kind = "week" THEN next ELSE Never)
                     /\ m = (IF kind = "month" THEN next ELSE Never)
  OBVIOUS
<1>7. task' = [task EXCEPT !.status = "open", !.due = d, !.week = w, !.month = m]
  BY <1>4, <1>6
<1>8. task'.rule = task.rule /\ task'.due = d /\ task'.week = w /\ task'.month = m
  BY <1>0, <1>7 DEF IsSchedule
<1>9. Kind(task)' = Kind(task)
  BY <1>0, <1>5, <1>6, <1>8 DEF Kind
<1> QED
  BY <1>0, <1>8, <1>9, SameScopeFits

LEMMA EditsFit ==
  ASSUME TellInv, RuleInv,
         \/ Create \/ Patch \/ SetStatus \/ RescheduleTaskDate \/ RescheduleTaskTool \/ UpdateTaskTool
         \/ AddTask \/ Skip \/ RepeatSweep \/ AddTaskReminder \/ DeleteTaskReminder
  PROVE  RuleInv'
<1>1. allowed' = allowed /\ IsSchedule(task)
  BY EditsExcuse DEF TellInv, ScheduleTypes
<1>2. CASE Create \/ Patch \/ UpdateTaskTool
  BY <1>2, CreateFits, PatchFits, UpdateTaskToolFits
<1>3. CASE SetStatus
  <2>1. unfitted' = unfitted /\ \E status \in {"open", "done", "scratched"} : task' = [task EXCEPT !.status = status]
    BY <1>3 DEF SetStatus
  <2>2. /\ task'.rule = task.rule /\ task'.due = task.due
        /\ task'.week = task.week /\ task'.month = task.month
    BY <1>1, <2>1 DEF IsSchedule
  <2>3. Kind(task)' = Kind(task)
    BY <2>2 DEF Kind
  <2> QED
    BY <1>1, <2>1, <2>2, <2>3, SameScopeFits
<1>4. CASE RescheduleTaskDate
  <2>1. task.due # Never /\ unfitted' = unfitted
    BY <1>4 DEF RescheduleTaskDate
  <2>2. PICK target \in Days : task' = Dated(target)
    BY <1>4 DEF RescheduleTaskDate
  <2>3. Kind(task) = "day" /\ target \in Int
    BY <2>1, AskedAreInt DEF Kind
  <2> QED
    BY <1>1, <2>1, <2>2, <2>3, DatedFits
<1>5. CASE RescheduleTaskTool
  <2>1. MovedUnfit
    BY <1>5 DEF RescheduleTaskTool
  <2>2. task' = task \/ \E d \in Int : task' = Dated(d)
    BY <1>5, RescheduleTaskToolTells
  <2> QED
    BY <1>1, <2>1, <2>2, DatedFits, SameTaskFits
<1>6. CASE AddTask
  <2>1. MovedUnfit
    BY <1>6 DEF AddTask
  <2>2. PICK d \in Days : task' = Dated(d)
    BY <1>6 DEF AddTask
  <2> QED
    BY <1>1, <2>1, <2>2, DatedFits, AskedAreInt
<1>7. CASE Skip \/ RepeatSweep
  <2>1. \E skip \in BOOLEAN : Advance(skip)
    BY <1>7 DEF Skip, RepeatSweep
  <2> QED
    BY <1>1, <2>1, AdvanceFits
<1>8. CASE AddTaskReminder \/ DeleteTaskReminder
  <2>1. task' = task /\ unfitted' = unfitted
    BY <1>8 DEF AddTaskReminder, DeleteTaskReminder
  <2> QED
    BY <1>1, <2>1, SameTaskFits
<1> QED
  BY <1>2, <1>3, <1>4, <1>5, <1>6, <1>7, <1>8

(* The steps together.                                                     *)
LEMMA RemindNext ==
  ASSUME RemindInv, [ScheduleNext]_scheduleVars
  PROVE  RemindInv'
<1>0. TellingInv /\ TellingInv' /\ TellInv /\ WillRing /\ RuleInv
  BY TellingNext DEF RemindInv, TellingInv
<1>1. CASE \/ Create \/ Patch \/ SetStatus \/ RescheduleTaskDate \/ RescheduleTaskTool \/ UpdateTaskTool
           \/ AddTask \/ Skip \/ RepeatSweep \/ AddTaskReminder \/ DeleteTaskReminder
  <2>1. Excuse /\ UNCHANGED <<now, handler>>
    BY <1>0, <1>1, EditsExcuse
  <2>2. \A h \in Handlers : FireIsHeld(h)'
    BY <1>0, <2>1 DEF WillRing, FireIsHeld, Delivers
  <2>3. WillRing'
    BY <1>0, <2>1, <2>2, ExcusedRing
  <2>4. RuleInv'
    BY <1>0, <1>1, EditsFit
  <2> QED
    BY <1>0, <2>3, <2>4 DEF RemindInv
<1>2. ASSUME NEW h \in Handlers, Fire(h) \/ Sweep(h) \/ Attempt(h) \/ Stamp(h) \/ Abort(h)
      PROVE  RemindInv'
  <2>1. WillRing'
    BY <1>0, <1>2, FireRings, AttemptRings, StampRings, AbortRings
  <2>2. UNCHANGED <<task, allowed, unfitted>>
    BY <1>2 DEF Fire, Sweep, Attempt, Stamp, Abort, Delivering
  <2>3. RuleInv'
    BY <1>0, <2>2, SameTaskFits
  <2> QED
    BY <1>0, <2>1, <2>3 DEF RemindInv
<1>3. CASE Tick
  <2>1. UNCHANGED <<task, allowed, unfitted>>
    BY <1>3 DEF Tick
  <2> QED
    BY <1>0, <1>3, <2>1, SameTaskFits, TickRings DEF RemindInv
<1>4. CASE UNCHANGED scheduleVars
  <2>1. UNCHANGED <<now, task, bell, fires, handler, excused, allowed, unfitted>>
    BY <1>4 DEF scheduleVars
  <2>2. \A h \in Handlers : FireIsHeld(h)'
    BY <1>0, <2>1 DEF WillRing, FireIsHeld, Delivers
  <2>3. \A k \in Kinds : Busy(k)' = Busy(k)
    BY <2>1 DEF Busy
  <2>4. \A k \in Kinds : Obliged(k)' => Busy(k)' # {} \/ ToCome(k)'
    BY <1>0, <2>1, <2>3, OthersRing
  <2>5. WillRing'
    BY <2>2, <2>4 DEF WillRing
  <2> QED
    BY <1>0, <2>1, <2>5, SameTaskFits DEF RemindInv
<1> QED
  BY <1>1, <1>2, <1>3, <1>4 DEF ScheduleNext

LEMMA RemindInvKeeps ==
  ASSUME RemindInv
  PROVE  KeepsReminding
<1>1. MissedOnlyExcused
  <2> SUFFICES ASSUME NEW k \in Kinds, bell[k].on, ~ bell[k].stamped, Open, bell[k].at # Never,
                      bell[k].at + Grace < now, Busy(k) = {}, <<k, bell[k].arming>> \notin excused
               PROVE  FALSE
    BY DEF MissedOnlyExcused
  <2>1. ToCome(k)
    BY DEF RemindInv, WillRing, Obliged
  <2>2. bell[k] \in BellRow /\ now \in Nat
    BY DEF RemindInv, TellingInv, TellInv, ScheduleTypes
  <2>3. PICK at \in Int : at = bell[k].at
    BY <2>2 DEF BellRow
  <2>4. at + Grace < now /\ now <= at + Grace
    BY <2>1, <2>3 DEF ToCome
  <2> QED
    BY <2>2, <2>3, <2>4, DeliveryAssumption
<1>2. RuleFits
  BY DEF RemindInv, RuleInv, FitsScope, RuleFits
<1> QED
  BY <1>1, <1>2 DEF KeepsReminding

(* Without any sweep, a reminder of an open task is told, or is with a     *)
(* handler, by the end of its window, unless its fire was never queued,    *)
(* came after the window, or fell under the lease of an earlier delivery;  *)
(* and a rule keeps fitting the scope of its task through every request    *)
(* but the assistant's reschedule and a plan's move, so that a task that   *)
(* repeats keeps moving and ringing.                                       *)
THEOREM RemindersKeepComing == ScheduleSpec => []KeepsReminding
<1>1. ScheduleInit => RemindInv
  BY RemindInvInit
<1>2. RemindInv /\ [ScheduleNext]_scheduleVars => RemindInv'
  BY RemindNext
<1>3. RemindInv => KeepsReminding
  BY RemindInvKeeps
<1> QED
  BY <1>1, <1>2, <1>3, PTL DEF ScheduleSpec

-----------------------------------------------------------------------------
(* PlanAlerts: the alert of a plan.                                        *)

IsPlan(p) ==
  /\ p \in [status : {"none", "saved", "deleted"}, days : SUBSET (0 .. WeekDays - 1), time : Nat,
            notify : BOOLEAN, next : Nat \cup {Never}, claim : Nat]
  /\ p.status = "saved" => p.days # {} /\ p.time < PlanDay
IsSender(x) ==
  /\ x \in [pc : {"idle", "send", "read", "write"}, at : Nat, from : Nat, read : {x.read},
            fire : {x.fire}, since : Nat]
  /\ IsPlan(x.read)
PlanTypes ==
  /\ clock \in Nat /\ clock >= 1 /\ setbacks \in Nat /\ swept \in BOOLEAN
  /\ overtaken \in BOOLEAN /\ raced \in BOOLEAN
  /\ IsPlan(plan) /\ DOMAIN sender = Handlers /\ \A h \in Handlers : IsSender(sender[h])

(* A handler at work is younger than MaxRun; it goes on from its claim or, *)
(* after a timely send, from what it has sent.                             *)
InHand(h) ==
  /\ plan.status # "none"
  /\ sender[h].at <= sender[h].since /\ sender[h].since <= clock /\ clock <= sender[h].since + MaxRun
  /\ sender[h].pc = "write" => sender[h].read.status = "saved"
  /\ sender[h].pc = "send" => sender[h].since - sender[h].at <= Grace
  /\ sender[h].pc \in {"read", "write"} =>
       \/ sender[h].from = sender[h].since
       \/ sender[h].from = sender[h].at /\ sender[h].since - sender[h].at <= Grace

(* What a handler has read is the plan as it is, unless a save raced it.   *)
SameTimes(p, q) == p.days = q.days /\ p.time = q.time /\ p.notify = q.notify
ReadsTell ==
  /\ raced => overtaken
  /\ AlertFollowsPlan
  /\ plan.status = "saved" /\ ~ raced =>
       \A h \in Handlers : sender[h].pc = "write" => SameTimes(sender[h].read, plan)

(* As long as no save met a handler, one is at work at a time, under its   *)
(* claim and on the alert that is next; it sends nothing a second time.    *)
WorksAloneAt(h) ==
  /\ \A g \in Working : g = h
  /\ plan.status = "saved" => plan.claim = sender[h].since + Lease /\ plan.next = sender[h].at
  /\ sender[h].pc = "send" /\ sender[h].at \in alerted => sender[h].at \in died
WorksAlone == ~ overtaken => \A h \in Working : WorksAloneAt(h)

(* What was told lies behind the next alert, or is it, and then somebody   *)
(* is about to move on or died.                                            *)
Armed == ~ overtaken /\ plan.status = "saved" /\ plan.next # Never
ToldBehind ==
  /\ alerted \subseteq Nat /\ \A a \in alerted : a <= clock
  /\ Armed => /\ \A a \in alerted : a <= plan.next
              /\ plan.next \in alerted =>
                   \/ plan.next \in died
                   \/ \E h \in Working : sender[h].pc # "send"
  /\ AlertedOnce

(* How long the next alert has been over at the last sweep.  A sweep that  *)
(* finds it claimed is paid for by the end of that claim: by the handler   *)
(* that holds it or, when that handler is gone, by a setback.              *)
LastSweep == IF clock % PlanDay = 0 /\ ~ swept THEN clock - PlanDay ELSE clock - (clock % PlanDay)
Behind(periods) == LastSweep - plan.next < (periods * PlanDay) + MaxRun + Grace
Holds(h) == h \in Working /\ plan.claim = sender[h].since + Lease
LapseTold ==
  plan.status = "saved" /\ plan.notify /\ plan.next # Never =>
    /\ plan.claim <= clock + Lease
    /\ \/ Behind(setbacks)
       \/ Behind(setbacks + 1) /\ \E h \in Handlers : Holds(h) /\ sender[h].since <= LastSweep
    /\ LastSweep + PlanDay <= plan.claim => Behind(setbacks - 1) \/ \E h \in Handlers : Holds(h)

AlertInv ==
  /\ PlanTypes /\ \A h \in Working : InHand(h)
  /\ ReadsTell /\ WorksAlone /\ ToldBehind /\ LapseTold

(* Days and times of day.                                                  *)
LEMMA Quotient ==
  ASSUME NEW n \in Nat \ {0}, NEW a \in Int
  PROVE  /\ a \div n \in Int /\ a % n \in 0 .. n - 1 /\ a = n * (a \div n) + (a % n)
         /\ a >= 0 => a \div n >= 0
OBVIOUS

LEMMA QuotientIs ==
  ASSUME NEW n \in Nat \ {0}, NEW q \in Int, NEW r \in 0 .. n - 1, NEW a, a = n * q + r
  PROVE  a \div n = q /\ a % n = r
<1>1. PICK p \in Int, s \in 0 .. n - 1 : p = a \div n /\ s = a % n /\ a = n * p + s
  OBVIOUS
<1>2. ASSUME NEW x \in Int, NEW y \in Int, NEW u \in 0 .. n - 1, NEW v \in 0 .. n - 1,
             n * x + u = n * y + v
      PROVE  ~ (x < y)
  <2> SUFFICES ASSUME x < y PROVE FALSE
    OBVIOUS
  <2>1. PICK k \in Nat : y = x + 1 + k
    <3>1. y - x - 1 \in Nat /\ y = x + 1 + (y - x - 1)
      OBVIOUS
    <3> QED
      BY <3>1
  <2>2. n * y = n * x + n + n * k
    BY <2>1
  <2>3. n * k >= 0
    OBVIOUS
  <2>4. PICK nx \in Int, ny \in Int, nk \in Int : nx = n * x /\ ny = n * y /\ nk = n * k
    OBVIOUS
  <2> QED
    BY <1>2, <2>2, <2>3, <2>4
<1>3. n * q + r = n * p + s
  BY <1>1
<1>4. ~ (q < p)
  BY <1>2, <1>3
<1>5. ~ (p < q)
  BY <1>2, <1>3
<1>6. p = q
  BY <1>4, <1>5
<1>7. s = r
  <2>1. PICK m \in Int : m = n * p
    OBVIOUS
  <2> QED
    BY <1>3, <1>6, <2>1
<1> QED
  BY <1>1, <1>6, <1>7

LEMMA RemainderNext ==
  ASSUME NEW n \in Nat \ {0}, NEW c \in Int
  PROVE  /\ c % n \in 0 .. n - 1
         /\ (c + 1) % n = IF c % n = n - 1 THEN 0 ELSE (c % n) + 1
<1>1. PICK q \in Int, r \in 0 .. n - 1 : q = c \div n /\ r = c % n /\ c = n * q + r
  OBVIOUS
<1>2. CASE r = n - 1
  <2>1. PICK p \in Int : p = q + 1
    OBVIOUS
  <2>2. PICK e \in Int, zero \in 0 .. n - 1 : e = c + 1 /\ zero = 0
    OBVIOUS
  <2>3. e = n * p + zero
    BY <1>1, <1>2, <2>1, <2>2
  <2>4. e % n = zero
    BY <2>3, QuotientIs
  <2> QED
    BY <1>1, <1>2, <2>2, <2>4
<1>3. CASE r # n - 1
  <2>1. PICK s \in 0 .. n - 1 : s = r + 1
    BY <1>3
  <2>2. c + 1 = n * q + s
    BY <1>1, <2>1
  <2>3. (c + 1) % n = s
    BY <2>2, QuotientIs
  <2> QED
    BY <1>1, <1>3, <2>1, <2>3
<1> QED
  BY <1>2, <1>3

LEMMA PlanConstants ==
  /\ PlanDay \in Nat \ {0} /\ WeekDays \in Nat \ {0} /\ Lease \in Nat \ {0} /\ Grace \in Nat /\ MaxRun \in Nat
  /\ MaxRun <= Lease /\ Lease < PlanDay /\ Never \notin Nat
BY PlanAssumption, DeliveryAssumption

(* plan.Next finds a moment of the plan that is still ahead.               *)
LEMMA NextIs ==
  ASSUME NEW p, p.days \in SUBSET (0 .. WeekDays - 1), p.days # {}, p.time \in 0 .. PlanDay - 1,
         NEW after \in Nat
  PROVE  Next(p, after) \in Nat /\ Next(p, after) > after /\ RunsAt(p, Next(p, after))
<1>0. PlanDay \in Nat \ {0} /\ WeekDays \in Nat \ {0}
  BY PlanConstants
<1>1. PICK day \in Nat, rest \in 0 .. PlanDay - 1 : day = after \div PlanDay /\ after = PlanDay * day + rest
  <2>1. PICK n \in Nat \ {0}, a \in Int : n = PlanDay /\ a = after
    BY <1>0
  <2>2. /\ a \div n \in Int /\ a % n \in 0 .. n - 1 /\ a = n * (a \div n) + (a % n)
        /\ a >= 0 => a \div n >= 0
    BY Quotient
  <2> QED
    BY <2>1, <2>2
<1>2. PICK w \in p.days : w \in 0 .. WeekDays - 1
  OBVIOUS
<1>3. PICK q \in Int, k \in 0 .. WeekDays - 1 : w - (day + 1) = WeekDays * q + k
  <2>1. PICK x \in Int : x = w - (day + 1)
    BY <1>2
  <2>2. x \div WeekDays \in Int /\ x % WeekDays \in 0 .. WeekDays - 1
        /\ x = WeekDays * (x \div WeekDays) + (x % WeekDays)
    BY <1>0, Quotient
  <2> QED
    BY <2>1, <2>2
<1>4. PICK d \in Nat : d = day + 1 + k
  OBVIOUS
<1>5. d % WeekDays = w
  <2>1. PICK m \in Int : m = 0 - q
    OBVIOUS
  <2>2. WeekDays * m = 0 - (WeekDays * q)
    BY <1>0, <2>1
  <2>3. PICK x \in Int, y \in Int : x = WeekDays * q /\ y = WeekDays * m
    BY <1>0
  <2>4. d = WeekDays * m + w
    BY <1>2, <1>3, <1>4, <2>2, <2>3
  <2> QED
    BY <1>0, <1>2, <2>4, QuotientIs
<1>6. PICK t \in Nat : t = (d * PlanDay) + p.time
  BY <1>0
<1>7. t \div PlanDay = d /\ t % PlanDay = p.time
  <2>0. PICK n \in Nat \ {0} : n = PlanDay
    BY <1>0
  <2>1. PICK r \in 0 .. n - 1 : n = PlanDay /\ r = p.time
    BY <2>0
  <2>2. t = n * d + r
    BY <1>6, <2>1
  <2>3. PICK q2 \in Int, a \in Int : q2 = d /\ a = t
    OBVIOUS
  <2>4. a = n * q2 + r
    BY <2>2, <2>3
  <2>5. a \div n = q2 /\ a % n = r
    BY <2>4, QuotientIs
  <2> QED
    BY <2>1, <2>3, <2>5
<1>8. t > after
  <2>1. d * PlanDay = PlanDay * day + PlanDay + k * PlanDay
    BY <1>0, <1>4
  <2>2. k * PlanDay >= 0
    BY <1>0
  <2>3. PICK x \in Int, y \in Int, z \in Int : x = d * PlanDay /\ y = PlanDay * day /\ z = k * PlanDay
    BY <1>0
  <2> QED
    BY <1>0, <1>1, <1>6, <2>1, <2>2, <2>3
<1>9. RunsAt(p, t)
  BY <1>2, <1>5, <1>7 DEF RunsAt
<1> DEFINE days == (after \div PlanDay) .. (after \div PlanDay) + WeekDays
           ahead == {x \in {(e * PlanDay) + p.time : e \in days} : RunsAt(p, x) /\ x > after}
<1>10. t \in ahead
  <2>1. d \in days
    BY <1>0, <1>1, <1>4
  <2> QED
    BY <1>6, <1>8, <1>9, <2>1
<1>11. ahead \in SUBSET Nat
  <2>1. \A e \in days : (e * PlanDay) + p.time \in Nat
    BY <1>0, <1>1
  <2> QED
    BY <2>1
<1>12. Next(p, after) = Min(ahead)
  BY <1>10 DEF Next
<1>13. PICK x \in ahead : \A y \in ahead : x <= y
  <2> HIDE DEF ahead
  <2> QED
    BY <1>10, <1>11, LeastNatural
<1>14. Min(ahead) \in ahead
  BY <1>13 DEF Min
<1> QED
  BY <1>11, <1>12, <1>14

(* The last sweep is at most a day ago, and moves on only by a sweep.      *)
LEMMA SweepIs ==
  ASSUME PlanTypes
  PROVE  LastSweep \in Int /\ LastSweep <= clock /\ clock <= LastSweep + PlanDay
<1>1. PICK c \in Nat, n \in Nat \ {0} : c = clock /\ n = PlanDay
  BY PlanConstants DEF PlanTypes
<1>2. c % n \in 0 .. n - 1
  BY RemainderNext
<1> QED
  BY <1>1, <1>2 DEF LastSweep

LEMMA SweepTicks ==
  ASSUME PlanTypes, PlanTick
  PROVE  LastSweep' = LastSweep
<1>1. PICK c \in Nat, n \in Nat \ {0} : c = clock /\ n = PlanDay
  BY PlanConstants DEF PlanTypes
<1>2. /\ c % n \in 0 .. n - 1 /\ c \in Int
      /\ (c + 1) % n = IF c % n = n - 1 THEN 0 ELSE (c % n) + 1
  <2> c \in Int
    OBVIOUS
  <2> QED
    BY RemainderNext
<1>3. clock' = c + 1 /\ swept' = FALSE /\ (c % n = 0 => swept)
  BY <1>1 DEF PlanTick, SweepTime
<1>4. LastSweep = c - (c % n)
  BY <1>1, <1>3 DEF LastSweep
<1>5. LastSweep' = IF (c + 1) % n = 0 THEN c + 1 - n ELSE c + 1 - ((c + 1) % n)
  BY <1>1, <1>3 DEF LastSweep
<1> QED
  BY <1>2, <1>4, <1>5

(* The alert that Save and Advance arm.                                    *)
LEMMA RearmIs ==
  ASSUME NEW p, p.days \in SUBSET (0 .. WeekDays - 1), p.days # {}, p.time \in 0 .. PlanDay - 1,
         p.notify \in BOOLEAN, NEW after \in Nat
  PROVE  /\ Rearm(p, after) \in Nat \cup {Never}
         /\ p.notify <=> Rearm(p, after) # Never
         /\ Rearm(p, after) # Never =>
              Rearm(p, after) \in Nat /\ Rearm(p, after) > after /\ RunsAt(p, Rearm(p, after))
<1>1. PICK t \in Nat : t = Next(p, after) /\ t > after /\ RunsAt(p, t)
  BY NextIs
<1>2. t # Never
  BY PlanConstants
<1> QED
  BY <1>1, <1>2 DEF Rearm

LEMMA Periods ==
  ASSUME NEW s \in Nat
  PROVE  \E u \in Nat, v \in Int :
           u = s * PlanDay /\ v = (s - 1) * PlanDay /\ v = u - PlanDay /\ (s + 1) * PlanDay = u + PlanDay
<1>1. PICK n \in Nat : n = PlanDay
  BY PlanConstants
<1>2. s * n \in Nat /\ (s - 1) * n = s * n - n /\ (s + 1) * n = s * n + n
  OBVIOUS
<1>3. PICK u \in Nat : u = s * n
  BY <1>2
<1>4. PICK v \in Int : v = u - n
  OBVIOUS
<1> QED
  BY <1>1, <1>2, <1>3, <1>4

(* What a handler that leaves changes.                                     *)
LEMMA LeaveIs ==
  ASSUME PlanTypes, NEW h \in Handlers, Leave(h)
  PROVE  /\ DOMAIN sender' = Handlers /\ \A g \in Handlers : IsSender(sender'[g])
         /\ Working' = Working \ {h}
         /\ sender'[h] = Waiting /\ \A g \in Handlers : g # h => sender'[g] = sender[g]
<1>1. /\ DOMAIN sender' = Handlers /\ sender'[h] = Waiting
      /\ \A g \in Handlers : g # h => sender'[g] = sender[g]
  BY DEF PlanTypes, Leave
<1>2. IsSender(Waiting)
  BY PlanConstants DEF IsSender, Waiting, IsPlan, NoPlan
<1>3. \A g \in Handlers : IsSender(sender[g])
  BY DEF PlanTypes
<1>4. Working' = Working \ {h}
  BY <1>1 DEF Working, Waiting
<1> QED
  BY <1>1, <1>2, <1>3, <1>4

(* A handler that goes leaves nobody behind, as long as no save met one.   *)
LEMMA NobodyElse ==
  ASSUME WorksAlone, ~ overtaken, NEW h \in Working
  PROVE  Working \ {h} = {}
BY DEF WorksAlone, WorksAloneAt

LEMMA HandIs ==
  ASSUME PlanTypes, NEW h \in Working, InHand(h)
  PROVE  /\ h \in Handlers /\ sender[h].at \in Nat /\ sender[h].since \in Nat /\ sender[h].from \in Nat
         /\ sender[h].at <= sender[h].since /\ sender[h].since <= clock
         /\ clock <= sender[h].since + MaxRun
BY DEF PlanTypes, Working, InHand, IsSender

LEMMA PlanIs ==
  ASSUME PlanTypes
  PROVE  /\ plan.next \in Nat \cup {Never} /\ plan.claim \in Nat /\ plan.notify \in BOOLEAN
         /\ plan.status \in {"none", "saved", "deleted"}
         /\ plan.status = "saved" /\ plan.next # Never => plan.next \in Nat
BY DEF PlanTypes, IsPlan

(* Claiming.  A claim that has run out is held by nobody at work.          *)
LEMMA ClaimIsOver ==
  ASSUME PlanTypes, \A h \in Working : InHand(h), Due
  PROVE  /\ \A h \in Handlers : ~ Holds(h)
         /\ WorksAlone /\ ~ overtaken => Working = {}
<1>1. \A h \in Working : plan.claim < sender[h].since + Lease
  <2> SUFFICES ASSUME NEW h \in Working PROVE plan.claim < sender[h].since + Lease
    OBVIOUS
  <2>1. clock \in Nat /\ plan.claim \in Nat /\ plan.claim < clock
    BY PlanIs DEF PlanTypes, Due
  <2>2. sender[h].since \in Nat /\ clock <= sender[h].since + MaxRun
    BY HandIs
  <2> QED
    BY <2>1, <2>2, PlanConstants
<1>2. \A h \in Handlers : Holds(h) => h \in Working /\ plan.claim = sender[h].since + Lease
  BY DEF Holds
<1>3. \A h \in Working : sender[h].since + Lease \in Nat /\ plan.claim \in Nat
  BY HandIs, PlanIs, PlanConstants
<1>4. \A h \in Working : plan.claim # sender[h].since + Lease
  BY <1>1, <1>3
<1>5. ASSUME WorksAlone, ~ overtaken PROVE Working = {}
  BY <1>4, <1>5 DEF WorksAlone, WorksAloneAt, Due
<1> QED
  BY <1>2, <1>4, <1>5

LEMMA ClaimIs ==
  ASSUME PlanTypes, NEW h \in Handlers, sender[h].pc = "idle", Due, NEW fire, ClaimAlert(h, fire)
  PROVE  /\ IsPlan(plan') /\ DOMAIN sender' = Handlers /\ \A g \in Handlers : IsSender(sender'[g])
         /\ plan'.status = "saved" /\ plan.status = "saved" /\ plan'.notify = plan.notify
         /\ plan'.days = plan.days /\ plan'.time = plan.time
         /\ plan'.next = plan.next /\ plan.next \in Nat /\ plan.next <= clock
         /\ plan'.claim = clock + Lease
         /\ Working' = Working \cup {h} /\ \A g \in Handlers : g # h => sender'[g] = sender[g]
         /\ sender'[h].pc \in {"send", "read"} /\ sender'[h].at = plan.next
         /\ sender'[h].pc = "send" => clock - plan.next <= Grace
         /\ sender'[h].since = clock /\ sender'[h].from = clock
<1>1. /\ plan.status = "saved" /\ plan.next \in Nat /\ plan.next <= clock /\ clock \in Nat /\ IsPlan(plan)
      /\ DOMAIN sender = Handlers /\ \A g \in Handlers : IsSender(sender[g])
  BY PlanIs DEF Due, PlanTypes
<1>2. plan' = [plan EXCEPT !.claim = clock + Lease]
  BY DEF ClaimAlert
<1> DEFINE made == [pc |-> IF clock - plan.next > Grace THEN "read" ELSE "send", at |-> plan.next,
                    from |-> clock, read |-> NoPlan, fire |-> fire, since |-> clock]
<1>3. sender' = [sender EXCEPT ![h] = made]
  BY DEF ClaimAlert
<1>4. IsSender(made)
  BY <1>1, PlanConstants DEF IsSender, IsPlan, NoPlan
<1>5. /\ made.pc \in {"send", "read"} /\ made.at = plan.next /\ made.since = clock /\ made.from = clock
      /\ made.pc = "send" => clock - plan.next <= Grace
  BY <1>1, PlanConstants
<1> HIDE DEF made
<1>6. IsPlan(plan')
  BY <1>1, <1>2, PlanConstants DEF IsPlan
<1>7. /\ plan'.status = plan.status /\ plan'.notify = plan.notify /\ plan'.next = plan.next
      /\ plan'.days = plan.days /\ plan'.time = plan.time /\ plan'.claim = clock + Lease
  BY <1>1, <1>2 DEF IsPlan
<1>8. /\ DOMAIN sender' = Handlers /\ sender'[h] = made
      /\ \A g \in Handlers : g # h => sender'[g] = sender[g]
  BY <1>1, <1>3
<1>9. Working' = Working \cup {h}
  BY <1>5, <1>8 DEF Working
<1> QED
  BY <1>1, <1>4, <1>5, <1>6, <1>7, <1>8, <1>9

LEMMA ClaimKeeps ==
  ASSUME AlertInv, NEW h \in Handlers, sender[h].pc = "idle", Due, NEW fire, ClaimAlert(h, fire),
         swept' \in BOOLEAN, UNCHANGED <<clock, alerted, repeated, died, overtaken, raced, setbacks>>
  PROVE  PlanTypes' /\ (\A g \in Working : InHand(g))' /\ ReadsTell' /\ WorksAlone' /\ ToldBehind'
<1>0. PlanTypes /\ (\A g \in Working : InHand(g)) /\ ReadsTell /\ WorksAlone /\ ToldBehind
  BY DEF AlertInv
<1>1. /\ IsPlan(plan') /\ DOMAIN sender' = Handlers /\ \A g \in Handlers : IsSender(sender'[g])
      /\ plan'.status = "saved" /\ plan.status = "saved" /\ plan'.notify = plan.notify
      /\ plan'.days = plan.days /\ plan'.time = plan.time
      /\ plan'.next = plan.next /\ plan.next \in Nat /\ plan.next <= clock
      /\ plan'.claim = clock + Lease
      /\ Working' = Working \cup {h} /\ \A g \in Handlers : g # h => sender'[g] = sender[g]
      /\ sender'[h].pc \in {"send", "read"} /\ sender'[h].at = plan.next
      /\ sender'[h].pc = "send" => clock - plan.next <= Grace
      /\ sender'[h].since = clock /\ sender'[h].from = clock
  BY <1>0, ClaimIs
<1>2. ~ overtaken => Working = {}
  BY <1>0, ClaimIsOver
<1>3. PlanTypes'
  BY <1>0, <1>1 DEF PlanTypes
<1>4. \A g \in Working' : InHand(g)'
  <2>1. InHand(h)'
    BY <1>0, <1>1, PlanConstants DEF InHand, PlanTypes
  <2>2. ASSUME NEW g \in Working, g # h PROVE InHand(g)'
    <3>1. InHand(g) /\ sender'[g] = sender[g]
      BY <1>0, <1>1, <2>2 DEF Working
    <3> QED
      BY <1>1, <3>1 DEF InHand
  <2> QED
    BY <1>1, <2>1, <2>2
<1>5. ReadsTell'
  <2>1. AlertFollowsPlan'
    BY <1>0, <1>1 DEF ReadsTell, AlertFollowsPlan, RunsAt
  <2>2. \A g \in Handlers : sender'[g].pc = "write" => sender[g].pc = "write" /\ sender'[g] = sender[g]
    BY <1>1
  <2> QED
    BY <1>0, <1>1, <2>1, <2>2 DEF ReadsTell, SameTimes
<1>6. WorksAlone'
  <2> SUFFICES ASSUME ~ overtaken' PROVE \A g \in Working' : WorksAloneAt(g)'
    BY DEF WorksAlone
  <2>1. Working' = {h} /\ Working = {}
    BY <1>1, <1>2
  <2>2. plan.next \in alerted => plan.next \in died
    BY <1>0, <1>1, <2>1, PlanConstants DEF ToldBehind, Armed
  <2> QED
    BY <1>1, <2>1, <2>2 DEF WorksAloneAt
<1>7. ToldBehind'
  <2>1. Armed' => Armed
    BY <1>1 DEF Armed
  <2>2. Armed /\ plan.next \in alerted => plan.next \in died
    BY <1>0, <1>2 DEF ToldBehind, Armed
  <2> QED
    BY <1>0, <1>1, <2>1, <2>2 DEF ToldBehind, AlertedOnce
<1> QED
  BY <1>3, <1>4, <1>5, <1>6, <1>7

(* The lapse of a plan whose row and handlers a step left alone.           *)
LEMMA Claimed ==
  ASSUME AlertInv, NEW h \in Handlers, sender[h].pc = "idle", Due, NEW fire, ClaimAlert(h, fire)
  PROVE  /\ plan'.next = plan.next /\ plan.next \in Nat /\ plan'.claim = clock + Lease
         /\ Behind(setbacks)
         /\ h \in Working' /\ sender'[h].since = clock
<1>0. PlanTypes /\ (\A g \in Working : InHand(g)) /\ LapseTold
  BY DEF AlertInv
<1>1. /\ plan'.next = plan.next /\ plan.next \in Nat /\ plan'.claim = clock + Lease
      /\ h \in Working' /\ sender'[h].since = clock
  BY <1>0, ClaimIs
<1>2. \A g \in Handlers : ~ Holds(g)
  BY <1>0, ClaimIsOver
<1>3. plan.status = "saved" /\ plan.notify /\ plan.next # Never
  BY DEF Due
<1> QED
  BY <1>0, <1>1, <1>2, <1>3 DEF LapseTold

LEMMA TakeFireKeeps ==
  ASSUME AlertInv, NEW h \in Handlers, TakeFire(h)
  PROVE  AlertInv'
<1>0. /\ PlanTypes /\ (\A g \in Working : InHand(g)) /\ ReadsTell /\ WorksAlone /\ ToldBehind /\ LapseTold
      /\ UNCHANGED <<clock, swept, planEdits, planMishaps, alerted, repeated, died, overtaken, raced, setbacks>>
  BY DEF AlertInv, TakeFire, Taking
<1>1. CASE UNCHANGED <<plan, sender>>
  <2>1. Working' = Working
    BY <1>1 DEF Working
  <2>2. PlanTypes' /\ \A g \in Working' : InHand(g)'
    BY <1>0, <1>1, <2>1 DEF PlanTypes, InHand
  <2>3. ReadsTell'
    BY <1>0, <1>1 DEF ReadsTell, AlertFollowsPlan, SameTimes, RunsAt
  <2>4. WorksAlone'
    BY <1>0, <1>1, <2>1 DEF WorksAlone, WorksAloneAt
  <2>5. ToldBehind'
    BY <1>0, <1>1, <2>1 DEF ToldBehind, AlertedOnce, Armed
  <2>6. LapseTold'
    BY <1>0, <1>1, <2>1 DEF LapseTold, Holds, Behind, LastSweep
  <2> QED
    BY <2>2, <2>3, <2>4, <2>5, <2>6 DEF AlertInv
<1>2. CASE ~ UNCHANGED <<plan, sender>>
  <2>1. PICK f \in alerts : Due /\ ClaimAlert(h, {f})
    BY <1>2 DEF TakeFire
  <2>2. sender[h].pc = "idle"
    BY DEF TakeFire
  <2>3. swept' \in BOOLEAN
    BY <1>0 DEF PlanTypes
  <2>4. PlanTypes' /\ (\A g \in Working : InHand(g))' /\ ReadsTell' /\ WorksAlone' /\ ToldBehind'
    BY <1>0, <2>1, <2>2, <2>3, ClaimKeeps
  <2>5. /\ plan'.next = plan.next /\ plan.next \in Nat /\ plan'.claim = clock + Lease
        /\ Behind(setbacks) /\ h \in Working' /\ sender'[h].since = clock
    BY <2>1, <2>2, Claimed
  <2>6. LapseTold'
    <3>1. Behind(setbacks)' /\ Holds(h)'
      BY <1>0, <2>5 DEF Behind, Holds, LastSweep
    <3>2. plan'.claim <= clock' + Lease
      BY <1>0, <2>5, PlanConstants DEF PlanTypes
    <3> QED
      BY <3>1, <3>2 DEF LapseTold
  <2> QED
    BY <2>4, <2>6 DEF AlertInv
<1> QED
  BY <1>1, <1>2

(* The sweep of a day.                                                     *)
LEMMA SweepAt ==
  ASSUME PlanTypes, NEW h \in Handlers, SweepAlert(h)
  PROVE  LastSweep = clock - PlanDay /\ LastSweep' = clock
BY PlanConstants DEF PlanTypes, SweepAlert, SweepTime, Taking, LastSweep

LEMMA SweepAlertKeeps ==
  ASSUME AlertInv, NEW h \in Handlers, SweepAlert(h)
  PROVE  AlertInv'
<1>0. /\ PlanTypes /\ (\A g \in Working : InHand(g)) /\ ReadsTell /\ WorksAlone /\ ToldBehind /\ LapseTold
      /\ UNCHANGED <<clock, planEdits, planMishaps, alerted, repeated, died, overtaken, raced, setbacks>>
      /\ swept' = TRUE /\ sender[h].pc = "idle"
  BY DEF AlertInv, SweepAlert, Taking
<1>1. LastSweep = clock - PlanDay /\ LastSweep' = clock
  BY <1>0, SweepAt
<1>2. PICK s \in Nat, c \in Nat, day \in Nat : s = setbacks /\ c = clock /\ day = PlanDay
  BY <1>0, PlanConstants DEF PlanTypes
<1>3. PICK u \in Nat, v \in Int :
        u = s * PlanDay /\ v = (s - 1) * PlanDay /\ v = u - PlanDay /\ (s + 1) * PlanDay = u + PlanDay
  BY Periods
<1>4. CASE ~ Due
  <2>0. UNCHANGED <<plan, sender>>
    BY <1>4 DEF SweepAlert
  <2>1. Working' = Working
    BY <2>0 DEF Working
  <2>2. PlanTypes' /\ \A g \in Working' : InHand(g)'
    BY <1>0, <2>0, <2>1 DEF PlanTypes, InHand
  <2>3. ReadsTell'
    BY <1>0, <2>0 DEF ReadsTell, AlertFollowsPlan, SameTimes, RunsAt
  <2>4. WorksAlone'
    BY <1>0, <2>0, <2>1 DEF WorksAlone, WorksAloneAt
  <2>5. ToldBehind'
    BY <1>0, <2>0, <2>1 DEF ToldBehind, AlertedOnce, Armed
  <2>6. LapseTold'
    <3> SUFFICES ASSUME plan.status = "saved" /\ plan.notify /\ plan.next # Never
                 PROVE  /\ plan.claim <= clock + Lease
                        /\ \/ Behind(setbacks)'
                           \/ Behind(setbacks + 1)' /\ \E g \in Handlers : Holds(g)' /\ sender'[g].since <= LastSweep'
                        /\ ~ (LastSweep' + PlanDay <= plan.claim)
      BY <1>0, <2>0 DEF LapseTold
    <3>1. PICK n \in Nat, k \in Nat : n = plan.next /\ k = plan.claim
      BY <1>0, PlanIs
    <3>2. n > c \/ k >= c
      BY <1>2, <1>4, <3>1 DEF Due
    <3>3. k <= c + Lease
      BY <1>0, <1>2, <3>1 DEF LapseTold
    <3>4. ~ (LastSweep' + PlanDay <= plan.claim)
      BY <1>1, <1>2, <3>1, <3>3, PlanConstants
    <3>5. /\ Behind(setbacks - 1) <=> c - day - n < v + MaxRun + Grace
          /\ Behind(setbacks) <=> c - day - n < u + MaxRun + Grace
          /\ Behind(setbacks + 1) <=> c - day - n < u + day + MaxRun + Grace
          /\ Behind(setbacks)' <=> c - n < u + MaxRun + Grace
          /\ Behind(setbacks + 1)' <=> c - n < u + day + MaxRun + Grace
      BY <1>0, <1>1, <1>2, <1>3, <2>0, <3>1 DEF Behind
    <3>6. CASE n > c
      BY <3>3, <3>4, <3>5, <3>6, <1>2, <3>1, PlanConstants
    <3>7. CASE k >= c /\ Behind(setbacks - 1)
      BY <3>3, <3>4, <3>5, <3>7, <1>2, <1>3, <3>1, PlanConstants
    <3>8. CASE k >= c /\ ~ Behind(setbacks - 1)
      <4>1. LastSweep + PlanDay <= plan.claim
        BY <1>1, <1>2, <3>1, <3>8
      <4>2. PICK g \in Handlers : Holds(g)
        BY <1>0, <3>8, <4>1 DEF LapseTold
      <4>3. ASSUME NEW e \in Handlers, Holds(e) PROVE ~ (sender[e].since <= LastSweep) /\ sender[e].since <= c
        <5>1. e \in Working
          BY <4>3 DEF Holds
        <5>2. PICK t \in Nat : t = sender[e].since /\ t <= c /\ c <= t + MaxRun
          BY <1>0, <1>2, <5>1, HandIs
        <5> QED
          BY <1>1, <1>2, <5>2, PlanConstants
      <4>4. Behind(setbacks)
        BY <1>0, <4>3 DEF LapseTold
      <4>5. Behind(setbacks + 1)'
        BY <1>2, <3>5, <4>4, PlanConstants
      <4>6. Holds(g)' /\ sender'[g].since <= LastSweep'
        BY <1>0, <1>1, <1>2, <2>0, <2>1, <4>2, <4>3 DEF Holds
      <4> QED
        BY <1>2, <3>1, <3>3, <3>4, <4>5, <4>6
    <3> QED
      BY <3>2, <3>6, <3>7, <3>8
  <2> QED
    BY <2>2, <2>3, <2>4, <2>5, <2>6 DEF AlertInv
<1>5. CASE Due
  <2>1. ClaimAlert(h, {})
    BY <1>5 DEF SweepAlert
  <2>4. PlanTypes' /\ (\A g \in Working : InHand(g))' /\ ReadsTell' /\ WorksAlone' /\ ToldBehind'
    BY <1>0, <1>5, <2>1, ClaimKeeps
  <2>5. /\ plan'.next = plan.next /\ plan.next \in Nat /\ plan'.claim = clock + Lease
        /\ Behind(setbacks) /\ h \in Working' /\ sender'[h].since = clock
    BY <1>0, <1>5, <2>1, Claimed
  <2>6. LapseTold'
    <3>1. PICK n \in Nat : n = plan.next
      BY <2>5
    <3>2. /\ Behind(setbacks) <=> c - day - n < u + MaxRun + Grace
          /\ Behind(setbacks + 1)' <=> c - n < u + day + MaxRun + Grace
      BY <1>0, <1>1, <1>2, <1>3, <2>5, <3>1 DEF Behind
    <3>3. Behind(setbacks + 1)'
      BY <1>2, <2>5, <3>2, PlanConstants
    <3>4. Holds(h)' /\ sender'[h].since <= LastSweep'
      BY <1>0, <1>1, <1>2, <2>5 DEF Holds
    <3>5. plan'.claim <= clock' + Lease
      BY <1>0, <1>2, <2>5, PlanConstants
    <3> QED
      BY <3>3, <3>4, <3>5 DEF LapseTold
  <2> QED
    BY <2>4, <2>6 DEF AlertInv
<1> QED
  BY <1>4, <1>5

(* Time.                                                                   *)
LEMMA PlanTickKeeps ==
  ASSUME AlertInv, PlanTick
  PROVE  AlertInv'
<1>0. /\ PlanTypes /\ (\A g \in Working : InHand(g)) /\ ReadsTell /\ WorksAlone /\ ToldBehind /\ LapseTold
      /\ UNCHANGED <<plan, sender, alerted, repeated, died, overtaken, raced, setbacks>>
      /\ clock' = clock + 1 /\ swept' = FALSE /\ \A h \in Working : clock - sender[h].since < MaxRun
  BY DEF AlertInv, PlanTick
<1>1. Working' = Working
  BY <1>0 DEF Working
<1>2. LastSweep' = LastSweep
  BY <1>0, SweepTicks
<1>3. PlanTypes'
  <2>0. swept' \in BOOLEAN
    BY <1>0
  <2>1. clock' \in Nat /\ clock' >= 1
    <3>1. clock \in Nat /\ clock >= 1
      BY <1>0 DEF PlanTypes
    <3> QED
      BY <1>0, <3>1
  <2>2. IsPlan(plan') /\ DOMAIN sender' = Handlers /\ \A h \in Handlers : IsSender(sender'[h])
    BY <1>0 DEF PlanTypes
  <2>3. setbacks' \in Nat /\ overtaken' \in BOOLEAN /\ raced' \in BOOLEAN
    BY <1>0 DEF PlanTypes
  <2> QED
    BY <2>0, <2>1, <2>2, <2>3 DEF PlanTypes
<1>4. \A h \in Working' : InHand(h)'
  <2> SUFFICES ASSUME NEW h \in Working PROVE InHand(h)'
    BY <1>1
  <2>1. PICK t \in Nat, c \in Nat : t = sender[h].since /\ c = clock /\ t <= c /\ c - t < MaxRun
    BY <1>0, HandIs DEF PlanTypes
  <2>2. sender'[h].since <= clock' /\ clock' <= sender'[h].since + MaxRun
    BY <1>0, <2>1, PlanConstants
  <2> QED
    BY <1>0, <2>2 DEF InHand
<1>5. ReadsTell'
  BY <1>0 DEF ReadsTell, AlertFollowsPlan, SameTimes, RunsAt
<1>6. WorksAlone'
  BY <1>0, <1>1 DEF WorksAlone, WorksAloneAt
<1>7. ToldBehind'
  <2>1. \A a \in alerted : a <= clock'
    BY <1>0 DEF ToldBehind, PlanTypes
  <2> QED
    BY <1>0, <1>1, <2>1 DEF ToldBehind, AlertedOnce, Armed
<1>8. LapseTold'
  <2>1. plan.claim <= clock + Lease => plan'.claim <= clock' + Lease
    BY <1>0, PlanIs, PlanConstants DEF PlanTypes
  <2> QED
    BY <1>0, <1>1, <1>2, <2>1 DEF LapseTold, Holds, Behind
<1> QED
  BY <1>3, <1>4, <1>5, <1>6, <1>7, <1>8 DEF AlertInv

(* An alert that has just been armed has not lapsed.                       *)
LEMMA FreshTold ==
  ASSUME NEW s \in Nat, NEW l \in Int, NEW c \in Nat, NEW n \in Nat, l <= c, c < n + MaxRun + Grace
  PROVE  l - n < (s * PlanDay) + MaxRun + Grace
<1>1. PICK u \in Nat : u = s * PlanDay
  BY Periods
<1> QED
  BY <1>1, PlanConstants

(* Saving and deleting the plan.                                           *)
LEMMA SaveIs ==
  ASSUME PlanTypes, Save
  PROVE  /\ IsPlan(plan') /\ plan'.status = "saved" /\ plan'.claim = 0
         /\ plan'.notify <=> plan'.next # Never
         /\ plan'.next # Never => plan'.next \in Nat /\ plan'.next > clock /\ RunsAt(plan', plan'.next)
<1>1. PICK m \in Moments :
        plan' = [status |-> "saved", days |-> m.days, time |-> m.time, notify |-> m.notify,
                 next |-> Rearm(m, clock), claim |-> 0]
  BY DEF Save
<1>2. /\ m.days \in SUBSET (0 .. WeekDays - 1) /\ m.days # {} /\ m.time \in 0 .. PlanDay - 1
      /\ m.notify \in BOOLEAN
  <2>1. m \in [days : (SUBSET (0 .. WeekDays - 1)) \ {{}}, time : 0 .. PlanDay - 1, notify : BOOLEAN]
    BY <1>1 DEF Moments
  <2>2. m.days \in (SUBSET (0 .. WeekDays - 1)) \ {{}}
    BY <2>1
  <2> QED
    BY <2>1, <2>2
<1>3. clock \in Nat
  BY DEF PlanTypes
<1>4. PICK x \in Nat \cup {Never} : x = Rearm(m, clock) /\ (m.notify <=> x # Never)
                                  /\ (x # Never => x \in Nat /\ x > clock /\ RunsAt(m, x))
  BY <1>2, <1>3, RearmIs
<1>5. plan' = [status |-> "saved", days |-> m.days, time |-> m.time, notify |-> m.notify,
               next |-> x, claim |-> 0]
  BY <1>1, <1>4
<1>6. IsPlan(plan')
  BY <1>2, <1>4, <1>5, PlanConstants DEF IsPlan
<1>7. /\ plan'.status = "saved" /\ plan'.claim = 0 /\ plan'.next = x /\ plan'.notify = m.notify
      /\ plan'.days = m.days /\ plan'.time = m.time
  BY <1>5
<1>8. x # Never => RunsAt(plan', x)
  BY <1>4, <1>7 DEF RunsAt
<1> QED
  BY <1>4, <1>6, <1>7, <1>8

LEMMA SaveKeeps ==
  ASSUME AlertInv, Save
  PROVE  AlertInv'
<1>0. /\ PlanTypes /\ (\A g \in Working : InHand(g)) /\ ReadsTell /\ WorksAlone /\ ToldBehind /\ LapseTold
      /\ UNCHANGED <<clock, sender, swept, alerted, repeated, died, setbacks>>
      /\ raced' = (\E h \in Handlers : sender[h].pc = "write")
      /\ overtaken' = (overtaken \/ Working # {})
  BY DEF AlertInv, Save, Overtaken
<1>1. /\ IsPlan(plan') /\ plan'.status = "saved" /\ plan'.claim = 0
      /\ plan'.notify <=> plan'.next # Never
      /\ plan'.next # Never => plan'.next \in Nat /\ plan'.next > clock /\ RunsAt(plan', plan'.next)
  BY <1>0, SaveIs
<1>2. Working' = Working
  BY <1>0 DEF Working
<1>3. PlanTypes'
  <2>1. raced' \in BOOLEAN /\ overtaken' \in BOOLEAN
    BY <1>0 DEF PlanTypes
  <2> QED
    BY <1>0, <1>1, <2>1 DEF PlanTypes
<1>4. \A h \in Working' : InHand(h)'
  BY <1>0, <1>1, <1>2 DEF InHand
<1>5. ReadsTell'
  <2>1. AlertFollowsPlan'
    BY <1>1 DEF AlertFollowsPlan
  <2>2. raced' => overtaken'
    BY <1>0 DEF Working
  <2>3. ~ raced' => \A h \in Handlers : sender'[h].pc # "write"
    BY <1>0
  <2> QED
    BY <2>1, <2>2, <2>3 DEF ReadsTell
<1>6. WorksAlone'
  BY <1>0, <1>2 DEF WorksAlone
<1>7. ToldBehind'
  <2>1. ~ overtaken' => ~ overtaken
    BY <1>0
  <2>2. plan'.next # Never => \A a \in alerted : a <= plan'.next /\ a # plan'.next
    <3> SUFFICES ASSUME plan'.next # Never, NEW a \in alerted PROVE a <= plan'.next /\ a # plan'.next
      OBVIOUS
    <3>1. a \in Nat /\ a <= clock /\ clock \in Nat /\ plan'.next \in Nat /\ plan'.next > clock
      BY <1>0, <1>1 DEF ToldBehind, PlanTypes
    <3> QED
      BY <3>1
  <2> QED
    BY <1>0, <2>1, <2>2 DEF ToldBehind, Armed, AlertedOnce
<1>8. LapseTold'
  <2> SUFFICES ASSUME plan'.next # Never
               PROVE  /\ plan'.claim <= clock' + Lease /\ Behind(setbacks)'
                      /\ ~ (LastSweep' + PlanDay <= plan'.claim)
    BY DEF LapseTold
  <2>1. LastSweep' = LastSweep
    BY <1>0 DEF LastSweep
  <2>2. LastSweep \in Int /\ LastSweep <= clock /\ clock <= LastSweep + PlanDay
    BY <1>0, SweepIs
  <2>3. PICK n \in Nat, c \in Nat, s \in Nat, l \in Int :
          n = plan'.next /\ c = clock /\ s = setbacks /\ l = LastSweep /\ n > c /\ c >= 1
    BY <1>0, <1>1, <2>2 DEF PlanTypes
  <2>4. l - n < (s * PlanDay) + MaxRun + Grace
    BY <2>2, <2>3, FreshTold, PlanConstants
  <2>5. Behind(setbacks)'
    BY <1>0, <2>1, <2>3, <2>4 DEF Behind
  <2> QED
    BY <1>0, <1>1, <2>1, <2>2, <2>3, <2>5, PlanConstants
<1> QED
  BY <1>3, <1>4, <1>5, <1>6, <1>7, <1>8 DEF AlertInv

LEMMA DeleteKeeps ==
  ASSUME AlertInv, Delete
  PROVE  AlertInv'
<1>0. /\ PlanTypes /\ (\A g \in Working : InHand(g)) /\ ReadsTell /\ WorksAlone /\ ToldBehind /\ LapseTold
      /\ UNCHANGED <<clock, sender, swept, alerted, repeated, died, overtaken, raced, setbacks>>
      /\ plan' = [NoPlan EXCEPT !.status = "deleted"]
  BY DEF AlertInv, Delete
<1>1. IsPlan(plan') /\ plan'.status = "deleted"
  BY <1>0, PlanConstants DEF IsPlan, NoPlan
<1>2. Working' = Working
  BY <1>0 DEF Working
<1>3. PlanTypes'
  BY <1>0, <1>1 DEF PlanTypes
<1>4. \A h \in Working' : InHand(h)'
  BY <1>0, <1>1, <1>2 DEF InHand
<1>5. ReadsTell'
  BY <1>0, <1>1 DEF ReadsTell, AlertFollowsPlan
<1>6. WorksAlone'
  BY <1>0, <1>1, <1>2 DEF WorksAlone, WorksAloneAt
<1>7. ToldBehind'
  BY <1>0, <1>1 DEF ToldBehind, Armed, AlertedOnce
<1>8. LapseTold'
  BY <1>1 DEF LapseTold
<1> QED
  BY <1>3, <1>4, <1>5, <1>6, <1>7, <1>8 DEF AlertInv

(* The send.                                                               *)
LEMMA SendKeeps ==
  ASSUME AlertInv, NEW h \in Handlers, Send(h)
  PROVE  AlertInv'
<1>0. /\ PlanTypes /\ (\A g \in Working : InHand(g)) /\ ReadsTell /\ WorksAlone /\ ToldBehind /\ LapseTold
      /\ UNCHANGED <<clock, swept, planEdits, died, overtaken, raced>>
      /\ sender[h].pc = "send" /\ h \in Working
  BY DEF AlertInv, Send, Working
<1>1. /\ sender[h].at \in Nat /\ sender[h].since \in Nat /\ clock \in Nat /\ sender[h].at <= sender[h].since
      /\ sender[h].since <= clock /\ sender[h].since - sender[h].at <= Grace /\ plan.status # "none"
  BY <1>0, HandIs DEF InHand, PlanTypes
<1>2. LastSweep' = LastSweep
  BY <1>0 DEF LastSweep
<1>3. ~ overtaken => WorksAloneAt(h) /\ Working \ {h} = {}
  BY <1>0, NobodyElse DEF WorksAlone
<1>5. CASE setbacks' = setbacks
  <2>0. /\ alerted' = alerted \cup {sender[h].at}
        /\ repeated' = IF sender[h].at \in alerted THEN repeated \cup {sender[h].at} ELSE repeated
        /\ sender' = [sender EXCEPT ![h].pc = "read", ![h].from = sender[h].at]
    BY <1>0, <1>5 DEF Send, PlanTypes
  <2>9. UNCHANGED plan
    BY <1>0, <1>5 DEF Send, PlanTypes
  <2>1. /\ DOMAIN sender' = Handlers /\ \A g \in Handlers : g # h => sender'[g] = sender[g]
        /\ sender'[h].pc = "read" /\ sender'[h].at = sender[h].at /\ sender'[h].from = sender[h].at
        /\ sender'[h].since = sender[h].since /\ IsSender(sender'[h])
    BY <1>0, <2>0 DEF PlanTypes, IsSender
  <2>2. Working' = Working
    BY <1>0, <2>1 DEF Working
  <2>3. PlanTypes'
    BY <1>0, <2>9, <1>5, <2>1 DEF PlanTypes
  <2>4. \A g \in Working' : InHand(g)'
    <3>1. InHand(h)'
      BY <1>0, <1>1, <2>9, <2>1 DEF InHand
    <3>2. ASSUME NEW g \in Working, g # h PROVE InHand(g)'
      <4>1. InHand(g) /\ sender'[g] = sender[g]
        BY <1>0, <2>1, <3>2 DEF Working
      <4> QED
        BY <1>0, <2>9, <4>1 DEF InHand
    <3> QED
      BY <2>2, <3>1, <3>2
  <2>5. ReadsTell'
    <3>1. AlertFollowsPlan'
      BY <1>0, <2>9 DEF ReadsTell, AlertFollowsPlan, RunsAt
    <3>2. \A g \in Handlers : sender'[g].pc = "write" => sender[g].pc = "write" /\ sender'[g] = sender[g]
      BY <2>1
    <3> QED
      BY <1>0, <2>9, <3>1, <3>2 DEF ReadsTell, SameTimes
  <2>6. WorksAlone'
    <3> SUFFICES ASSUME ~ overtaken' PROVE \A g \in Working' : WorksAloneAt(g)'
      BY DEF WorksAlone
    <3>1. Working' = {h} /\ WorksAloneAt(h)
      BY <1>0, <1>3, <2>2
    <3> QED
      BY <2>9, <2>1, <3>1 DEF WorksAloneAt
  <2>7. ToldBehind'
    <3>1. alerted' \subseteq Nat /\ \A a \in alerted' : a <= clock'
      BY <1>0, <1>1, <2>0 DEF ToldBehind
    <3>2. Armed' => Armed /\ plan'.next = plan.next /\ plan.next = sender[h].at
      BY <1>0, <1>3, <2>9 DEF Armed, WorksAloneAt
    <3>3. Armed' => \A a \in alerted' : a <= plan'.next
      BY <1>0, <1>1, <2>0, <3>2 DEF ToldBehind
    <3>4. AlertedOnce'
      BY <1>0, <1>3, <2>0 DEF ToldBehind, AlertedOnce, WorksAloneAt
    <3> QED
      BY <1>0, <2>1, <2>2, <3>1, <3>3, <3>4 DEF ToldBehind
  <2>8. LapseTold'
    <3>1. \A g \in Handlers : (Holds(g)' <=> Holds(g)) /\ sender'[g].since = sender[g].since
      BY <2>9, <2>1, <2>2 DEF Holds
    <3>2. /\ Behind(setbacks)' <=> Behind(setbacks)
          /\ Behind(setbacks + 1)' <=> Behind(setbacks + 1)
          /\ Behind(setbacks - 1)' <=> Behind(setbacks - 1)
      BY <1>2, <2>9, <1>5 DEF Behind
    <3> QED
      BY <1>0, <1>2, <2>9, <3>1, <3>2 DEF LapseTold
  <2> QED
    BY <2>3, <2>4, <2>5, <2>6, <2>7, <2>8 DEF AlertInv
<1>6. CASE setbacks' # setbacks
  <2>0. setbacks' = setbacks + 1 /\ plan' = [plan EXCEPT !.claim = 0] /\ Leave(h) /\ UNCHANGED <<alerted, repeated>>
    BY <1>0, <1>6 DEF Send
  <2>1. /\ DOMAIN sender' = Handlers /\ \A g \in Handlers : IsSender(sender'[g])
        /\ Working' = Working \ {h}
        /\ sender'[h] = Waiting /\ \A g \in Handlers : g # h => sender'[g] = sender[g]
    BY <1>0, <2>0, LeaveIs
  <2>2. /\ IsPlan(plan') /\ plan'.claim = 0 /\ plan'.status = plan.status /\ plan'.next = plan.next
        /\ plan'.notify = plan.notify /\ plan'.days = plan.days /\ plan'.time = plan.time
    BY <1>0, <2>0 DEF PlanTypes, IsPlan
  <2>3. PlanTypes'
    <3>1. setbacks' \in Nat
      BY <1>0, <2>0 DEF PlanTypes
    <3> QED
      BY <1>0, <2>1, <2>2, <3>1 DEF PlanTypes
  <2>4. \A g \in Working' : InHand(g)'
    <3> SUFFICES ASSUME NEW g \in Working, g # h PROVE InHand(g)'
      BY <2>1
    <3>1. InHand(g) /\ sender'[g] = sender[g]
      BY <1>0, <2>1 DEF Working
    <3> QED
      BY <1>0, <2>2, <3>1 DEF InHand
  <2>5. ReadsTell'
    <3>1. AlertFollowsPlan'
      BY <1>0, <2>2 DEF ReadsTell, AlertFollowsPlan, RunsAt
    <3>2. \A g \in Handlers : sender'[g].pc = "write" => sender[g].pc = "write" /\ sender'[g] = sender[g]
      BY <2>1 DEF Waiting
    <3> QED
      BY <1>0, <2>2, <3>1, <3>2 DEF ReadsTell, SameTimes
  <2>6. WorksAlone'
    BY <1>0, <1>3, <2>1 DEF WorksAlone
  <2>7. ToldBehind'
    <3>1. Armed' => Armed /\ plan'.next = sender[h].at
      BY <1>0, <1>3, <2>2 DEF Armed, WorksAloneAt
    <3>2. Armed' /\ plan'.next \in alerted => plan'.next \in died
      BY <1>0, <1>3, <3>1 DEF Armed, WorksAloneAt
    <3> QED
      BY <1>0, <2>0, <2>2, <3>1, <3>2 DEF ToldBehind, AlertedOnce
  <2>8. LapseTold'
    <3> SUFFICES ASSUME plan.status = "saved" /\ plan.notify /\ plan.next # Never
                 PROVE  /\ plan'.claim <= clock' + Lease /\ Behind(setbacks)'
                        /\ ~ (LastSweep' + PlanDay <= plan'.claim)
      BY <2>2 DEF LapseTold
    <3>1. LastSweep \in Int /\ LastSweep <= clock /\ clock <= LastSweep + PlanDay
      BY <1>0, SweepIs
    <3>2. PICK n \in Nat, s \in Nat, l \in Int, day \in Nat :
            n = plan.next /\ s = setbacks /\ l = LastSweep /\ day = PlanDay
      BY <1>0, <3>1, PlanIs, PlanConstants DEF PlanTypes
    <3>3. PICK u \in Nat, v \in Int :
            u = s * PlanDay /\ v = (s - 1) * PlanDay /\ v = u - PlanDay /\ (s + 1) * PlanDay = u + PlanDay
      BY Periods
    <3>4. /\ Behind(setbacks) <=> l - n < u + MaxRun + Grace
          /\ Behind(setbacks + 1) <=> l - n < u + day + MaxRun + Grace
          /\ Behind(setbacks)' <=> l - n < u + day + MaxRun + Grace
      BY <1>2, <2>0, <2>2, <3>2, <3>3 DEF Behind
    <3>5. Behind(setbacks) \/ Behind(setbacks + 1)
      BY <1>0 DEF LapseTold
    <3>6. Behind(setbacks)'
      BY <3>2, <3>4, <3>5, PlanConstants
    <3>7. plan'.claim = 0 /\ clock >= 1 /\ clock' = clock
      BY <1>0, <2>2 DEF PlanTypes
    <3> QED
      BY <1>1, <1>2, <3>1, <3>6, <3>7, PlanConstants
  <2> QED
    BY <2>3, <2>4, <2>5, <2>6, <2>7, <2>8 DEF AlertInv
<1> QED
  BY <1>5, <1>6

(* Advance: the read.                                                      *)
LEMMA AdvanceReadKeeps ==
  ASSUME AlertInv, NEW h \in Handlers, AdvanceRead(h)
  PROVE  AlertInv'
<1>0. /\ PlanTypes /\ (\A g \in Working : InHand(g)) /\ ReadsTell /\ WorksAlone /\ ToldBehind /\ LapseTold
      /\ UNCHANGED <<clock, plan, swept, alerted, repeated, died, overtaken, raced, setbacks>>
      /\ sender[h].pc = "read" /\ h \in Working
  BY DEF AlertInv, AdvanceRead, Working
<1>1. AlertFollowsPlan'
  BY <1>0 DEF ReadsTell, AlertFollowsPlan, RunsAt
<1>2. CASE plan.status = "deleted"
  <2>1. Leave(h)
    BY <1>2 DEF AdvanceRead
  <2>2. /\ DOMAIN sender' = Handlers /\ \A g \in Handlers : IsSender(sender'[g])
        /\ Working' = Working \ {h}
        /\ sender'[h] = Waiting /\ \A g \in Handlers : g # h => sender'[g] = sender[g]
    BY <1>0, <2>1, LeaveIs
  <2>3. PlanTypes'
    BY <1>0, <2>2 DEF PlanTypes
  <2>4. \A g \in Working' : InHand(g)'
    <3> SUFFICES ASSUME NEW g \in Working, g # h PROVE InHand(g)'
      BY <2>2
    <3>1. InHand(g) /\ sender'[g] = sender[g]
      BY <1>0, <2>2 DEF Working
    <3> QED
      BY <1>0, <3>1 DEF InHand
  <2>5. ReadsTell' /\ LapseTold'
    BY <1>0, <1>1, <1>2 DEF ReadsTell, LapseTold
  <2>6. WorksAlone'
    BY <1>0, <2>2, NobodyElse DEF WorksAlone
  <2>7. ToldBehind'
    BY <1>0, <1>2 DEF ToldBehind, Armed, AlertedOnce
  <2> QED
    BY <2>3, <2>4, <2>5, <2>6, <2>7 DEF AlertInv
<1>3. CASE plan.status # "deleted"
  <2>1. sender' = [sender EXCEPT ![h].pc = "write", ![h].read = plan]
    BY <1>3 DEF AdvanceRead
  <2>2. /\ DOMAIN sender' = Handlers /\ \A g \in Handlers : g # h => sender'[g] = sender[g]
        /\ sender'[h].pc = "write" /\ sender'[h].at = sender[h].at /\ sender'[h].from = sender[h].from
        /\ sender'[h].since = sender[h].since /\ sender'[h].read = plan /\ IsSender(sender'[h])
    BY <1>0, <2>1 DEF PlanTypes, IsSender
  <2>3. Working' = Working
    BY <1>0, <2>2 DEF Working
  <2>4. PlanTypes'
    BY <1>0, <2>2 DEF PlanTypes
  <2>5. \A g \in Working' : InHand(g)'
    <3>1. InHand(h)'
      <4>1. InHand(h) /\ plan.status = "saved"
        BY <1>0, <1>3, PlanIs DEF InHand
      <4> QED
        BY <1>0, <2>2, <4>1 DEF InHand
    <3>2. ASSUME NEW g \in Working, g # h PROVE InHand(g)'
      <4>1. InHand(g) /\ sender'[g] = sender[g]
        BY <1>0, <2>2, <3>2 DEF Working
      <4> QED
        BY <1>0, <4>1 DEF InHand
    <3> QED
      BY <2>3, <3>1, <3>2
  <2>6. ReadsTell'
    <3>1. \A g \in Handlers : sender'[g].pc = "write" =>
            g = h \/ (sender[g].pc = "write" /\ sender'[g] = sender[g])
      BY <2>2
    <3> QED
      BY <1>0, <1>1, <2>2, <3>1 DEF ReadsTell, SameTimes
  <2>7. WorksAlone'
    <3> SUFFICES ASSUME ~ overtaken' PROVE \A g \in Working' : WorksAloneAt(g)'
      BY DEF WorksAlone
    <3>1. Working' = {h} /\ WorksAloneAt(h)
      BY <1>0, <2>3, NobodyElse DEF WorksAlone
    <3> QED
      BY <1>0, <2>2, <3>1 DEF WorksAloneAt
  <2>8. ToldBehind'
    <3>1. Armed' <=> Armed
      BY <1>0 DEF Armed
    <3>2. h \in Working' /\ sender'[h].pc # "send"
      BY <1>0, <2>2, <2>3
    <3> QED
      BY <1>0, <3>1, <3>2 DEF ToldBehind, AlertedOnce
  <2>9. LapseTold'
    <3>1. \A g \in Handlers : (Holds(g)' <=> Holds(g)) /\ sender'[g].since = sender[g].since
      BY <1>0, <2>2, <2>3 DEF Holds
    <3>2. /\ Behind(setbacks)' <=> Behind(setbacks)
          /\ Behind(setbacks + 1)' <=> Behind(setbacks + 1)
          /\ Behind(setbacks - 1)' <=> Behind(setbacks - 1)
          /\ LastSweep' = LastSweep
      BY <1>0 DEF Behind, LastSweep
    <3> QED
      BY <1>0, <3>1, <3>2 DEF LapseTold
  <2> QED
    BY <2>4, <2>5, <2>6, <2>7, <2>8, <2>9 DEF AlertInv
<1> QED
  BY <1>2, <1>3

(* Advance: the write.                                                     *)
LEMMA AdvanceWriteIs ==
  ASSUME PlanTypes, NEW h \in Working, InHand(h), AdvanceWrite(h), plan.status = "saved"
  PROVE  /\ IsPlan(plan') /\ plan'.status = "saved" /\ plan'.claim = 0
         /\ plan'.days = plan.days /\ plan'.time = plan.time /\ plan'.notify = plan.notify
         /\ sender[h].read.notify <=> plan'.next # Never
         /\ plan'.next # Never =>
              plan'.next \in Nat /\ plan'.next > sender[h].from /\ RunsAt(sender[h].read, plan'.next)
<1>1. sender[h].pc = "write" /\ sender[h].read.status = "saved"
  BY DEF InHand, AdvanceWrite
<1>2. PICK p : p = sender[h].read /\ IsPlan(p) /\ p.status = "saved"
  BY <1>1 DEF PlanTypes, IsSender, Working
<1>3. PICK f \in Nat : f = sender[h].from
  BY HandIs
<1>4. p.days \in SUBSET (0 .. WeekDays - 1) /\ p.days # {} /\ p.time \in 0 .. PlanDay - 1 /\ p.notify \in BOOLEAN
  <2>1. p.days \in SUBSET (0 .. WeekDays - 1) /\ p.days # {} /\ p.time \in Nat /\ p.time < PlanDay
    BY <1>2 DEF IsPlan
  <2>2. p.notify \in BOOLEAN
    BY <1>2 DEF IsPlan
  <2> QED
    BY <2>1, <2>2, PlanConstants
<1>5. PICK x \in Nat \cup {Never} : x = Rearm(p, f) /\ (p.notify <=> x # Never)
                                  /\ (x # Never => x \in Nat /\ x > f /\ RunsAt(p, x))
  BY <1>4, RearmIs
<1>6. plan' = [plan EXCEPT !.next = x, !.claim = 0]
  BY <1>2, <1>3, <1>5 DEF AdvanceWrite
<1>7. /\ IsPlan(plan') /\ plan'.status = "saved" /\ plan'.claim = 0 /\ plan'.next = x
      /\ plan'.days = plan.days /\ plan'.time = plan.time /\ plan'.notify = plan.notify
  BY <1>5, <1>6 DEF PlanTypes, IsPlan
<1> QED
  BY <1>2, <1>3, <1>5, <1>7

LEMMA AdvanceWriteKeeps ==
  ASSUME AlertInv, NEW h \in Handlers, AdvanceWrite(h)
  PROVE  AlertInv'
<1>0. /\ PlanTypes /\ (\A g \in Working : InHand(g)) /\ ReadsTell /\ WorksAlone /\ ToldBehind /\ LapseTold
      /\ UNCHANGED <<clock, swept, alerted, repeated, died, overtaken, raced, setbacks>>
      /\ sender[h].pc = "write" /\ h \in Working /\ Leave(h)
  BY DEF AlertInv, AdvanceWrite, Working
<1>1. /\ DOMAIN sender' = Handlers /\ \A g \in Handlers : IsSender(sender'[g])
      /\ Working' = Working \ {h}
      /\ sender'[h] = Waiting /\ \A g \in Handlers : g # h => sender'[g] = sender[g]
  BY <1>0, LeaveIs
<1>2. /\ sender[h].at \in Nat /\ sender[h].since \in Nat /\ sender[h].from \in Nat /\ clock \in Nat
      /\ sender[h].at <= sender[h].since /\ sender[h].since <= clock /\ clock <= sender[h].since + MaxRun
      /\ plan.status # "none"
      /\ \/ sender[h].from = sender[h].since
         \/ sender[h].from = sender[h].at /\ sender[h].since - sender[h].at <= Grace
  BY <1>0, HandIs DEF InHand, PlanTypes
<1>3. \A g \in Handlers : sender'[g].pc = "write" => sender[g].pc = "write" /\ sender'[g] = sender[g]
  BY <1>1 DEF Waiting
<1>4. WorksAlone'
  BY <1>0, <1>1, NobodyElse DEF WorksAlone
<1>5. plan'.status = plan.status => \A g \in Working' : InHand(g)'
  <2> SUFFICES ASSUME plan'.status = plan.status, NEW g \in Working, g # h PROVE InHand(g)'
    BY <1>1
  <2>1. InHand(g) /\ sender'[g] = sender[g]
    BY <1>0, <1>1 DEF Working
  <2> QED
    BY <1>0, <2>1 DEF InHand
<1>6. CASE plan.status = "deleted"
  <2>1. UNCHANGED plan
    BY <1>6 DEF AdvanceWrite
  <2>2. PlanTypes'
    BY <1>0, <1>1, <2>1 DEF PlanTypes
  <2>3. ReadsTell' /\ LapseTold'
    BY <1>0, <1>6, <2>1 DEF ReadsTell, LapseTold, AlertFollowsPlan
  <2>4. ToldBehind'
    BY <1>0, <1>6, <2>1 DEF ToldBehind, Armed, AlertedOnce
  <2> QED
    BY <1>4, <1>5, <2>1, <2>2, <2>3, <2>4 DEF AlertInv
<1>7. CASE plan.status # "deleted"
  <2>1. plan.status = "saved"
    BY <1>0, <1>2, <1>7, PlanIs
  <2>2. /\ IsPlan(plan') /\ plan'.status = "saved" /\ plan'.claim = 0
        /\ plan'.days = plan.days /\ plan'.time = plan.time /\ plan'.notify = plan.notify
        /\ sender[h].read.notify <=> plan'.next # Never
        /\ plan'.next # Never =>
             plan'.next \in Nat /\ plan'.next > sender[h].from /\ RunsAt(sender[h].read, plan'.next)
    BY <1>0, <2>1, AdvanceWriteIs
  <2>3. PlanTypes'
    BY <1>0, <1>1, <2>2 DEF PlanTypes
  <2>4. ReadsTell'
    <3>1. ~ raced => SameTimes(sender[h].read, plan)
      BY <1>0, <2>1 DEF ReadsTell
    <3>2. AlertFollowsPlan'
      BY <1>0, <2>2, <3>1 DEF AlertFollowsPlan, SameTimes, RunsAt
    <3> QED
      BY <1>0, <1>3, <2>1, <2>2, <3>2 DEF ReadsTell, SameTimes
  <2>5. ToldBehind'
    <3>1. Armed' => \A a \in alerted : a <= plan'.next /\ a # plan'.next
      <4> SUFFICES ASSUME Armed', NEW a \in alerted PROVE a <= plan'.next /\ a # plan'.next
        OBVIOUS
      <4>1. ~ overtaken /\ WorksAloneAt(h)
        BY <1>0 DEF Armed, WorksAlone
      <4>2. plan.next = sender[h].at /\ plan.next # Never
        BY <1>2, <2>1, <4>1, PlanConstants DEF WorksAloneAt
      <4>3. a \in Nat /\ a <= sender[h].at
        BY <1>0, <2>1, <4>1, <4>2 DEF ToldBehind, Armed
      <4>4. plan'.next \in Nat /\ plan'.next > sender[h].from
        BY <2>2 DEF Armed
      <4> QED
        BY <1>2, <4>3, <4>4
    <3> QED
      BY <1>0, <3>1 DEF ToldBehind, AlertedOnce
  <2>6. LapseTold'
    <3> SUFFICES ASSUME plan'.next # Never
                 PROVE  /\ plan'.claim <= clock' + Lease /\ Behind(setbacks)'
                        /\ ~ (LastSweep' + PlanDay <= plan'.claim)
      BY DEF LapseTold
    <3>1. LastSweep' = LastSweep
      BY <1>0 DEF LastSweep
    <3>2. LastSweep \in Int /\ LastSweep <= clock /\ clock <= LastSweep + PlanDay /\ clock >= 1
      BY <1>0, SweepIs DEF PlanTypes
    <3>3. PICK n \in Nat, c \in Nat, s \in Nat, l \in Int :
            n = plan'.next /\ c = clock /\ s = setbacks /\ l = LastSweep /\ n > sender[h].from
      BY <1>0, <2>2, <3>2 DEF PlanTypes
    <3>4. c < n + MaxRun + Grace
      BY <1>2, <3>3, PlanConstants
    <3>5. l - n < (s * PlanDay) + MaxRun + Grace
      BY <3>2, <3>3, <3>4, FreshTold
    <3>6. Behind(setbacks)'
      BY <1>0, <3>1, <3>3, <3>5 DEF Behind
    <3> QED
      BY <1>0, <2>2, <3>1, <3>2, <3>3, <3>6, PlanConstants
  <2> QED
    BY <1>4, <1>5, <2>1, <2>2, <2>3, <2>4, <2>5, <2>6 DEF AlertInv
<1> QED
  BY <1>6, <1>7

(* A request that dies.                                                    *)
LEMMA PerishKeeps ==
  ASSUME AlertInv, NEW h \in Handlers, Perish(h)
  PROVE  AlertInv'
<1>0. /\ PlanTypes /\ (\A g \in Working : InHand(g)) /\ ReadsTell /\ WorksAlone /\ ToldBehind /\ LapseTold
      /\ UNCHANGED <<clock, plan, swept, alerted, repeated, overtaken, raced>>
      /\ setbacks' = setbacks + 1 /\ died' = died \cup {sender[h].at} /\ h \in Working /\ Leave(h)
  BY DEF AlertInv, Perish, Working
<1>1. /\ DOMAIN sender' = Handlers /\ \A g \in Handlers : IsSender(sender'[g])
      /\ Working' = Working \ {h}
      /\ sender'[h] = Waiting /\ \A g \in Handlers : g # h => sender'[g] = sender[g]
  BY <1>0, LeaveIs
<1>2. PlanTypes'
  <2>1. setbacks' \in Nat
    BY <1>0 DEF PlanTypes
  <2> QED
    BY <1>0, <1>1, <2>1 DEF PlanTypes
<1>3. \A g \in Working' : InHand(g)'
  <2> SUFFICES ASSUME NEW g \in Working, g # h PROVE InHand(g)'
    BY <1>1
  <2>1. InHand(g) /\ sender'[g] = sender[g]
    BY <1>0, <1>1 DEF Working
  <2> QED
    BY <1>0, <2>1 DEF InHand
<1>4. ReadsTell'
  <2>1. AlertFollowsPlan'
    BY <1>0 DEF ReadsTell, AlertFollowsPlan, RunsAt
  <2>2. \A g \in Handlers : sender'[g].pc = "write" => sender[g].pc = "write" /\ sender'[g] = sender[g]
    BY <1>1 DEF Waiting
  <2> QED
    BY <1>0, <2>1, <2>2 DEF ReadsTell, SameTimes
<1>5. WorksAlone'
  BY <1>0, <1>1, NobodyElse DEF WorksAlone
<1>6. ToldBehind'
  <2>1. Armed' => Armed /\ plan'.next = sender[h].at
    BY <1>0 DEF Armed, WorksAlone, WorksAloneAt
  <2> QED
    BY <1>0, <2>1 DEF ToldBehind, AlertedOnce
<1>7. LapseTold'
  <2> SUFFICES ASSUME plan.status = "saved" /\ plan.notify /\ plan.next # Never
               PROVE  /\ plan.claim <= clock + Lease /\ Behind(setbacks)'
                      /\ LastSweep + PlanDay <= plan.claim =>
                           Behind(setbacks - 1)' \/ \E g \in Handlers : Holds(g)'
    <3>1. LastSweep' = LastSweep
      BY <1>0 DEF LastSweep
    <3> QED
      BY <1>0, <3>1 DEF LapseTold
  <2>1. PICK n \in Nat, s \in Nat, l \in Int, day \in Nat, k \in Nat :
          n = plan.next /\ s = setbacks /\ l = LastSweep /\ day = PlanDay /\ k = plan.claim
    BY <1>0, PlanIs, SweepIs, PlanConstants DEF PlanTypes
  <2>2. PICK u \in Nat, v \in Int :
          u = s * PlanDay /\ v = (s - 1) * PlanDay /\ v = u - PlanDay /\ (s + 1) * PlanDay = u + PlanDay
    BY Periods
  <2>3. LastSweep' = LastSweep /\ setbacks' - 1 = setbacks
    BY <1>0, <2>1 DEF LastSweep
  <2>4. /\ Behind(setbacks) <=> l - n < u + MaxRun + Grace
        /\ Behind(setbacks + 1) <=> l - n < u + day + MaxRun + Grace
        /\ Behind(setbacks)' <=> l - n < u + day + MaxRun + Grace
        /\ Behind(setbacks - 1)' <=> l - n < u + MaxRun + Grace
    BY <1>0, <2>1, <2>2, <2>3 DEF Behind
  <2>5. Behind(setbacks) \/ Behind(setbacks + 1)
    BY <1>0 DEF LapseTold
  <2>6. Behind(setbacks)'
    BY <2>1, <2>4, <2>5, PlanConstants
  <2>7. ASSUME ~ Behind(setbacks) PROVE ~ (LastSweep + PlanDay <= plan.claim)
    <3>1. PICK g \in Handlers : Holds(g) /\ sender[g].since <= LastSweep
      BY <1>0, <2>7 DEF LapseTold
    <3>2. g \in Working /\ plan.claim = sender[g].since + Lease
      BY <3>1 DEF Holds
    <3>3. sender[g].since \in Nat
      BY <1>0, <3>2, HandIs
    <3> QED
      BY <2>1, <3>1, <3>2, <3>3, PlanConstants
  <2> QED
    BY <1>0, <2>4, <2>6, <2>7 DEF LapseTold
<1> QED
  BY <1>2, <1>3, <1>4, <1>5, <1>6, <1>7 DEF AlertInv

LEMMA AlertStart ==
  ASSUME PlanInit
  PROVE  AlertInv
<1>0. /\ clock = 1 /\ plan = NoPlan /\ sender = [h \in Handlers |-> Waiting] /\ swept = FALSE
      /\ alerted = {} /\ repeated = {} /\ died = {} /\ overtaken = FALSE /\ raced = FALSE /\ setbacks = 0
  BY DEF PlanInit
<1>1. IsPlan(NoPlan) /\ IsSender(Waiting) /\ NoPlan.status = "none" /\ Waiting.pc = "idle"
  BY PlanConstants DEF IsSender, Waiting, IsPlan, NoPlan
<1>2. Working = {} /\ \A h \in Handlers : sender[h].pc = "idle"
  BY <1>0, <1>1 DEF Working
<1>3. PlanTypes
  <2>1. swept \in BOOLEAN /\ overtaken \in BOOLEAN /\ raced \in BOOLEAN
    BY <1>0
  <2> QED
    BY <1>0, <1>1, <2>1 DEF PlanTypes
<1>4. ReadsTell
  BY <1>0, <1>1, <1>2 DEF ReadsTell, AlertFollowsPlan
<1>5. WorksAlone
  BY <1>2 DEF WorksAlone
<1>6. ToldBehind
  BY <1>0, <1>1 DEF ToldBehind, Armed, AlertedOnce
<1>7. LapseTold
  BY <1>0, <1>1 DEF LapseTold
<1> QED
  BY <1>2, <1>3, <1>4, <1>5, <1>6, <1>7 DEF AlertInv

LEMMA AlertRests ==
  ASSUME AlertInv, UNCHANGED planVars
  PROVE  AlertInv'
<1>0. /\ PlanTypes /\ (\A g \in Working : InHand(g)) /\ ReadsTell /\ WorksAlone /\ ToldBehind /\ LapseTold
      /\ UNCHANGED <<clock, plan, sender, swept, alerted, repeated, died, overtaken, raced, setbacks>>
  BY DEF AlertInv, planVars
<1>1. Working' = Working /\ LastSweep' = LastSweep
  BY <1>0 DEF Working, LastSweep
<1>2. PlanTypes' /\ \A h \in Working' : InHand(h)'
  BY <1>0, <1>1 DEF PlanTypes, InHand
<1>3. ReadsTell'
  BY <1>0 DEF ReadsTell, AlertFollowsPlan, SameTimes, RunsAt
<1>4. WorksAlone'
  BY <1>0, <1>1 DEF WorksAlone, WorksAloneAt
<1>5. ToldBehind'
  BY <1>0, <1>1 DEF ToldBehind, AlertedOnce, Armed
<1>6. LapseTold'
  BY <1>0, <1>1 DEF LapseTold, Holds, Behind
<1> QED
  BY <1>2, <1>3, <1>4, <1>5, <1>6 DEF AlertInv

(* The lapse an observer sees: what has passed since the last sweep adds a *)
(* day, or, while the sweep's own request is still at work, its time.      *)
LEMMA InStep ==
  ASSUME AlertInv
  PROVE  AlertsInStep
<1>0. PlanTypes /\ (\A g \in Working : InHand(g)) /\ AlertFollowsPlan /\ AlertedOnce /\ LapseTold
  BY DEF AlertInv, ReadsTell, ToldBehind
<1>1. LapsedIsRearmed
  <2> SUFFICES ASSUME plan.status = "saved" /\ plan.notify /\ plan.next # Never
               PROVE  clock - plan.next < ((1 + setbacks) * PlanDay) + (2 * MaxRun) + Grace
    BY DEF LapsedIsRearmed
  <2>1. PICK n \in Nat, c \in Nat, s \in Nat, l \in Int, day \in Nat :
          n = plan.next /\ c = clock /\ s = setbacks /\ l = LastSweep /\ day = PlanDay /\ c <= l + day
    BY <1>0, PlanIs, SweepIs, PlanConstants DEF PlanTypes
  <2>2. PICK u \in Nat, v \in Int :
          u = s * PlanDay /\ v = (s - 1) * PlanDay /\ v = u - PlanDay /\ (s + 1) * PlanDay = u + PlanDay
    BY Periods
  <2>3. 1 + s = s + 1
    OBVIOUS
  <2>4. /\ Behind(setbacks) <=> l - n < u + MaxRun + Grace
        /\ Behind(setbacks + 1) <=> l - n < u + day + MaxRun + Grace
        /\ (1 + setbacks) * PlanDay = u + day
    BY <2>1, <2>2, <2>3 DEF Behind
  <2>5. CASE Behind(setbacks)
    BY <2>1, <2>4, <2>5, PlanConstants
  <2>6. CASE ~ Behind(setbacks)
    <3>1. PICK g \in Handlers : Holds(g) /\ sender[g].since <= LastSweep /\ Behind(setbacks + 1)
      BY <1>0, <2>6 DEF LapseTold
    <3>2. g \in Working
      BY <3>1 DEF Holds
    <3>3. PICK t \in Nat : t = sender[g].since /\ c <= t + MaxRun /\ t <= l
      BY <1>0, <2>1, <3>1, <3>2, HandIs
    <3> QED
      BY <2>1, <2>4, <3>1, <3>3, PlanConstants
  <2> QED
    BY <2>5, <2>6
<1> QED
  BY <1>0, <1>1 DEF AlertsInStep

(* A plan's alert is a moment of the plan as it is, is told once, and is   *)
(* never further in the past than the sweep of a day, two requests and the *)
(* grace, and a day for every setback, whatever saves, fires and sweeps    *)
(* meet (plan.Save, sendPlanAlert, plan.Advance, processPlanAlertCron).    *)
THEOREM AlertsStayInStep == PlanSpec => []AlertsInStep
<1>1. PlanInit => AlertInv
  BY AlertStart
<1>2. AlertInv /\ [PlanNext]_planVars => AlertInv'
  BY SaveKeeps, DeleteKeeps, PlanTickKeeps, TakeFireKeeps, SweepAlertKeeps, SendKeeps,
     AdvanceReadKeeps, AdvanceWriteKeeps, PerishKeeps, AlertRests DEF PlanNext
<1>3. AlertInv => AlertsInStep
  BY InStep
<1> QED
  BY <1>1, <1>2, <1>3, PTL DEF PlanSpec
=============================================================================
