---------------------------- MODULE StorageProofs -----------------------------
(***************************************************************************)
(* Proofs about what is kept apart from the row that names it: the images  *)
(* of a task (TaskFiles), the texts of notes in folders (NoteFolders) and  *)
(* the text and tags of a page (Documents), for any number of requests at  *)
(* once.                                                                   *)
(***************************************************************************)
EXTENDS TaskFiles, NoteFolders, Documents, SetLemmas, SequenceTheorems

-----------------------------------------------------------------------------
(* TaskFiles.                                                              *)

At(u, step) == upload[u].step = step

(* What an open request knows, and that no name is given that is too great.*)
Opened ==
  /\ named \in Nat /\ DOMAIN upload = Uploaders
  /\ \A a \in attached : a.file \in Nat /\ a.file <= named
  /\ \A f \in objects : f \in Nat /\ f <= named
  /\ \A u \in Uploaders :
       /\ upload[u].step \in {"ready", "store", "attach", "erase", "delete"}
       /\ At(u, "ready") <=> upload[u] = Ready
       /\ At(u, "attach") => upload[u].file \in Nat /\ upload[u].file <= named
       /\ At(u, "erase") \/ At(u, "delete") => \A f \in upload[u].files : f \in Nat /\ f <= named
       /\ At(u, "delete") => upload[u] = [step |-> "delete", tasks |-> upload[u].tasks, files |-> upload[u].files]

(* A name is one row's, or one upload's that has yet to insert it, or is   *)
(* about to be erased.                                                     *)
OneName ==
  /\ \A a, b \in attached : a.file = b.file => a = b
  /\ \A u \in Uploaders : At(u, "attach") =>
       /\ upload[u].file \in objects
       /\ \A a \in attached : a.file # upload[u].file
       /\ \A v \in Uploaders : At(v, "attach") /\ upload[v].file = upload[u].file => v = u
       /\ \A v \in Uploaders : At(v, "erase") \/ At(v, "delete") => upload[u].file \notin upload[v].files
  /\ \A v \in Uploaders : At(v, "erase") => \A a \in attached : a.file \notin upload[v].files

(* A row has its object or a deletion that will take the row, and only a   *)
(* deletion that will take the row deletes its object.                     *)
RowsOpen ==
  /\ \A a \in attached : \/ a.file \in objects
                         \/ \E u \in Uploaders : At(u, "delete") /\ a.task \in upload[u].tasks
  /\ \A u \in Uploaders : At(u, "delete") =>
       \A a \in attached : a.file \in upload[u].files => a.task \in upload[u].tasks

ShownInv == upsets \cap {"twin", "kept"} = {} => OneName /\ RowsOpen

(* An object has a row that no deletion takes without it, or a request     *)
(* that will write its row or erase it.                                    *)
Claimed(f) ==
  \/ \E a \in attached : /\ a.file = f
                         /\ \A u \in Uploaders : At(u, "delete") /\ a.task \in upload[u].tasks => f \in upload[u].files
  \/ \E u \in Uploaders : At(u, "attach") /\ upload[u].file = f
  \/ \E u \in Uploaders : At(u, "erase") /\ f \in upload[u].files

LeftInv == upsets \cap {"late", "left"} = {} => \A f \in objects : Claimed(f)

FilesInv == Opened /\ ShownInv /\ LeftInv

LEMMA FilesInvInit == FilesStart => FilesInv
BY DEF FilesStart, FilesInv, Opened, ShownInv, OneName, RowsOpen, LeftInv, At, Ready

LEMMA JobMoves ==
  ASSUME Opened, NEW u \in Uploaders, NEW job, upload' = [upload EXCEPT ![u] = job]
  PROVE  DOMAIN upload' = Uploaders /\ \A v \in Uploaders : upload'[v] = IF v = u THEN job ELSE upload[v]
BY DEF Opened

(* What every request knows stays in range.                                *)
LEMMA OpenedMoves ==
  ASSUME Opened, NEW u \in Uploaders, NEW job,
         DOMAIN upload' = Uploaders, \A v \in Uploaders : upload'[v] = IF v = u THEN job ELSE upload[v],
         named' \in Nat, named <= named',
         \A a \in attached' : a \in attached \/ (a.file \in Nat /\ a.file <= named),
         \A f \in objects' : f \in objects \/ (f \in Nat /\ f <= named'),
         job.step \in {"ready", "store", "attach", "erase", "delete"},
         job.step = "ready" <=> job = Ready,
         job.step = "attach" => job.file \in Nat /\ job.file <= named',
         job.step \in {"erase", "delete"} => \A f \in job.files : f \in Nat /\ f <= named,
         job.step = "delete" => job = [step |-> "delete", tasks |-> job.tasks, files |-> job.files]
  PROVE  Opened'
<1>1. \A n \in Nat : n <= named => n <= named'
  BY DEF Opened
<1>2. \A a \in attached' : a.file \in Nat /\ a.file <= named'
  BY <1>1 DEF Opened
<1>3. \A f \in objects' : f \in Nat /\ f <= named'
  BY <1>1 DEF Opened
<1>4. ASSUME NEW v \in Uploaders
      PROVE  /\ upload'[v].step \in {"ready", "store", "attach", "erase", "delete"}
             /\ At(v, "ready")' <=> upload'[v] = Ready
             /\ At(v, "attach")' => upload'[v].file \in Nat /\ upload'[v].file <= named'
             /\ (At(v, "erase") \/ At(v, "delete"))' => \A f \in upload'[v].files : f \in Nat /\ f <= named'
             /\ At(v, "delete")' =>
                  upload'[v] = [step |-> "delete", tasks |-> upload'[v].tasks, files |-> upload'[v].files]
  <2>1. CASE v = u
    <3>1. upload'[v] = job
      BY <2>1
    <3>2. \A f \in job.files : job.step \in {"erase", "delete"} => f \in Nat /\ f <= named'
      BY <1>1
    <3> QED
      BY <3>1, <3>2 DEF At
  <2>2. CASE v # u
    <3>1. upload'[v] = upload[v]
      BY <2>2
    <3>2. /\ At(v, "attach") => upload[v].file \in Nat /\ upload[v].file <= named'
          /\ At(v, "erase") \/ At(v, "delete") => \A f \in upload[v].files : f \in Nat /\ f <= named'
      BY <1>1 DEF Opened
    <3>3. /\ upload[v].step \in {"ready", "store", "attach", "erase", "delete"}
          /\ At(v, "ready") <=> upload[v] = Ready
          /\ At(v, "delete") => upload[v] = [step |-> "delete", tasks |-> upload[v].tasks, files |-> upload[v].files]
      BY DEF Opened
    <3> QED
      BY <3>1, <3>2, <3>3 DEF At
  <2> QED
    BY <2>1, <2>2
<1> QED
  BY <1>2, <1>3, <1>4 DEF Opened

(* What an action does, in the terms of the invariants.                    *)
Moves(u, job) ==
  DOMAIN upload' = Uploaders /\ \A v \in Uploaders : upload'[v] = IF v = u THEN job ELSE upload[v]

LEMMA Checks ==
  ASSUME Opened, NEW u \in Uploaders, CheckTask(u)
  PROVE  /\ At(u, "ready") /\ UNCHANGED <<attached, objects, named, upsets>>
         /\ \E job : job.step = "store" /\ job # Ready /\ Moves(u, job)
<1>1. PICK t \in tree : /\ upload[u] = Ready /\ upload' = [upload EXCEPT ![u] = [step |-> "store", task |-> t]]
                        /\ UNCHANGED <<tree, attached, objects, named, upsets>>
  BY DEF CheckTask, Picks
<1>2. PICK job : job = [step |-> "store", task |-> t]
  OBVIOUS
<1>3. job.step = "store" /\ job # Ready /\ Ready.step = "ready"
  BY <1>2 DEF Ready
<1>4. Moves(u, job)
  BY <1>1, <1>2, JobMoves DEF Moves
<1> QED
  BY <1>1, <1>3, <1>4 DEF At

LEMMA Stores ==
  ASSUME Opened, NEW u \in Uploaders, StoreUpload(u)
  PROVE  \E file, job :
           /\ file \in Nat /\ At(u, "store") /\ objects' = objects \cup {file} /\ attached' = attached
           /\ named' \in Nat /\ named <= named' /\ file <= named'
           /\ upsets \subseteq upsets' /\ ("twin" \notin upsets' => file = named + 1)
           /\ job.step = "attach" /\ job.file = file /\ job # Ready /\ Moves(u, job)
<1>1. PICK file \in {named + 1} \cup {upload[v].file : v \in {v \in Uploaders : upload[v].step = "attach"}} :
        /\ At(u, "store") /\ objects' = objects \cup {file} /\ attached' = attached
        /\ named' = (IF file > named THEN file ELSE named)
        /\ upsets' = upsets \cup (IF file > named THEN {} ELSE {"twin"})
        /\ upload' = [upload EXCEPT ![u] = [step |-> "attach", task |-> upload[u].task, file |-> file]]
  BY DEF StoreUpload, Passes, At
<1>2. named \in Nat /\ (file = named + 1 \/ (file \in Nat /\ file <= named))
  <2>1. named \in Nat /\ \A v \in Uploaders : upload[v].step = "attach" => upload[v].file \in Nat /\ upload[v].file <= named
    BY DEF Opened, At
  <2> QED
    BY <1>1, <2>1
<1>3. file \in Nat /\ named' \in Nat /\ named <= named' /\ file <= named'
  BY <1>1, <1>2
<1>4. upsets \subseteq upsets' /\ ("twin" \notin upsets' => file = named + 1)
  BY <1>1, <1>2
<1>5. PICK job : job = [step |-> "attach", task |-> upload[u].task, file |-> file]
  OBVIOUS
<1>6. job.step = "attach" /\ job.file = file /\ job # Ready
  BY <1>5 DEF Ready
<1>7. Moves(u, job)
  BY <1>1, <1>5, JobMoves DEF Moves
<1> QED
  BY <1>1, <1>3, <1>4, <1>6, <1>7

LEMMA Attaches ==
  ASSUME Opened, NEW u \in Uploaders, Attach(u)
  PROVE  /\ At(u, "attach") /\ named' = named /\ Moves(u, Ready) /\ upsets \subseteq upsets'
         /\ \/ /\ \E new : new.task = upload[u].task /\ new.file = upload[u].file /\ attached' = attached \cup {new}
               /\ objects' = objects
               /\ "late" \notin upsets' =>
                    \A v \in Uploaders : At(v, "delete") => upload[u].task \notin upload[v].tasks
            \/ /\ attached' = attached /\ objects \ {upload[u].file} \subseteq objects' /\ objects' \subseteq objects
               /\ "left" \notin upsets' => upload[u].file \notin objects'
<1>1. PICK new : new = [id |-> CHOOSE i \in Ids : \A a \in attached : a.id # i,
                        task |-> upload[u].task, file |-> upload[u].file]
  OBVIOUS
<1>2. new.task = upload[u].task /\ new.file = upload[u].file
  BY <1>1
<1>3. /\ At(u, "attach") /\ named' = named /\ upload' = [upload EXCEPT ![u] = Ready]
      /\ \/ /\ attached' = attached \cup {new} /\ objects' = objects
            /\ upsets' = upsets \cup (IF \E v \in Uploaders : upload[v].step = "delete" /\ upload[u].task \in upload[v].tasks
                                      THEN {"late"} ELSE {})
         \/ /\ objects' \in {objects \ {upload[u].file}, objects} /\ attached' = attached
            /\ upsets' = upsets \cup (IF upload[u].file \in objects' THEN {"left"} ELSE {})
  BY <1>1 DEF Attach, Passes, At
<1>4. Moves(u, Ready)
  BY <1>3, JobMoves DEF Moves
<1>5. CASE attached' = attached \cup {new} /\ objects' = objects
            /\ upsets' = upsets \cup (IF \E v \in Uploaders : upload[v].step = "delete" /\ upload[u].task \in upload[v].tasks
                                      THEN {"late"} ELSE {})
  BY <1>2, <1>3, <1>4, <1>5 DEF At
<1>6. CASE objects' \in {objects \ {upload[u].file}, objects} /\ attached' = attached
            /\ upsets' = upsets \cup (IF upload[u].file \in objects' THEN {"left"} ELSE {})
  BY <1>3, <1>4, <1>6
<1> QED
  BY <1>3, <1>5, <1>6

LEMMA Detaches ==
  ASSUME Opened, NEW u \in Uploaders, Detach(u)
  PROVE  /\ At(u, "ready") /\ UNCHANGED <<objects, named, upsets>>
         /\ \E a, job :
              /\ a \in attached /\ attached' = attached \ {a}
              /\ job.step = "erase" /\ job.files = {a.file} /\ job # Ready /\ Moves(u, job)
<1>1. PICK a \in attached : /\ upload[u] = Ready
                            /\ upload' = [upload EXCEPT ![u] = [step |-> "erase", files |-> {a.file}]]
                            /\ attached' = attached \ {a} /\ UNCHANGED <<tree, objects, named, upsets>>
  BY DEF Detach, Picks
<1>2. PICK job : job = [step |-> "erase", files |-> {a.file}]
  OBVIOUS
<1>3. job.step = "erase" /\ job.files = {a.file} /\ job # Ready /\ Ready.step = "ready"
  BY <1>2 DEF Ready
<1>4. Moves(u, job)
  BY <1>1, <1>2, JobMoves DEF Moves
<1> QED
  BY <1>1, <1>3, <1>4 DEF At

LEMMA Erases ==
  ASSUME Opened, NEW u \in Uploaders, EraseObject(u)
  PROVE  /\ At(u, "erase") /\ UNCHANGED <<attached, named>> /\ Moves(u, Ready) /\ upsets \subseteq upsets'
         /\ objects \ upload[u].files \subseteq objects' /\ objects' \subseteq objects
         /\ "left" \notin upsets' => \A f \in objects' : f \notin upload[u].files
<1>1. /\ At(u, "erase") /\ objects' \in {objects \ upload[u].files, objects}
      /\ upsets' = upsets \cup (IF objects' \cap upload[u].files = {} THEN {} ELSE {"left"})
      /\ upload' = [upload EXCEPT ![u] = Ready] /\ UNCHANGED <<attached, named>>
  BY DEF EraseObject, Passes, At
<1>2. Moves(u, Ready)
  BY <1>1, JobMoves DEF Moves
<1> QED
  BY <1>1, <1>2

LEMMA Lists ==
  ASSUME Opened, NEW u \in Uploaders, ListTaskFiles(u)
  PROVE  /\ At(u, "ready") /\ UNCHANGED <<attached, objects, named>> /\ upsets \subseteq upsets'
         /\ \E job :
              /\ job.step = "delete" /\ job # Ready /\ Moves(u, job)
              /\ job = [step |-> "delete", tasks |-> job.tasks, files |-> job.files]
              /\ \A f \in job.files : \E a \in attached : a.task \in job.tasks /\ a.file = f
              /\ "left" \notin upsets' => \A a \in attached : a.task \in job.tasks => a.file \in job.files
<1>1. PICK t \in tree : \E files \in SUBSET FilesOf(RowsOf(SubtreeOf(t))) :
        /\ Picks(u, [step |-> "delete", tasks |-> SubtreeOf(t), files |-> files])
        /\ upsets' = upsets \cup (IF files = FilesOf(RowsOf(SubtreeOf(t))) THEN {} ELSE {"left"})
        /\ UNCHANGED <<tree, attached, objects, named>>
  BY DEF ListTaskFiles
<1>2. PICK tasks : tasks = SubtreeOf(t)
  OBVIOUS
<1>3. PICK files \in SUBSET FilesOf(RowsOf(tasks)) :
        /\ upload[u] = Ready /\ upload' = [upload EXCEPT ![u] = [step |-> "delete", tasks |-> tasks, files |-> files]]
        /\ upsets' = upsets \cup (IF files = FilesOf(RowsOf(tasks)) THEN {} ELSE {"left"})
        /\ UNCHANGED <<attached, objects, named>>
  BY <1>1, <1>2 DEF Picks
<1>4. PICK job : job = [step |-> "delete", tasks |-> tasks, files |-> files]
  OBVIOUS
<1>5. /\ job.step = "delete" /\ job.tasks = tasks /\ job.files = files /\ job # Ready /\ Ready.step = "ready"
      /\ job = [step |-> "delete", tasks |-> job.tasks, files |-> job.files]
  BY <1>4 DEF Ready
<1>6. Moves(u, job)
  BY <1>3, <1>4, JobMoves DEF Moves
<1>7. \A f : f \in FilesOf(RowsOf(tasks)) <=> \E a \in attached : a.task \in tasks /\ a.file = f
  BY DEF FilesOf, RowsOf
<1>8. "left" \notin upsets' => files = FilesOf(RowsOf(tasks))
  BY <1>3
<1> QED
  BY <1>3, <1>5, <1>6, <1>7, <1>8 DEF At

LEMMA DeletesFiles ==
  ASSUME Opened, NEW u \in Uploaders, DeleteTaskFiles(u)
  PROVE  /\ At(u, "delete") /\ UNCHANGED <<attached, named>> /\ upsets \subseteq upsets'
         /\ objects \ upload[u].files \subseteq objects' /\ objects' \subseteq objects
         /\ "left" \notin upsets' => \A f \in objects' : f \notin upload[u].files
         /\ \E job :
              /\ job.step = "delete" /\ job.tasks = upload[u].tasks /\ job.files = {} /\ job # Ready /\ Moves(u, job)
              /\ job = [step |-> "delete", tasks |-> job.tasks, files |-> job.files]
<1>1. /\ At(u, "delete") /\ \E gone \in SUBSET upload[u].files : objects' = objects \ gone
      /\ upsets' = upsets \cup (IF objects' \cap upload[u].files = {} THEN {} ELSE {"left"})
      /\ upload' = [upload EXCEPT ![u] = [upload[u] EXCEPT !.files = {}]]
      /\ UNCHANGED <<attached, named>>
  BY DEF DeleteTaskFiles, Passes, At
<1>2. PICK job : job = [upload[u] EXCEPT !.files = {}]
  OBVIOUS
<1>3. upload[u] = [step |-> "delete", tasks |-> upload[u].tasks, files |-> upload[u].files]
  BY <1>1 DEF Opened
<1>4. job = [step |-> "delete", tasks |-> upload[u].tasks, files |-> {}]
  BY <1>2, <1>3
<1>5. /\ job.step = "delete" /\ job.tasks = upload[u].tasks /\ job.files = {} /\ job # Ready
      /\ job = [step |-> "delete", tasks |-> job.tasks, files |-> job.files]
  BY <1>4 DEF Ready
<1>6. Moves(u, job)
  BY <1>1, <1>2, JobMoves DEF Moves
<1>7. objects \ upload[u].files \subseteq objects' /\ objects' \subseteq objects
  BY <1>1
<1>8. "left" \notin upsets' => \A f \in objects' : f \notin upload[u].files
  BY <1>1
<1> QED
  BY <1>1, <1>5, <1>6, <1>7, <1>8

LEMMA DeletesRow ==
  ASSUME Opened, NEW u \in Uploaders, DeleteTaskRow(u)
  PROVE  /\ At(u, "delete") /\ upload[u].files = {} /\ UNCHANGED <<objects, named>> /\ Moves(u, Ready)
         /\ upsets \subseteq upsets'
         /\ \/ \A a : a \in attached' <=> a \in attached /\ a.task \notin upload[u].tasks
            \/ attached' = attached /\ "kept" \in upsets'
<1>1. /\ At(u, "delete") /\ upload[u].files = {} /\ upload' = [upload EXCEPT ![u] = Ready]
      /\ UNCHANGED <<objects, named>> /\ upsets \subseteq upsets'
      /\ \/ attached' = attached \ RowsOf(upload[u].tasks)
         \/ attached' = attached /\ "kept" \in upsets'
  BY DEF DeleteTaskRow, Passes, At
<1>2. Moves(u, Ready)
  BY <1>1, JobMoves DEF Moves
<1>3. \A a : a \in attached \ RowsOf(upload[u].tasks) <=> a \in attached /\ a.task \notin upload[u].tasks
  BY DEF RowsOf
<1> QED
  BY <1>1, <1>2, <1>3

LEMMA Stops ==
  ASSUME Opened, NEW u \in Uploaders, Stop(u)
  PROVE  /\ ~At(u, "ready") /\ UNCHANGED <<attached, objects, named>> /\ Moves(u, Ready) /\ upsets \subseteq upsets'
         /\ At(u, "delete") => "kept" \in upsets'
         /\ At(u, "attach") \/ At(u, "erase") => "left" \in upsets'
<1>1. /\ upload[u] # Ready /\ upload' = [upload EXCEPT ![u] = Ready] /\ UNCHANGED <<attached, objects, named>>
      /\ upsets' = upsets \cup (CASE upload[u].step = "delete" -> {"kept"}
                                  [] upload[u].step = "store" -> {}
                                  [] OTHER -> {"left"})
  BY DEF Stop, Passes
<1>2. Moves(u, Ready)
  BY <1>1, JobMoves DEF Moves
<1>3. ~At(u, "ready")
  BY <1>1 DEF Opened
<1> QED
  BY <1>1, <1>2, <1>3 DEF At

LEMMA OpenedNext == Opened /\ [FilesNext]_fileVars => Opened'
<1> SUFFICES ASSUME Opened, [FilesNext]_fileVars PROVE Opened'
  OBVIOUS
<1> USE DEF Moves
<1>0. Ready.step = "ready" /\ named \in Nat
  BY DEF Ready, Opened
<1>1. ASSUME NEW u \in Uploaders, CheckTask(u) PROVE Opened'
  BY <1>0, <1>1, Checks, OpenedMoves
<1>2. ASSUME NEW u \in Uploaders, StoreUpload(u) PROVE Opened'
  BY <1>0, <1>2, Stores, OpenedMoves
<1>3. ASSUME NEW u \in Uploaders, Attach(u) PROVE Opened'
  <2>1. /\ At(u, "attach") /\ named' = named /\ Moves(u, Ready)
        /\ \A f \in objects' : f \in objects
        /\ \A a \in attached' : a \in attached \/ a.file = upload[u].file
    BY <1>3, Attaches
  <2>2. upload[u].file \in Nat /\ upload[u].file <= named
    BY <2>1 DEF Opened
  <2> QED
    BY <1>0, <2>1, <2>2, OpenedMoves
<1>4. ASSUME NEW u \in Uploaders, Detach(u) PROVE Opened'
  <2>1. PICK a, job : /\ a \in attached /\ attached' = attached \ {a} /\ UNCHANGED <<objects, named>>
                                 /\ job.step = "erase" /\ job.files = {a.file} /\ job # Ready /\ Moves(u, job)
    BY <1>4, Detaches
  <2>2. \A f \in job.files : f \in Nat /\ f <= named
    BY <2>1 DEF Opened
  <2> QED
    BY <1>0, <2>1, <2>2, OpenedMoves
<1>5. ASSUME NEW u \in Uploaders, EraseObject(u) PROVE Opened'
  BY <1>0, <1>5, Erases, OpenedMoves
<1>6. ASSUME NEW u \in Uploaders, ListTaskFiles(u) PROVE Opened'
  <2>1. PICK job : /\ UNCHANGED <<attached, objects, named>>
                   /\ job.step = "delete" /\ job # Ready /\ Moves(u, job)
                   /\ job = [step |-> "delete", tasks |-> job.tasks, files |-> job.files]
                   /\ \A f \in job.files : \E a \in attached : a.task \in job.tasks /\ a.file = f
    BY <1>6, Lists
  <2>2. \A f \in job.files : f \in Nat /\ f <= named
    BY <2>1 DEF Opened
  <2> QED
    BY <1>0, <2>1, <2>2, OpenedMoves
<1>7. ASSUME NEW u \in Uploaders, DeleteTaskFiles(u) PROVE Opened'
  BY <1>0, <1>7, DeletesFiles, OpenedMoves
<1>8. ASSUME NEW u \in Uploaders, DeleteTaskRow(u) PROVE Opened'
  BY <1>0, <1>8, DeletesRow, OpenedMoves
<1>9. ASSUME NEW u \in Uploaders, Stop(u) PROVE Opened'
  BY <1>0, <1>9, Stops, OpenedMoves
<1>10. CASE UNCHANGED fileVars
  BY <1>10 DEF fileVars, Opened, At
<1> QED
  BY <1>1, <1>2, <1>3, <1>4, <1>5, <1>6, <1>7, <1>8, <1>9, <1>10 DEF FilesNext

LEMMA ShownNext == Opened /\ ShownInv /\ [FilesNext]_fileVars => ShownInv'
<1> SUFFICES ASSUME Opened, ShownInv, [FilesNext]_fileVars, upsets' \cap {"twin", "kept"} = {}
             PROVE  OneName' /\ RowsOpen'
  BY DEF ShownInv
<1> USE DEF Moves, At
<1>0. Ready.step = "ready"
  BY DEF Ready
<1>g. upsets \subseteq upsets' => OneName /\ RowsOpen
  BY DEF ShownInv
<1>1. ASSUME NEW u \in Uploaders, CheckTask(u) PROVE OneName' /\ RowsOpen'
  <2>1. PICK job : /\ At(u, "ready") /\ UNCHANGED <<attached, objects, named, upsets>>
                   /\ job.step = "store" /\ job # Ready /\ Moves(u, job)
    BY <1>1, Checks
  <2>2. OneName /\ RowsOpen
    BY <1>g, <2>1
  <2>3. OneName'
    BY <2>1, <2>2 DEF OneName
  <2>4. RowsOpen'
    BY <2>1, <2>2 DEF RowsOpen
  <2> QED
    BY <2>3, <2>4
<1>2. ASSUME NEW u \in Uploaders, StoreUpload(u) PROVE OneName' /\ RowsOpen'
  <2>1. PICK file, job :
           /\ file \in Nat /\ At(u, "store") /\ objects' = objects \cup {file} /\ attached' = attached
           /\ upsets \subseteq upsets' /\ file = named + 1
           /\ job.step = "attach" /\ job.file = file /\ job # Ready /\ Moves(u, job)
    BY <1>2, Stores
  <2>2. OneName /\ RowsOpen
    BY <1>g, <2>1
  <2>3. /\ \A a \in attached : a.file # file
        /\ \A v \in Uploaders : At(v, "attach") => upload[v].file # file
        /\ \A v \in Uploaders : At(v, "erase") \/ At(v, "delete") => file \notin upload[v].files
    BY <2>1 DEF Opened
  <2>4. OneName'
    <3>1. \A v \in Uploaders : At(v, "attach")' <=> v = u \/ At(v, "attach")
      BY <2>1
    <3>2. \A v \in Uploaders : At(v, "erase") \/ At(v, "delete") => v # u
      BY <2>1
    <3>3. \A v \in Uploaders : At(v, "attach") => v # u
      BY <2>1
    <3>4. \A v \in Uploaders : (At(v, "erase")' <=> At(v, "erase")) /\ (At(v, "delete")' <=> At(v, "delete"))
      BY <2>1
    <3>5. file \in objects' /\ \A f \in objects : f \in objects'
      BY <2>1
    <3>6. \A a, b \in attached : a.file = b.file => a = b
      BY <2>2 DEF OneName
    <3>7. \A v \in Uploaders : v # u => upload'[v] = upload[v]
      BY <2>1
    <3>8. upload'[u].file = file
      BY <2>1
    <3>9. ASSUME NEW v \in Uploaders, At(v, "attach")'
          PROVE  /\ upload'[v].file \in objects'
                 /\ \A a \in attached : a.file # upload'[v].file
                 /\ \A w \in Uploaders : At(w, "attach")' /\ upload'[w].file = upload'[v].file => w = v
                 /\ \A w \in Uploaders : At(w, "erase")' \/ At(w, "delete")' => upload'[v].file \notin upload'[w].files
      <4> HIDE DEF At
      <4>1. CASE v = u
        BY <2>3, <3>1, <3>2, <3>4, <3>5, <3>7, <3>8, <4>1
      <4>2. CASE v # u
        BY <2>2, <2>3, <3>1, <3>2, <3>4, <3>5, <3>7, <3>8, <3>9, <4>2 DEF OneName
      <4> QED
        BY <4>1, <4>2
    <3>10. \A v \in Uploaders : At(v, "erase")' => \A a \in attached : a.file \notin upload'[v].files
      <4> HIDE DEF At
      <4> QED
        BY <2>2, <3>2, <3>4, <3>7 DEF OneName
    <3> QED
      BY <2>1, <3>6, <3>9, <3>10 DEF OneName
  <2>5. RowsOpen'
    <3>1. \A v \in Uploaders : At(v, "delete")' <=> At(v, "delete")
      BY <2>1
    <3>2. \A v \in Uploaders : At(v, "delete") => upload'[v] = upload[v]
      BY <2>1
    <3>3. \A a \in attached : \/ a.file \in objects
                              \/ \E v \in Uploaders : At(v, "delete") /\ a.task \in upload[v].tasks
      BY <2>2 DEF RowsOpen
    <3>4. \A a \in attached : \/ a.file \in objects'
                              \/ \E v \in Uploaders : At(v, "delete")' /\ a.task \in upload'[v].tasks
      <4> HIDE DEF At
      <4> QED
        BY <2>1, <3>1, <3>2, <3>3
    <3>5. \A v \in Uploaders : At(v, "delete")' =>
            \A a \in attached : a.file \in upload'[v].files => a.task \in upload'[v].tasks
      BY <2>2, <3>1, <3>2 DEF RowsOpen
    <3> QED
      BY <2>1, <3>4, <3>5 DEF RowsOpen
  <2> QED
    BY <2>4, <2>5
<1>3. ASSUME NEW u \in Uploaders, Attach(u) PROVE OneName' /\ RowsOpen'
  <2>1. At(u, "attach") /\ Moves(u, Ready) /\ upsets \subseteq upsets'
    BY <1>3, Attaches
  <2>2. OneName /\ RowsOpen
    BY <1>g, <2>1
  <2>3. /\ upload[u].file \in objects
        /\ \A a \in attached : a.file # upload[u].file
        /\ \A v \in Uploaders : At(v, "attach") /\ v # u => upload[v].file # upload[u].file
        /\ \A v \in Uploaders : At(v, "erase") \/ At(v, "delete") => upload[u].file \notin upload[v].files
    BY <2>1, <2>2 DEF OneName
  <2>4. ASSUME NEW new, new.file = upload[u].file, attached' = attached \cup {new}, objects' = objects
        PROVE  OneName' /\ RowsOpen'
    <3>1. OneName'
      BY <1>0, <2>1, <2>2, <2>3, <2>4 DEF OneName
    <3>2. RowsOpen'
      BY <1>0, <2>1, <2>2, <2>3, <2>4 DEF RowsOpen
    <3> QED
      BY <3>1, <3>2
  <2>5. ASSUME attached' = attached, objects \ {upload[u].file} \subseteq objects', objects' \subseteq objects
        PROVE  OneName' /\ RowsOpen'
    <3>1. OneName'
      BY <1>0, <2>1, <2>2, <2>3, <2>5 DEF OneName
    <3>2. RowsOpen'
      BY <1>0, <2>1, <2>2, <2>3, <2>5 DEF RowsOpen
    <3> QED
      BY <3>1, <3>2
  <2> QED
    BY <1>3, <2>4, <2>5, Attaches
<1>4. ASSUME NEW u \in Uploaders, Detach(u) PROVE OneName' /\ RowsOpen'
  <2>1. PICK a, job :
          /\ a \in attached /\ At(u, "ready") /\ UNCHANGED <<objects, named, upsets>> /\ attached' = attached \ {a}
          /\ job.step = "erase" /\ job.files = {a.file} /\ job # Ready /\ Moves(u, job)
    BY <1>4, Detaches
  <2>2. OneName /\ RowsOpen
    BY <1>g, <2>1
  <2>3. OneName'
    BY <2>1, <2>2 DEF OneName
  <2>4. RowsOpen'
    BY <2>1, <2>2 DEF RowsOpen
  <2> QED
    BY <2>3, <2>4
<1>5. ASSUME NEW u \in Uploaders, EraseObject(u) PROVE OneName' /\ RowsOpen'
  <2>1. /\ At(u, "erase") /\ UNCHANGED <<attached, named>> /\ Moves(u, Ready) /\ upsets \subseteq upsets'
        /\ objects \ upload[u].files \subseteq objects' /\ objects' \subseteq objects
    BY <1>5, Erases
  <2>2. OneName /\ RowsOpen
    BY <1>g, <2>1
  <2>3. OneName'
    BY <1>0, <2>1, <2>2 DEF OneName
  <2>4. RowsOpen'
    BY <1>0, <2>1, <2>2 DEF OneName, RowsOpen
  <2> QED
    BY <2>3, <2>4
<1>6. ASSUME NEW u \in Uploaders, ListTaskFiles(u) PROVE OneName' /\ RowsOpen'
  <2>1. PICK job :
          /\ At(u, "ready") /\ UNCHANGED <<attached, objects, named>> /\ upsets \subseteq upsets'
          /\ job.step = "delete" /\ job # Ready /\ Moves(u, job)
          /\ \A f \in job.files : \E a \in attached : a.task \in job.tasks /\ a.file = f
    BY <1>6, Lists
  <2>2. OneName /\ RowsOpen
    BY <1>g, <2>1
  <2>3. OneName'
    BY <2>1, <2>2 DEF OneName
  <2>4. \A a \in attached : a.file \in job.files => a.task \in job.tasks
    BY <2>1, <2>2 DEF OneName
  <2>5. RowsOpen'
    BY <2>1, <2>2, <2>4 DEF RowsOpen
  <2> QED
    BY <2>3, <2>5
<1>7. ASSUME NEW u \in Uploaders, DeleteTaskFiles(u) PROVE OneName' /\ RowsOpen'
  <2>1. PICK job :
          /\ At(u, "delete") /\ UNCHANGED <<attached, named>> /\ upsets \subseteq upsets'
          /\ objects \ upload[u].files \subseteq objects' /\ objects' \subseteq objects
          /\ job.step = "delete" /\ job.tasks = upload[u].tasks /\ job.files = {} /\ job # Ready /\ Moves(u, job)
    BY <1>7, DeletesFiles
  <2>2. OneName /\ RowsOpen
    BY <1>g, <2>1
  <2>3. OneName'
    BY <2>1, <2>2 DEF OneName
  <2>4. RowsOpen'
    BY <2>1, <2>2 DEF RowsOpen
  <2> QED
    BY <2>3, <2>4
<1>8. ASSUME NEW u \in Uploaders, DeleteTaskRow(u) PROVE OneName' /\ RowsOpen'
  <2>1. /\ At(u, "delete") /\ UNCHANGED <<objects, named>> /\ Moves(u, Ready) /\ upsets \subseteq upsets'
        /\ \A a : a \in attached' <=> a \in attached /\ a.task \notin upload[u].tasks
    BY <1>8, DeletesRow
  <2>2. OneName /\ RowsOpen
    BY <1>g, <2>1
  <2>3. OneName'
    BY <1>0, <2>1, <2>2 DEF OneName
  <2>4. RowsOpen'
    BY <1>0, <2>1, <2>2 DEF RowsOpen
  <2> QED
    BY <2>3, <2>4
<1>9. ASSUME NEW u \in Uploaders, Stop(u) PROVE OneName' /\ RowsOpen'
  <2>1. /\ ~At(u, "delete") /\ UNCHANGED <<attached, objects, named>> /\ Moves(u, Ready) /\ upsets \subseteq upsets'
    BY <1>9, Stops
  <2>2. OneName /\ RowsOpen
    BY <1>g, <2>1
  <2>3. OneName'
    BY <1>0, <2>1, <2>2 DEF OneName
  <2>4. RowsOpen'
    BY <1>0, <2>1, <2>2 DEF RowsOpen
  <2> QED
    BY <2>3, <2>4
<1>10. CASE UNCHANGED fileVars
  <2>1. UNCHANGED <<attached, objects, upload, upsets>>
    BY <1>10 DEF fileVars
  <2> QED
    BY <1>g, <2>1 DEF OneName, RowsOpen
<1> QED
  BY <1>1, <1>2, <1>3, <1>4, <1>5, <1>6, <1>7, <1>8, <1>9, <1>10 DEF FilesNext

LEMMA LeftNext == Opened /\ LeftInv /\ [FilesNext]_fileVars => LeftInv'
<1> SUFFICES ASSUME Opened, LeftInv, [FilesNext]_fileVars, upsets' \cap {"late", "left"} = {},
                    NEW f \in objects'
             PROVE  Claimed(f)'
  BY DEF LeftInv
<1> USE DEF Moves, At
<1>0. Ready.step = "ready"
  BY DEF Ready
<1>g. upsets \subseteq upsets' => \A g \in objects : Claimed(g)
  BY DEF LeftInv
<1>1. ASSUME NEW u \in Uploaders, CheckTask(u) PROVE Claimed(f)'
  <2>1. PICK job : /\ At(u, "ready") /\ UNCHANGED <<attached, objects, named, upsets>>
                   /\ job.step = "store" /\ job # Ready /\ Moves(u, job)
    BY <1>1, Checks
  <2>2. Claimed(f)
    BY <1>g, <2>1
  <2> QED
    BY <2>1, <2>2 DEF Claimed
<1>2. ASSUME NEW u \in Uploaders, StoreUpload(u) PROVE Claimed(f)'
  <2>1. PICK file, job :
           /\ file \in Nat /\ At(u, "store") /\ objects' = objects \cup {file} /\ attached' = attached
           /\ upsets \subseteq upsets'
           /\ job.step = "attach" /\ job.file = file /\ job # Ready /\ Moves(u, job)
    BY <1>2, Stores
  <2>2. CASE f = file
    BY <2>1, <2>2 DEF Claimed
  <2>3. CASE f # file
    <3>1. Claimed(f)
      BY <1>g, <2>1, <2>3
    <3> QED
      BY <2>1, <3>1 DEF Claimed
  <2> QED
    BY <2>2, <2>3
<1>3. ASSUME NEW u \in Uploaders, Attach(u) PROVE Claimed(f)'
  <2>1. At(u, "attach") /\ Moves(u, Ready) /\ upsets \subseteq upsets'
    BY <1>3, Attaches
  <2>2. ASSUME NEW new, new.task = upload[u].task, new.file = upload[u].file,
               attached' = attached \cup {new}, objects' = objects,
               \A v \in Uploaders : At(v, "delete") => upload[u].task \notin upload[v].tasks
        PROVE  Claimed(f)'
    <3>1. Claimed(f)
      BY <1>g, <2>1, <2>2
    <3>2. CASE f = upload[u].file
      BY <1>0, <2>1, <2>2, <3>2 DEF Claimed
    <3>3. CASE f # upload[u].file
      BY <1>0, <2>1, <2>2, <3>1, <3>3 DEF Claimed
    <3> QED
      BY <3>2, <3>3
  <2>3. ASSUME attached' = attached, objects' \subseteq objects, f # upload[u].file
        PROVE  Claimed(f)'
    <3>1. Claimed(f)
      BY <1>g, <2>1, <2>3
    <3> QED
      BY <1>0, <2>1, <2>3, <3>1 DEF Claimed
  <2> QED
    BY <1>3, <2>2, <2>3, Attaches
<1>4. ASSUME NEW u \in Uploaders, Detach(u) PROVE Claimed(f)'
  <2>1. PICK a, job :
          /\ a \in attached /\ At(u, "ready") /\ UNCHANGED <<objects, named, upsets>> /\ attached' = attached \ {a}
          /\ job.step = "erase" /\ job.files = {a.file} /\ job # Ready /\ Moves(u, job)
    BY <1>4, Detaches
  <2>2. Claimed(f)
    BY <1>g, <2>1
  <2> QED
    BY <2>1, <2>2 DEF Claimed
<1>5. ASSUME NEW u \in Uploaders, EraseObject(u) PROVE Claimed(f)'
  <2>1. /\ At(u, "erase") /\ UNCHANGED <<attached, named>> /\ Moves(u, Ready) /\ upsets \subseteq upsets'
        /\ objects' \subseteq objects /\ f \notin upload[u].files
    BY <1>5, Erases
  <2>2. Claimed(f)
    BY <1>g, <2>1
  <2> QED
    BY <1>0, <2>1, <2>2 DEF Claimed
<1>6. ASSUME NEW u \in Uploaders, ListTaskFiles(u) PROVE Claimed(f)'
  <2>1. PICK job :
          /\ At(u, "ready") /\ UNCHANGED <<attached, objects, named>> /\ upsets \subseteq upsets'
          /\ job.step = "delete" /\ job # Ready /\ Moves(u, job)
          /\ \A a \in attached : a.task \in job.tasks => a.file \in job.files
    BY <1>6, Lists
  <2>2. Claimed(f)
    BY <1>g, <2>1
  <2> QED
    BY <2>1, <2>2 DEF Claimed
<1>7. ASSUME NEW u \in Uploaders, DeleteTaskFiles(u) PROVE Claimed(f)'
  <2>1. PICK job :
          /\ At(u, "delete") /\ UNCHANGED <<attached, named>> /\ upsets \subseteq upsets'
          /\ objects' \subseteq objects /\ f \notin upload[u].files
          /\ job.step = "delete" /\ job.tasks = upload[u].tasks /\ job.files = {} /\ job # Ready /\ Moves(u, job)
    BY <1>7, DeletesFiles
  <2>2. Claimed(f)
    BY <1>g, <2>1
  <2> QED
    BY <2>1, <2>2 DEF Claimed
<1>8. ASSUME NEW u \in Uploaders, DeleteTaskRow(u) PROVE Claimed(f)'
  <2>1. /\ At(u, "delete") /\ upload[u].files = {} /\ UNCHANGED <<objects, named>> /\ Moves(u, Ready)
        /\ upsets \subseteq upsets'
        /\ \A a \in attached : a.task \notin upload[u].tasks => a \in attached'
    BY <1>8, DeletesRow
  <2>2. Claimed(f)
    BY <1>g, <2>1
  <2> QED
    BY <1>0, <2>1, <2>2 DEF Claimed
<1>9. ASSUME NEW u \in Uploaders, Stop(u) PROVE Claimed(f)'
  <2>1. /\ ~At(u, "attach") /\ ~At(u, "erase") /\ UNCHANGED <<attached, objects, named>> /\ Moves(u, Ready)
        /\ upsets \subseteq upsets'
    BY <1>9, Stops
  <2>2. Claimed(f)
    BY <1>g, <2>1
  <2> QED
    BY <1>0, <2>1, <2>2 DEF Claimed
<1>10. CASE UNCHANGED fileVars
  <2>1. UNCHANGED <<attached, objects, upload, upsets>>
    BY <1>10 DEF fileVars
  <2>2. Claimed(f)
    BY <1>g, <2>1
  <2> QED
    BY <2>1, <2>2 DEF Claimed
<1> QED
  BY <1>1, <1>2, <1>3, <1>4, <1>5, <1>6, <1>7, <1>8, <1>9, <1>10 DEF FilesNext

(***************************************************************************)
(* However uploads, removals and deletions of a task tree cross and fail,  *)
(* once every request is done each image listed can be opened, unless two  *)
(* uploads got one name or a deletion's last statement failed or was not   *)
(* reached; and nothing is stored that no row names, unless an image was   *)
(* attached during a deletion or objects were not found or not deleted     *)
(* (addTaskAttachment, deleteTaskAttachment, DeleteTaskFiles).             *)
(***************************************************************************)
THEOREM ImagesMatchTheirRows == FilesSpec => []FilesMatchRows
<1>1. FilesInv => FilesMatchRows
  <2> SUFFICES ASSUME FilesInv, \A u \in Uploaders : upload[u] = Ready
               PROVE  /\ upsets \cap {"twin", "kept"} = {} => FilesOf(attached) \subseteq objects
                      /\ upsets \cap {"late", "left"} = {} => objects \subseteq FilesOf(attached)
    BY DEF FilesMatchRows, ShownCanOpen, NothingLeft
  <2>1. \A u \in Uploaders : ~ At(u, "attach") /\ ~ At(u, "erase") /\ ~ At(u, "delete")
    BY DEF At, Ready
  <2>2. upsets \cap {"twin", "kept"} = {} => \A a \in attached : a.file \in objects
    BY <2>1 DEF FilesInv, ShownInv, RowsOpen
  <2>3. upsets \cap {"late", "left"} = {} => \A f \in objects : \E a \in attached : a.file = f
    BY <2>1 DEF FilesInv, LeftInv, Claimed
  <2> QED
    BY <2>2, <2>3 DEF FilesOf
<1>2. FilesInv /\ [FilesNext]_fileVars => FilesInv'
  BY OpenedNext, ShownNext, LeftNext DEF FilesInv
<1> QED
  BY <1>1, <1>2, FilesInvInit, PTL DEF FilesSpec

-----------------------------------------------------------------------------
(* NoteFolders: the texts.                                                 *)

OnStep(c, step) == errand[c].step = step
Steps == {"free", "write", "unrow", "drop", "discard", "notes at", "notes below", "shelf", "shelves"}
Renames == {"notes at", "notes below", "shelf", "shelves"}
Rename(e) == e = [step |-> e.step, from |-> e.from, to |-> e.to]

Filing ==
  /\ DOMAIN notes = Notes /\ DOMAIN errand = Clerks
  /\ \A n \in Notes :
       /\ notes[n] \in [made : BOOLEAN, here : BOOLEAN, folder : {notes[n].folder}, text : BOOLEAN]
       /\ notes[n].here => notes[n].made
  /\ \A c \in Clerks :
       /\ errand[c].step \in Steps
       /\ OnStep(c, "free") <=> errand[c] = Free
       /\ errand[c].step \in Renames => Rename(errand[c])
       /\ OnStep(c, "write") \/ OnStep(c, "unrow") => errand[c].note \in Notes

(* A note on the list of a deletion is in the folder still, or is gone, or *)
(* is known to have left; once the rows are dropped, not the first.        *)
Listed ==
  /\ \A c \in Clerks : OnStep(c, "drop") => \A n \in errand[c].listed :
       /\ n \in Notes /\ notes[n].made
       /\ n \in slipped \/ ~notes[n].here \/ Matches(notes[n].folder, errand[c].path)
  /\ \A c \in Clerks : OnStep(c, "discard") => \A n \in errand[c].listed :
       /\ n \in Notes /\ notes[n].made
       /\ n \in slipped \/ ~notes[n].here

TextInv == Filing /\ Listed /\ TextKept

LEMMA TextInvInit == FoldersStart => TextInv
<1> SUFFICES ASSUME FoldersStart PROVE Filing /\ Listed /\ TextKept
  BY DEF TextInv
<1>1. Free.step = "free" /\ ~Nowhere.here
      /\ Nowhere \in [made : BOOLEAN, here : BOOLEAN, folder : {Nowhere.folder}, text : BOOLEAN]
  BY DEF Free, Nowhere
<1> QED
  BY <1>1 DEF FoldersStart, Filing, Listed, TextKept, OnStep, Steps, Renames

LEMMA TextInvNext == TextInv /\ [FoldersNext]_folderVars => TextInv'
<1> SUFFICES ASSUME TextInv, [FoldersNext]_folderVars PROVE Filing' /\ Listed' /\ TextKept'
  BY DEF TextInv
<1>0. Filing /\ Listed /\ TextKept
  BY DEF TextInv
<1>1. ASSUME NEW c \in Clerks, NEW job, Turns(c, job)
      PROVE  DOMAIN errand' = Clerks /\ \A d \in Clerks : errand'[d] = IF d = c THEN job ELSE errand[d]
  BY <1>0, <1>1 DEF Turns, Filing
<1>2. ASSUME NEW c \in Clerks, Takes(c, Free)
      PROVE  DOMAIN errand' = Clerks /\ \A d \in Clerks : errand'[d] = errand[d]
  BY <1>1, <1>2 DEF Takes
<1> USE DEF OnStep
<1>3. ASSUME NEW c \in Clerks, CreateNoteIn(c) PROVE Filing' /\ Listed' /\ TextKept'
  <2>1. PICK n \in Notes, f \in Folders \cup {<<>>} :
          /\ ~notes[n].made
          /\ DOMAIN errand' = Clerks /\ \A d \in Clerks : errand'[d] = errand[d]
          /\ notes' = [notes EXCEPT ![n] = [made |-> TRUE, here |-> TRUE, folder |-> f, text |-> TRUE]]
          /\ UNCHANGED slipped
    BY <1>2, <1>3 DEF CreateNoteIn
  <2>2. PICK new : new = [made |-> TRUE, here |-> TRUE, folder |-> f, text |-> TRUE]
    OBVIOUS
  <2>3. /\ new.made = TRUE /\ new.here = TRUE /\ new.text = TRUE
        /\ new \in [made : BOOLEAN, here : BOOLEAN, folder : {new.folder}, text : BOOLEAN]
    BY <2>2
  <2>4. DOMAIN notes' = Notes /\ \A m \in Notes : notes'[m] = IF m = n THEN new ELSE notes[m]
    BY <1>0, <2>1, <2>2 DEF Filing
  <2>5. Filing'
    BY <1>0, <2>1, <2>3, <2>4 DEF Filing
  <2>6. Listed'
    BY <1>0, <2>1, <2>3, <2>4 DEF Listed
  <2>7. TextKept'
    BY <1>0, <2>1, <2>3, <2>4 DEF TextKept
  <2> QED
    BY <2>5, <2>6, <2>7
<1>4. ASSUME NEW c \in Clerks, ReadNote(c) PROVE Filing' /\ Listed' /\ TextKept'
  <2>1. PICK n \in Notes, f \in Folders, moves \in BOOLEAN :
          /\ Takes(c, [step |-> "write", note |-> n, folder |-> IF moves THEN f ELSE notes[n].folder])
          /\ UNCHANGED <<notes, slipped>>
    BY <1>4 DEF ReadNote
  <2>2. PICK job : job = [step |-> "write", note |-> n, folder |-> IF moves THEN f ELSE notes[n].folder]
    OBVIOUS
  <2>3. errand[c] = Free /\ errand[c].step = "free" /\ Turns(c, job)
    BY <2>1, <2>2 DEF Takes, Free
  <2>4. /\ job.step = "write" /\ job.note = n /\ job # Free /\ job.step \in Steps /\ job.step \notin Renames
        /\ DOMAIN errand' = Clerks /\ \A d \in Clerks : errand'[d] = IF d = c THEN job ELSE errand[d]
    BY <1>1, <2>2, <2>3 DEF Free, Steps, Renames
  <2>5. Filing'
    BY <1>0, <2>1, <2>4 DEF Filing
  <2>6. Listed' /\ TextKept'
    BY <1>0, <2>1, <2>3, <2>4 DEF Listed, TextKept
  <2> QED
    BY <2>5, <2>6
<1>5. ASSUME NEW c \in Clerks, WriteNote(c) PROVE Filing' /\ Listed' /\ TextKept'
  <2>1. PICK n \in Notes : n = errand[c].note
    BY <1>0, <1>5 DEF WriteNote, Filing
  <2>2. /\ errand[c].step = "write" /\ Turns(c, Free)
        /\ notes' = IF notes[n].here THEN [notes EXCEPT ![n].folder = errand[c].folder] ELSE notes
        /\ slipped' = IF Listing(n) # {} THEN slipped \cup {n} ELSE slipped
    BY <1>5, <2>1 DEF WriteNote
  <2>3. /\ Free.step = "free"
        /\ DOMAIN errand' = Clerks /\ \A d \in Clerks : errand'[d] = IF d = c THEN Free ELSE errand[d]
    BY <1>1, <2>2 DEF Free
  <2>4. /\ DOMAIN notes' = Notes
        /\ \A m \in Notes : m # n => notes'[m] = notes[m]
        /\ notes'[n] \in [made : BOOLEAN, here : BOOLEAN, folder : {notes'[n].folder}, text : BOOLEAN]
        /\ notes'[n].made = notes[n].made /\ notes'[n].here = notes[n].here /\ notes'[n].text = notes[n].text
    BY <1>0, <2>2 DEF Filing
  <2>5. Filing'
    BY <1>0, <2>3, <2>4 DEF Filing, Steps, Renames
  <2>6. \A d \in Clerks : OnStep(d, "drop") /\ n \in errand[d].listed => n \in slipped'
    BY <2>2 DEF Listing
  <2>7. slipped \subseteq slipped'
    BY <2>2
  <2>8. Listed'
    BY <1>0, <2>1, <2>3, <2>4, <2>6, <2>7 DEF Listed
  <2>9. TextKept'
    BY <1>0, <2>2, <2>3, <2>4, <2>7 DEF TextKept
  <2> QED
    BY <2>5, <2>8, <2>9
<1>6. ASSUME NEW c \in Clerks, DiscardNote(c) PROVE Filing' /\ Listed' /\ TextKept'
  <2>1. PICK n \in Notes : /\ Takes(c, [step |-> "unrow", note |-> n])
                           /\ notes' = [notes EXCEPT ![n].text = FALSE] /\ UNCHANGED slipped
    BY <1>6 DEF DiscardNote
  <2>2. PICK job : job = [step |-> "unrow", note |-> n]
    OBVIOUS
  <2>3. errand[c] = Free /\ errand[c].step = "free" /\ Turns(c, job)
    BY <2>1, <2>2 DEF Takes, Free
  <2>4. /\ job.step = "unrow" /\ job.note = n /\ job # Free /\ job.step \in Steps /\ job.step \notin Renames
        /\ DOMAIN errand' = Clerks /\ \A d \in Clerks : errand'[d] = IF d = c THEN job ELSE errand[d]
    BY <1>1, <2>2, <2>3 DEF Free, Steps, Renames
  <2>5. /\ DOMAIN notes' = Notes
        /\ \A m \in Notes : m # n => notes'[m] = notes[m]
        /\ notes'[n] \in [made : BOOLEAN, here : BOOLEAN, folder : {notes'[n].folder}, text : BOOLEAN]
        /\ notes'[n].made = notes[n].made /\ notes'[n].here = notes[n].here /\ notes'[n].folder = notes[n].folder
    BY <1>0, <2>1 DEF Filing
  <2>6. Filing'
    BY <1>0, <2>4, <2>5 DEF Filing
  <2>7. Listed'
    BY <1>0, <2>1, <2>4, <2>5 DEF Listed
  <2>8. TextKept'
    BY <1>0, <2>1, <2>3, <2>4, <2>5 DEF TextKept
  <2> QED
    BY <2>6, <2>7, <2>8
<1>7. ASSUME NEW c \in Clerks, DropNote(c) PROVE Filing' /\ Listed' /\ TextKept'
  <2>1. PICK n \in Notes : n = errand[c].note
    BY <1>0, <1>7 DEF DropNote, Filing
  <2>2. /\ errand[c].step = "unrow" /\ Turns(c, Free)
        /\ notes' = [notes EXCEPT ![n].here = FALSE] /\ UNCHANGED slipped
    BY <1>7, <2>1 DEF DropNote
  <2>3. /\ Free.step = "free"
        /\ DOMAIN errand' = Clerks /\ \A d \in Clerks : errand'[d] = IF d = c THEN Free ELSE errand[d]
    BY <1>1, <2>2 DEF Free
  <2>4. /\ DOMAIN notes' = Notes
        /\ \A m \in Notes : m # n => notes'[m] = notes[m]
        /\ notes'[n] \in [made : BOOLEAN, here : BOOLEAN, folder : {notes'[n].folder}, text : BOOLEAN]
        /\ notes'[n].made = notes[n].made /\ ~notes'[n].here
    BY <1>0, <2>2 DEF Filing
  <2>5. Filing'
    BY <1>0, <2>3, <2>4 DEF Filing, Steps, Renames
  <2>6. Listed'
    BY <1>0, <2>2, <2>3, <2>4 DEF Listed
  <2>7. TextKept'
    BY <1>0, <2>1, <2>2, <2>3, <2>4 DEF TextKept
  <2> QED
    BY <2>5, <2>6, <2>7
<1>8. ASSUME NEW c \in Clerks, KeepFolder(c) PROVE Filing' /\ Listed' /\ TextKept'
  <2>1. /\ DOMAIN errand' = Clerks /\ \A d \in Clerks : errand'[d] = errand[d]
        /\ UNCHANGED <<notes, slipped>>
    BY <1>2, <1>8 DEF KeepFolder
  <2> QED
    BY <1>0, <2>1 DEF Filing, Listed, TextKept
<1>9. ASSUME NEW c \in Clerks, ListFolder(c) PROVE Filing' /\ Listed' /\ TextKept'
  <2> DEFINE listed(path) == {n \in Notes : notes[n].here /\ Matches(notes[n].folder, path)}
  <2>1. PICK path \in Folders : /\ Takes(c, [step |-> "drop", path |-> path, listed |-> listed(path)])
                                /\ UNCHANGED <<notes, slipped>>
    BY <1>9 DEF ListFolder
  <2>2. PICK job : job = [step |-> "drop", path |-> path, listed |-> listed(path)]
    OBVIOUS
  <2>3. errand[c] = Free /\ errand[c].step = "free" /\ Turns(c, job)
    BY <2>1, <2>2 DEF Takes, Free
  <2>4. /\ job.step = "drop" /\ job # Free /\ job.step \in Steps /\ job.step \notin Renames
        /\ job.path = path /\ job.listed = listed(path)
        /\ DOMAIN errand' = Clerks /\ \A d \in Clerks : errand'[d] = IF d = c THEN job ELSE errand[d]
    BY <1>1, <2>2, <2>3 DEF Free, Steps, Renames
  <2>5. \A n \in job.listed : n \in Notes /\ notes[n].here /\ notes[n].made /\ Matches(notes[n].folder, job.path)
    BY <1>0, <2>4 DEF Filing
  <2> HIDE DEF listed
  <2>6. Filing'
    BY <1>0, <2>1, <2>4 DEF Filing
  <2>7. Listed'
    BY <1>0, <2>1, <2>4, <2>5 DEF Listed
  <2>8. TextKept'
    BY <1>0, <2>1, <2>3, <2>4 DEF TextKept
  <2> QED
    BY <2>6, <2>7, <2>8
<1>10. ASSUME NEW c \in Clerks, DropFolder(c) PROVE Filing' /\ Listed' /\ TextKept'
  <2>1. /\ errand[c].step = "drop" /\ Turns(c, [step |-> "discard", listed |-> errand[c].listed])
        /\ notes' = [n \in Notes |-> IF notes[n].here /\ Matches(notes[n].folder, errand[c].path)
                                     THEN [notes[n] EXCEPT !.here = FALSE] ELSE notes[n]]
        /\ UNCHANGED slipped
    BY <1>10 DEF DropFolder
  <2>2. PICK job : job = [step |-> "discard", listed |-> errand[c].listed]
    OBVIOUS
  <2>3. /\ job.step = "discard" /\ job # Free /\ job.step \in Steps /\ job.step \notin Renames
        /\ job.listed = errand[c].listed
        /\ DOMAIN errand' = Clerks /\ \A d \in Clerks : errand'[d] = IF d = c THEN job ELSE errand[d]
    BY <1>1, <2>1, <2>2 DEF Free, Steps, Renames
  <2>4. /\ DOMAIN notes' = Notes
        /\ \A n \in Notes :
             /\ notes'[n] \in [made : BOOLEAN, here : BOOLEAN, folder : {notes'[n].folder}, text : BOOLEAN]
             /\ notes'[n].made = notes[n].made /\ notes'[n].text = notes[n].text
             /\ notes'[n].folder = notes[n].folder
             /\ notes'[n].here <=> notes[n].here /\ ~ Matches(notes[n].folder, errand[c].path)
    <3> SUFFICES ASSUME NEW n \in Notes
                 PROVE  /\ notes'[n] \in [made : BOOLEAN, here : BOOLEAN, folder : {notes'[n].folder}, text : BOOLEAN]
                        /\ notes'[n].made = notes[n].made /\ notes'[n].text = notes[n].text
                        /\ notes'[n].folder = notes[n].folder
                        /\ notes'[n].here <=> notes[n].here /\ ~ Matches(notes[n].folder, errand[c].path)
      BY <2>1
    <3>1. CASE notes[n].here /\ Matches(notes[n].folder, errand[c].path)
      BY <1>0, <2>1, <3>1 DEF Filing
    <3>2. CASE ~ (notes[n].here /\ Matches(notes[n].folder, errand[c].path))
      BY <1>0, <2>1, <3>2 DEF Filing
    <3> QED
      BY <3>1, <3>2
  <2>5. Filing'
    BY <1>0, <2>3, <2>4 DEF Filing
  <2>6. Listed'
    BY <1>0, <2>1, <2>3, <2>4 DEF Listed
  <2>7. TextKept'
    BY <1>0, <2>1, <2>3, <2>4 DEF TextKept
  <2> QED
    BY <2>5, <2>6, <2>7
<1>11. ASSUME NEW c \in Clerks, DiscardListed(c) PROVE Filing' /\ Listed' /\ TextKept'
  <2>1. /\ errand[c].step = "discard" /\ Turns(c, Free) /\ UNCHANGED slipped
        /\ notes' = [n \in Notes |-> IF n \in errand[c].listed THEN [notes[n] EXCEPT !.text = FALSE] ELSE notes[n]]
    BY <1>11 DEF DiscardListed
  <2>2. /\ Free.step = "free"
        /\ DOMAIN errand' = Clerks /\ \A d \in Clerks : errand'[d] = IF d = c THEN Free ELSE errand[d]
    BY <1>1, <2>1 DEF Free
  <2>3. /\ DOMAIN notes' = Notes
        /\ \A n \in Notes :
             /\ notes'[n] \in [made : BOOLEAN, here : BOOLEAN, folder : {notes'[n].folder}, text : BOOLEAN]
             /\ notes'[n].made = notes[n].made /\ notes'[n].here = notes[n].here
             /\ notes'[n].folder = notes[n].folder
             /\ n \notin errand[c].listed => notes'[n].text = notes[n].text
    <3>1. DOMAIN notes' = Notes
      BY <2>1
    <3> SUFFICES ASSUME NEW n \in Notes
                 PROVE  /\ notes'[n] \in [made : BOOLEAN, here : BOOLEAN, folder : {notes'[n].folder}, text : BOOLEAN]
                        /\ notes'[n].made = notes[n].made /\ notes'[n].here = notes[n].here
                        /\ notes'[n].folder = notes[n].folder
                        /\ n \notin errand[c].listed => notes'[n].text = notes[n].text
      BY <3>1
    <3>2. notes[n] \in [made : BOOLEAN, here : BOOLEAN, folder : {notes[n].folder}, text : BOOLEAN]
      BY <1>0 DEF Filing
    <3>3. CASE n \in errand[c].listed
      <4>1. notes'[n] = [notes[n] EXCEPT !.text = FALSE]
        BY <2>1, <3>3
      <4> QED
        BY <3>2, <3>3, <4>1
    <3>4. CASE n \notin errand[c].listed
      <4>1. notes'[n] = notes[n]
        BY <2>1, <3>4
      <4> QED
        BY <3>2, <4>1
    <3> QED
      BY <3>3, <3>4
  <2>4. Filing'
    BY <1>0, <2>2, <2>3 DEF Filing, Steps, Renames
  <2>5. Listed'
    BY <1>0, <2>1, <2>2, <2>3 DEF Listed
  <2>6. TextKept'
    BY <1>0, <2>1, <2>2, <2>3 DEF TextKept, Listed
  <2> QED
    BY <2>4, <2>5, <2>6
<1>12. ASSUME NEW c \in Clerks, OpenRename(c) PROVE Filing' /\ Listed' /\ TextKept'
  <2>1. PICK from \in Folders, to \in Folders : /\ Takes(c, [step |-> "notes at", from |-> from, to |-> to])
                                                /\ UNCHANGED <<notes, slipped>>
    BY <1>12 DEF OpenRename
  <2>2. PICK job : job = [step |-> "notes at", from |-> from, to |-> to]
    OBVIOUS
  <2>a. Takes(c, job)
    BY <2>1, <2>2
  <2>3. errand[c] = Free /\ Free.step = "free" /\ Turns(c, job)
    BY <2>a DEF Takes, Free
  <2>b. job.step = "notes at" /\ Rename(job)
    BY <2>2 DEF Rename
  <2>c. DOMAIN errand' = Clerks /\ \A d \in Clerks : errand'[d] = IF d = c THEN job ELSE errand[d]
    BY <1>1, <2>3
  <2>4. /\ job.step = "notes at" /\ job # Free /\ job.step \in Steps /\ Rename(job)
        /\ DOMAIN errand' = Clerks /\ \A d \in Clerks : errand'[d] = IF d = c THEN job ELSE errand[d]
    BY <2>3, <2>b, <2>c DEF Steps
  <2>5. Filing'
    BY <1>0, <2>1, <2>4 DEF Filing
  <2>6. \A d \in Clerks :
          /\ errand'[d].step = "drop" => errand'[d] = errand[d]
          /\ errand'[d].step = "discard" => errand'[d] = errand[d]
          /\ errand[d].step = "unrow" => errand'[d] = errand[d]
    BY <2>3, <2>4
  <2>7. Listed'
    BY <1>0, <2>1, <2>6 DEF Listed
  <2>8. TextKept'
    <3> SUFFICES ASSUME NEW n \in Notes, notes'[n].here, ~ notes'[n].text
                 PROVE  n \in slipped' \/ \E d \in Clerks : errand'[d].step = "unrow" /\ errand'[d].note = n
      BY DEF TextKept
    <3>1. notes' = notes /\ slipped' = slipped
      BY <2>1
    <3>2. n \in slipped \/ \E d \in Clerks : errand[d].step = "unrow" /\ errand[d].note = n
      BY <1>0, <3>1 DEF TextKept
    <3>3. CASE n \in slipped
      BY <3>1, <3>3
    <3>4. ASSUME NEW d \in Clerks, errand[d].step = "unrow", errand[d].note = n
          PROVE  errand'[d].step = "unrow" /\ errand'[d].note = n
      BY <2>6, <3>4
    <3> QED
      BY <3>2, <3>3, <3>4
  <2> QED
    BY <2>5, <2>7, <2>8
<1>13. ASSUME NEW c \in Clerks, RenameNotes(c) PROVE Filing' /\ Listed' /\ TextKept'
  <2>1. PICK job : job = [errand[c] EXCEPT !.step = IF OnStep(c, "notes at") THEN "notes below" ELSE "shelf"]
    OBVIOUS
  <2>2. Rename(errand[c]) /\ errand[c].step \in {"notes at", "notes below"} /\ Turns(c, job)
    BY <1>0, <1>13, <2>1 DEF RenameNotes, Filing, Renames
  <2>a. PICK next \in {"notes below", "shelf"} : job = [step |-> next, from |-> errand[c].from, to |-> errand[c].to]
    BY <2>1, <2>2 DEF Rename
  <2>b. job.step = next /\ Rename(job)
    BY <2>a DEF Rename
  <2>c. DOMAIN errand' = Clerks /\ \A d \in Clerks : errand'[d] = IF d = c THEN job ELSE errand[d]
    BY <1>1, <2>2
  <2>d. Free.step = "free"
    BY DEF Free
  <2>3. /\ job.step \in {"notes below", "shelf"} /\ Rename(job) /\ job # Free
        /\ job.step \in Steps
        /\ DOMAIN errand' = Clerks /\ \A d \in Clerks : errand'[d] = IF d = c THEN job ELSE errand[d]
    BY <2>b, <2>c, <2>d DEF Steps
  <2>4. /\ slipped \subseteq slipped'
        /\ \A n \in Notes : notes'[n] # notes[n] /\ Listing(n) # {} => n \in slipped'
    BY <1>13 DEF RenameNotes
  <2>5. /\ DOMAIN notes' = Notes
        /\ \A n \in Notes :
             /\ notes'[n] \in [made : BOOLEAN, here : BOOLEAN, folder : {notes'[n].folder}, text : BOOLEAN]
             /\ notes'[n].made = notes[n].made /\ notes'[n].here = notes[n].here
             /\ notes'[n].text = notes[n].text
    <3>1. DOMAIN notes' = Notes
      BY <1>13 DEF RenameNotes
    <3>2. ASSUME NEW n \in Notes
          PROVE  notes'[n] = notes[n] \/ \E f : notes'[n] = [notes[n] EXCEPT !.folder = f]
      BY <1>13 DEF RenameNotes
    <3> QED
      BY <1>0, <3>1, <3>2 DEF Filing
  <2>6. Filing'
    BY <1>0, <2>3, <2>5 DEF Filing
  <2>7. \A d \in Clerks : OnStep(d, "drop") => \A n \in errand[d].listed :
          n \in Notes => n \in slipped' \/ notes'[n].folder = notes[n].folder
    BY <2>4 DEF Listing
  <2>e. \A d \in Clerks :
          /\ errand'[d].step = "drop" => errand'[d] = errand[d]
          /\ errand'[d].step = "discard" => errand'[d] = errand[d]
          /\ errand[d].step = "unrow" => errand'[d] = errand[d]
    BY <2>2, <2>3
  <2>f. \A n \in Notes : /\ notes'[n].made = notes[n].made /\ notes'[n].here = notes[n].here
                        /\ notes'[n].text = notes[n].text
    BY <2>5
  <2>g. \A n : n \in slipped => n \in slipped'
    BY <2>4
  <2>8. Listed'
    <3>1. ASSUME NEW d \in Clerks, errand'[d].step = "drop", NEW n \in errand'[d].listed
          PROVE  /\ n \in Notes /\ notes'[n].made
                 /\ n \in slipped' \/ ~notes'[n].here \/ Matches(notes'[n].folder, errand'[d].path)
      <4>1. errand'[d] = errand[d] /\ errand[d].step = "drop" /\ n \in errand[d].listed
        BY <2>e, <3>1
      <4>2. n \in Notes /\ notes[n].made /\ (n \in slipped \/ ~notes[n].here \/ Matches(notes[n].folder, errand[d].path))
        BY <1>0, <4>1 DEF Listed
      <4>3. n \in slipped' \/ notes'[n].folder = notes[n].folder
        BY <2>7, <4>1, <4>2
      <4> QED
        BY <2>f, <2>g, <4>1, <4>2, <4>3
    <3>2. ASSUME NEW d \in Clerks, errand'[d].step = "discard", NEW n \in errand'[d].listed
          PROVE  n \in Notes /\ notes'[n].made /\ (n \in slipped' \/ ~notes'[n].here)
      <4>1. errand'[d] = errand[d] /\ errand[d].step = "discard" /\ n \in errand[d].listed
        BY <2>e, <3>2
      <4>2. n \in Notes /\ notes[n].made /\ (n \in slipped \/ ~notes[n].here)
        BY <1>0, <4>1 DEF Listed
      <4> QED
        BY <2>f, <2>g, <4>1, <4>2
    <3> QED
      BY <3>1, <3>2 DEF Listed
  <2>9. TextKept'
    <3> SUFFICES ASSUME NEW n \in Notes, notes'[n].here, ~notes'[n].text
                 PROVE  n \in slipped' \/ \E d \in Clerks : errand'[d].step = "unrow" /\ errand'[d].note = n
      BY DEF TextKept
    <3>1. n \in slipped \/ \E d \in Clerks : errand[d].step = "unrow" /\ errand[d].note = n
      BY <1>0, <2>f DEF TextKept
    <3> QED
      BY <2>e, <2>g, <3>1
  <2> QED
    BY <2>6, <2>8, <2>9
<1>14. ASSUME NEW c \in Clerks, RenameShelves(c) PROVE Filing' /\ Listed' /\ TextKept'
  <2>1. PICK job : job = IF OnStep(c, "shelf") THEN [errand[c] EXCEPT !.step = "shelves"] ELSE Free
    OBVIOUS
  <2>2. /\ Rename(errand[c]) /\ errand[c].step \in {"shelf", "shelves"} /\ Turns(c, job)
        /\ UNCHANGED <<notes, slipped>>
    BY <1>0, <1>14, <2>1 DEF RenameShelves, Filing, Renames
  <2>3. /\ job.step \in {"shelves", "free"} /\ (job.step = "free" <=> job = Free)
        /\ job.step \in Steps /\ (job.step \in Renames => Rename(job))
    <3>1. CASE OnStep(c, "shelf")
      <4>1. job = [step |-> "shelves", from |-> errand[c].from, to |-> errand[c].to]
        BY <2>1, <2>2, <3>1 DEF Rename
      <4> QED
        BY <4>1 DEF Rename, Steps, Free
    <3>2. CASE ~ OnStep(c, "shelf")
      BY <2>1, <3>2 DEF Free, Steps, Renames
    <3> QED
      BY <3>1, <3>2
  <2>4. DOMAIN errand' = Clerks /\ \A d \in Clerks : errand'[d] = IF d = c THEN job ELSE errand[d]
    BY <1>1, <2>2
  <2>5. Filing'
    BY <1>0, <2>2, <2>3, <2>4 DEF Filing
  <2>6. Listed' /\ TextKept'
    BY <1>0, <2>2, <2>3, <2>4 DEF Listed, TextKept
  <2> QED
    BY <2>5, <2>6
<1>15. ASSUME NEW c \in Clerks, Drops(c) PROVE Filing' /\ Listed' /\ TextKept'
  <2>1. /\ Turns(c, Free) /\ UNCHANGED notes
        /\ slipped' = IF OnStep(c, "unrow") THEN slipped \cup {errand[c].note} ELSE slipped
    BY <1>15 DEF Drops
  <2>2. /\ Free.step = "free"
        /\ DOMAIN errand' = Clerks /\ \A d \in Clerks : errand'[d] = IF d = c THEN Free ELSE errand[d]
    BY <1>1, <2>1 DEF Free
  <2>3. slipped \subseteq slipped' /\ (OnStep(c, "unrow") => errand[c].note \in slipped')
    BY <2>1
  <2>4. Filing'
    BY <1>0, <2>1, <2>2 DEF Filing, Steps, Renames
  <2>5. Listed'
    BY <1>0, <2>1, <2>2, <2>3 DEF Listed
  <2>6. TextKept'
    BY <1>0, <2>1, <2>2, <2>3 DEF TextKept
  <2> QED
    BY <2>4, <2>5, <2>6
<1>16. CASE UNCHANGED folderVars
  BY <1>0, <1>16 DEF folderVars, Filing, Listed, TextKept
<1> QED
  BY <1>3, <1>4, <1>5, <1>6, <1>7, <1>8, <1>9, <1>10, <1>11, <1>12, <1>13, <1>14, <1>15, <1>16 DEF FoldersNext

-----------------------------------------------------------------------------
(* NoteFolders: the paths.                                                 *)

Names == UNION {Range(f) : f \in Folders} \cup {""}
Paths == Seq(Names)

LEMMA FoldersArePaths ==
  ASSUME NEW f \in Folders
  PROVE  f \in Paths /\ f # <<>> /\ f # NoPlace /\ Len(f) \in Nat \ {0}
<1>1. f \in Seq(Range(f)) /\ f # <<>> /\ f # NoPlace
  BY FolderAssumption
<1>2. Range(f) \subseteq Names
  BY DEF Names
<1>3. f \in Paths
  BY <1>1, <1>2, SeqMonotonic DEF Paths
<1> QED
  BY <1>1, <1>3, EmptySeq DEF Paths

(* LIKE 'path/%' is what lies below the path, but for its wild names.      *)
LEMMA LikeIsBelow ==
  ASSUME NEW f \in Paths, NEW p \in Paths, Range(p) \cap Wild = {}
  PROVE  Like(f, p) <=> Within(f, p) /\ f # p
<1>1. /\ Len(f) \in Nat /\ Len(p) \in Nat /\ DOMAIN p = 1 .. Len(p)
      /\ \A i \in 1 .. Len(f) : f[i] \in Names
      /\ \A i \in 1 .. Len(p) : p[i] \notin Wild
  <2>1. \A i \in DOMAIN p : p[i] \in Range(p)
    BY DEF Range
  <2> QED
    BY <2>1, LenProperties, ElementOfSeq DEF Paths
<1>2. CASE Len(f) < Len(p)
  BY <1>1, <1>2 DEF Like, Within
<1>3. CASE Len(f) >= Len(p)
  <2>1. /\ SubSeq(f, 1, Len(p)) \in Paths /\ Len(SubSeq(f, 1, Len(p))) = Len(p)
        /\ \A i \in 1 .. Len(p) : SubSeq(f, 1, Len(p))[i] = f[i]
    <3>1. \A i \in 1 .. Len(p) : f[i] \in Names
      BY <1>1, <1>3
    <3> QED
      BY <1>1, <3>1, SubSeqProperties DEF Paths
  <2>2. SubSeq(f, 1, Len(p)) = p <=> \A i \in 1 .. Len(p) : f[i] = p[i]
    BY <2>1, SeqEqual DEF Paths
  <2>3. Len(f) = Len(p) => (f = p <=> \A i \in 1 .. Len(p) : f[i] = p[i])
    BY SeqEqual DEF Paths
  <2>4. Within(f, p) <=> \A i \in 1 .. Len(p) : f[i] = p[i]
    BY <1>3, <2>2 DEF Within
  <2>5. Like(f, p) <=> Len(f) > Len(p) /\ \A i \in 1 .. Len(p) : f[i] = p[i]
    BY <1>1 DEF Like
  <2> QED
    BY <1>1, <1>3, <2>3, <2>4, <2>5
<1> QED
  BY <1>1, <1>2, <1>3

LEMMA HungFromItself ==
  ASSUME NEW p \in Paths, NEW to \in Paths
  PROVE  Within(p, p) /\ Rehung(p, p, to) = to
<1>1. Len(p) \in Nat
  BY LenProperties DEF Paths
<1>2. Within(p, p)
  BY <1>1, SubSeqFull DEF Within, Paths
<1>3. SubSeq(p, Len(p) + 1, Len(p)) = <<>>
  BY <1>1, SubSeqEmpty
<1>4. to \o <<>> = to
  BY ConcatEmptySeq DEF Paths
<1> QED
  BY <1>2, <1>3, <1>4 DEF Rehung

(* Counted in letters of one byte, the rest of the path is what follows    *)
(* the folder, and hung from another folder it is a path below that one.   *)
LEMMA CarriedIsRehung ==
  ASSUME NEW f \in Paths, NEW from \in Paths, NEW to \in Paths, to # <<>>,
         Range(from) \cap Wide = {}, Within(f, from), f # from
  PROVE  /\ Carried(f, from, to) = Rehung(f, from, to)
         /\ Rehung(f, from, to) \in Paths /\ Rehung(f, from, to) # NoPlace
<1> DEFINE rest == SubSeq(f, Len(from) + 1, Len(f))
<1>1. /\ Len(f) \in Nat /\ Len(from) \in Nat /\ DOMAIN from = 1 .. Len(from)
      /\ Len(to) \in Nat \ {0}
      /\ \A i \in 1 .. Len(f) : f[i] \in Names
  BY LenProperties, EmptySeq, ElementOfSeq DEF Paths
<1>2. Len(f) > Len(from)
  <2>1. Len(f) >= Len(from) /\ SubSeq(f, 1, Len(from)) = from
    BY DEF Within
  <2>2. Len(f) = Len(from) => f = from
    BY <2>1, SubSeqFull DEF Paths
  <2> QED
    BY <1>1, <2>1, <2>2
<1>3. rest \in Paths /\ Len(rest) = Len(f) - Len(from)
  <2>1. \A i \in Len(from) + 1 .. Len(f) : f[i] \in Names
    BY <1>1
  <2>2. /\ SubSeq(f, Len(from) + 1, Len(f)) \in Seq(Names)
        /\ Len(SubSeq(f, Len(from) + 1, Len(f)))
             = IF Len(from) + 1 <= Len(f) THEN Len(f) - (Len(from) + 1) + 1 ELSE 0
    BY <1>1, <2>1, SubSeqProperties
  <2> QED
    BY <1>1, <1>2, <2>2 DEF Paths
<1>4. rest # <<>>
  <2> HIDE DEF rest
  <2>1. Len(f) - Len(from) >= 1
    BY <1>1, <1>2
  <2>2. Len(rest) >= 1
    BY <1>3, <2>1
  <2>3. \A x : x = <<>> => Len(x) = 0
    OBVIOUS
  <2> QED
    BY <2>2, <2>3
<1>5. to \o rest \in Paths /\ Len(to \o rest) = Len(to) + Len(rest)
  <2> HIDE DEF rest
  <2> QED
    BY <1>3, ConcatProperties DEF Paths
<1>6. Rehung(f, from, to) = to \o rest
  BY DEF Rehung
<1>7. to \o rest # NoPlace
  <2>1. Len(NoPlace) = 1
    BY DEF NoPlace
  <2>2. Len(to \o rest) >= 2
    BY <1>1, <1>2, <1>3, <1>5
  <2>3. \A x : x = NoPlace => Len(x) = 1
    BY <2>1
  <2> QED
    <3> HIDE DEF rest
    <3> QED BY <2>2, <2>3
<1>8. Cardinality({i \in DOMAIN from : from[i] \in Wide}) = 0
  <2>1. {i \in DOMAIN from : from[i] \in Wide} = {}
    BY DEF Range
  <2> QED
    BY <2>1, FS_EmptySet
<1>9. Carried(f, from, to) = to \o rest
  <2>1. Len(from) + 1 + 0 = Len(from) + 1
    BY <1>1
  <2> QED
    BY <1>4, <1>8, <2>1 DEF Carried
<1> QED
  BY <1>5, <1>6, <1>7, <1>9

(* All that a rename by statements does to a path, when the folder's name  *)
(* is plain and the new name is not inside it.                             *)
Plainly(from, to) == /\ from \in Folders /\ to \in Folders
                     /\ Range(from) \cap (Wild \cup Wide) = {} /\ ~ Within(to, from)

LEMMA Renamed ==
  ASSUME NEW from, NEW to, Plainly(from, to), NEW f \in Paths
  PROVE  /\ f = from => Rehung(f, from, to) = to /\ ~ Like(f, from)
         /\ Like(f, from) => Carried(f, from, to) = Rehung(f, from, to)
         /\ f # from /\ ~ Like(f, from) => Rehung(f, from, to) = f
         /\ Rehung(f, from, to) \in Paths
         /\ f # NoPlace => Rehung(f, from, to) # NoPlace
         /\ ~ Like(to, from) /\ to # from
<1>1. /\ from \in Paths /\ to \in Paths /\ to # <<>> /\ to # NoPlace
      /\ Range(from) \cap Wild = {} /\ Range(from) \cap Wide = {} /\ ~ Within(to, from)
  BY FoldersArePaths DEF Plainly
<1>2. /\ Like(f, from) <=> Within(f, from) /\ f # from
      /\ Like(to, from) <=> Within(to, from) /\ to # from
  BY <1>1, LikeIsBelow
<1>3. f = from => Rehung(f, from, to) = to
  BY <1>1, HungFromItself
<1>4. to # from
  BY <1>1, HungFromItself
<1>5. Like(f, from) => /\ Carried(f, from, to) = Rehung(f, from, to)
                       /\ Rehung(f, from, to) \in Paths /\ Rehung(f, from, to) # NoPlace
  BY <1>1, <1>2, CarriedIsRehung
<1>6. ~ Within(f, from) => Rehung(f, from, to) = f
  BY DEF Rehung
<1>7. f # from /\ ~ Like(f, from) => Rehung(f, from, to) = f
  BY <1>2, <1>6
<1>8. CASE f = from
  BY <1>1, <1>2, <1>3, <1>4, <1>8
<1>9. CASE f # from /\ ~ Like(f, from)
  BY <1>1, <1>2, <1>4, <1>7, <1>9
<1>10. CASE f # from /\ Like(f, from)
  BY <1>1, <1>2, <1>4, <1>5, <1>10
<1> QED
  BY <1>8, <1>9, <1>10

-----------------------------------------------------------------------------
(* NoteFolders: what is filed where.                                       *)

Placed(n) == home[n] = IF notes[n].here THEN notes[n].folder ELSE NoPlace
InPlace == shelves = wanted /\ \A n \in Notes : Placed(n)

(* What a request under way has yet to do to put everything in place.      *)
Owed(e) ==
  /\ e.step = "write" =>
       /\ shelves = wanted /\ \A n \in Notes \ {e.note} : Placed(n)
       /\ e.folder \in Paths /\ e.folder # NoPlace
       /\ notes[e.note].here /\ home[e.note] = e.folder
  /\ e.step = "unrow" =>
       /\ shelves = wanted /\ \A n \in Notes \ {e.note} : Placed(n)
       /\ home[e.note] = NoPlace
  /\ e.step = "drop" =>
       /\ e.path \in Folders /\ Range(e.path) \cap Wild = {}
       /\ wanted = {f \in shelves : ~ Within(f, e.path)}
       /\ \A n \in Notes : home[n] = IF notes[n].here /\ ~ Within(notes[n].folder, e.path)
                                     THEN notes[n].folder ELSE NoPlace
  /\ e.step = "discard" => InPlace
  /\ e.step \in Renames => Plainly(e.from, e.to)
  /\ e.step \in {"notes at", "notes below", "shelf"} => wanted = {Rehung(f, e.from, e.to) : f \in shelves}
  /\ e.step = "notes at" =>
       \A n \in Notes : home[n] = IF notes[n].here THEN Rehung(notes[n].folder, e.from, e.to) ELSE NoPlace
  /\ e.step = "notes below" =>
       \A n \in Notes : home[n] = IF ~ notes[n].here THEN NoPlace
                                  ELSE IF Like(notes[n].folder, e.from) THEN Rehung(notes[n].folder, e.from, e.to)
                                  ELSE notes[n].folder
  /\ e.step \in {"shelf", "shelves"} => \A n \in Notes : Placed(n)
  /\ e.step = "shelves" =>
       wanted = {IF Like(f, e.from) THEN Rehung(f, e.from, e.to) ELSE f : f \in shelves}

OnPaths ==
  /\ DOMAIN home = Notes /\ shelves \subseteq Paths
  /\ \A n \in Notes : notes[n].folder \in Paths /\ notes[n].folder # NoPlace

Tidy ==
  /\ OnPaths
  /\ Settled => InPlace
  /\ \A c \in Clerks : errand[c] # Free =>
       (\A d \in Clerks : d # c => errand[d] = Free) /\ \E e : e = errand[c] /\ Owed(e)

FolderInv == excuses = {} => Tidy

LEMMA FolderInvInit == FoldersStart => FolderInv
<1>1. <<>> \in Paths /\ <<>> # NoPlace
  BY EmptySeq DEF Paths, NoPlace
<1>2. ~ Nowhere.here /\ Nowhere.folder = <<>>
  BY DEF Nowhere
<1> QED
  BY <1>1, <1>2 DEF FoldersStart, FolderInv, Tidy, OnPaths, InPlace, Placed

LEMMA FolderInvNext == TextInv /\ FolderInv /\ [FoldersNext]_folderVars => FolderInv'
<1> SUFFICES ASSUME TextInv, FolderInv, [FoldersNext]_folderVars, excuses' = {} PROVE Tidy'
  BY DEF FolderInv
<1>0. excuses = {} /\ Tidy /\ Filing
  <2>1. ASSUME NEW c \in Clerks,
               \/ CreateNoteIn(c) \/ ReadNote(c) \/ WriteNote(c) \/ DiscardNote(c) \/ DropNote(c)
               \/ KeepFolder(c) \/ ListFolder(c)
        PROVE  excuses \subseteq excuses'
    BY <2>1 DEF CreateNoteIn, ReadNote, WriteNote, DiscardNote, DropNote, KeepFolder, ListFolder
  <2>2. ASSUME NEW c \in Clerks,
               \/ DropFolder(c) \/ DiscardListed(c) \/ RenameNotes(c) \/ Drops(c)
        PROVE  excuses \subseteq excuses'
    BY <2>2 DEF DropFolder, DiscardListed, RenameNotes, Drops
  <2>3. ASSUME NEW c \in Clerks, OpenRename(c) PROVE excuses \subseteq excuses'
    BY <2>3 DEF OpenRename
  <2>4. ASSUME NEW c \in Clerks, RenameShelves(c) PROVE excuses \subseteq excuses'
    BY <2>4 DEF RenameShelves
  <2>5. excuses \subseteq excuses'
    <3>1. CASE FoldersNext
      BY <2>1, <2>2, <2>3, <2>4, <3>1 DEF FoldersNext
    <3>2. CASE UNCHANGED folderVars
      BY <3>2 DEF folderVars
    <3> QED
      BY <3>1, <3>2
  <2> QED
    BY <2>5 DEF FolderInv, TextInv
<1>1. ASSUME NEW c \in Clerks, NEW job, Turns(c, job)
      PROVE  DOMAIN errand' = Clerks /\ \A d \in Clerks : errand'[d] = IF d = c THEN job ELSE errand[d]
  BY <1>0, <1>1 DEF Turns, Filing
<1>2. ASSUME NEW c \in Clerks, NEW job, Takes(c, job), Crossed(c) = {}
      PROVE  Settled /\ InPlace /\ Turns(c, job)
  <2>1. \A d \in Clerks \ {c} : errand[d] = Free
    BY <1>2 DEF Crossed
  <2>2. errand[c] = Free /\ Turns(c, job)
    BY <1>2 DEF Takes
  <2> QED
    BY <1>0, <2>1, <2>2 DEF Settled, Tidy
<1>3. ASSUME NEW c \in Clerks, NEW job, Turns(c, job), Settled \/ errand[c] # Free, OnPaths',
             job = Free => InPlace', job # Free => Owed(job)'
      PROVE  Tidy'
  <2>1. \A d \in Clerks : d # c => errand[d] = Free
    BY <1>0, <1>3 DEF Settled, Tidy
  <2>2. \A d \in Clerks : errand'[d] = IF d = c THEN job ELSE Free
    BY <1>1, <1>3, <2>1
  <2>3. Settled' => InPlace'
    BY <1>3, <2>2 DEF Settled
  <2>4. ASSUME NEW d \in Clerks, errand'[d] # Free
        PROVE  (\A b \in Clerks : b # d => errand'[b] = Free) /\ \E e : e = errand'[d] /\ Owed(e)'
    <3>1. d = c /\ errand'[d] = job /\ job # Free
      BY <2>2, <2>4
    <3>2. Owed(job)'
      BY <1>3, <3>1
    <3> QED
      BY <2>2, <3>1, <3>2
  <2> QED
    BY <1>3, <2>3, <2>4 DEF Tidy
<1>4. Free.step = "free"
  BY DEF Free
<1>5. ASSUME NEW c \in Clerks, CreateNoteIn(c) PROVE Tidy'
  <2>1. PICK n \in Notes, f \in Folders \cup {<<>>} :
          /\ Takes(c, Free)
          /\ notes' = [notes EXCEPT ![n] = [made |-> TRUE, here |-> TRUE, folder |-> f, text |-> TRUE]]
          /\ home' = [home EXCEPT ![n] = f]
          /\ Crossed(c) \subseteq excuses' /\ UNCHANGED <<shelves, wanted>>
    BY <1>5 DEF CreateNoteIn
  <2>2. PICK new : new = [made |-> TRUE, here |-> TRUE, folder |-> f, text |-> TRUE]
    OBVIOUS
  <2>3. new.here = TRUE /\ new.folder = f /\ f \in Paths /\ f # NoPlace
    <3>1. <<>> \in Paths /\ <<>> # NoPlace
      BY EmptySeq DEF Paths, NoPlace
    <3> QED
      BY <2>2, <3>1, FoldersArePaths
  <2>4. \A m \in Notes : /\ notes'[m] = IF m = n THEN new ELSE notes[m]
                         /\ home'[m] = IF m = n THEN f ELSE home[m]
    BY <1>0, <2>1, <2>2 DEF Filing, Tidy, OnPaths
  <2>5. Settled /\ InPlace /\ Turns(c, Free)
    BY <1>2, <2>1
  <2>6. OnPaths'
    BY <1>0, <2>1, <2>3, <2>4 DEF Tidy, OnPaths
  <2>7. InPlace'
    BY <2>1, <2>3, <2>4, <2>5 DEF InPlace, Placed
  <2> QED
    BY <1>3, <2>5, <2>6, <2>7
<1>6. ASSUME NEW c \in Clerks, ReadNote(c) PROVE Tidy'
  <2>1. PICK n \in Notes, moves \in BOOLEAN, f \in Folders :
          /\ notes[n].here
          /\ Takes(c, [step |-> "write", note |-> n, folder |-> IF moves THEN f ELSE notes[n].folder])
          /\ home' = IF moves THEN [home EXCEPT ![n] = f] ELSE home
          /\ Crossed(c) \subseteq excuses' /\ UNCHANGED <<notes, shelves, wanted>>
    BY <1>6 DEF ReadNote
  <2>2. PICK job : job = [step |-> "write", note |-> n, folder |-> IF moves THEN f ELSE notes[n].folder]
    OBVIOUS
  <2>3. /\ job.step = "write" /\ job.note = n /\ job # Free
        /\ job.folder = IF moves THEN f ELSE notes[n].folder
    BY <1>4, <2>2
  <2>4. Settled /\ InPlace /\ Turns(c, job)
    BY <1>2, <2>1, <2>2
  <2>5. DOMAIN home' = Notes /\ \A m \in Notes : home'[m] = IF m = n THEN job.folder ELSE home[m]
    <3>1. home[n] = notes[n].folder
      BY <2>1, <2>4 DEF InPlace, Placed
    <3> QED
      BY <1>0, <2>1, <2>3, <3>1 DEF Tidy, OnPaths
  <2>6. OnPaths'
    BY <1>0, <2>1, <2>5 DEF Tidy, OnPaths
  <2>7. job.folder \in Paths /\ job.folder # NoPlace
    BY <1>0, <2>3, FoldersArePaths DEF Tidy, OnPaths
  <2>8. Owed(job)'
    BY <2>1, <2>3, <2>4, <2>5, <2>7 DEF Owed, InPlace, Placed, Renames
  <2> QED
    BY <1>3, <2>3, <2>4, <2>6, <2>8
<1>7. ASSUME NEW c \in Clerks, WriteNote(c) PROVE Tidy'
  <2>1. PICK e : e = errand[c] /\ (errand[c] # Free => Owed(e))
    BY <1>0 DEF Tidy
  <2>2. /\ e.step = "write" /\ Turns(c, Free) /\ UNCHANGED <<shelves, home, wanted>>
        /\ notes' = IF notes[e.note].here THEN [notes EXCEPT ![e.note].folder = e.folder] ELSE notes
    BY <1>7, <2>1 DEF WriteNote, ownerVars
  <2>3. errand[c] # Free /\ Owed(e)
    BY <1>4, <2>1, <2>2
  <2>4. e.note \in Notes
    BY <1>0, <2>1, <2>2 DEF Filing, OnStep
  <2>5. /\ \A n \in Notes : n # e.note => notes'[n] = notes[n]
        /\ notes'[e.note].folder = e.folder /\ notes'[e.note].here
    BY <1>0, <2>2, <2>3, <2>4 DEF Filing, Owed
  <2>6. OnPaths'
    <3>1. e.folder \in Paths /\ e.folder # NoPlace
      BY <2>2, <2>3 DEF Owed
    <3> QED
      BY <1>0, <2>2, <2>5, <3>1 DEF Tidy, OnPaths
  <2>7. InPlace'
    BY <2>2, <2>3, <2>5 DEF InPlace, Placed, Owed
  <2> QED
    BY <1>3, <2>2, <2>3, <2>6, <2>7
<1>8. ASSUME NEW c \in Clerks, DiscardNote(c) PROVE Tidy'
  <2>1. PICK n \in Notes : /\ Takes(c, [step |-> "unrow", note |-> n])
                           /\ notes' = [notes EXCEPT ![n].text = FALSE]
                           /\ home' = [home EXCEPT ![n] = NoPlace]
                           /\ Crossed(c) \subseteq excuses' /\ UNCHANGED <<shelves, wanted>>
    BY <1>8 DEF DiscardNote
  <2>2. PICK job : job = [step |-> "unrow", note |-> n]
    OBVIOUS
  <2>3. job.step = "unrow" /\ job.note = n /\ job # Free
    BY <1>4, <2>2
  <2>4. Settled /\ InPlace /\ Turns(c, job)
    BY <1>2, <2>1, <2>2
  <2>5. \A m \in Notes : /\ notes'[m].here = notes[m].here /\ notes'[m].folder = notes[m].folder
                         /\ home'[m] = IF m = n THEN NoPlace ELSE home[m]
    BY <1>0, <2>1 DEF Filing, Tidy, OnPaths
  <2>6. OnPaths'
    BY <1>0, <2>1, <2>5 DEF Tidy, OnPaths
  <2>7. Owed(job)'
    BY <2>1, <2>3, <2>4, <2>5 DEF Owed, InPlace, Placed, Renames
  <2> QED
    BY <1>3, <2>3, <2>4, <2>6, <2>7
<1>9. ASSUME NEW c \in Clerks, DropNote(c) PROVE Tidy'
  <2>1. PICK e : e = errand[c] /\ (errand[c] # Free => Owed(e))
    BY <1>0 DEF Tidy
  <2>2. /\ e.step = "unrow" /\ Turns(c, Free) /\ UNCHANGED <<shelves, home, wanted>>
        /\ notes' = [notes EXCEPT ![e.note].here = FALSE]
    BY <1>9, <2>1 DEF DropNote, ownerVars
  <2>3. errand[c] # Free /\ Owed(e)
    BY <1>4, <2>1, <2>2
  <2>4. e.note \in Notes
    BY <1>0, <2>1, <2>2 DEF Filing, OnStep
  <2>5. /\ \A n \in Notes : n # e.note => notes'[n] = notes[n]
        /\ notes'[e.note].folder = notes[e.note].folder /\ ~ notes'[e.note].here
    BY <1>0, <2>2, <2>4 DEF Filing
  <2>6. OnPaths'
    BY <1>0, <2>2, <2>5 DEF Tidy, OnPaths
  <2>7. InPlace'
    BY <2>2, <2>3, <2>5 DEF InPlace, Placed, Owed
  <2> QED
    BY <1>3, <2>2, <2>3, <2>6, <2>7
<1>10. ASSUME NEW c \in Clerks, KeepFolder(c) PROVE Tidy'
  <2>1. PICK path \in Folders : /\ Takes(c, Free) /\ shelves' = shelves \cup {path} /\ wanted' = wanted \cup {path}
                                /\ Crossed(c) \subseteq excuses' /\ UNCHANGED <<notes, home>>
    BY <1>10 DEF KeepFolder
  <2>2. Settled /\ InPlace /\ Turns(c, Free)
    BY <1>2, <2>1
  <2>3. OnPaths'
    BY <1>0, <2>1, FoldersArePaths DEF Tidy, OnPaths
  <2>4. InPlace'
    BY <2>1, <2>2 DEF InPlace, Placed
  <2> QED
    BY <1>3, <2>2, <2>3, <2>4
<1>11. ASSUME NEW c \in Clerks, ListFolder(c) PROVE Tidy'
  <2>1. PICK path \in Folders :
          /\ Takes(c, [step |-> "drop", path |-> path,
                       listed |-> {n \in Notes : notes[n].here /\ Matches(notes[n].folder, path)}])
          /\ home' = [n \in Notes |-> IF home[n] # NoPlace /\ Within(home[n], path) THEN NoPlace ELSE home[n]]
          /\ wanted' = {f \in wanted : ~Within(f, path)}
          /\ Crossed(c) \cup (Odd(path) \cap {"wild"}) \subseteq excuses' /\ UNCHANGED <<notes, shelves>>
    BY <1>11 DEF ListFolder
  <2>2. PICK job : job = [step |-> "drop", path |-> path,
                          listed |-> {n \in Notes : notes[n].here /\ Matches(notes[n].folder, path)}]
    OBVIOUS
  <2>3. job.step = "drop" /\ job.path = path /\ job # Free
    BY <1>4, <2>2
  <2>4. Settled /\ InPlace /\ Turns(c, job)
    BY <1>2, <2>1, <2>2
  <2>5. Range(path) \cap Wild = {}
    <3>1. "wild" \notin Odd(path)
      BY <2>1
    <3> QED
      BY <3>1 DEF Odd
  <2>6. OnPaths'
    BY <1>0, <2>1 DEF Tidy, OnPaths
  <2>7. \A n \in Notes : home'[n] = IF notes[n].here /\ ~ Within(notes[n].folder, path)
                                    THEN notes[n].folder ELSE NoPlace
    BY <1>0, <2>1, <2>4 DEF InPlace, Placed, Tidy, OnPaths
  <2>8. wanted' = {f \in shelves : ~ Within(f, path)}
    BY <2>1, <2>4 DEF InPlace
  <2>9. Owed(job)'
    BY <2>1, <2>3, <2>5, <2>7, <2>8 DEF Owed, Renames
  <2> QED
    BY <1>3, <2>3, <2>4, <2>6, <2>9
<1>12. ASSUME NEW c \in Clerks, DropFolder(c) PROVE Tidy'
  <2>1. PICK e : e = errand[c] /\ (errand[c] # Free => Owed(e))
    BY <1>0 DEF Tidy
  <2>2. /\ e.step = "drop" /\ Turns(c, [step |-> "discard", listed |-> e.listed])
        /\ notes' = [n \in Notes |-> IF notes[n].here /\ Matches(notes[n].folder, e.path)
                                     THEN [notes[n] EXCEPT !.here = FALSE] ELSE notes[n]]
        /\ shelves' = {f \in shelves : ~Matches(f, e.path)} /\ UNCHANGED <<home, wanted>>
    BY <1>12, <2>1 DEF DropFolder, ownerVars
  <2>3. errand[c] # Free /\ Owed(e)
    BY <1>4, <2>1, <2>2
  <2>4. PICK job : job = [step |-> "discard", listed |-> e.listed]
    OBVIOUS
  <2>5. job.step = "discard" /\ job # Free /\ Turns(c, job)
    BY <1>4, <2>2, <2>4
  <2>6. \A f \in Paths : Matches(f, e.path) <=> Within(f, e.path)
    <3>1. e.path \in Paths /\ Range(e.path) \cap Wild = {}
      BY <2>2, <2>3, FoldersArePaths DEF Owed
    <3>2. Within(e.path, e.path)
      BY <3>1, HungFromItself
    <3> QED
      BY <3>1, <3>2, LikeIsBelow DEF Matches
  <2>7. \A n \in Notes : /\ notes'[n].folder = notes[n].folder
                         /\ notes'[n].here <=> notes[n].here /\ ~ Within(notes[n].folder, e.path)
    <3> SUFFICES ASSUME NEW n \in Notes
                 PROVE  /\ notes'[n].folder = notes[n].folder
                        /\ notes'[n].here <=> notes[n].here /\ ~ Within(notes[n].folder, e.path)
      OBVIOUS
    <3>1. Matches(notes[n].folder, e.path) <=> Within(notes[n].folder, e.path)
      BY <1>0, <2>6 DEF Tidy, OnPaths
    <3>2. CASE notes[n].here /\ Within(notes[n].folder, e.path)
      BY <1>0, <2>2, <3>1, <3>2 DEF Filing
    <3>3. CASE ~ (notes[n].here /\ Within(notes[n].folder, e.path))
      BY <1>0, <2>2, <3>1, <3>3 DEF Filing
    <3> QED
      BY <3>2, <3>3
  <2>8. OnPaths'
    BY <1>0, <2>2, <2>7 DEF Tidy, OnPaths
  <2>9. shelves' = wanted'
    <3>1. wanted' = {f \in shelves : ~ Within(f, e.path)}
      BY <2>2, <2>3 DEF Owed
    <3>2. \A f \in shelves : Matches(f, e.path) <=> Within(f, e.path)
      BY <1>0, <2>6 DEF Tidy, OnPaths
    <3> QED
      BY <2>2, <3>1, <3>2
  <2>10. \A n \in Notes : home'[n] = IF notes'[n].here THEN notes'[n].folder ELSE NoPlace
    BY <2>2, <2>3, <2>7 DEF Owed
  <2>11. Owed(job)'
    BY <2>5, <2>9, <2>10 DEF Owed, InPlace, Placed, Renames
  <2> QED
    BY <1>3, <2>3, <2>5, <2>8, <2>11
<1>13. ASSUME NEW c \in Clerks, DiscardListed(c) PROVE Tidy'
  <2>1. PICK e : e = errand[c] /\ (errand[c] # Free => Owed(e))
    BY <1>0 DEF Tidy
  <2>2. /\ e.step = "discard" /\ Turns(c, Free) /\ UNCHANGED <<shelves, home, wanted>>
        /\ notes' = [n \in Notes |-> IF n \in e.listed THEN [notes[n] EXCEPT !.text = FALSE] ELSE notes[n]]
    BY <1>13, <2>1 DEF DiscardListed, ownerVars
  <2>3. errand[c] # Free /\ Owed(e)
    BY <1>4, <2>1, <2>2
  <2>4. \A n \in Notes : notes'[n].here = notes[n].here /\ notes'[n].folder = notes[n].folder
    BY <1>0, <2>2 DEF Filing
  <2>5. OnPaths'
    BY <1>0, <2>2, <2>4 DEF Tidy, OnPaths
  <2>6. InPlace'
    BY <2>2, <2>3, <2>4 DEF InPlace, Placed, Owed
  <2> QED
    BY <1>3, <2>2, <2>3, <2>5, <2>6
<1>14. ASSUME NEW c \in Clerks, OpenRename(c) PROVE Tidy'
  <2>1. PICK from \in Folders, to \in Folders :
          /\ Takes(c, [step |-> "notes at", from |-> from, to |-> to])
          /\ home' = [n \in Notes |-> IF home[n] = NoPlace THEN NoPlace ELSE Rehung(home[n], from, to)]
          /\ wanted' = {Rehung(f, from, to) : f \in wanted}
          /\ Crossed(c) \cup Odd(from) \cup (IF Within(to, from) THEN {"inward"} ELSE {}) \subseteq excuses'
          /\ UNCHANGED <<notes, shelves>>
    BY <1>14 DEF OpenRename
  <2>2. PICK job : job = [step |-> "notes at", from |-> from, to |-> to]
    OBVIOUS
  <2>a. job.step = "notes at" /\ job.from = from /\ job.to = to
    BY <2>2
  <2>3. job.step = "notes at" /\ job.from = from /\ job.to = to /\ job # Free
    BY <1>4, <2>a
  <2>4. Settled /\ InPlace /\ Turns(c, job)
    BY <1>2, <2>1, <2>2
  <2>5. Plainly(from, to)
    <3>1. Odd(from) = {}
      BY <2>1
    <3>2. Range(from) \cap (Wild \cup Wide) = {}
      BY <3>1 DEF Odd
    <3>3. ~ Within(to, from)
      BY <2>1
    <3> QED
      BY <3>2, <3>3 DEF Plainly
  <2>6. OnPaths'
    BY <1>0, <2>1 DEF Tidy, OnPaths
  <2>7. ASSUME NEW n \in Notes
        PROVE  home'[n] = IF notes[n].here THEN Rehung(notes[n].folder, from, to) ELSE NoPlace
    <3>1. home'[n] = IF home[n] = NoPlace THEN NoPlace ELSE Rehung(home[n], from, to)
      BY <2>1
    <3>2. home[n] = IF notes[n].here THEN notes[n].folder ELSE NoPlace
      BY <2>4 DEF InPlace, Placed
    <3>3. notes[n].folder # NoPlace
      BY <1>0 DEF Tidy, OnPaths
    <3>4. CASE notes[n].here
      BY <3>1, <3>2, <3>3, <3>4
    <3>5. CASE ~ notes[n].here
      BY <3>1, <3>2, <3>5
    <3> QED
      BY <3>4, <3>5
  <2>8. wanted' = {Rehung(f, from, to) : f \in shelves}
    BY <2>1, <2>4 DEF InPlace
  <2>9. Owed(job)'
    BY <2>1, <2>3, <2>5, <2>7, <2>8 DEF Owed
  <2> QED
    BY <1>3, <2>3, <2>4, <2>6, <2>9
<1>15. ASSUME NEW c \in Clerks, RenameNotes(c) PROVE Tidy'
  <2>1. PICK e : e = errand[c] /\ (errand[c] # Free => Owed(e))
    BY <1>0 DEF Tidy
  <2>2. PICK job : job = [e EXCEPT !.step = IF e.step = "notes at" THEN "notes below" ELSE "shelf"]
    OBVIOUS
  <2>3. /\ e.step \in {"notes at", "notes below"} /\ Turns(c, job) /\ UNCHANGED <<shelves, home, wanted>>
        /\ notes' = [n \in Notes |->
             IF ~notes[n].here THEN notes[n]
             ELSE IF e.step = "notes at" /\ notes[n].folder = e.from THEN [notes[n] EXCEPT !.folder = e.to]
             ELSE IF e.step = "notes below" /\ Like(notes[n].folder, e.from)
               THEN [notes[n] EXCEPT !.folder = Carried(@, e.from, e.to)]
             ELSE notes[n]]
    BY <1>15, <2>1, <2>2 DEF RenameNotes, ownerVars
  <2>4. errand[c] # Free /\ Owed(e) /\ e = [step |-> e.step, from |-> e.from, to |-> e.to]
    BY <1>0, <1>4, <2>1, <2>3 DEF Filing, Renames, Rename
  <2>5. PICK from, to : from = e.from /\ to = e.to
    OBVIOUS
  <2>6. /\ job.step = IF e.step = "notes at" THEN "notes below" ELSE "shelf"
        /\ job.from = from /\ job.to = to
    <3>1. PICK s : s = IF e.step = "notes at" THEN "notes below" ELSE "shelf"
      OBVIOUS
    <3>2. job = [step |-> s, from |-> from, to |-> to]
      BY <2>2, <2>4, <2>5, <3>1
    <3> QED
      BY <3>1, <3>2
  <2>7. job # Free
    BY <1>4, <2>6
  <2>8. Plainly(from, to)
    BY <2>3, <2>4, <2>5 DEF Owed, Renames
  <2>9. to \in Paths /\ to # NoPlace /\ ~ Like(to, from) /\ to # from
    BY <2>8, FoldersArePaths, Renamed DEF Plainly
  <2>10. \A n \in Notes : notes[n].folder \in Paths /\ notes[n].folder # NoPlace
    BY <1>0 DEF Tidy, OnPaths
  <2>11. wanted' = {Rehung(f, from, to) : f \in shelves'}
    <3>1. wanted = {Rehung(f, e.from, e.to) : f \in shelves}
      BY <2>3, <2>4 DEF Owed
    <3>2. wanted = {Rehung(f, from, to) : f \in shelves}
      BY <2>5, <3>1
    <3> QED
      BY <2>3, <3>2
  <2>12. CASE e.step = "notes at"
    <3>1. \A n \in Notes : /\ notes'[n].here = notes[n].here
                           /\ notes'[n].folder = IF notes[n].here /\ notes[n].folder = from THEN to
                                                 ELSE notes[n].folder
      BY <1>0, <2>3, <2>5, <2>12 DEF Filing
    <3>2. \A n \in Notes : home[n] = IF notes[n].here THEN Rehung(notes[n].folder, from, to) ELSE NoPlace
      BY <2>4, <2>5, <2>12 DEF Owed
    <3>3. OnPaths'
      <4>1. \A n \in Notes : notes'[n].folder = to \/ notes'[n].folder = notes[n].folder
        BY <3>1
      <4>2. \A n \in Notes : notes'[n].folder \in Paths /\ notes'[n].folder # NoPlace
        BY <2>9, <2>10, <4>1
      <4> QED
        BY <1>0, <2>3, <4>2 DEF Tidy, OnPaths
    <3>4. \A n \in Notes : home'[n] = IF ~ notes'[n].here THEN NoPlace
                                      ELSE IF Like(notes'[n].folder, from) THEN Rehung(notes'[n].folder, from, to)
                                      ELSE notes'[n].folder
      <4> SUFFICES ASSUME NEW n \in Notes, notes[n].here
                   PROVE  home'[n] = IF Like(notes'[n].folder, from) THEN Rehung(notes'[n].folder, from, to)
                                     ELSE notes'[n].folder
        BY <2>3, <3>1, <3>2
      <4>1. home'[n] = Rehung(notes[n].folder, from, to)
        BY <2>3, <3>2
      <4>2. CASE notes[n].folder = from
        BY <2>8, <2>9, <2>10, <3>1, <4>1, <4>2, Renamed
      <4>3. CASE notes[n].folder # from
        BY <2>8, <2>10, <3>1, <4>1, <4>3, Renamed
      <4> QED
        BY <4>2, <4>3
    <3>5. Owed(job)'
      BY <2>6, <2>8, <2>11, <2>12, <3>4 DEF Owed
    <3> QED
      BY <1>3, <2>3, <2>4, <2>7, <3>3, <3>5
  <2>13. CASE e.step = "notes below"
    <3>1. \A n \in Notes : /\ notes'[n].here = notes[n].here
                           /\ notes'[n].folder = IF notes[n].here /\ Like(notes[n].folder, from)
                                                 THEN Carried(notes[n].folder, from, to) ELSE notes[n].folder
      BY <1>0, <2>3, <2>5, <2>13 DEF Filing
    <3>2. \A n \in Notes : home[n] = IF ~ notes[n].here THEN NoPlace
                                     ELSE IF Like(notes[n].folder, from) THEN Rehung(notes[n].folder, from, to)
                                     ELSE notes[n].folder
      BY <2>4, <2>5, <2>13 DEF Owed
    <3>3. \A n \in Notes : Like(notes[n].folder, from) =>
            /\ Carried(notes[n].folder, from, to) = Rehung(notes[n].folder, from, to)
            /\ Rehung(notes[n].folder, from, to) \in Paths /\ Rehung(notes[n].folder, from, to) # NoPlace
      BY <2>8, <2>10, Renamed
    <3>4. OnPaths'
      <4>1. ASSUME NEW n \in Notes PROVE notes'[n].folder \in Paths /\ notes'[n].folder # NoPlace
        <5>1. CASE notes[n].here /\ Like(notes[n].folder, from)
          BY <3>1, <3>3, <5>1
        <5>2. CASE ~ (notes[n].here /\ Like(notes[n].folder, from))
          BY <2>10, <3>1, <5>2
        <5> QED
          BY <5>1, <5>2
      <4> QED
        BY <1>0, <2>3, <4>1 DEF Tidy, OnPaths
    <3>5. \A n \in Notes : home'[n] = IF notes'[n].here THEN notes'[n].folder ELSE NoPlace
      <4> SUFFICES ASSUME NEW n \in Notes
                   PROVE  home'[n] = IF notes'[n].here THEN notes'[n].folder ELSE NoPlace
        OBVIOUS
      <4>1. CASE ~ notes[n].here
        BY <2>3, <3>1, <3>2, <4>1
      <4>2. CASE notes[n].here /\ Like(notes[n].folder, from)
        BY <2>3, <3>1, <3>2, <3>3, <4>2
      <4>3. CASE notes[n].here /\ ~ Like(notes[n].folder, from)
        <5>1. home'[n] = notes[n].folder
          <6>1. home[n] = notes[n].folder
            BY <3>2, <4>3
          <6> QED
            BY <2>3, <6>1
        <5>2. notes'[n].here = notes[n].here /\ notes'[n].folder = notes[n].folder
          BY <3>1, <4>3
        <5> QED
          BY <4>3, <5>1, <5>2
      <4> QED
        BY <4>1, <4>2, <4>3
    <3>6. Owed(job)'
      BY <2>6, <2>8, <2>11, <2>13, <3>5 DEF Owed, Placed
    <3> QED
      BY <1>3, <2>3, <2>4, <2>7, <3>4, <3>6
  <2> QED
    BY <2>3, <2>12, <2>13
<1>16. ASSUME NEW c \in Clerks, RenameShelves(c) PROVE Tidy'
  <2>1. PICK e : e = errand[c] /\ (errand[c] # Free => Owed(e))
    BY <1>0 DEF Tidy
  <2>2. PICK job : job = IF e.step = "shelf" THEN [e EXCEPT !.step = "shelves"] ELSE Free
    OBVIOUS
  <2> DEFINE moved == {f \in shelves : IF e.step = "shelf" THEN f = e.from ELSE Like(f, e.from)}
             target(f) == IF e.step = "shelf" THEN e.to ELSE Carried(f, e.from, e.to)
  <2>3. /\ e.step \in {"shelf", "shelves"} /\ Turns(c, job) /\ UNCHANGED <<notes, home, wanted>>
        /\ shelves' = (shelves \ moved) \cup {target(f) : f \in moved}
    <3>1. "taken" \notin excuses'
      OBVIOUS
    <3> QED
      BY <1>16, <2>1, <2>2, <3>1 DEF RenameShelves, ownerVars
  <2>4. errand[c] # Free /\ Owed(e) /\ (e.step = "shelf" => e = [step |-> e.step, from |-> e.from, to |-> e.to])
    BY <1>0, <1>4, <2>1, <2>3 DEF Filing, Renames, Rename
  <2>5. PICK from, to : from = e.from /\ to = e.to
    OBVIOUS
  <2>6. Plainly(from, to)
    BY <2>3, <2>4, <2>5 DEF Owed, Renames
  <2>7. to \in Paths /\ to # NoPlace /\ ~ Like(to, from) /\ to # from
    BY <2>6, FoldersArePaths, Renamed DEF Plainly
  <2>8. \A f \in shelves : f \in Paths
    BY <1>0 DEF Tidy, OnPaths
  <2>9. \A n \in Notes : Placed(n)
    BY <2>3, <2>4 DEF Owed
  <2>10. CASE e.step = "shelf"
    <3>1. job = [step |-> "shelves", from |-> from, to |-> to]
      BY <2>2, <2>4, <2>5, <2>10
    <3>2. job.step = "shelves" /\ job.from = from /\ job.to = to /\ job # Free
      BY <1>4, <3>1
    <3>3. \A g : g \in shelves' <=> \E f \in shelves : g = IF f = from THEN to ELSE f
      BY <2>3, <2>5, <2>10
    <3>4. OnPaths'
      BY <1>0, <2>3, <2>7, <2>8, <3>3 DEF Tidy, OnPaths
    <3>5. wanted = {Rehung(f, from, to) : f \in shelves}
      BY <2>4, <2>5, <2>10 DEF Owed
    <3>6. \A f \in shelves : Rehung(f, from, to) =
            IF f = from THEN to ELSE IF Like(f, from) THEN Rehung(f, from, to) ELSE f
      BY <2>6, <2>8, Renamed
    <3>7. wanted' = {IF Like(f, from) THEN Rehung(f, from, to) ELSE f : f \in shelves'}
      <4>1. ASSUME NEW g PROVE g \in wanted <=> \E f \in shelves : g = Rehung(f, from, to)
        BY <3>5
      <4>2. \A f \in shelves : f # from => f \in shelves'
        BY <3>3
      <4>3. from \in shelves => to \in shelves'
        BY <3>3
      <4>4. ASSUME NEW g \in wanted
            PROVE  \E f \in shelves' : g = IF Like(f, from) THEN Rehung(f, from, to) ELSE f
        BY <2>7, <3>6, <4>1, <4>2, <4>3
      <4>5. ASSUME NEW f \in shelves'
            PROVE  (IF Like(f, from) THEN Rehung(f, from, to) ELSE f) \in wanted
        <5>1. PICK h \in shelves : f = IF h = from THEN to ELSE h
          BY <3>3
        <5>2. Rehung(h, from, to) = IF Like(f, from) THEN Rehung(f, from, to) ELSE f
          BY <2>7, <3>6, <5>1
        <5> QED
          BY <4>1, <5>2
      <4> QED
        BY <2>3, <4>4, <4>5
    <3>8. \A n \in Notes : Placed(n)'
      BY <2>3, <2>9 DEF Placed
    <3>9. Owed(job)'
      BY <2>6, <3>2, <3>7, <3>8 DEF Owed
    <3> QED
      BY <1>3, <2>3, <2>4, <3>2, <3>4, <3>9
  <2>11. CASE e.step = "shelves"
    <3>1. job = Free
      BY <2>2, <2>11
    <3>2. \A g : g \in shelves' <=> \E f \in shelves : g = IF Like(f, from) THEN Carried(f, from, to) ELSE f
      BY <2>3, <2>5, <2>11
    <3>3. \A f \in shelves : Like(f, from) => /\ Carried(f, from, to) = Rehung(f, from, to)
                                              /\ Rehung(f, from, to) \in Paths
      BY <2>6, <2>8, Renamed
    <3>4. OnPaths'
      BY <1>0, <2>3, <2>8, <3>2, <3>3 DEF Tidy, OnPaths
    <3>5. wanted = {IF Like(f, from) THEN Rehung(f, from, to) ELSE f : f \in shelves}
      BY <2>4, <2>5, <2>11 DEF Owed
    <3>6. shelves' = wanted'
      <4>1. \A g : g \in wanted <=> \E f \in shelves : g = IF Like(f, from) THEN Rehung(f, from, to) ELSE f
        BY <3>5
      <4>2. \A g : g \in shelves' <=> g \in wanted
        BY <3>2, <3>3, <4>1
      <4> QED
        BY <2>3, <4>2
    <3>7. InPlace'
      BY <2>3, <2>9, <3>6 DEF InPlace, Placed
    <3> QED
      BY <1>3, <2>3, <2>4, <3>1, <3>4, <3>7
  <2> QED
    BY <2>3, <2>10, <2>11
<1>17. ASSUME NEW c \in Clerks, Drops(c) PROVE FALSE
  BY <1>17 DEF Drops
<1>18. CASE UNCHANGED folderVars
  <2>1. UNCHANGED <<notes, shelves, errand, home, wanted>>
    BY <1>18 DEF folderVars
  <2>2. OnPaths' /\ (Settled' => InPlace')
    BY <1>0, <2>1 DEF Tidy, OnPaths, Settled, InPlace, Placed
  <2>3. ASSUME NEW c \in Clerks, errand[c] # Free PROVE \E e : e = errand'[c] /\ Owed(e)'
    <3>1. PICK e : e = errand[c] /\ Owed(e)
      BY <1>0, <2>3 DEF Tidy
    <3>2. Owed(e)'
      BY ONLY <2>1, <3>1 DEF Owed, InPlace, Placed
    <3> QED
      BY <2>1, <3>1, <3>2
  <2> QED
    BY <1>0, <2>1, <2>2, <2>3 DEF Tidy
<1> QED
  BY <1>5, <1>6, <1>7, <1>8, <1>9, <1>10, <1>11, <1>12, <1>13, <1>14, <1>15, <1>16, <1>17, <1>18 DEF FoldersNext

(***************************************************************************)
(* Creating, moving and deleting notes and folders, by any number of       *)
(* clerks at once, loses no note's text, and files every note and folder   *)
(* as asked, with the exceptions NotesKept names (api/notes.go).           *)
(***************************************************************************)
THEOREM NotesStayFiled == FoldersSpec => []NotesKept
<1>1. TextInv /\ FolderInv => NotesKept
  BY DEF TextInv, FolderInv, Tidy, InPlace, Placed, NotesKept, FiledAsAsked
<1> QED
  BY <1>1, TextInvInit, TextInvNext, FolderInvInit, FolderInvNext, PTL DEF FoldersSpec

-----------------------------------------------------------------------------
(* Documents.                                                              *)

(* What a request that aims at "aim" on a page of kind k may have left.    *)
MayRemain(aim, k, left) ==
  \/ left = <<"look", "untag", "drop", "discard">> /\ aim = "remove" /\ k = "day"
  \/ left = <<"untag", "drop", "discard">> /\ aim = "remove" /\ k = "day"
  \/ left = <<"drop", "discard">> /\ aim = "remove" /\ k = "day"
  \/ left = <<"discard">> /\ aim = "remove" /\ k = "day"
  \/ left = <<"discard", "untag", "drop">> /\ aim = "remove" /\ k \in {"day", "note"}
  \/ left = <<"untag", "drop">> /\ aim = "remove" /\ k \in {"day", "memo", "note"}
  \/ left = <<"drop">> /\ aim = "remove"
  \/ left = <<"discard", "drop">> /\ aim = "remove" /\ k = "period"
  \/ left = <<"put", "create", "untag", "tag">> /\ aim = "create" /\ k = "note"
  \/ left = <<"put", "create", "name">> /\ aim = "create" /\ k = "note"
  \/ left = <<"create", "untag", "tag">> /\ aim = "create" /\ k \in {"memo", "note"}
  \/ left = <<"create", "name">> /\ aim = "create" /\ k \in {"memo", "note"}
  \/ left = <<"name">> /\ aim = "create" /\ k \in {"memo", "note"}
  \/ left = <<"put", "look", "insert", "untag", "tag">> /\ aim = "save" /\ k = "day"
  \/ left = <<"look", "insert", "untag", "tag">> /\ aim = "save" /\ k = "day"
  \/ left = <<"insert", "untag", "tag">> /\ aim = "save" /\ k = "day"
  \/ left = <<"put", "upsert">> /\ aim = "save" /\ k = "day"
  \/ left = <<"upsert">> /\ aim = "save" /\ k = "day"
  \/ left = <<"put", "look", "insert">> /\ aim = "save" /\ k = "period"
  \/ left = <<"look", "insert">> /\ aim = "save" /\ k = "period"
  \/ left = <<"insert">> /\ aim = "save" /\ k = "period"
  \/ left = <<"rewrite", "untag", "tag">> /\ aim = "save" /\ k = "memo"
  \/ left = <<"put", "untag", "tag">> /\ aim = "save" /\ k = "note"
  \/ left = <<"untag", "tag">> /\ aim = "create" /\ k \in {"memo", "note"}
  \/ left = <<"untag", "tag">> /\ aim = "save" /\ k \in {"day", "memo", "note"}
  \/ left = <<"tag">> /\ aim = "create" /\ k \in {"memo", "note"}
  \/ left = <<"tag">> /\ aim = "save" /\ k \in {"day", "memo", "note"}

(* The first of the statements left, whether it is the last, and the rest. *)
TupleFacts ==
  /\ Head(<<"look", "untag", "drop", "discard">>) = "look" /\ Len(<<"look", "untag", "drop", "discard">>) # 1
  /\ Tail(<<"look", "untag", "drop", "discard">>) = <<"untag", "drop", "discard">>
  /\ Head(<<"untag", "drop", "discard">>) = "untag" /\ Len(<<"untag", "drop", "discard">>) # 1
  /\ Tail(<<"untag", "drop", "discard">>) = <<"drop", "discard">>
  /\ Head(<<"drop", "discard">>) = "drop" /\ Len(<<"drop", "discard">>) # 1
  /\ Tail(<<"drop", "discard">>) = <<"discard">>
  /\ Head(<<"discard">>) = "discard" /\ Len(<<"discard">>) = 1
  /\ Head(<<"discard", "untag", "drop">>) = "discard" /\ Len(<<"discard", "untag", "drop">>) # 1
  /\ Tail(<<"discard", "untag", "drop">>) = <<"untag", "drop">>
  /\ Head(<<"untag", "drop">>) = "untag" /\ Len(<<"untag", "drop">>) # 1
  /\ Tail(<<"untag", "drop">>) = <<"drop">>
  /\ Head(<<"drop">>) = "drop" /\ Len(<<"drop">>) = 1
  /\ Head(<<"discard", "drop">>) = "discard" /\ Len(<<"discard", "drop">>) # 1
  /\ Tail(<<"discard", "drop">>) = <<"drop">>
  /\ Head(<<"put", "create", "untag", "tag">>) = "put" /\ Len(<<"put", "create", "untag", "tag">>) # 1
  /\ Tail(<<"put", "create", "untag", "tag">>) = <<"create", "untag", "tag">>
  /\ Head(<<"put", "create", "name">>) = "put" /\ Len(<<"put", "create", "name">>) # 1
  /\ Tail(<<"put", "create", "name">>) = <<"create", "name">>
  /\ Head(<<"create", "untag", "tag">>) = "create" /\ Len(<<"create", "untag", "tag">>) # 1
  /\ Tail(<<"create", "untag", "tag">>) = <<"untag", "tag">>
  /\ Head(<<"create", "name">>) = "create" /\ Len(<<"create", "name">>) # 1
  /\ Tail(<<"create", "name">>) = <<"name">>
  /\ Head(<<"name">>) = "name" /\ Len(<<"name">>) = 1
  /\ Head(<<"put", "look", "insert", "untag", "tag">>) = "put" /\ Len(<<"put", "look", "insert", "untag", "tag">>) # 1
  /\ Tail(<<"put", "look", "insert", "untag", "tag">>) = <<"look", "insert", "untag", "tag">>
  /\ Head(<<"look", "insert", "untag", "tag">>) = "look" /\ Len(<<"look", "insert", "untag", "tag">>) # 1
  /\ Tail(<<"look", "insert", "untag", "tag">>) = <<"insert", "untag", "tag">>
  /\ Head(<<"insert", "untag", "tag">>) = "insert" /\ Len(<<"insert", "untag", "tag">>) # 1
  /\ Tail(<<"insert", "untag", "tag">>) = <<"untag", "tag">>
  /\ Head(<<"put", "upsert">>) = "put" /\ Len(<<"put", "upsert">>) # 1
  /\ Tail(<<"put", "upsert">>) = <<"upsert">>
  /\ Head(<<"upsert">>) = "upsert" /\ Len(<<"upsert">>) = 1
  /\ Head(<<"put", "look", "insert">>) = "put" /\ Len(<<"put", "look", "insert">>) # 1
  /\ Tail(<<"put", "look", "insert">>) = <<"look", "insert">>
  /\ Head(<<"look", "insert">>) = "look" /\ Len(<<"look", "insert">>) # 1
  /\ Tail(<<"look", "insert">>) = <<"insert">>
  /\ Head(<<"insert">>) = "insert" /\ Len(<<"insert">>) = 1
  /\ Head(<<"rewrite", "untag", "tag">>) = "rewrite" /\ Len(<<"rewrite", "untag", "tag">>) # 1
  /\ Tail(<<"rewrite", "untag", "tag">>) = <<"untag", "tag">>
  /\ Head(<<"put", "untag", "tag">>) = "put" /\ Len(<<"put", "untag", "tag">>) # 1
  /\ Tail(<<"put", "untag", "tag">>) = <<"untag", "tag">>
  /\ Head(<<"untag", "tag">>) = "untag" /\ Len(<<"untag", "tag">>) # 1
  /\ Tail(<<"untag", "tag">>) = <<"tag">>
  /\ Head(<<"tag">>) = "tag" /\ Len(<<"tag">>) = 1

LEMMA TuplesHold == TupleFacts
  BY SMT DEF TupleFacts

(* Where a request goes from each statement. *)
Onward(aim, k, left) ==
  /\ Len(left) # 1 => MayRemain(aim, k, Tail(left))
  /\ Head(left) = "put" =>
       /\ Len(left) # 1 /\ aim # "remove"
       /\ aim = "create" => k = "note" /\ Head(Tail(left)) = "create"
       /\ aim = "save" => \/ k \in {"day", "period"} /\ Head(Tail(left)) \in {"look", "upsert"}
                          \/ k = "note" /\ Head(Tail(left)) = "untag"
  /\ Head(left) = "look" =>
       /\ Len(left) # 1 /\ k \in {"day", "period"} /\ aim # "create"
       /\ aim = "save" => Head(Tail(left)) = "insert"
       /\ aim = "remove" => k = "day" /\ Head(Tail(left)) = "untag"
  /\ Head(left) = "insert" =>
       /\ aim = "save" /\ k \in {"day", "period"}
       /\ Len(left) = 1 => k = "period"
       /\ Len(left) # 1 => Head(Tail(left)) = "untag" /\ k = "day"
  /\ Head(left) = "upsert" => Len(left) = 1 /\ aim = "save" /\ k = "day"
  /\ Head(left) = "create" =>
       Len(left) # 1 /\ aim = "create" /\ Head(Tail(left)) \in {"untag", "name"}
  /\ aim = "create" => k \in {"memo", "note"}
  /\ Head(left) = "name" => Len(left) = 1 /\ aim = "create"
  /\ Head(left) = "rewrite" => Len(left) # 1 /\ aim = "save" /\ k = "memo" /\ Head(Tail(left)) = "untag"
  /\ Head(left) = "untag" =>
       /\ Len(left) # 1 /\ k # "period"
       /\ aim = "remove" => Head(Tail(left)) = "drop"
       /\ aim # "remove" => Head(Tail(left)) = "tag"
  /\ Head(left) = "tag" => Len(left) = 1 /\ aim # "remove" /\ k # "period"
  /\ Head(left) = "drop" =>
       /\ aim = "remove"
       /\ Len(left) # 1 => k = "day" /\ Head(Tail(left)) = "discard" /\ Len(Tail(left)) = 1
  /\ Head(left) = "discard" =>
       /\ aim = "remove" /\ k # "memo"
       /\ Len(left) # 1 => \/ Head(Tail(left)) = "untag" /\ k \in {"day", "note"}
                           \/ Head(Tail(left)) = "drop" /\ k = "period"

LEMMA GoesOnward ==
  ASSUME NEW aim, NEW k \in TextKinds, NEW left, MayRemain(aim, k, left)
  PROVE  Onward(aim, k, left)
<1>1. CASE left = <<"look", "untag", "drop", "discard">> /\ aim = "remove" /\ k = "day"
  BY <1>1, TuplesHold, SMT DEF TupleFacts, Onward, MayRemain, TextKinds
<1>2. CASE left = <<"untag", "drop", "discard">> /\ aim = "remove" /\ k = "day"
  BY <1>2, TuplesHold, SMT DEF TupleFacts, Onward, MayRemain, TextKinds
<1>3. CASE left = <<"drop", "discard">> /\ aim = "remove" /\ k = "day"
  BY <1>3, TuplesHold, SMT DEF TupleFacts, Onward, MayRemain, TextKinds
<1>4. CASE left = <<"discard">> /\ aim = "remove" /\ k = "day"
  BY <1>4, TuplesHold, SMT DEF TupleFacts, Onward, MayRemain, TextKinds
<1>5. CASE left = <<"discard", "untag", "drop">> /\ aim = "remove" /\ k \in {"day", "note"}
  BY <1>5, TuplesHold, SMT DEF TupleFacts, Onward, MayRemain, TextKinds
<1>6. CASE left = <<"untag", "drop">> /\ aim = "remove" /\ k \in {"day", "memo", "note"}
  BY <1>6, TuplesHold, SMT DEF TupleFacts, Onward, MayRemain, TextKinds
<1>7. CASE left = <<"drop">> /\ aim = "remove"
  BY <1>7, TuplesHold, SMT DEF TupleFacts, Onward, MayRemain, TextKinds
<1>8. CASE left = <<"discard", "drop">> /\ aim = "remove" /\ k = "period"
  BY <1>8, TuplesHold, SMT DEF TupleFacts, Onward, MayRemain, TextKinds
<1>9. CASE left = <<"put", "create", "untag", "tag">> /\ aim = "create" /\ k = "note"
  BY <1>9, TuplesHold, SMT DEF TupleFacts, Onward, MayRemain, TextKinds
<1>10. CASE left = <<"put", "create", "name">> /\ aim = "create" /\ k = "note"
  BY <1>10, TuplesHold, SMT DEF TupleFacts, Onward, MayRemain, TextKinds
<1>11. CASE left = <<"create", "untag", "tag">> /\ aim = "create" /\ k \in {"memo", "note"}
  BY <1>11, TuplesHold, SMT DEF TupleFacts, Onward, MayRemain, TextKinds
<1>12. CASE left = <<"create", "name">> /\ aim = "create" /\ k \in {"memo", "note"}
  BY <1>12, TuplesHold, SMT DEF TupleFacts, Onward, MayRemain, TextKinds
<1>13. CASE left = <<"name">> /\ aim = "create" /\ k \in {"memo", "note"}
  BY <1>13, TuplesHold, SMT DEF TupleFacts, Onward, MayRemain, TextKinds
<1>14. CASE left = <<"put", "look", "insert", "untag", "tag">> /\ aim = "save" /\ k = "day"
  BY <1>14, TuplesHold, SMT DEF TupleFacts, Onward, MayRemain, TextKinds
<1>15. CASE left = <<"look", "insert", "untag", "tag">> /\ aim = "save" /\ k = "day"
  BY <1>15, TuplesHold, SMT DEF TupleFacts, Onward, MayRemain, TextKinds
<1>16. CASE left = <<"insert", "untag", "tag">> /\ aim = "save" /\ k = "day"
  BY <1>16, TuplesHold, SMT DEF TupleFacts, Onward, MayRemain, TextKinds
<1>17. CASE left = <<"put", "upsert">> /\ aim = "save" /\ k = "day"
  BY <1>17, TuplesHold, SMT DEF TupleFacts, Onward, MayRemain, TextKinds
<1>18. CASE left = <<"upsert">> /\ aim = "save" /\ k = "day"
  BY <1>18, TuplesHold, SMT DEF TupleFacts, Onward, MayRemain, TextKinds
<1>19. CASE left = <<"put", "look", "insert">> /\ aim = "save" /\ k = "period"
  BY <1>19, TuplesHold, SMT DEF TupleFacts, Onward, MayRemain, TextKinds
<1>20. CASE left = <<"look", "insert">> /\ aim = "save" /\ k = "period"
  BY <1>20, TuplesHold, SMT DEF TupleFacts, Onward, MayRemain, TextKinds
<1>21. CASE left = <<"insert">> /\ aim = "save" /\ k = "period"
  BY <1>21, TuplesHold, SMT DEF TupleFacts, Onward, MayRemain, TextKinds
<1>22. CASE left = <<"rewrite", "untag", "tag">> /\ aim = "save" /\ k = "memo"
  BY <1>22, TuplesHold, SMT DEF TupleFacts, Onward, MayRemain, TextKinds
<1>23. CASE left = <<"put", "untag", "tag">> /\ aim = "save" /\ k = "note"
  BY <1>23, TuplesHold, SMT DEF TupleFacts, Onward, MayRemain, TextKinds
<1>24. CASE left = <<"untag", "tag">> /\ aim = "create" /\ k \in {"memo", "note"}
  BY <1>24, TuplesHold, SMT DEF TupleFacts, Onward, MayRemain, TextKinds
<1>25. CASE left = <<"untag", "tag">> /\ aim = "save" /\ k \in {"day", "memo", "note"}
  BY <1>25, TuplesHold, SMT DEF TupleFacts, Onward, MayRemain, TextKinds
<1>26. CASE left = <<"tag">> /\ aim = "create" /\ k \in {"memo", "note"}
  BY <1>26, TuplesHold, SMT DEF TupleFacts, Onward, MayRemain, TextKinds
<1>27. CASE left = <<"tag">> /\ aim = "save" /\ k \in {"day", "memo", "note"}
  BY <1>27, TuplesHold, SMT DEF TupleFacts, Onward, MayRemain, TextKinds
<1>28. QED  BY <1>1, <1>2, <1>3, <1>4, <1>5, <1>6, <1>7, <1>8, <1>9, <1>10, <1>11, <1>12, <1>13, <1>14, <1>15, <1>16, <1>17, <1>18, <1>19, <1>20, <1>21, <1>22, <1>23, <1>24, <1>25, <1>26, <1>27 DEF MayRemain

Writing(w) == writing[w] # Done
UpNext(w) == Head(writing[w].left)   \* the statement it is about to run
LastLeft(w) == Len(writing[w].left) = 1

(* A page has the id given last or none, and a page is created once.      *)
PageTypes ==
  /\ kind \in TextKinds /\ lastRow \in {0, 1, 2} /\ row \in {0, lastRow}
  /\ stored \in Texts \cup {NoText}
  /\ tags \in [{1, 2} -> SUBSET Texts]
  /\ DOMAIN writing = Writers
  /\ \A w \in Writers : Writing(w) =>
       /\ DOMAIN writing[w] = {"left", "text", "id", "aim"}
       /\ writing[w].aim \in {"save", "create", "remove"}
       /\ MayRemain(writing[w].aim, kind, writing[w].left)
       /\ writing[w].id \in {0, 1, 2}
       /\ writing[w].aim # "remove" => writing[w].text \in Texts
       /\ writing[w].aim = "create" => \A v \in Writers : writing[v].aim = "create" => v = w
       /\ writing[w].aim = "create" /\ UpNext(w) \in {"put", "create"} => lastRow = 0

Alone == \A w, v \in Writers : Writing(w) /\ Writing(v) /\ writing[w].aim = "remove" => v = w

(* What a request has found or done about the text of the page.           *)
TextStage(w) ==
  /\ writing[w].aim # "remove" /\ UpNext(w) \in {"look", "insert", "upsert"} => stored # NoText
  /\ UpNext(w) = "create" /\ kind = "note" => stored # NoText
  /\ writing[w].aim = "remove" /\ UpNext(w) \in {"untag", "drop", "discard"} => row \in {0, writing[w].id}
  /\ UpNext(w) = "discard" /\ LastLeft(w) => row = 0

(* A row without its text is about to be dropped.                          *)
Texted ==
  row # 0 /\ stored = NoText =>
    /\ kind # "memo"
    /\ \E w \in Writers : /\ Writing(w) /\ writing[w].aim = "remove"
                          /\ UpNext(w) \in {"untag", "drop"} /\ writing[w].id = row

TextsInv ==
  "torn" \notin strained => Alone /\ Texted /\ \A w \in Writers : Writing(w) => TextStage(w)

Untagged == \A i \in {1, 2} : tags[i] = {}

(* What a request that runs by itself has found or done about the tags.    *)
TagStage(w) ==
  /\ UpNext(w) = "put" /\ row # 0 /\ kind # "period" /\ "untagged" \notin strained => tags[row] = {stored}
  /\ writing[w].aim = "save" /\ UpNext(w) \in {"look", "insert"} => stored = writing[w].text
  /\ UpNext(w) = "create" /\ kind = "note" => stored = writing[w].text
  /\ UpNext(w) = "insert" => writing[w].id = row
  /\ UpNext(w) = "put" /\ kind = "note" /\ writing[w].aim = "save" => row # 0 /\ writing[w].id = row
  /\ UpNext(w) = "rewrite" => row \in {0, writing[w].id}
  /\ UpNext(w) \in {"untag", "tag"} /\ writing[w].aim # "remove" =>
       row # 0 /\ writing[w].id = row /\ stored = writing[w].text
  /\ writing[w].aim = "remove" /\ UpNext(w) \in {"untag", "drop", "discard"} => row \in {0, writing[w].id}
  /\ UpNext(w) \in {"tag", "drop"} => Untagged
  /\ UpNext(w) = "discard" /\ LastLeft(w) => row = 0

TagsInv ==
  strained \cap {"mixed", "late"} = {} =>
    /\ \A w, v \in Writers : Writing(w) /\ Writing(v) => v = w
    /\ \A i \in {1, 2} : i # row => tags[i] = {}
    /\ kind = "period" => Untagged
    /\ \A w \in Writers : Writing(w) => TagStage(w)
    /\ NobodyWrites /\ row # 0 /\ kind # "period" /\ "untagged" \notin strained => tags[row] = {stored}

PageInv == PageTypes /\ TextsInv /\ TagsInv

LEMMA PageInvInit == DocumentsStart => PageInv
<1> SUFFICES ASSUME DocumentsStart PROVE PageInv
  OBVIOUS
<1>1. \A w \in Writers : ~Writing(w)
  BY DEF DocumentsStart, Writing
<1>2. PageTypes
  BY <1>1 DEF DocumentsStart, PageTypes, PageIds
<1>3. TextsInv
  BY <1>1 DEF DocumentsStart, TextsInv, Alone, Texted
<1>4. TagsInv
  BY <1>1 DEF DocumentsStart, TagsInv, Untagged, PageIds
<1>5. QED  BY <1>2, <1>3, <1>4 DEF PageInv

(* A request that starts.                                                 *)
LEMMA StartKeepsPages ==
  ASSUME PageInv, NEW w \in Writers, NEW aim \in {"save", "create", "remove"}, NEW text,
         NEW id \in {0, 1, 2}, NEW steps, Starts(w, aim, text, id, steps),
         MayRemain(aim, kind, steps), aim # "remove" => text \in Texts,
         aim = "create" => lastRow = 0 /\ \A v \in Writers : writing[v].aim # "create",
         aim # "remove" => Head(steps) \in {"put", "create", "rewrite"},
         aim = "remove" => Head(steps) \in {"look", "untag", "discard"},
         Head(steps) = "put" /\ kind = "note" /\ aim = "save" => id = row /\ row # 0,
         Head(steps) = "create" => kind = "memo",
         Head(steps) \in {"rewrite", "untag", "discard"} => row \in {0, id},
         Head(steps) = "discard" => Len(steps) # 1
  PROVE  PageInv'
<1> DEFINE new == [left |-> steps, text |-> text, id |-> id, aim |-> aim]
<1>1. /\ new # Done /\ new.aim = aim /\ new.left = steps /\ new.id = id /\ new.text = text
      /\ DOMAIN new = {"left", "text", "id", "aim"}
  BY DEF Done
<1>2. /\ DOMAIN writing' = Writers /\ writing'[w] = new
      /\ \A v \in Writers \ {w} : writing'[v] = writing[v]
  BY DEF PageInv, PageTypes, Starts
<1>3. UNCHANGED <<kind, row, lastRow, stored, tags>>
  BY DEF Starts
<1>4. strained' = strained \cup Strain(w, aim) /\ ~Writing(w)
  BY DEF Starts, Writing
<1>5. Writing(w)' /\ \A v \in Writers \ {w} : Writing(v)' <=> Writing(v)
  BY <1>1, <1>2 DEF Writing
<1>6. \/ \A v \in Writers \ {w} : ~Writing(v)
      \/ /\ "mixed" \in strained'
         /\ aim = "remove" \/ (\E v \in Writers : Writing(v) /\ writing[v].aim = "remove") => "torn" \in strained'
  BY <1>4 DEF Strain, Removes, Writing
<1> HIDE DEF new
<1>7. PageTypes'
  <2>1. \A v \in Writers : Writing(v)' =>
          /\ DOMAIN writing'[v] = {"left", "text", "id", "aim"}
          /\ writing'[v].aim \in {"save", "create", "remove"}
          /\ MayRemain(writing'[v].aim, kind, writing'[v].left)
          /\ writing'[v].id \in {0, 1, 2}
          /\ writing'[v].aim # "remove" => writing'[v].text \in Texts
          /\ writing'[v].aim = "create" /\ UpNext(v)' \in {"put", "create"} => lastRow = 0
    <3> SUFFICES ASSUME NEW v \in Writers, Writing(v)'
        PROVE  /\ DOMAIN writing'[v] = {"left", "text", "id", "aim"}
               /\ writing'[v].aim \in {"save", "create", "remove"}
               /\ MayRemain(writing'[v].aim, kind, writing'[v].left)
               /\ writing'[v].id \in {0, 1, 2}
               /\ writing'[v].aim # "remove" => writing'[v].text \in Texts
               /\ writing'[v].aim = "create" /\ UpNext(v)' \in {"put", "create"} => lastRow = 0
      OBVIOUS
    <3>1. CASE v = w
      BY <3>1, <1>1, <1>2 DEF new
    <3>2. CASE v # w
      BY <3>2, <1>2, <1>5 DEF PageInv, PageTypes, UpNext
    <3>3. QED  BY <3>1, <3>2
  <2>2. \A v, u \in Writers : Writing(v)' /\ writing'[v].aim = "create" /\ writing'[u].aim = "create" => u = v
    <3>1. \A v \in Writers \ {w} : writing'[v].aim = writing[v].aim
      BY <1>2
    <3>2. \A v \in Writers \ {w} : \A u \in Writers \ {w} :
            Writing(v)' /\ writing'[v].aim = "create" /\ writing'[u].aim = "create" => u = v
      BY <3>1, <1>5 DEF PageInv, PageTypes
    <3>3. QED  BY <3>1, <3>2, <1>1, <1>2
  <2>3. QED  BY <2>1, <2>2, <1>2, <1>3 DEF PageInv, PageTypes, UpNext
<1>8. TextsInv'
  <2> SUFFICES ASSUME "torn" \notin strained'
      PROVE  Alone' /\ Texted' /\ \A v \in Writers : Writing(v)' => TextStage(v)'
    BY DEF TextsInv
  <2>1. Alone /\ Texted /\ \A v \in Writers : Writing(v) => TextStage(v)
    BY <1>4 DEF PageInv, TextsInv
  <2>2. Alone'
    BY <2>1, <1>1, <1>2, <1>5, <1>6 DEF Alone
  <2>3. Texted'
    BY <2>1, <1>2, <1>3, <1>4, <1>5 DEF Texted, UpNext
  <2>4. \A v \in Writers : Writing(v)' => TextStage(v)'
    <3>1. TextStage(w)'
      BY <1>1, <1>2, <1>3 DEF TextStage, UpNext, LastLeft
    <3>2. \A v \in Writers \ {w} : Writing(v)' => TextStage(v)'
      BY <2>1, <1>2, <1>3, <1>5 DEF TextStage, UpNext, LastLeft
    <3>3. QED  BY <3>1, <3>2
  <2>5. QED  BY <2>2, <2>3, <2>4
<1>9. TagsInv'
  <2> SUFFICES ASSUME strained' \cap {"mixed", "late"} = {}
      PROVE  TagsInv'
    BY DEF TagsInv
  <2>1. \A v \in Writers \ {w} : ~Writing(v)'
    BY <1>5, <1>6
  <2>2. /\ \A i \in {1, 2} : i # row => tags[i] = {}
        /\ kind = "period" => Untagged
    BY <1>4 DEF PageInv, TagsInv
  <2>0. row # 0 /\ kind # "period" /\ "untagged" \notin strained => tags[row] = {stored}
    <3>1. \A v \in Writers : ~Writing(v)
      BY <2>1, <1>4, <1>5
    <3>2. NobodyWrites
      BY <3>1 DEF NobodyWrites, Writing
    <3>3. QED  BY <3>2, <1>4 DEF PageInv, TagsInv
  <2>3. TagStage(w)'
    BY <2>0, <1>1, <1>2, <1>3, <1>4 DEF TagStage, UpNext, LastLeft
  <2>4. ~NobodyWrites'
    BY <1>5 DEF NobodyWrites, Writing
  <2>5. QED  BY <2>1, <2>2, <2>3, <2>4, <1>3 DEF TagsInv, Untagged
<1>10. QED  BY <1>7, <1>8, <1>9 DEF PageInv

(* What a step of the request w may do to what requests know.             *)
Moved(w) ==
  /\ DOMAIN writing' = Writers
  /\ \A v \in Writers \ {w} : writing'[v] = writing[v] /\ (Writing(v)' <=> Writing(v))
  /\ Writing(w)' =>
       /\ writing'[w].aim = writing[w].aim
       /\ writing'[w].text = writing[w].text
       /\ DOMAIN writing'[w] = {"left", "text", "id", "aim"}

LEMMA Routes ==
  ASSUME PageTypes, NEW w \in Writers, Writing(w)
  PROVE  Onward(writing[w].aim, kind, writing[w].left)
<1> DEFINE aim == writing[w].aim  left == writing[w].left
<1>1. kind \in TextKinds /\ MayRemain(aim, kind, left)
  BY DEF PageTypes
<1> HIDE DEF aim, left
<1>2. Onward(aim, kind, left)
  BY <1>1, GoesOnward
<1>3. QED  BY <1>2 DEF aim, left

LEMMA WentOn ==
  ASSUME PageInv, NEW w \in Writers, Writing(w), NEW id, GoesOn(w, id)
  PROVE  /\ Moved(w)
         /\ Onward(writing[w].aim, kind, writing[w].left)
         /\ LastLeft(w) <=> ~Writing(w)'
         /\ ~LastLeft(w) => writing'[w].left = Tail(writing[w].left) /\ writing'[w].id = id
<1>1. Onward(writing[w].aim, kind, writing[w].left)
  BY Routes DEF PageInv
<1>2. /\ DOMAIN writing = Writers /\ DOMAIN writing[w] = {"left", "text", "id", "aim"}
      /\ writing[w].aim \in {"save", "create", "remove"}
  BY DEF PageInv, PageTypes
<1>3. CASE LastLeft(w)
  <2>1. writing' = [writing EXCEPT ![w] = Done]
    BY <1>3 DEF GoesOn, LastLeft
  <2>2. /\ DOMAIN writing' = Writers /\ writing'[w] = Done
        /\ \A v \in Writers \ {w} : writing'[v] = writing[v]
    BY <1>2, <2>1
  <2>3. ~Writing(w)' /\ \A v \in Writers \ {w} : Writing(v)' <=> Writing(v)
    BY <2>2 DEF Writing
  <2>4. QED  BY <1>1, <1>3, <2>2, <2>3 DEF Moved
<1>4. CASE ~LastLeft(w)
  <2>1. writing' = [writing EXCEPT ![w].left = Tail(@), ![w].id = id]
    BY <1>4 DEF GoesOn, LastLeft
  <2>2. /\ DOMAIN writing' = Writers
        /\ writing'[w].left = Tail(writing[w].left) /\ writing'[w].id = id
        /\ writing'[w].text = writing[w].text /\ writing'[w].aim = writing[w].aim
        /\ DOMAIN writing'[w] = {"left", "text", "id", "aim"}
        /\ \A v \in Writers \ {w} : writing'[v] = writing[v]
    BY <1>2, <2>1
  <2>3. Writing(w)' /\ \A v \in Writers \ {w} : Writing(v)' <=> Writing(v)
    BY <1>2, <2>2 DEF Writing, Done
  <2>4. QED  BY <1>1, <1>4, <2>2, <2>3 DEF Moved
<1>5. QED  BY <1>3, <1>4

LEMMA LeftOff ==
  ASSUME PageInv, NEW w \in Writers, Writing(w), writing' = [writing EXCEPT ![w] = Done]
  PROVE  Moved(w) /\ ~Writing(w)' /\ Onward(writing[w].aim, kind, writing[w].left)
<1>1. Onward(writing[w].aim, kind, writing[w].left)
  BY Routes DEF PageInv
<1>2. /\ DOMAIN writing' = Writers /\ writing'[w] = Done
      /\ \A v \in Writers \ {w} : writing'[v] = writing[v]
  BY DEF PageInv, PageTypes
<1>3. ~Writing(w)' /\ \A v \in Writers \ {w} : Writing(v)' <=> Writing(v)
  BY <1>2 DEF Writing
<1>4. QED  BY <1>1, <1>2, <1>3 DEF Moved

LEMMA TypesMove ==
  ASSUME PageInv, NEW w \in Writers, Writing(w), Moved(w), kind' = kind,
         lastRow' \in {0, 1, 2}, row' \in {0, lastRow'}, stored' \in Texts \cup {NoText},
         tags' \in [{1, 2} -> SUBSET Texts],
         Writing(w)' => writing'[w].id \in {0, 1, 2} /\ MayRemain(writing[w].aim, kind, writing'[w].left),
         \/ lastRow' = lastRow /\ (Writing(w)' /\ UpNext(w)' \in {"put", "create"} => UpNext(w) \in {"put", "create"})
         \/ /\ Writing(w)' => UpNext(w)' \notin {"put", "create"}
            /\ \A v \in Writers \ {w} : writing[v].aim # "create"
  PROVE  PageTypes'
<1>1. \A v \in Writers : Writing(v)' =>
        /\ DOMAIN writing'[v] = {"left", "text", "id", "aim"}
        /\ writing'[v].aim \in {"save", "create", "remove"}
        /\ MayRemain(writing'[v].aim, kind, writing'[v].left)
        /\ writing'[v].id \in {0, 1, 2}
        /\ writing'[v].aim # "remove" => writing'[v].text \in Texts
        /\ writing'[v].aim = "create" /\ UpNext(v)' \in {"put", "create"} => lastRow' = 0
  <2> SUFFICES ASSUME NEW v \in Writers, Writing(v)'
      PROVE  /\ DOMAIN writing'[v] = {"left", "text", "id", "aim"}
             /\ writing'[v].aim \in {"save", "create", "remove"}
             /\ MayRemain(writing'[v].aim, kind, writing'[v].left)
             /\ writing'[v].id \in {0, 1, 2}
             /\ writing'[v].aim # "remove" => writing'[v].text \in Texts
             /\ writing'[v].aim = "create" /\ UpNext(v)' \in {"put", "create"} => lastRow' = 0
    OBVIOUS
  <2>1. CASE v = w
    BY <2>1 DEF PageInv, PageTypes, Moved
  <2>2. CASE v # w
    BY <2>2 DEF PageInv, PageTypes, Moved, UpNext
  <2>3. QED  BY <2>1, <2>2
<1>2. \A v, u \in Writers : Writing(v)' /\ writing'[v].aim = "create" /\ writing'[u].aim = "create" => u = v
  <2>1. \A v \in Writers : Writing(v) /\ writing[v].aim = "create" => \A u \in Writers : writing[u].aim = "create" => u = v
    BY DEF PageInv, PageTypes
  <2>2. \A v \in Writers : ~Writing(v)' => writing'[v].aim = "none"
    BY DEF Writing, Done
  <2>3. \A v \in Writers : writing'[v].aim = "create" => Writing(v) /\ writing[v].aim = "create"
    BY <2>2 DEF Moved
  <2>4. QED  BY <2>1, <2>3
<1>3. QED  BY <1>1, <1>2 DEF PageInv, PageTypes, Moved, UpNext

LEMMA AloneStays ==
  ASSUME NEW w \in Writers, Writing(w), Moved(w), Alone
  PROVE  Alone' /\ (writing[w].aim = "remove" => \A v \in Writers \ {w} : ~Writing(v) /\ ~Writing(v)')
  BY DEF Alone, Moved

(* What other requests know of the text stays true, unless it is removed.  *)
LEMMA TextsMove ==
  ASSUME PageInv, NEW w \in Writers, Writing(w), Moved(w), kind' = kind, strained \subseteq strained' \cup {"untagged"},
         writing[w].aim = "remove" \/ (stored # NoText => stored' # NoText),
         "torn" \notin strained' => Texted' /\ (Writing(w)' => TextStage(w)')
  PROVE  TextsInv'
<1> SUFFICES ASSUME "torn" \notin strained'
    PROVE  Alone' /\ Texted' /\ \A v \in Writers : Writing(v)' => TextStage(v)'
  BY DEF TextsInv
<1>1. Alone /\ \A v \in Writers : Writing(v) => TextStage(v)
  BY DEF PageInv, TextsInv
<1>2. Alone'
  BY <1>1, AloneStays
<1>3. ASSUME NEW v \in Writers \ {w}, Writing(v)'
      PROVE  TextStage(v)'
  <2>1. Writing(v) /\ writing'[v] = writing[v] /\ TextStage(v)
    BY <1>1, <1>3 DEF Moved
  <2>2. writing[w].aim # "remove" /\ writing[v].aim # "remove"
    BY <1>1, <2>1 DEF Alone
  <2>3. UpNext(v) # "discard"
    BY <2>1, <2>2, Routes DEF PageInv, Onward, UpNext
  <2>4. QED  BY <2>1, <2>2, <2>3 DEF TextStage, UpNext, LastLeft
<1>4. QED  BY <1>2, <1>3

LEMMA TagsKnown ==
  ASSUME PageInv, NEW w \in Writers, Writing(w), strained \cap {"mixed", "late"} = {}
  PROVE  /\ \A i \in {1, 2} : i # row => tags[i] = {}
         /\ kind = "period" => Untagged
         /\ TagStage(w)
  BY DEF PageInv, TagsInv

(* With one request at a time, only what it does itself matters.           *)
LEMMA TagsMove ==
  ASSUME PageInv, NEW w \in Writers, Writing(w), Moved(w), kind' = kind, strained \subseteq strained' \cup {"untagged"},
         strained' \cap {"mixed", "late"} = {} =>
           /\ \A i \in {1, 2} : i # row' => tags'[i] = {}
           /\ kind = "period" => Untagged'
           /\ Writing(w)' => TagStage(w)'
           /\ ~Writing(w)' /\ row' # 0 /\ kind # "period" /\ "untagged" \notin strained' => tags'[row'] = {stored'}
  PROVE  TagsInv'
<1> SUFFICES ASSUME strained' \cap {"mixed", "late"} = {}
    PROVE  /\ \A u, v \in Writers : Writing(u)' /\ Writing(v)' => v = u
           /\ \A u \in Writers : Writing(u)' => TagStage(u)'
           /\ NobodyWrites' => ~Writing(w)'
  BY DEF TagsInv
<1>1. \A v \in Writers : Writing(v) => v = w
  BY DEF PageInv, TagsInv
<1>2. \A v \in Writers : Writing(v)' => v = w
  BY <1>1 DEF Moved
<1>3. NobodyWrites' => ~Writing(w)'
  BY DEF NobodyWrites, Writing
<1>4. QED  BY <1>2, <1>3

LEMMA PutKeepsPages ==
  ASSUME PageInv, NEW w \in Writers, Put(w)
  PROVE  PageInv'
<1>1. Writing(w) /\ UpNext(w) = "put" /\ GoesOn(w, writing[w].id)
  BY DEF Put, Doing, Same, Writing, UpNext
<1>2. stored' = writing[w].text /\ UNCHANGED <<kind, row, lastRow, tags, strained>>
  BY DEF Put
<1>3. /\ writing[w].id \in {0, 1, 2} /\ writing[w].aim \in {"save", "create"} /\ writing[w].text \in Texts
      /\ ~LastLeft(w) /\ Onward(writing[w].aim, kind, writing[w].left)
  BY <1>1, Routes DEF PageInv, PageTypes, Onward, UpNext, LastLeft
<1>4. /\ Moved(w) /\ Writing(w)'
      /\ writing'[w].left = Tail(writing[w].left) /\ writing'[w].id = writing[w].id
  BY <1>1, <1>3, WentOn
<1>5. /\ MayRemain(writing[w].aim, kind, writing'[w].left)
      /\ writing[w].aim = "create" => kind = "note" /\ UpNext(w)' = "create"
      /\ writing[w].aim = "save" => \/ kind \in {"day", "period"} /\ UpNext(w)' \in {"look", "upsert"}
                                    \/ kind = "note" /\ UpNext(w)' = "untag"
  BY <1>1, <1>3, <1>4 DEF Onward, UpNext, LastLeft
<1>6. PageTypes'
  BY <1>1, <1>2, <1>3, <1>4, <1>5, TypesMove DEF PageInv, PageTypes
<1>7. stored' # NoText
  BY <1>2, <1>3, DocumentsAssumption
<1>8. TextsInv'
  <2>1. Texted'
    BY <1>7 DEF Texted
  <2>2. TextStage(w)'
    BY <1>3, <1>4, <1>5, <1>7 DEF TextStage, UpNext, Moved
  <2>3. QED  BY <1>1, <1>2, <1>4, <1>7, <2>1, <2>2, TextsMove
<1>9. TagsInv'
  <2> SUFFICES ASSUME strained \cap {"mixed", "late"} = {}
      PROVE  Untagged' = Untagged /\ TagStage(w)'
    BY <1>1, <1>2, <1>4, TagsKnown, TagsMove
  <2>1. TagStage(w)
    BY <1>1, TagsKnown
  <2>2. TagStage(w)'
    BY <2>1, <1>1, <1>2, <1>3, <1>4, <1>5 DEF TagStage, UpNext, Moved
  <2>3. QED  BY <2>2, <1>2 DEF Untagged
<1>10. QED  BY <1>6, <1>8, <1>9 DEF PageInv

LEMMA LookUpKeepsPages ==
  ASSUME PageInv, NEW w \in Writers, LookUp(w)
  PROVE  PageInv'
<1>1. Writing(w) /\ UpNext(w) = "look" /\ UNCHANGED <<kind, row, lastRow, stored, tags, strained>>
  BY DEF LookUp, Doing, Writing, UpNext
<1>2. /\ ~LastLeft(w) /\ Onward(writing[w].aim, kind, writing[w].left) /\ writing[w].aim \in {"save", "remove"}
      /\ kind \in {"day", "period"} /\ writing[w].id \in {0, 1, 2}
  BY <1>1, Routes DEF PageInv, PageTypes, Onward, UpNext, LastLeft
<1>3. CASE writing[w].aim = "remove" /\ row = 0
  <2>1. writing' = [writing EXCEPT ![w].left = <<"discard">>]
    BY <1>3 DEF LookUp, Removes
  <2>2. /\ DOMAIN writing' = Writers
        /\ writing'[w].left = <<"discard">> /\ writing'[w].id = writing[w].id
        /\ writing'[w].text = writing[w].text /\ writing'[w].aim = writing[w].aim
        /\ DOMAIN writing'[w] = {"left", "text", "id", "aim"}
        /\ \A v \in Writers \ {w} : writing'[v] = writing[v]
    BY <2>1, <1>1 DEF PageInv, PageTypes
  <2>3. Writing(w)' /\ \A v \in Writers \ {w} : Writing(v)' <=> Writing(v)
    BY <1>2, <2>2 DEF Writing, Done
  <2>4. Moved(w)
    BY <2>2, <2>3 DEF Moved
  <2>5. UpNext(w)' = "discard" /\ LastLeft(w)'
    BY <2>2, TuplesHold DEF UpNext, LastLeft, TupleFacts
  <2>6. MayRemain(writing[w].aim, kind, writing'[w].left)
    <3>1. kind = "day"
      BY <1>1, <1>2, <1>3 DEF Onward, UpNext
    <3>2. QED  BY <1>3, <2>2, <3>1 DEF MayRemain
  <2>7. PageTypes'
    BY <1>1, <1>2, <2>2, <2>4, <2>5, <2>6, TypesMove DEF PageInv, PageTypes
  <2>8. TextsInv'
    <3>1. Texted'
      BY <1>3, <1>1 DEF Texted
    <3>2. TextStage(w)'
      BY <1>1, <1>3, <2>2, <2>5 DEF TextStage
    <3>3. QED  BY <1>1, <2>4, <3>1, <3>2, TextsMove
  <2>9. TagsInv'
    <3>1. TagStage(w)'
      BY <1>1, <1>3, <2>2, <2>5 DEF TagStage
    <3>2. Untagged' <=> Untagged
      BY <1>1 DEF Untagged
    <3>3. QED  BY <1>1, <2>3, <2>4, <3>1, <3>2, TagsKnown, TagsMove
  <2>10. QED  BY <2>7, <2>8, <2>9 DEF PageInv
<1>4. CASE ~(writing[w].aim = "remove" /\ row = 0)
  <2>1. GoesOn(w, row)
    BY <1>4 DEF LookUp, Removes
  <2>2. /\ Moved(w) /\ Writing(w)' /\ writing'[w].left = Tail(writing[w].left) /\ writing'[w].id = row
    BY <1>1, <1>2, <2>1, WentOn
  <2>3. /\ MayRemain(writing[w].aim, kind, writing'[w].left)
        /\ writing[w].aim = "save" => UpNext(w)' = "insert"
        /\ writing[w].aim = "remove" => UpNext(w)' = "untag"
    BY <1>1, <1>2, <2>2 DEF Onward, UpNext, LastLeft
  <2>4. PageTypes'
    BY <1>1, <1>2, <2>2, <2>3, TypesMove DEF PageInv, PageTypes
  <2>5. TextsInv'
    <3> SUFFICES ASSUME "torn" \notin strained PROVE Texted' /\ TextStage(w)'
      BY <1>1, <2>2, TextsMove
    <3>1. Alone /\ Texted /\ TextStage(w)
      BY <1>1 DEF PageInv, TextsInv
    <3>2. Texted'
      <4>1. \A v \in Writers \ {w} : writing'[v] = writing[v] /\ (Writing(v)' <=> Writing(v))
        BY <2>2 DEF Moved
      <4>2. ~(row # 0 /\ stored = NoText /\ writing[w].aim = "remove")
        BY <1>1, <3>1 DEF Texted, Alone
      <4>3. QED  BY <1>1, <3>1, <4>1, <4>2, <1>2 DEF Texted, UpNext, TextStage
    <3>3. TextStage(w)'
      BY <1>1, <1>2, <2>2, <2>3, <3>1 DEF TextStage, Moved
    <3>4. QED  BY <3>2, <3>3
  <2>6. TagsInv'
    <3> SUFFICES ASSUME strained \cap {"mixed", "late"} = {}
        PROVE  (Untagged' <=> Untagged) /\ TagStage(w)'
      BY <1>1, <2>2, TagsKnown, TagsMove
    <3>1. TagStage(w)
      BY <1>1, TagsKnown
    <3>2. TagStage(w)'
      BY <3>1, <1>1, <1>2, <2>2, <2>3 DEF TagStage, Moved
    <3>3. QED  BY <3>2, <1>1 DEF Untagged
  <2>7. QED  BY <2>4, <2>5, <2>6 DEF PageInv
<1>5. QED  BY <1>3, <1>4

LEMMA InsertKeepsPages ==
  ASSUME PageInv, NEW w \in Writers, Insert(w)
  PROVE  PageInv'
<1>1. Writing(w) /\ UpNext(w) = "insert" /\ UNCHANGED <<kind, stored, tags, strained>>
  BY DEF Insert, Doing, Writing, UpNext
<1>2. /\ Onward(writing[w].aim, kind, writing[w].left) /\ writing[w].aim = "save"
      /\ kind \in {"day", "period"} /\ writing[w].id \in {0, 1, 2}
      /\ LastLeft(w) => kind = "period"
  BY <1>1, Routes DEF PageInv, PageTypes, Onward, UpNext, LastLeft
<1>3. \A v \in Writers : writing[v].aim # "create"
  <2>1. \A v \in Writers : Writing(v) => writing[v].aim # "create"
    BY <1>2, Routes DEF PageInv, Onward
  <2>2. \A v \in Writers : ~Writing(v) => writing[v].aim = "none"
    BY DEF Writing, Done
  <2>3. QED  BY <2>1, <2>2
<1>4. "torn" \notin strained => Alone /\ Texted /\ TextStage(w) /\ stored # NoText
  BY <1>1, <1>2 DEF PageInv, TextsInv, TextStage
<1>5. ASSUME NEW id \in {0, 1, 2}, GoesOn(w, id), lastRow' \in {0, 1, 2}, row' \in {0, lastRow'},
             strained \cap {"mixed", "late"} = {} => id = row' /\ row' # 0,
             row' = row \/ (row = 0 /\ row' # 0), lastRow' = lastRow \/ row' # 0
      PROVE  PageInv'
  <2>1. /\ Moved(w) /\ (LastLeft(w) <=> ~Writing(w)')
        /\ ~LastLeft(w) => writing'[w].left = Tail(writing[w].left) /\ writing'[w].id = id
    BY <1>1, <1>5, WentOn
  <2>2. Writing(w)' => /\ MayRemain(writing[w].aim, kind, writing'[w].left)
                       /\ UpNext(w)' = "untag"
    BY <1>1, <1>2, <2>1 DEF Onward, UpNext, LastLeft
  <2>3. PageTypes'
    BY <1>1, <1>3, <1>5, <2>1, <2>2, TypesMove DEF PageInv, PageTypes
  <2>4. TextsInv'
    <3> SUFFICES ASSUME "torn" \notin strained PROVE Texted' /\ (Writing(w)' => TextStage(w)')
      BY <1>1, <2>1, TextsMove
    <3>1. Texted'
      BY <1>1, <1>4 DEF Texted
    <3>2. Writing(w)' => TextStage(w)'
      BY <1>2, <2>1, <2>2 DEF TextStage, Moved
    <3>3. QED  BY <3>1, <3>2
  <2>5. TagsInv'
    <3> SUFFICES ASSUME strained \cap {"mixed", "late"} = {}
        PROVE  /\ \A i \in {1, 2} : i # row' => tags'[i] = {}
               /\ kind = "period" => Untagged'
               /\ Writing(w)' => TagStage(w)'
               /\ ~Writing(w)' => kind = "period"
      BY <1>1, <2>1, TagsMove
    <3>1. /\ \A i \in {1, 2} : i # row => tags[i] = {}
          /\ kind = "period" => Untagged
          /\ TagStage(w)
      BY <1>1, TagsKnown
    <3>2. Writing(w)' => TagStage(w)'
      BY <1>1, <1>2, <1>5, <2>1, <2>2, <3>1 DEF TagStage, Moved
    <3>3. \A i \in {1, 2} : i # row' => tags'[i] = {}
      BY <1>1, <1>5, <3>1
    <3>4. kind = "period" => Untagged'
      BY <1>1, <3>1 DEF Untagged
    <3>5. QED  BY <1>2, <2>1, <3>2, <3>3, <3>4
  <2>6. QED  BY <2>3, <2>4, <2>5 DEF PageInv
<1>6. strained \cap {"mixed", "late"} = {} => writing[w].id = row
  BY <1>1, TagsKnown DEF TagStage
<1>7. CASE writing[w].id # 0
  <2>1. GoesOn(w, writing[w].id) /\ row' = row /\ lastRow' = lastRow
    BY <1>7 DEF Insert, Same
  <2>2. QED  BY <1>2, <1>5, <1>6, <1>7, <2>1 DEF PageInv, PageTypes
<1>8. CASE writing[w].id = 0 /\ row = 0
  <2>1. lastRow + 1 \in {1, 2} /\ lastRow' = lastRow + 1 /\ row' = lastRow + 1 /\ GoesOn(w, lastRow + 1)
    BY <1>8 DEF Insert, Inserted, PageIds
  <2>2. QED  BY <1>5, <1>8, <2>1
<1>9. CASE writing[w].id = 0 /\ row # 0
  <2>1. writing' = [writing EXCEPT ![w] = Done] /\ row' = row /\ lastRow' = lastRow
    BY <1>9 DEF Insert
  <2>2. Moved(w) /\ ~Writing(w)'
    BY <1>1, <2>1, LeftOff
  <2>3. PageTypes'
    BY <1>1, <2>1, <2>2, TypesMove DEF PageInv, PageTypes
  <2>4. TextsInv'
    <3>1. "torn" \notin strained => Texted'
      BY <1>1, <1>4, <2>1 DEF Texted
    <3>2. QED  BY <1>1, <2>2, <3>1, TextsMove
  <2>5. TagsInv'
    BY <1>1, <1>6, <1>9, <2>2, TagsMove
  <2>6. QED  BY <2>3, <2>4, <2>5 DEF PageInv
<1>10. QED  BY <1>7, <1>8, <1>9

LEMMA UpsertKeepsPages ==
  ASSUME PageInv, NEW w \in Writers, Upsert(w)
  PROVE  PageInv'
<1>1. /\ Writing(w) /\ UpNext(w) = "upsert" /\ GoesOn(w, writing[w].id)
      /\ UNCHANGED <<kind, stored, tags>> /\ strained' = strained \cup {"untagged"}
  BY DEF Upsert, Doing, Same, Writing, UpNext
<1>2. LastLeft(w) /\ writing[w].aim = "save" /\ kind = "day"
  BY <1>1, Routes DEF PageInv, Onward, UpNext, LastLeft
<1>3. Moved(w) /\ ~Writing(w)'
  BY <1>1, <1>2, WentOn
<1>4. lastRow' \in {0, 1, 2} /\ row' \in {0, lastRow'} /\ (row' = row \/ row = 0)
  BY DEF Upsert, Inserted, PageIds, PageInv, PageTypes
<1>5. \A v \in Writers : writing[v].aim # "create"
  <2>1. \A v \in Writers : Writing(v) => writing[v].aim # "create"
    BY <1>2, Routes DEF PageInv, Onward
  <2>2. \A v \in Writers : ~Writing(v) => writing[v].aim = "none"
    BY DEF Writing, Done
  <2>3. QED  BY <2>1, <2>2
<1>6. PageTypes'
  BY <1>1, <1>3, <1>4, <1>5, TypesMove DEF PageInv, PageTypes
<1>7. TextsInv'
  <2>1. "torn" \notin strained => stored # NoText
    BY <1>1, <1>2 DEF PageInv, TextsInv, TextStage
  <2>2. "torn" \notin strained => Texted'
    BY <1>1, <2>1 DEF Texted
  <2>3. QED  BY <1>1, <1>3, <2>2, TextsMove
<1>8. TagsInv'
  <2> SUFFICES ASSUME strained \cap {"mixed", "late"} = {}
      PROVE  \A i \in {1, 2} : i # row' => tags'[i] = {}
    BY <1>1, <1>2, <1>3, TagsMove
  <2>1. QED  BY <1>1, <1>4, TagsKnown
<1>9. QED  BY <1>6, <1>7, <1>8 DEF PageInv

LEMMA CreateTextKeepsPages ==
  ASSUME PageInv, NEW w \in Writers, CreateText(w)
  PROVE  PageInv'
<1>1. /\ Writing(w) /\ UpNext(w) = "create" /\ GoesOn(w, 1) /\ UNCHANGED <<kind, tags, strained>>
      /\ stored' = IF kind = "memo" THEN writing[w].text ELSE stored
  BY DEF CreateText, Doing, Writing, UpNext
<1>2. /\ ~LastLeft(w) /\ writing[w].aim = "create" /\ writing[w].text \in Texts /\ kind \in {"memo", "note"}
      /\ Onward(writing[w].aim, kind, writing[w].left) /\ lastRow = 0 /\ row = 0
      /\ \A v \in Writers \ {w} : writing[v].aim # "create"
  <2>1. Onward(writing[w].aim, kind, writing[w].left)
    BY <1>1, Routes DEF PageInv
  <2>2. ~LastLeft(w) /\ writing[w].aim = "create" /\ kind \in {"memo", "note"}
    BY <1>1, <2>1 DEF Onward, UpNext, LastLeft
  <2>3. QED  BY <1>1, <2>1, <2>2 DEF PageInv, PageTypes
<1>3. lastRow' = 1 /\ row' = 1
  BY <1>2 DEF CreateText, Inserted
<1>4. /\ Moved(w) /\ Writing(w)' /\ writing'[w].left = Tail(writing[w].left) /\ writing'[w].id = 1
  BY <1>1, <1>2, WentOn
<1>5. MayRemain(writing[w].aim, kind, writing'[w].left) /\ UpNext(w)' \in {"untag", "name"}
  BY <1>1, <1>2, <1>4 DEF Onward, UpNext, LastLeft
<1>6. PageTypes'
  BY <1>1, <1>2, <1>3, <1>4, <1>5, TypesMove DEF PageInv, PageTypes
<1>7. TextsInv'
  <2> SUFFICES ASSUME "torn" \notin strained PROVE stored' # NoText
    <3>1. stored' # NoText => Texted' /\ TextStage(w)'
      BY <1>2, <1>4, <1>5 DEF Texted, TextStage, Moved
    <3>2. stored # NoText => stored' # NoText
      BY <1>1, <1>2, DocumentsAssumption
    <3>3. QED  BY <1>1, <1>4, <3>1, <3>2, TextsMove
  <2>1. kind = "note" => stored # NoText
    BY <1>1 DEF PageInv, TextsInv, TextStage
  <2>2. QED  BY <1>1, <1>2, <2>1, DocumentsAssumption
<1>8. TagsInv'
  <2> SUFFICES ASSUME strained \cap {"mixed", "late"} = {}
      PROVE  Untagged' /\ TagStage(w)'
    BY <1>1, <1>4, TagsMove DEF Untagged
  <2>1. TagStage(w) /\ Untagged
    BY <1>1, <1>2, TagsKnown DEF Untagged
  <2>2. Untagged'
    BY <2>1, <1>1 DEF Untagged
  <2>3. stored' = writing[w].text
    BY <1>1, <1>2, <2>1 DEF TagStage
  <2>4. TagStage(w)'
    BY <2>3, <1>2, <1>3, <1>4, <1>5 DEF TagStage, Moved
  <2>5. QED  BY <2>2, <2>4
<1>9. QED  BY <1>6, <1>7, <1>8 DEF PageInv

LEMMA NameKeepsPages ==
  ASSUME PageInv, NEW w \in Writers, Name(w)
  PROVE  PageInv'
<1>1. /\ Writing(w) /\ UpNext(w) = "name" /\ GoesOn(w, writing[w].id)
      /\ UNCHANGED <<kind, row, lastRow, stored, tags>> /\ strained' = strained \cup {"untagged"}
  BY DEF Name, Doing, Same, Writing, UpNext
<1>2. LastLeft(w) /\ writing[w].aim = "create" /\ kind \in {"memo", "note"}
  BY <1>1, Routes DEF PageInv, Onward, UpNext, LastLeft
<1>3. Moved(w) /\ ~Writing(w)'
  BY <1>1, <1>2, WentOn
<1>4. PageTypes'
  BY <1>1, <1>3, TypesMove DEF PageInv, PageTypes
<1>5. TextsInv'
  <2> SUFFICES ASSUME "torn" \notin strained PROVE Texted'
    BY <1>1, <1>3, TextsMove
  <2>1. Texted /\ \A v \in Writers \ {w} : writing'[v] = writing[v] /\ (Writing(v)' <=> Writing(v))
    BY <1>1, <1>3 DEF PageInv, TextsInv, Moved
  <2>2. QED  BY <1>1, <1>2, <2>1 DEF Texted, UpNext
<1>6. TagsInv'
  <2> SUFFICES ASSUME strained \cap {"mixed", "late"} = {}
      PROVE  \A i \in {1, 2} : i # row' => tags'[i] = {}
    BY <1>1, <1>2, <1>3, TagsMove
  <2>1. QED  BY <1>1, TagsKnown
<1>7. QED  BY <1>4, <1>5, <1>6 DEF PageInv

LEMMA RewriteKeepsPages ==
  ASSUME PageInv, NEW w \in Writers, Rewrite(w)
  PROVE  PageInv'
<1>1. /\ Writing(w) /\ UpNext(w) = "rewrite" /\ GoesOn(w, writing[w].id)
      /\ UNCHANGED <<kind, row, lastRow, tags>>
      /\ stored' = IF row = 0 THEN stored ELSE writing[w].text
      /\ strained' = strained \cup (IF row = 0 THEN {"late"} ELSE {})
  BY DEF Rewrite, Doing, Same, Writing, UpNext
<1>2. /\ ~LastLeft(w) /\ writing[w].aim = "save" /\ writing[w].text \in Texts /\ kind = "memo"
      /\ Onward(writing[w].aim, kind, writing[w].left) /\ writing[w].id \in {0, 1, 2}
  <2>1. Onward(writing[w].aim, kind, writing[w].left)
    BY <1>1, Routes DEF PageInv
  <2>2. QED  BY <1>1, <2>1 DEF Onward, UpNext, LastLeft, PageInv, PageTypes
<1>3. /\ Moved(w) /\ Writing(w)' /\ writing'[w].left = Tail(writing[w].left) /\ writing'[w].id = writing[w].id
  BY <1>1, <1>2, WentOn
<1>4. MayRemain(writing[w].aim, kind, writing'[w].left) /\ UpNext(w)' = "untag"
  BY <1>1, <1>2, <1>3 DEF Onward, UpNext, LastLeft
<1>5. stored # NoText => stored' # NoText
  BY <1>1, <1>2, DocumentsAssumption
<1>6. PageTypes'
  BY <1>1, <1>2, <1>3, <1>4, TypesMove DEF PageInv, PageTypes
<1>7. TextsInv'
  <2> SUFFICES ASSUME "torn" \notin strained PROVE Texted' /\ TextStage(w)'
    BY <1>1, <1>3, <1>5, TextsMove
  <2>1. Texted /\ kind = "memo"
    BY <1>2 DEF PageInv, TextsInv
  <2>2. Texted'
    BY <2>1, <1>1, <1>5 DEF Texted
  <2>3. TextStage(w)'
    BY <1>2, <1>3, <1>4 DEF TextStage, Moved
  <2>4. QED  BY <2>2, <2>3
<1>8. TagsInv'
  <2> SUFFICES ASSUME strained \cap {"mixed", "late"} = {}, row # 0
      PROVE  (\A i \in {1, 2} : i # row' => tags'[i] = {}) /\ TagStage(w)'
    BY <1>1, <1>2, <1>3, TagsMove
  <2>1. (\A i \in {1, 2} : i # row => tags[i] = {}) /\ TagStage(w)
    BY <1>1, TagsKnown
  <2>2. writing[w].id = row
    BY <1>1, <2>1 DEF TagStage
  <2>3. QED  BY <2>1, <2>2, <1>1, <1>2, <1>3, <1>4 DEF TagStage, Moved
<1>9. QED  BY <1>6, <1>7, <1>8 DEF PageInv

LEMMA UntagKeepsPages ==
  ASSUME PageInv, NEW w \in Writers, Untag(w)
  PROVE  PageInv'
<1>1. /\ Writing(w) /\ UpNext(w) = "untag" /\ GoesOn(w, writing[w].id)
      /\ UNCHANGED <<kind, row, lastRow, stored, strained>>
      /\ tags' = [tags EXCEPT ![writing[w].id] = {}]
  BY DEF Untag, Doing, Same, Writing, UpNext
<1>2. /\ ~LastLeft(w) /\ writing[w].aim \in {"save", "create", "remove"} /\ kind # "period"
      /\ Onward(writing[w].aim, kind, writing[w].left) /\ writing[w].id \in {0, 1, 2}
  <2>1. Onward(writing[w].aim, kind, writing[w].left)
    BY <1>1, Routes DEF PageInv
  <2>2. QED  BY <1>1, <2>1 DEF Onward, UpNext, LastLeft, PageInv, PageTypes
<1>3. /\ Moved(w) /\ Writing(w)' /\ writing'[w].left = Tail(writing[w].left) /\ writing'[w].id = writing[w].id
  BY <1>1, <1>2, WentOn
<1>4. /\ MayRemain(writing[w].aim, kind, writing'[w].left)
      /\ writing[w].aim = "remove" => UpNext(w)' = "drop"
      /\ writing[w].aim # "remove" => UpNext(w)' = "tag"
  BY <1>1, <1>2, <1>3 DEF Onward, UpNext, LastLeft
<1>5. tags' \in [{1, 2} -> SUBSET Texts] /\ \A i \in {1, 2} : tags'[i] = IF i = writing[w].id THEN {} ELSE tags[i]
  BY <1>1 DEF PageInv, PageTypes
<1>6. PageTypes'
  BY <1>1, <1>2, <1>3, <1>4, <1>5, TypesMove DEF PageInv, PageTypes
<1>7. TextsInv'
  <2> SUFFICES ASSUME "torn" \notin strained PROVE Texted' /\ TextStage(w)'
    BY <1>1, <1>3, TextsMove
  <2>1. Alone /\ Texted /\ TextStage(w)
    BY <1>1 DEF PageInv, TextsInv
  <2>2. Texted'
    BY <2>1, <1>1, <1>3, <1>4 DEF Texted, Moved, UpNext
  <2>3. TextStage(w)'
    BY <2>1, <1>1, <1>2, <1>3, <1>4 DEF TextStage, Moved
  <2>4. QED  BY <2>2, <2>3
<1>8. TagsInv'
  <2> SUFFICES ASSUME strained \cap {"mixed", "late"} = {}
      PROVE  Untagged' /\ TagStage(w)'
    BY <1>1, <1>3, TagsMove DEF Untagged
  <2>1. (\A i \in {1, 2} : i # row => tags[i] = {}) /\ TagStage(w)
    BY <1>1, TagsKnown
  <2>2. row \in {0, writing[w].id}
    BY <1>1, <1>2, <2>1 DEF TagStage
  <2>3. Untagged'
    BY <1>5, <2>1, <2>2 DEF Untagged
  <2>4. TagStage(w)'
    BY <2>1, <2>3, <1>1, <1>2, <1>3, <1>4 DEF TagStage, Moved
  <2>5. QED  BY <2>3, <2>4
<1>9. QED  BY <1>6, <1>7, <1>8 DEF PageInv

LEMMA TagKeepsPages ==
  ASSUME PageInv, NEW w \in Writers, Tag(w)
  PROVE  PageInv'
<1>1. /\ Writing(w) /\ UpNext(w) = "tag" /\ GoesOn(w, writing[w].id)
      /\ UNCHANGED <<kind, row, lastRow, stored>> /\ strained' = strained \ {"untagged"}
      /\ tags' = [tags EXCEPT ![writing[w].id] = @ \cup {writing[w].text}]
  BY DEF Tag, Doing, Same, Writing, UpNext
<1>2. LastLeft(w) /\ writing[w].aim # "remove" /\ writing[w].text \in Texts
  <2>1. Onward(writing[w].aim, kind, writing[w].left)
    BY <1>1, Routes DEF PageInv
  <2>2. QED  BY <1>1, <2>1 DEF Onward, UpNext, LastLeft, PageInv, PageTypes
<1>3. Moved(w) /\ ~Writing(w)'
  BY <1>1, <1>2, WentOn
<1>4. tags' \in [{1, 2} -> SUBSET Texts] /\ \A i \in {1, 2} :
        tags'[i] = IF i = writing[w].id THEN tags[i] \cup {writing[w].text} ELSE tags[i]
  BY <1>1, <1>2 DEF PageInv, PageTypes
<1>5. PageTypes'
  BY <1>1, <1>3, <1>4, TypesMove DEF PageInv, PageTypes
<1>6. TextsInv'
  <2> SUFFICES ASSUME "torn" \notin strained PROVE Texted'
    BY <1>1, <1>3, TextsMove
  <2>1. Texted
    BY <1>1 DEF PageInv, TextsInv
  <2>2. QED  BY <2>1, <1>1, <1>2, <1>3 DEF Texted, Moved, UpNext
<1>7. TagsInv'
  <2> SUFFICES ASSUME strained \cap {"mixed", "late"} = {}
      PROVE  /\ \A i \in {1, 2} : i # row' => tags'[i] = {}
             /\ kind # "period"
             /\ row # 0 => tags'[row] = {stored}
    BY <1>1, <1>3, TagsMove
  <2>1. TagStage(w) /\ kind # "period"
    BY <1>1, TagsKnown, Routes DEF PageInv, Onward, UpNext
  <2>2. Untagged /\ writing[w].id = row /\ stored = writing[w].text
    BY <1>1, <1>2, <2>1 DEF TagStage
  <2>3. row \in {0, 1, 2}
    BY DEF PageInv, PageTypes
  <2>4. QED  BY <2>1, <2>2, <2>3, <1>1, <1>4 DEF Untagged
<1>8. QED  BY <1>5, <1>6, <1>7 DEF PageInv

LEMMA DropKeepsPages ==
  ASSUME PageInv, NEW w \in Writers, Drop(w)
  PROVE  PageInv'
<1>1. /\ Writing(w) /\ UpNext(w) = "drop" /\ GoesOn(w, writing[w].id)
      /\ UNCHANGED <<kind, lastRow, tags, strained>>
      /\ row' = IF row = writing[w].id THEN 0 ELSE row
      /\ stored' = IF kind = "memo" /\ row' = 0 THEN NoText ELSE stored
  BY DEF Drop, Doing, Same, Writing, UpNext
<1>2. Onward(writing[w].aim, kind, writing[w].left) /\ writing[w].aim = "remove" /\ writing[w].id \in {0, 1, 2}
  <2>1. Onward(writing[w].aim, kind, writing[w].left)
    BY <1>1, Routes DEF PageInv
  <2>2. QED  BY <1>1, <2>1 DEF Onward, UpNext, LastLeft, PageInv, PageTypes
<1>3. /\ Moved(w) /\ (LastLeft(w) <=> ~Writing(w)')
      /\ ~LastLeft(w) => writing'[w].left = Tail(writing[w].left) /\ writing'[w].id = writing[w].id
  BY <1>1, <1>2, WentOn
<1>4. Writing(w)' => /\ MayRemain(writing[w].aim, kind, writing'[w].left)
                     /\ UpNext(w)' = "discard" /\ LastLeft(w)'
  BY <1>1, <1>2, <1>3 DEF Onward, UpNext, LastLeft
<1>5. PageTypes'
  BY <1>1, <1>2, <1>3, <1>4, TypesMove DEF PageInv, PageTypes
<1>6. TextsInv'
  <2> SUFFICES ASSUME "torn" \notin strained PROVE Texted' /\ (Writing(w)' => TextStage(w)')
    BY <1>1, <1>2, <1>3, TextsMove
  <2>1. TextStage(w)
    BY <1>1 DEF PageInv, TextsInv
  <2>2. row' = 0
    BY <2>1, <1>1, <1>2 DEF TextStage
  <2>3. QED  BY <2>2, <1>2, <1>3, <1>4 DEF TextStage, Texted, Moved
<1>7. TagsInv'
  <2> SUFFICES ASSUME strained \cap {"mixed", "late"} = {}
      PROVE  Untagged' /\ row' = 0 /\ (Writing(w)' => TagStage(w)')
    BY <1>1, <1>3, TagsMove DEF Untagged
  <2>1. TagStage(w)
    BY <1>1, TagsKnown
  <2>2. row' = 0
    BY <2>1, <1>1, <1>2 DEF TagStage
  <2>3. Untagged'
    BY <2>1, <1>1 DEF TagStage, Untagged
  <2>4. Writing(w)' => TagStage(w)'
    BY <2>2, <1>2, <1>3, <1>4 DEF TagStage, Moved
  <2>5. QED  BY <2>2, <2>3, <2>4
<1>8. QED  BY <1>5, <1>6, <1>7 DEF PageInv

LEMMA DiscardKeepsPages ==
  ASSUME PageInv, NEW w \in Writers, Discard(w)
  PROVE  PageInv'
<1>1. /\ Writing(w) /\ UpNext(w) = "discard" /\ GoesOn(w, writing[w].id)
      /\ UNCHANGED <<kind, row, lastRow, tags, strained>> /\ stored' = NoText
  BY DEF Discard, Doing, Same, Writing, UpNext
<1>2. /\ Onward(writing[w].aim, kind, writing[w].left) /\ writing[w].aim = "remove" /\ writing[w].id \in {0, 1, 2}
      /\ kind # "memo"
  <2>1. Onward(writing[w].aim, kind, writing[w].left)
    BY <1>1, Routes DEF PageInv
  <2>2. QED  BY <1>1, <2>1 DEF Onward, UpNext, LastLeft, PageInv, PageTypes
<1>3. /\ Moved(w) /\ (LastLeft(w) <=> ~Writing(w)')
      /\ ~LastLeft(w) => writing'[w].left = Tail(writing[w].left) /\ writing'[w].id = writing[w].id
  BY <1>1, <1>2, WentOn
<1>4. Writing(w)' => /\ MayRemain(writing[w].aim, kind, writing'[w].left)
                     /\ \/ UpNext(w)' = "untag"
                        \/ UpNext(w)' = "drop" /\ kind = "period"
  BY <1>1, <1>2, <1>3 DEF Onward, UpNext, LastLeft
<1>5. PageTypes'
  BY <1>1, <1>2, <1>3, <1>4, TypesMove DEF PageInv, PageTypes
<1>6. TextsInv'
  <2> SUFFICES ASSUME "torn" \notin strained PROVE Texted' /\ (Writing(w)' => TextStage(w)')
    BY <1>1, <1>2, <1>3, TextsMove
  <2>1. row \in {0, writing[w].id} /\ (LastLeft(w) => row = 0)
    BY <1>1, <1>2 DEF PageInv, TextsInv, TextStage
  <2>2. Texted'
    BY <2>1, <1>1, <1>2, <1>3, <1>4 DEF Texted, Moved
  <2>3. Writing(w)' => TextStage(w)'
    BY <2>1, <1>1, <1>2, <1>3, <1>4 DEF TextStage, Moved
  <2>4. QED  BY <2>2, <2>3
<1>7. TagsInv'
  <2> SUFFICES ASSUME strained \cap {"mixed", "late"} = {}
      PROVE  /\ \A i \in {1, 2} : i # row' => tags'[i] = {}
             /\ kind = "period" => Untagged'
             /\ Writing(w)' => TagStage(w)'
             /\ ~Writing(w)' => row' = 0
    BY <1>1, <1>3, TagsMove
  <2>1. (\A i \in {1, 2} : i # row => tags[i] = {}) /\ TagStage(w) /\ (kind = "period" => Untagged)
    BY <1>1, TagsKnown
  <2>2. kind = "period" => Untagged'
    BY <2>1, <1>1 DEF Untagged
  <2>3. row \in {0, writing[w].id} /\ (LastLeft(w) => row = 0)
    BY <2>1, <1>1, <1>2 DEF TagStage
  <2>4. Writing(w)' => TagStage(w)'
    BY <2>2, <2>3, <1>1, <1>2, <1>3, <1>4 DEF TagStage, Moved
  <2>5. QED  BY <2>1, <2>2, <2>3, <2>4, <1>1, <1>3
<1>8. QED  BY <1>5, <1>6, <1>7 DEF PageInv

LEMMA WithdrawKeepsPages ==
  ASSUME PageInv, NEW w \in Writers, Withdraw(w)
  PROVE  PageInv'
<1>1. /\ Writing(w) /\ UpNext(w) = "create" /\ kind = "note" /\ writing' = [writing EXCEPT ![w] = Done]
      /\ UNCHANGED <<kind, row, lastRow, tags, strained>> /\ stored' \in {NoText, stored}
  BY DEF Withdraw, Doing, Writing, UpNext
<1>2. Moved(w) /\ ~Writing(w)' /\ writing[w].aim = "create" /\ row = 0
  <2>1. Onward(writing[w].aim, kind, writing[w].left)
    BY <1>1, Routes DEF PageInv
  <2>2. QED  BY <1>1, <2>1, LeftOff DEF Onward, UpNext, PageInv, PageTypes
<1>3. PageTypes'
  BY <1>1, <1>2, TypesMove DEF PageInv, PageTypes
<1>4. TextsInv'
  <2> SUFFICES ASSUME "torn" \notin strained
      PROVE  Alone' /\ \A v \in Writers : Writing(v)' => TextStage(v)'
    BY <1>1, <1>2 DEF TextsInv, Texted
  <2>1. Alone /\ \A v \in Writers : Writing(v) => TextStage(v)
    BY <1>1 DEF PageInv, TextsInv
  <2>2. Alone'
    BY <1>1, <1>2, <2>1, AloneStays
  <2>3. ASSUME NEW v \in Writers, Writing(v)'
        PROVE  TextStage(v)'
    <3>1. v # w /\ Writing(v) /\ writing'[v] = writing[v] /\ TextStage(v)
      BY <1>2, <2>1, <2>3 DEF Moved
    <3>2. writing[v].aim # "create"
      BY <1>1, <1>2, <3>1 DEF PageInv, PageTypes
    <3>3. UpNext(v) \notin {"look", "insert", "upsert", "create"}
           \/ (writing[v].aim = "remove" /\ UpNext(v) = "look")
      BY <1>1, <3>1, <3>2, Routes DEF PageInv, Onward, UpNext
    <3>4. QED  BY <1>1, <3>1, <3>3 DEF TextStage, UpNext, LastLeft
  <2>4. QED  BY <2>2, <2>3
<1>5. TagsInv'
  <2> SUFFICES ASSUME strained \cap {"mixed", "late"} = {}
      PROVE  \A i \in {1, 2} : i # row' => tags'[i] = {}
    BY <1>1, <1>2, TagsMove
  <2>1. QED  BY <1>1, TagsKnown
<1>6. QED  BY <1>3, <1>4, <1>5 DEF PageInv

(* A request that is refused leaves the page as it found it, or, the        *)
(* assistant's, its tags untold.                                            *)
LEMMA RefuseKeepsPages ==
  ASSUME PageInv, NEW w \in Writers, Refuse(w)
  PROVE  PageInv'
<1>1. /\ Writing(w) /\ writing' = [writing EXCEPT ![w] = Done]
      /\ UNCHANGED <<kind, row, lastRow, stored, tags>> /\ strained \subseteq strained'
      /\ UpNext(w) \in {"put", "upsert", "insert", "create"}
      /\ UpNext(w) = "upsert" => "untagged" \in strained'
      /\ UpNext(w) = "insert" => writing[w].id = 0
  BY DEF Refuse, Doing, Writing, UpNext
<1>2. Moved(w) /\ ~Writing(w)' /\ Onward(writing[w].aim, kind, writing[w].left)
  BY <1>1, LeftOff
<1>3. PageTypes'
  BY <1>1, <1>2, TypesMove DEF PageInv, PageTypes
<1>4. TextsInv'
  <2> SUFFICES ASSUME "torn" \notin strained' PROVE Texted'
    BY <1>1, <1>2, TextsMove
  <2>1. Texted
    BY <1>1 DEF PageInv, TextsInv
  <2>2. QED  BY <2>1, <1>1, <1>2 DEF Texted, Moved, UpNext
<1>5. TagsInv'
  <2> SUFFICES ASSUME strained' \cap {"mixed", "late"} = {}
      PROVE  /\ \A i \in {1, 2} : i # row => tags[i] = {}
             /\ kind = "period" => Untagged'
             /\ row # 0 /\ kind # "period" /\ "untagged" \notin strained' => tags[row] = {stored}
    BY <1>1, <1>2, TagsMove
  <2>1. (\A i \in {1, 2} : i # row => tags[i] = {}) /\ (kind = "period" => Untagged) /\ TagStage(w)
    BY <1>1, TagsKnown
  <2>2. kind = "period" => Untagged'
    BY <2>1, <1>1 DEF Untagged
  <2>3. UpNext(w) = "create" => row = 0
    BY <1>1, <1>2 DEF PageInv, PageTypes, Onward, UpNext
  <2>4. UpNext(w) = "insert" => row = 0
    BY <2>1, <1>1 DEF TagStage
  <2>5. UpNext(w) = "put" /\ row # 0 /\ kind # "period" /\ "untagged" \notin strained => tags[row] = {stored}
    BY <2>1 DEF TagStage
  <2>6. QED  BY <2>1, <2>2, <2>3, <2>4, <2>5, <1>1
<1>6. QED  BY <1>3, <1>4, <1>5 DEF PageInv

(* A failure nobody looked at: the text suffers only where a removal did    *)
(* not find its row, or did not drop it.                                    *)
LEMMA OverlookKeepsPages ==
  ASSUME PageInv, NEW w \in Writers, Overlook(w)
  PROVE  PageInv'
<1>1. /\ Writing(w) /\ UNCHANGED <<kind, row, lastRow, stored, tags>> /\ strained \subseteq strained'
      /\ UpNext(w) # "discard" => "mixed" \in strained'
      /\ writing[w].aim = "remove" /\ UpNext(w) \in {"look", "drop"} => "torn" \in strained'
      /\ UpNext(w) \in {"look", "untag", "tag", "rewrite", "drop", "discard"}
  BY DEF Overlook, Doing, Removes, Writing, UpNext
<1>2. /\ Onward(writing[w].aim, kind, writing[w].left)
      /\ writing[w].id \in {0, 1, 2} /\ writing[w].aim \in {"save", "create", "remove"}
  BY <1>1, Routes DEF PageInv, PageTypes
<1>3. ASSUME UpNext(w) # "discard", Moved(w),
             Writing(w)' => /\ writing'[w].id \in {0, 1, 2} /\ MayRemain(writing[w].aim, kind, writing'[w].left)
                            /\ UpNext(w)' \notin {"put", "create"},
             "torn" \notin strained' => Texted' /\ (Writing(w)' => TextStage(w)')
      PROVE  PageInv'
  <2>1. PageTypes'
    BY <1>1, <1>3, TypesMove DEF PageInv, PageTypes
  <2>2. TextsInv'
    BY <1>1, <1>3, TextsMove
  <2>3. TagsInv'
    BY <1>1, <1>3 DEF TagsInv
  <2>4. QED  BY <2>1, <2>2, <2>3 DEF PageInv
<1>4. CASE UpNext(w) = "look" /\ writing[w].aim = "remove"
  <2>1. writing' = [writing EXCEPT ![w].left = <<"discard">>]
    BY <1>4 DEF Overlook, Removes, Doing, UpNext
  <2>2. /\ DOMAIN writing' = Writers
        /\ writing'[w].left = <<"discard">> /\ writing'[w].id = writing[w].id
        /\ writing'[w].text = writing[w].text /\ writing'[w].aim = writing[w].aim
        /\ DOMAIN writing'[w] = {"left", "text", "id", "aim"}
        /\ \A v \in Writers \ {w} : writing'[v] = writing[v]
    BY <2>1, <1>1 DEF PageInv, PageTypes
  <2>3. Writing(w)' /\ \A v \in Writers \ {w} : Writing(v)' <=> Writing(v)
    BY <1>2, <2>2 DEF Writing, Done
  <2>4. Moved(w)
    BY <2>2, <2>3 DEF Moved
  <2>5. UpNext(w)' = "discard"
    BY <2>2, TuplesHold DEF UpNext, TupleFacts
  <2>6. MayRemain(writing[w].aim, kind, writing'[w].left)
    <3>1. kind = "day"
      BY <1>2, <1>4 DEF Onward, UpNext
    <3>2. QED  BY <1>4, <2>2, <3>1 DEF MayRemain
  <2>7. "torn" \in strained'
    BY <1>1, <1>4
  <2>8. QED  BY <1>2, <1>3, <1>4, <2>2, <2>4, <2>5, <2>6, <2>7
<1>5. CASE UpNext(w) = "look" /\ writing[w].aim # "remove"
  <2>1. GoesOn(w, 0)
    BY <1>5 DEF Overlook, Removes, Doing, UpNext
  <2>2. ~LastLeft(w) /\ writing[w].aim = "save"
    BY <1>2, <1>5 DEF Onward, UpNext, LastLeft
  <2>3. Moved(w) /\ Writing(w)' /\ writing'[w].left = Tail(writing[w].left) /\ writing'[w].id = 0
    BY <1>1, <2>1, <2>2, WentOn
  <2>4. MayRemain(writing[w].aim, kind, writing'[w].left) /\ UpNext(w)' = "insert"
    BY <1>2, <1>5, <2>2, <2>3 DEF Onward, UpNext, LastLeft
  <2>5. ASSUME "torn" \notin strained' PROVE Texted' /\ TextStage(w)'
    <3>1. TextStage(w)
      BY <1>1, <2>5 DEF PageInv, TextsInv
    <3>2. stored # NoText
      BY <1>5, <3>1 DEF TextStage
    <3>3. QED  BY <1>1, <2>2, <2>3, <2>4, <3>2 DEF Texted, TextStage, Moved
  <2>6. QED  BY <1>3, <1>5, <2>3, <2>4, <2>5
<1>6. CASE UpNext(w) = "untag" /\ writing[w].aim # "remove" /\ writing' = [writing EXCEPT ![w] = Done]
  <2>1. Moved(w) /\ ~Writing(w)'
    BY <1>1, <1>6, LeftOff
  <2>2. ASSUME "torn" \notin strained' PROVE Texted'
    <3>1. Texted
      BY <1>1, <2>2 DEF PageInv, TextsInv
    <3>2. QED  BY <3>1, <1>1, <1>6, <2>1 DEF Texted, Moved, UpNext
  <2>3. QED  BY <1>3, <1>6, <2>1, <2>2
<1>7. CASE UpNext(w) # "look" /\ ~(UpNext(w) = "untag" /\ writing[w].aim # "remove" /\ writing' = [writing EXCEPT ![w] = Done])
  <2>1. GoesOn(w, writing[w].id)
    BY <1>7 DEF Overlook, Same, Removes, Doing, UpNext
  <2>2. /\ Moved(w) /\ (LastLeft(w) <=> ~Writing(w)')
        /\ ~LastLeft(w) => writing'[w].left = Tail(writing[w].left) /\ writing'[w].id = writing[w].id
    BY <1>1, <2>1, WentOn
  <2>3. Writing(w)' => MayRemain(writing[w].aim, kind, writing'[w].left)
    BY <1>2, <2>2 DEF Onward, LastLeft
  <2>4. CASE UpNext(w) = "untag"
    <3>1. /\ Writing(w)' /\ writing'[w].aim = writing[w].aim
          /\ writing[w].aim = "remove" => UpNext(w)' = "drop"
          /\ writing[w].aim # "remove" => UpNext(w)' = "tag"
      BY <1>2, <2>2, <2>4 DEF Onward, UpNext, LastLeft, Moved
    <3>2. ASSUME "torn" \notin strained' PROVE Texted' /\ TextStage(w)'
      <4>1. Alone /\ Texted /\ TextStage(w)
        BY <1>1, <3>2 DEF PageInv, TextsInv
      <4>2. Texted'
        BY <4>1, <1>1, <2>2, <3>1, <2>4 DEF Texted, Moved, UpNext, LastLeft
      <4>3. TextStage(w)'
        BY <4>1, <1>1, <1>2, <2>2, <2>4, <3>1 DEF TextStage, Moved, LastLeft
      <4>4. QED  BY <4>2, <4>3
    <3>3. QED  BY <1>2, <1>3, <2>2, <2>3, <2>4, <3>1, <3>2
  <2>5. CASE UpNext(w) = "tag"
    <3>1. ~Writing(w)' /\ writing[w].aim # "remove"
      BY <1>2, <2>2, <2>5 DEF Onward, UpNext, LastLeft
    <3>2. ASSUME "torn" \notin strained' PROVE Texted'
      <4>1. Texted
        BY <1>1, <3>2 DEF PageInv, TextsInv
      <4>2. QED  BY <4>1, <1>1, <2>2, <3>1, <2>5 DEF Texted, Moved, UpNext
    <3>3. QED  BY <1>3, <2>2, <2>5, <3>1, <3>2
  <2>6. CASE UpNext(w) = "rewrite"
    <3>1. Writing(w)' /\ writing'[w].aim = "save" /\ UpNext(w)' = "untag" /\ kind = "memo"
      BY <1>2, <2>2, <2>6 DEF Onward, UpNext, LastLeft, Moved
    <3>2. ASSUME "torn" \notin strained' PROVE Texted' /\ TextStage(w)'
      <4>1. Texted
        BY <1>1, <3>2 DEF PageInv, TextsInv
      <4>2. QED  BY <4>1, <1>1, <3>1 DEF Texted, TextStage
    <3>3. QED  BY <1>2, <1>3, <2>2, <2>3, <2>6, <3>1, <3>2
  <2>7. CASE UpNext(w) = "drop"
    <3>1. "torn" \in strained' /\ (Writing(w)' => UpNext(w)' = "discard")
      BY <1>1, <1>2, <2>2, <2>7 DEF Onward, UpNext, LastLeft
    <3>2. QED  BY <1>2, <1>3, <2>2, <2>3, <2>7, <3>1
  <2>8. CASE UpNext(w) = "discard"
    <3>1. Writing(w)' => \/ UpNext(w)' = "untag"
                         \/ UpNext(w)' = "drop" /\ kind = "period"
      BY <1>2, <2>2, <2>8 DEF Onward, UpNext, LastLeft
    <3>2. writing[w].aim = "remove"
      BY <1>2, <2>8 DEF Onward, UpNext
    <3>3. PageTypes'
      BY <1>1, <1>2, <2>2, <2>3, <3>1, TypesMove DEF PageInv, PageTypes
    <3>4. TextsInv'
      <4> SUFFICES ASSUME "torn" \notin strained' PROVE Texted' /\ (Writing(w)' => TextStage(w)')
        BY <1>1, <2>2, <3>2, TextsMove
      <4>1. Texted /\ TextStage(w)
        BY <1>1 DEF PageInv, TextsInv
      <4>2. Texted'
        BY <4>1, <1>1, <2>2, <2>8 DEF Texted, Moved, UpNext
      <4>3. Writing(w)' => TextStage(w)'
        BY <4>1, <1>1, <2>2, <2>8, <3>1, <3>2 DEF TextStage, Moved
      <4>4. QED  BY <4>2, <4>3
    <3>5. TagsInv'
      <4> SUFFICES ASSUME strained' \cap {"mixed", "late"} = {}
          PROVE  /\ \A i \in {1, 2} : i # row' => tags'[i] = {}
                 /\ kind = "period" => Untagged'
                 /\ Writing(w)' => TagStage(w)'
                 /\ ~Writing(w)' => row' = 0
        BY <1>1, <2>2, TagsMove
      <4>1. (\A i \in {1, 2} : i # row => tags[i] = {}) /\ TagStage(w) /\ (kind = "period" => Untagged)
        BY <1>1, TagsKnown
      <4>2. kind = "period" => Untagged'
        BY <4>1, <1>1 DEF Untagged
      <4>3. row \in {0, writing[w].id} /\ (LastLeft(w) => row = 0)
        BY <4>1, <2>8, <3>2 DEF TagStage
      <4>4. Writing(w)' => TagStage(w)'
        BY <4>2, <4>3, <1>1, <2>2, <3>1, <3>2 DEF TagStage, Moved
      <4>5. QED  BY <4>1, <4>2, <4>3, <4>4, <1>1, <2>2
    <3>6. QED  BY <3>3, <3>4, <3>5 DEF PageInv
  <2>9. QED  BY <1>1, <1>7, <2>4, <2>5, <2>6, <2>7, <2>8
<1>8. QED  BY <1>4, <1>5, <1>6, <1>7

LEMMA HaltKeepsPages ==
  ASSUME PageInv, NEW w \in Writers, Halt(w)
  PROVE  PageInv'
<1>1. /\ Writing(w) /\ writing' = [writing EXCEPT ![w] = Done]
      /\ UNCHANGED <<kind, row, lastRow, stored, tags>>
      /\ strained \subseteq strained' /\ "mixed" \in strained'
      /\ writing[w].aim = "remove" => "torn" \in strained'
  BY DEF Halt, Writing, Removes
<1>2. Moved(w) /\ ~Writing(w)'
  BY <1>1, LeftOff
<1>3. PageTypes'
  BY <1>1, <1>2, TypesMove DEF PageInv, PageTypes
<1>4. TextsInv'
  <2> SUFFICES ASSUME "torn" \notin strained' PROVE Texted'
    BY <1>1, <1>2, TextsMove
  <2>1. Texted
    BY <1>1 DEF PageInv, TextsInv
  <2>2. QED  BY <2>1, <1>1, <1>2 DEF Texted, Moved, UpNext
<1>5. TagsInv'
  BY <1>1 DEF TagsInv
<1>6. QED  BY <1>3, <1>4, <1>5 DEF PageInv

LEMMA PageStarts ==
  ASSUME PageInv, NEW w \in Writers,
         \/ SaveDay(w) \/ ClearDay(w) \/ EraseDay(w) \/ SaveDayByAssistant(w)
         \/ SavePeriod(w) \/ ErasePeriod(w)
         \/ CreateMemo(w) \/ CreateMemoByAssistant(w) \/ UpdateMemo(w) \/ DeleteMemo(w)
         \/ CreateNote(w) \/ CreateNoteByAssistant(w) \/ UpdateNote(w) \/ DeleteNote(w)
  PROVE  PageInv'
<1>1. row \in {0, 1, 2} /\ lastRow \in {0, 1, 2} /\ row \in {0, lastRow}
  BY DEF PageInv, PageTypes
<1>2. CASE SaveDay(w)
  <2>1. PICK t \in Texts : Starts(w, "save", t, 0, <<"put", "look", "insert", "untag", "tag">>)
    BY <1>2 DEF SaveDay
  <2>2. kind = "day"
    BY <1>2 DEF SaveDay
  <2>3. MayRemain("save", kind, <<"put", "look", "insert", "untag", "tag">>)
    BY <2>2 DEF MayRemain
  <2>4. QED  BY <1>1, <2>1, <2>2, <2>3, TuplesHold, StartKeepsPages DEF TupleFacts
<1>3. CASE ClearDay(w)
  <2>1. Starts(w, "remove", NoText, 0, <<"look", "untag", "drop", "discard">>)
    BY <1>3 DEF ClearDay
  <2>2. kind = "day"
    BY <1>3 DEF ClearDay
  <2>3. MayRemain("remove", kind, <<"look", "untag", "drop", "discard">>)
    BY <2>2 DEF MayRemain
  <2>4. QED  BY <1>1, <2>1, <2>2, <2>3, TuplesHold, StartKeepsPages DEF TupleFacts
<1>4. CASE EraseDay(w)
  <2>1. Starts(w, "remove", NoText, row, <<"discard", "untag", "drop">>)
    BY <1>4 DEF EraseDay
  <2>2. kind = "day" /\ row # 0
    BY <1>4 DEF EraseDay
  <2>3. MayRemain("remove", kind, <<"discard", "untag", "drop">>)
    BY <2>2 DEF MayRemain
  <2>4. QED  BY <1>1, <2>1, <2>2, <2>3, TuplesHold, StartKeepsPages DEF TupleFacts
<1>5. CASE SaveDayByAssistant(w)
  <2>1. PICK t \in Texts : Starts(w, "save", t, 0, <<"put", "upsert">>)
    BY <1>5 DEF SaveDayByAssistant
  <2>2. kind = "day"
    BY <1>5 DEF SaveDayByAssistant
  <2>3. MayRemain("save", kind, <<"put", "upsert">>)
    BY <2>2 DEF MayRemain
  <2>4. QED  BY <1>1, <2>1, <2>2, <2>3, TuplesHold, StartKeepsPages DEF TupleFacts
<1>6. CASE SavePeriod(w)
  <2>1. PICK t \in Texts : Starts(w, "save", t, 0, <<"put", "look", "insert">>)
    BY <1>6 DEF SavePeriod
  <2>2. kind = "period"
    BY <1>6 DEF SavePeriod
  <2>3. MayRemain("save", kind, <<"put", "look", "insert">>)
    BY <2>2 DEF MayRemain
  <2>4. QED  BY <1>1, <2>1, <2>2, <2>3, TuplesHold, StartKeepsPages DEF TupleFacts
<1>7. CASE ErasePeriod(w)
  <2>1. Starts(w, "remove", NoText, row, <<"discard", "drop">>)
    BY <1>7 DEF ErasePeriod
  <2>2. kind = "period" /\ row # 0
    BY <1>7 DEF ErasePeriod
  <2>3. MayRemain("remove", kind, <<"discard", "drop">>)
    BY <2>2 DEF MayRemain
  <2>4. QED  BY <1>1, <2>1, <2>2, <2>3, TuplesHold, StartKeepsPages DEF TupleFacts
<1>8. CASE CreateMemo(w)
  <2>1. PICK t \in Texts : Starts(w, "create", t, 0, <<"create", "untag", "tag">>)
    BY <1>8 DEF CreateMemo
  <2>2. kind = "memo" /\ lastRow = 0 /\ \A v \in Writers : writing[v].aim # "create"
    BY <1>8 DEF CreateMemo, New
  <2>3. MayRemain("create", kind, <<"create", "untag", "tag">>)
    BY <2>2 DEF MayRemain
  <2>4. QED  BY <1>1, <2>1, <2>2, <2>3, TuplesHold, StartKeepsPages DEF TupleFacts
<1>9. CASE CreateMemoByAssistant(w)
  <2>1. PICK t \in Texts : Starts(w, "create", t, 0, <<"create", "name">>)
    BY <1>9 DEF CreateMemoByAssistant
  <2>2. kind = "memo" /\ lastRow = 0 /\ \A v \in Writers : writing[v].aim # "create"
    BY <1>9 DEF CreateMemoByAssistant, New
  <2>3. MayRemain("create", kind, <<"create", "name">>)
    BY <2>2 DEF MayRemain
  <2>4. QED  BY <1>1, <2>1, <2>2, <2>3, TuplesHold, StartKeepsPages DEF TupleFacts
<1>10. CASE UpdateMemo(w)
  <2>1. PICK t \in Texts : Starts(w, "save", t, lastRow, <<"rewrite", "untag", "tag">>)
    BY <1>10 DEF UpdateMemo
  <2>2. kind = "memo"
    BY <1>10 DEF UpdateMemo
  <2>3. MayRemain("save", kind, <<"rewrite", "untag", "tag">>)
    BY <2>2 DEF MayRemain
  <2>4. QED  BY <1>1, <2>1, <2>2, <2>3, TuplesHold, StartKeepsPages DEF TupleFacts
<1>11. CASE DeleteMemo(w)
  <2>1. Starts(w, "remove", NoText, lastRow, <<"untag", "drop">>)
    BY <1>11 DEF DeleteMemo
  <2>2. kind = "memo"
    BY <1>11 DEF DeleteMemo
  <2>3. MayRemain("remove", kind, <<"untag", "drop">>)
    BY <2>2 DEF MayRemain
  <2>4. QED  BY <1>1, <2>1, <2>2, <2>3, TuplesHold, StartKeepsPages DEF TupleFacts
<1>12. CASE CreateNote(w)
  <2>1. PICK t \in Texts : Starts(w, "create", t, 0, <<"put", "create", "untag", "tag">>)
    BY <1>12 DEF CreateNote
  <2>2. kind = "note" /\ lastRow = 0 /\ \A v \in Writers : writing[v].aim # "create"
    BY <1>12 DEF CreateNote, New
  <2>3. MayRemain("create", kind, <<"put", "create", "untag", "tag">>)
    BY <2>2 DEF MayRemain
  <2>4. QED  BY <1>1, <2>1, <2>2, <2>3, TuplesHold, StartKeepsPages DEF TupleFacts
<1>13. CASE CreateNoteByAssistant(w)
  <2>1. PICK t \in Texts : Starts(w, "create", t, 0, <<"put", "create", "name">>)
    BY <1>13 DEF CreateNoteByAssistant
  <2>2. kind = "note" /\ lastRow = 0 /\ \A v \in Writers : writing[v].aim # "create"
    BY <1>13 DEF CreateNoteByAssistant, New
  <2>3. MayRemain("create", kind, <<"put", "create", "name">>)
    BY <2>2 DEF MayRemain
  <2>4. QED  BY <1>1, <2>1, <2>2, <2>3, TuplesHold, StartKeepsPages DEF TupleFacts
<1>14. CASE UpdateNote(w)
  <2>1. PICK t \in Texts : Starts(w, "save", t, row, <<"put", "untag", "tag">>)
    BY <1>14 DEF UpdateNote
  <2>2. kind = "note" /\ row # 0
    BY <1>14 DEF UpdateNote
  <2>3. MayRemain("save", kind, <<"put", "untag", "tag">>)
    BY <2>2 DEF MayRemain
  <2>4. QED  BY <1>1, <2>1, <2>2, <2>3, TuplesHold, StartKeepsPages DEF TupleFacts
<1>15. CASE DeleteNote(w)
  <2>1. Starts(w, "remove", NoText, row, <<"discard", "untag", "drop">>)
    BY <1>15 DEF DeleteNote
  <2>2. kind = "note" /\ row # 0
    BY <1>15 DEF DeleteNote
  <2>3. MayRemain("remove", kind, <<"discard", "untag", "drop">>)
    BY <2>2 DEF MayRemain
  <2>4. QED  BY <1>1, <2>1, <2>2, <2>3, TuplesHold, StartKeepsPages DEF TupleFacts
<1>16. QED  BY <1>2, <1>3, <1>4, <1>5, <1>6, <1>7, <1>8, <1>9, <1>10, <1>11, <1>12, <1>13, <1>14, <1>15

LEMMA PageInvNext == PageInv /\ [DocumentsNext]_documentVars => PageInv'
<1> SUFFICES ASSUME PageInv, [DocumentsNext]_documentVars PROVE PageInv'
  OBVIOUS
<1>1. ASSUME NEW w \in Writers,
             \/ Put(w) \/ LookUp(w) \/ Insert(w) \/ Upsert(w) \/ CreateText(w) \/ Name(w) \/ Rewrite(w)
             \/ Untag(w) \/ Tag(w) \/ Drop(w) \/ Discard(w) \/ Withdraw(w)
             \/ Refuse(w) \/ Overlook(w) \/ Halt(w)
      PROVE  PageInv'
  BY <1>1, PutKeepsPages, LookUpKeepsPages, InsertKeepsPages, UpsertKeepsPages, CreateTextKeepsPages,
     NameKeepsPages, RewriteKeepsPages, UntagKeepsPages, TagKeepsPages, DropKeepsPages, DiscardKeepsPages,
     WithdrawKeepsPages, RefuseKeepsPages, OverlookKeepsPages, HaltKeepsPages
<1>2. CASE UNCHANGED documentVars
  BY <1>2 DEF documentVars, PageInv, PageTypes, TextsInv, Alone, Texted, TextStage, TagsInv, TagStage, Untagged,
     NobodyWrites, Writing, UpNext, LastLeft
<1>3. QED  BY <1>1, <1>2, PageStarts DEF DocumentsNext

(* A page, its text and its tags belong together.  A row is without its     *)
(* text only after a removal ran alongside another request, was cut off, or *)
(* overlooked that its look for the row or the row's delete failed; tags    *)
(* are mixed only after requests crossed, were cut off or overlooked a      *)
(* failed statement, by the assistant's create and by late edits of memos   *)
(* (api/journal.go, api/memos.go, note/note.go).                            *)
THEOREM PagesStayWhole == DocumentsSpec => []PageWhole
<1>1. PageInv => PageWhole
  <2> SUFFICES ASSUME PageInv PROVE PageWhole
    OBVIOUS
  <2>1. NobodyWrites => \A w \in Writers : ~Writing(w)
    BY DEF NobodyWrites, Writing
  <2>2. RowHasText
    BY <2>1 DEF PageInv, TextsInv, Texted, RowHasText
  <2>3. row \in {0, 1, 2}
    BY DEF PageInv, PageTypes
  <2>4. TagsTellText
    BY <2>3 DEF PageInv, TagsInv, TagsTellText, PageIds
  <2>5. QED  BY <2>2, <2>4 DEF PageWhole
<1>2. QED  BY <1>1, PageInvInit, PageInvNext, PTL DEF DocumentsSpec

=============================================================================
