------------------------------- MODULE TaskFiles -------------------------------
(***************************************************************************)
(* The images of a task and its subtask: uploading, removing one, and the  *)
(* deletion of the task (api/task_attachments.go, api/uploads.go,          *)
(* db/tasks.go, api/tasks.go, ai/tools.go).  An object is stored and       *)
(* deleted apart from the row that names it, and most errors are ignored:  *)
(* the listing, the deletes of objects and the delete of the task may fail *)
(* and the request goes on.                                                *)
(***************************************************************************)
EXTENDS Integers, FiniteSets

CONSTANTS
  Uploaders,   \* requests
  MaxUploads   \* bound: requests of one behaviour

Tree == {"task", "subtask"}
Ids == 1..MaxUploads
Ready == [step |-> "ready"]

VARIABLES
  tree,        \* the tasks that have a row
  attached,    \* rows of task_attachments: [id, task, file]
  objects,     \* names in the object store
  named,       \* names given so far: a name is a millisecond and a digest
  upload,      \* [Uploaders -> what an open request knows]
  uploads,     \* requests left
  upsets       \* subset of {"twin", "late", "left", "kept"}, see the properties

fileVars == <<tree, attached, objects, named, upload, uploads, upsets>>

Picks(u, job) ==
  /\ upload[u] = Ready /\ uploads > 0 /\ uploads' = uploads - 1
  /\ upload' = [upload EXCEPT ![u] = job]
Passes(u, job) == upload' = [upload EXCEPT ![u] = job] /\ UNCHANGED uploads
SubtreeOf(t) == IF t = "task" THEN tree ELSE tree \cap {t}
FilesOf(rows) == {a.file : a \in rows}
RowsOf(tasks) == {a \in attached : a.task \in tasks}

\* addTaskAttachment: the task is there, ...
CheckTask(u) ==
  \E t \in tree :
    /\ Picks(u, [step |-> "store", task |-> t])
    /\ UNCHANGED <<tree, attached, objects, named, upsets>>

\* ... the object, under a name that two uploads of one image share when
\* they come in the same millisecond, ...
StoreUpload(u) ==
  \E file \in {named + 1} \cup {upload[v].file : v \in {v \in Uploaders : upload[v].step = "attach"}} :
    /\ upload[u].step = "store"
    /\ objects' = objects \cup {file}
    /\ named' = IF file > named THEN file ELSE named
    /\ upsets' = upsets \cup (IF file > named THEN {} ELSE {"twin"})
    /\ Passes(u, [step |-> "attach", task |-> upload[u].task, file |-> file])
    /\ UNCHANGED <<tree, attached>>

\* ... and the row; without its task the insert fails, or for itself, and the
\* object goes again, if it can.
Attach(u) ==
  LET e == upload[u]
      new == [id |-> CHOOSE i \in Ids : \A a \in attached : a.id # i, task |-> e.task, file |-> e.file]
      late == \E v \in Uploaders : upload[v].step = "delete" /\ e.task \in upload[v].tasks
  IN /\ e.step = "attach"
     /\ \/ /\ e.task \in tree
           /\ attached' = attached \cup {new} /\ UNCHANGED objects
           /\ upsets' = upsets \cup (IF late THEN {"late"} ELSE {})
        \/ /\ objects' \in {objects \ {e.file}, objects} /\ UNCHANGED attached
           /\ upsets' = upsets \cup (IF e.file \in objects' THEN {"left"} ELSE {})
     /\ Passes(u, Ready)
     /\ UNCHANGED <<tree, named>>

\* deleteTaskAttachment: the row, then the object it named
Detach(u) ==
  \E a \in attached :
    /\ Picks(u, [step |-> "erase", files |-> {a.file}])
    /\ attached' = attached \ {a}
    /\ UNCHANGED <<tree, objects, named, upsets>>

\* Whatever becomes of the object, the answer is ok.
EraseObject(u) ==
  LET files == upload[u].files IN
  /\ upload[u].step = "erase"
  /\ objects' \in {objects \ files, objects}
  /\ upsets' = upsets \cup (IF objects' \cap files = {} THEN {} ELSE {"left"})
  /\ Passes(u, Ready)
  /\ UNCHANGED <<tree, attached, named>>

ListTaskFilesOne(u) ==  \* mutant: the files of the task itself only
  \E t \in tree :
    /\ Picks(u, [step |-> "delete", tasks |-> SubtreeOf(t), files |-> FilesOf(RowsOf({t}))])
    /\ UNCHANGED <<tree, attached, objects, named, upsets>>

\* deleteTask and delete_task call DeleteTaskFiles: the files of the whole
\* tree, or those read before the listing failed or broke off, ...
ListTaskFiles(u) ==
  \E t \in tree :
    LET all == FilesOf(RowsOf(SubtreeOf(t))) IN
    \E files \in SUBSET all :
      /\ Picks(u, [step |-> "delete", tasks |-> SubtreeOf(t), files |-> files])
      /\ upsets' = upsets \cup (IF files = all THEN {} ELSE {"left"})
      /\ UNCHANGED <<tree, attached, objects, named>>

\* ... the objects, but for those whose delete fails, ...
DeleteTaskFiles(u) ==
  LET e == upload[u] IN
  /\ e.step = "delete" /\ e.files # {}
  /\ \E gone \in SUBSET e.files : objects' = objects \ gone
  /\ upsets' = upsets \cup (IF objects' \cap e.files = {} THEN {} ELSE {"left"})
  /\ Passes(u, [e EXCEPT !.files = {}])
  /\ UNCHANGED <<tree, attached, named>>

\* ... and the task, with which the rows of the subtask and of the images go.
\* The DELETE may fail too: deleteTask does not look, delete_task says so.
DeleteTaskRow(u) ==
  LET e == upload[u] IN
  /\ e.step = "delete" /\ e.files = {}
  /\ \/ tree' = tree \ e.tasks /\ attached' = attached \ RowsOf(e.tasks) /\ UNCHANGED upsets
     \/ upsets' = upsets \cup {"kept"} /\ UNCHANGED <<tree, attached>>
  /\ Passes(u, Ready)
  /\ UNCHANGED <<objects, named>>

\* The instance stops.
Stop(u) ==
  /\ upload[u] # Ready
  /\ Passes(u, Ready)
  /\ upsets' = upsets \cup (CASE upload[u].step = "delete" -> {"kept"}
                              [] upload[u].step = "store" -> {}
                              [] OTHER -> {"left"})
  /\ UNCHANGED <<tree, attached, objects, named>>

FilesStart ==
  /\ tree = Tree /\ attached = {} /\ objects = {} /\ named = 0
  /\ upload = [u \in Uploaders |-> Ready] /\ uploads = MaxUploads /\ upsets = {}

FilesNext == \E u \in Uploaders :
  \/ CheckTask(u) \/ StoreUpload(u) \/ Attach(u) \/ Detach(u) \/ EraseObject(u)
  \/ ListTaskFiles(u) \/ DeleteTaskFiles(u) \/ DeleteTaskRow(u) \/ Stop(u)

FilesSpec == FilesStart /\ [][FilesNext]_fileVars

(***************************************************************************)
(* Every image that is listed can be opened when no request is open.  It   *)
(* takes two uploads that got one name, or a deletion of the task whose    *)
(* last statement failed or was not reached ("kept"), to part them: an     *)
(* upload or a removal that fails at any point, a listing that fails and   *)
(* an image attached during a deletion do not.                             *)
(***************************************************************************)
ShownCanOpen ==
  (\A u \in Uploaders : upload[u] = Ready) /\ upsets \cap {"twin", "kept"} = {} =>
    FilesOf(attached) \subseteq objects

(***************************************************************************)
(* Nothing is stored that no row names when no request is open.  It takes  *)
(* an image attached while its task is deleted, or objects that a request  *)
(* did not find or failed to delete ("left"); a failed delete of the task  *)
(* itself and two uploads of one name do not.                              *)
(***************************************************************************)
NothingLeft ==
  (\A u \in Uploaders : upload[u] = Ready) /\ upsets \cap {"late", "left"} = {} =>
    objects \subseteq FilesOf(attached)

\* Rows and objects agree, but for what the two parts name.
FilesMatchRows == ShownCanOpen /\ NothingLeft
=============================================================================
