------------------------------- MODULE Documents -------------------------------
(***************************************************************************)
(* One written page: a day of the journal, a week or month of it, a memo   *)
(* or a note (api/journal.go, api/memos.go, api/notes.go, note/note.go and *)
(* the assistant's tools).  The row, the stored text and the tags are      *)
(* written by separate statements of a request; a request is the list of   *)
(* those it has still to run.                                              *)
(*                                                                         *)
(* "tags" stands for the tags and the backlinks of a page, which every     *)
(* handler rewrites together.  Titles, pins and places are left out; the   *)
(* folders of notes are in module NoteFolders.                             *)
(***************************************************************************)
EXTENDS Integers, Sequences

CONSTANTS
  Writers,     \* requests
  Texts,       \* what may be written
  MaxWritings, \* bound: requests of one behaviour
  NoText       \* a page that has none

ASSUME DocumentsAssumption == NoText \notin Texts

TextKinds == {"day", "period", "memo", "note"}
PageIds == 1..2   \* a day that was removed may be written again, under a new id

VARIABLES
  kind,        \* which of the four the page is
  row,         \* 0 or the id of its row
  lastRow,     \* the id given last
  stored,      \* the text, in the object store (a memo's in its row)
  tags,        \* [PageIds -> texts whose tags the id carries]
  writing,     \* [Writers -> [left, text, id, aim]]
  writings,    \* requests left
  strained     \* subset of {"torn", "mixed", "late", "untagged"}: crossed, failed or broke off

documentVars == <<kind, row, lastRow, stored, tags, writing, writings, strained>>

Done == [left |-> <<>>, text |-> NoText, id |-> 0, aim |-> "none"]
NobodyWrites == \A w \in Writers : writing[w] = Done
Removes(job) == job.aim = "remove"

\* Two at a time: "torn" when one of them removes the page, else "mixed".
Strain(w, aim) ==
  LET others == {v \in Writers \ {w} : writing[v] # Done} IN
  IF others = {} THEN {}
  ELSE IF aim = "remove" \/ \E v \in others : Removes(writing[v]) THEN {"torn", "mixed"} ELSE {"mixed"}

Starts(w, aim, text, id, steps) ==
  /\ writing[w] = Done /\ writings > 0
  /\ writing' = [writing EXCEPT ![w] = [left |-> steps, text |-> text, id |-> id, aim |-> aim]]
  /\ writings' = writings - 1
  /\ strained' = strained \cup Strain(w, aim)
  /\ UNCHANGED <<kind, row, lastRow, stored, tags>>

----------------------------------------------------------------------------
(* The handlers. *)

SaveDayRowFirst(w) ==  \* mutant
  kind = "day" /\ \E t \in Texts : Starts(w, "save", t, 0, <<"look", "insert", "put", "untag", "tag">>)

\* upsertJournalEntry
SaveDay(w) ==
  kind = "day" /\ \E t \in Texts : Starts(w, "save", t, 0, <<"put", "look", "insert", "untag", "tag">>)

\* upsertJournalEntry with an emptied text
ClearDay(w) == kind = "day" /\ Starts(w, "remove", NoText, 0, <<"look", "untag", "drop", "discard">>)

EraseDay(w) == kind = "day" /\ row # 0 /\ Starts(w, "remove", NoText, row, <<"discard", "untag", "drop">>)

\* createJournalTool
SaveDayByAssistant(w) ==
  kind = "day" /\ \E t \in Texts : Starts(w, "save", t, 0, <<"put", "upsert">>)

\* upsertWeeklyEntry and upsertMonthlyEntry: neither tags nor links
SavePeriod(w) == kind = "period" /\ \E t \in Texts : Starts(w, "save", t, 0, <<"put", "look", "insert">>)

\* deleteWeeklyEntry and deleteMonthlyEntry
ErasePeriod(w) == kind = "period" /\ row # 0 /\ Starts(w, "remove", NoText, row, <<"discard", "drop">>)

New == row = 0 /\ lastRow = 0 /\ \A w \in Writers : writing[w].aim # "create"

CreateMemo(w) ==
  kind = "memo" /\ New /\ \E t \in Texts : Starts(w, "create", t, 0, <<"create", "untag", "tag">>)
\* createMemoTool: the tags are the caller's
CreateMemoByAssistant(w) == kind = "memo" /\ New /\ \E t \in Texts : Starts(w, "create", t, 0, <<"create", "name">>)
UpdateMemo(w) ==
  kind = "memo" /\ lastRow # 0 /\ \E t \in Texts : Starts(w, "save", t, lastRow, <<"rewrite", "untag", "tag">>)
DeleteMemo(w) == kind = "memo" /\ lastRow # 0 /\ Starts(w, "remove", NoText, lastRow, <<"untag", "drop">>)

\* note.Create: the row becomes visible after its text is stored
CreateNote(w) ==
  kind = "note" /\ New /\ \E t \in Texts : Starts(w, "create", t, 0, <<"put", "create", "untag", "tag">>)
CreateNoteByAssistant(w) ==
  kind = "note" /\ New /\ \E t \in Texts : Starts(w, "create", t, 0, <<"put", "create", "name">>)
UpdateNote(w) ==
  kind = "note" /\ row # 0 /\ \E t \in Texts : Starts(w, "save", t, row, <<"put", "untag", "tag">>)
DeleteNote(w) ==
  kind = "note" /\ row # 0 /\ Starts(w, "remove", NoText, row, <<"discard", "untag", "drop">>)

----------------------------------------------------------------------------
(* The statements. *)

Doing(w, step) == writing[w] # Done /\ Head(writing[w].left) = step

\* The request goes on with the id it now knows, or is over.
GoesOn(w, id) ==
  writing' = IF Len(writing[w].left) = 1 THEN [writing EXCEPT ![w] = Done]
             ELSE [writing EXCEPT ![w].left = Tail(@), ![w].id = id]
Same(w) == GoesOn(w, writing[w].id)

Put(w) ==
  /\ Doing(w, "put") /\ Same(w)
  /\ stored' = writing[w].text
  /\ UNCHANGED <<kind, row, lastRow, tags, writings, strained>>

\* SELECT id.  An emptied day without a row goes straight to its object.
LookUp(w) ==
  /\ Doing(w, "look")
  /\ IF Removes(writing[w]) /\ row = 0
       THEN writing' = [writing EXCEPT ![w].left = <<"discard">>]
       ELSE GoesOn(w, row)
  /\ UNCHANGED <<kind, row, lastRow, stored, tags, writings, strained>>

Inserted == lastRow' = lastRow + 1 /\ row' = lastRow + 1

\* The insert, refused when another request inserted first; or the update.
Insert(w) ==
  /\ Doing(w, "insert")
  /\ IF writing[w].id # 0 THEN Same(w) /\ UNCHANGED <<row, lastRow>>
     ELSE IF row = 0 THEN lastRow + 1 \in PageIds /\ Inserted /\ GoesOn(w, lastRow + 1)
     ELSE writing' = [writing EXCEPT ![w] = Done] /\ UNCHANGED <<row, lastRow>>
  /\ UNCHANGED <<kind, stored, tags, writings, strained>>

\* INSERT ... ON CONFLICT DO UPDATE of the assistant: the tags are left as they were.
Upsert(w) ==
  /\ Doing(w, "upsert")
  /\ IF row = 0 THEN lastRow + 1 \in PageIds /\ Inserted ELSE UNCHANGED <<row, lastRow>>
  /\ Same(w)
  /\ strained' = strained \cup {"untagged"}
  /\ UNCHANGED <<kind, stored, tags, writings>>

CreateText(w) ==
  /\ Doing(w, "create")
  /\ Inserted /\ GoesOn(w, 1)
  /\ stored' = IF kind = "memo" THEN writing[w].text ELSE stored
  /\ UNCHANGED <<kind, tags, writings, strained>>

\* The tags the assistant gives stand for none of the text's.
Name(w) ==
  /\ Doing(w, "name") /\ Same(w)
  /\ strained' = strained \cup {"untagged"}
  /\ UNCHANGED <<kind, row, lastRow, stored, tags, writings>>

\* The update of a memo that is gone changes nothing; the handler goes on.
Rewrite(w) ==
  /\ Doing(w, "rewrite") /\ Same(w)
  /\ stored' = IF row = 0 THEN stored ELSE writing[w].text
  /\ strained' = strained \cup (IF row = 0 THEN {"late"} ELSE {})
  /\ UNCHANGED <<kind, row, lastRow, tags, writings>>

UntagNothing(w) ==  \* mutant
  /\ Doing(w, "untag") /\ Same(w)
  /\ UNCHANGED <<kind, row, lastRow, stored, tags, writings, strained>>

\* DELETE FROM tags, DELETE FROM backlinks
Untag(w) ==
  /\ Doing(w, "untag") /\ Same(w)
  /\ tags' = [tags EXCEPT ![writing[w].id] = {}]
  /\ UNCHANGED <<kind, row, lastRow, stored, writings, strained>>

\* The inserts, one by one, of syncTags and syncBacklinks
Tag(w) ==
  /\ Doing(w, "tag") /\ Same(w)
  /\ tags' = [tags EXCEPT ![writing[w].id] = @ \cup {writing[w].text}]
  /\ strained' = strained \ {"untagged"}
  /\ UNCHANGED <<kind, row, lastRow, stored, writings>>

Drop(w) ==
  /\ Doing(w, "drop") /\ Same(w)
  /\ row' = IF row = writing[w].id THEN 0 ELSE row
  /\ stored' = IF kind = "memo" /\ row' = 0 THEN NoText ELSE stored
  /\ UNCHANGED <<kind, lastRow, tags, writings, strained>>

Discard(w) ==
  /\ Doing(w, "discard") /\ Same(w)
  /\ stored' = NoText
  /\ UNCHANGED <<kind, row, lastRow, tags, writings, strained>>

\* note.Create fails to commit and takes the text it stored back, if it can.
Withdraw(w) ==
  /\ Doing(w, "create") /\ kind = "note"
  /\ writing' = [writing EXCEPT ![w] = Done]
  /\ stored' \in {NoText, stored}
  /\ UNCHANGED <<kind, row, lastRow, tags, writings, strained>>

\* A statement whose error ends the request, with an answer that says so.
Refuse(w) ==
  /\ \/ Doing(w, "put") \/ Doing(w, "upsert")
     \/ Doing(w, "insert") /\ writing[w].id = 0
     \/ Doing(w, "create") /\ kind = "memo"
  /\ writing' = [writing EXCEPT ![w] = Done]
  /\ strained' = strained \cup (IF Doing(w, "upsert") THEN {"untagged"} ELSE {})
  /\ UNCHANGED <<kind, row, lastRow, stored, tags, writings>>

\* A statement whose error nobody looks at: the request goes on as if it had
\* worked, or as if there were no row; after a failed DELETE of the tags those
\* of the text are not inserted, though its links may be.  Only the object of a
\* page on its way out may stay without harm.
Overlook(w) ==
  /\ \/ Doing(w, "look") /\ row # 0
        /\ IF Removes(writing[w]) THEN writing' = [writing EXCEPT ![w].left = <<"discard">>]
           ELSE GoesOn(w, 0)
     \/ /\ \E step \in {"untag", "tag", "rewrite", "drop", "discard"} : Doing(w, step)
        /\ Same(w)
     \/ /\ Doing(w, "untag") /\ ~Removes(writing[w])
        /\ writing' = [writing EXCEPT ![w] = Done]
  /\ strained' = strained \cup (IF Doing(w, "discard") THEN {} ELSE {"mixed"})
                         \cup (IF Removes(writing[w]) /\ (Doing(w, "look") \/ Doing(w, "drop"))
                               THEN {"torn"} ELSE {})
  /\ UNCHANGED <<kind, row, lastRow, stored, tags, writings>>

\* The instance stops.
Halt(w) ==
  /\ writing[w] # Done
  /\ writing' = [writing EXCEPT ![w] = Done]
  /\ strained' = strained \cup {"mixed"} \cup (IF Removes(writing[w]) THEN {"torn"} ELSE {})
  /\ UNCHANGED <<kind, row, lastRow, stored, tags, writings>>

----------------------------------------------------------------------------
DocumentsStart ==
  /\ kind \in TextKinds
  /\ row = 0 /\ lastRow = 0 /\ stored = NoText /\ tags = [i \in PageIds |-> {}]
  /\ writing = [w \in Writers |-> Done] /\ writings = MaxWritings /\ strained = {}

DocumentsNext == \E w \in Writers :
  \/ SaveDay(w) \/ ClearDay(w) \/ EraseDay(w) \/ SaveDayByAssistant(w)
  \/ SavePeriod(w) \/ ErasePeriod(w)
  \/ CreateMemo(w) \/ CreateMemoByAssistant(w) \/ UpdateMemo(w) \/ DeleteMemo(w)
  \/ CreateNote(w) \/ CreateNoteByAssistant(w) \/ UpdateNote(w) \/ DeleteNote(w)
  \/ Put(w) \/ LookUp(w) \/ Insert(w) \/ Upsert(w) \/ CreateText(w) \/ Name(w) \/ Rewrite(w)
  \/ Untag(w) \/ Tag(w) \/ Drop(w) \/ Discard(w) \/ Withdraw(w)
  \/ Refuse(w) \/ Overlook(w) \/ Halt(w)

DocumentsSpec == DocumentsStart /\ [][DocumentsNext]_documentVars

(***************************************************************************)
(* A page that is listed has its text: savers that cross each other, or    *)
(* fail or are cut off anywhere, never leave a row without one.  It takes  *)
(* a removal that ran alongside another request, was cut off, or went on   *)
(* though its look for the row or its delete of the row had failed.        *)
(***************************************************************************)
RowHasText == row # 0 /\ stored = NoText /\ NobodyWrites => "torn" \in strained

(***************************************************************************)
(* The tags and links of a page are those of the text stored last, and     *)
(* none are left of a page that is gone; only requests that crossed, were  *)
(* cut off or overlooked a failed statement mix them, the assistant's      *)
(* create does not write them, and an edit of a memo that is gone leaves   *)
(* some behind.  A request that is refused changes nothing of this.        *)
(***************************************************************************)
TagsTellText ==
  NobodyWrites /\ strained \cap {"mixed", "late"} = {} =>
    /\ \A i \in PageIds \ {row} : tags[i] = {}
    /\ row # 0 /\ kind # "period" /\ "untagged" \notin strained => tags[row] = {stored}

\* A page, its text and its tags belong together, but for the crossings, the
\* unnoticed failures and the breaks the parts name.
PageWhole == RowHasText /\ TagsTellText

=============================================================================
