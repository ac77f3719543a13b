------------------------------ MODULE NoteFolders ------------------------------
(***************************************************************************)
(* Notes in folders: creating, moving and deleting notes, and creating,    *)
(* deleting and renaming folders (api/notes.go, ai/tools.go).  A folder is *)
(* a path of names of one letter, so that LIKE 'path/%' is said name by    *)
(* name; a name of Wild is the letter "_", which LIKE takes for any other, *)
(* and a name of Wide is a letter of three bytes.  What a note says, its   *)
(* tags and its links are in Documents; pins are left out.                 *)
(***************************************************************************)
EXTENDS Integers, Sequences, FiniteSets, SequencesExt

CONSTANTS
  Clerks,      \* requests
  Notes,       \* notes there will ever be
  Folders,     \* paths a request may name
  Wild, Wide,  \* sets of names
  MaxErrands   \* bound: requests of one behaviour

Nowhere == [made |-> FALSE, here |-> FALSE, folder |-> <<>>, text |-> FALSE]
Free == [step |-> "free"]
NoPlace == <<"none">>

\* normalizeFolder; a request that leaves the path empty is refused.
ASSUME FolderAssumption ==
  /\ Wild \cap Wide = {}
  /\ \A f \in Folders : f \in Seq(Range(f)) /\ f # <<>> /\ f # NoPlace

VARIABLES
  notes,       \* [Notes -> [made, here, folder, text: whether its object is stored]]
  shelves,     \* paths with a row in note_folders
  errand,      \* [Clerks -> what an open request knows]
  errands,     \* requests left
  slipped,     \* notes that left a folder while it was being deleted, or whose own deletion was cut off
  home,        \* [Notes -> where the owner has put each, or NoPlace]
  wanted,      \* folders the owner has made and not deleted
  excuses      \* subset of {"crossed", "cut", "wild", "wide", "inward", "taken"}

folderVars == <<notes, shelves, errand, errands, slipped, home, wanted, excuses>>
ownerVars == <<home, wanted>>

Settled == \A c \in Clerks : errand[c] = Free
Turns(c, job) == errand' = [errand EXCEPT ![c] = job]
Takes(c, job) ==
  /\ errand[c] = Free /\ errands > 0 /\ errands' = errands - 1
  /\ Turns(c, job)
Crossed(c) == IF \E d \in Clerks \ {c} : errand[d] # Free THEN {"crossed"} ELSE {}
Odd(path) == {IF name \in Wild THEN "wild" ELSE "wide" : name \in Range(path) \cap (Wild \cup Wide)}

\* What the owner takes a folder to hold, and what the path becomes under a new name.
Within(f, path) == Len(f) >= Len(path) /\ SubSeq(f, 1, Len(path)) = path
Rehung(f, from, to) == IF Within(f, from) THEN to \o SubSeq(f, Len(from) + 1, Len(f)) ELSE f

\* f LIKE path || '/%'
Like(f, path) ==
  /\ Len(f) > Len(path)
  /\ \A i \in DOMAIN path : f[i] = path[i] \/ path[i] \in Wild
Matches(f, path) == f = path \/ Like(f, path)

CarriedOff(f, from, to) ==  \* mutant: counted from one name too far
  LET rest == SubSeq(f, Len(from) + 2, Len(f)) IN to \o (IF rest = <<>> THEN <<"">> ELSE rest)

\* to || '/' || SUBSTRING(f FROM len(from)+2): a length in bytes, a position
\* in letters; past the end the name that is left is empty.
Carried(f, from, to) ==
  LET wide == Cardinality({i \in DOMAIN from : from[i] \in Wide})
      rest == SubSeq(f, Len(from) + 1 + wide, Len(f))
  IN to \o (IF rest = <<>> THEN <<"">> ELSE rest)

----------------------------------------------------------------------------
\* createNote and create_note: the row, under an id of its own, and its text
\* at once (see Documents).
CreateNoteIn(c) ==
  \E n \in Notes, f \in Folders \cup {<<>>} :
    /\ ~notes[n].made
    /\ Takes(c, Free)
    /\ notes' = [notes EXCEPT ![n] = [made |-> TRUE, here |-> TRUE, folder |-> f, text |-> TRUE]]
    /\ home' = [home EXCEPT ![n] = f]
    /\ excuses' = excuses \cup Crossed(c)
    /\ UNCHANGED <<shelves, slipped, wanted>>

\* updateNote reads the row; what the request leaves out is written as read.
\* A new title alone names no folder.
ReadNote(c) ==
  \E n \in Notes, moves \in BOOLEAN, f \in Folders :
    /\ notes[n].here
    /\ ~moves => f = CHOOSE p \in Folders : TRUE
    /\ Takes(c, [step |-> "write", note |-> n, folder |-> IF moves THEN f ELSE notes[n].folder])
    /\ home' = IF moves THEN [home EXCEPT ![n] = f] ELSE home
    /\ excuses' = excuses \cup Crossed(c)
    /\ UNCHANGED <<notes, shelves, slipped, wanted>>

\* A note that leaves while a deletion holds it in its list.
Listing(n) == {c \in Clerks : errand[c].step = "drop" /\ n \in errand[c].listed}

WriteNote(c) ==
  LET e == errand[c] IN
  /\ e.step = "write"
  /\ notes' = IF notes[e.note].here THEN [notes EXCEPT ![e.note].folder = e.folder] ELSE notes
  /\ slipped' = IF Listing(e.note) # {} THEN slipped \cup {e.note} ELSE slipped
  /\ Turns(c, Free)
  /\ UNCHANGED <<shelves, errands, excuses, ownerVars>>

\* deleteNote: the object, then the row.
DiscardNote(c) ==
  \E n \in Notes :
    /\ notes[n].here
    /\ Takes(c, [step |-> "unrow", note |-> n])
    /\ notes' = [notes EXCEPT ![n].text = FALSE]
    /\ home' = [home EXCEPT ![n] = NoPlace]
    /\ excuses' = excuses \cup Crossed(c)
    /\ UNCHANGED <<shelves, slipped, wanted>>

DropNote(c) ==
  LET n == errand[c].note IN
  /\ errand[c].step = "unrow"
  /\ notes' = [notes EXCEPT ![n].here = FALSE]
  /\ Turns(c, Free)
  /\ UNCHANGED <<shelves, errands, slipped, excuses, ownerVars>>

\* createFolder, create_folder, pinFolder, pin_folder
KeepFolder(c) ==
  \E path \in Folders :
    /\ Takes(c, Free)
    /\ shelves' = shelves \cup {path}
    /\ wanted' = wanted \cup {path}
    /\ excuses' = excuses \cup Crossed(c)
    /\ UNCHANGED <<notes, slipped, home>>

\* deleteFolder: the list of the objects to discard, ...
ListFolder(c) ==
  \E path \in Folders :
    /\ Takes(c, [step |-> "drop", path |-> path,
                 listed |-> {n \in Notes : notes[n].here /\ Matches(notes[n].folder, path)}])
    /\ home' = [n \in Notes |-> IF home[n] # NoPlace /\ Within(home[n], path) THEN NoPlace ELSE home[n]]
    /\ wanted' = {f \in wanted : ~Within(f, path)}
    /\ excuses' = excuses \cup Crossed(c) \cup (Odd(path) \cap {"wild"})
    /\ UNCHANGED <<notes, shelves, slipped>>

DropFolderFlat(c) ==  \* mutant: the rows of the folder itself only
  LET e == errand[c] IN
  /\ e.step = "drop"
  /\ notes' = [n \in Notes |-> IF notes[n].here /\ notes[n].folder = e.path
                               THEN [notes[n] EXCEPT !.here = FALSE] ELSE notes[n]]
  /\ shelves' = {f \in shelves : ~Matches(f, e.path)}
  /\ Turns(c, [step |-> "discard", listed |-> e.listed])
  /\ UNCHANGED <<errands, slipped, excuses, ownerVars>>

\* ... the rows, in one transaction, by what the folder holds then, ...
DropFolder(c) ==
  LET e == errand[c] IN
  /\ e.step = "drop"
  /\ notes' = [n \in Notes |-> IF notes[n].here /\ Matches(notes[n].folder, e.path)
                               THEN [notes[n] EXCEPT !.here = FALSE] ELSE notes[n]]
  /\ shelves' = {f \in shelves : ~Matches(f, e.path)}
  /\ Turns(c, [step |-> "discard", listed |-> e.listed])
  /\ UNCHANGED <<errands, slipped, excuses, ownerVars>>

\* ... and the objects of the list.
DiscardListed(c) ==
  LET e == errand[c] IN
  /\ e.step = "discard"
  /\ notes' = [n \in Notes |-> IF n \in e.listed THEN [notes[n] EXCEPT !.text = FALSE] ELSE notes[n]]
  /\ Turns(c, Free)
  /\ UNCHANGED <<shelves, errands, slipped, excuses, ownerVars>>

\* renameFolder: four statements, none of them checked.
OpenRename(c) ==
  \E from \in Folders, to \in Folders :
    /\ from # to
    /\ Takes(c, [step |-> "notes at", from |-> from, to |-> to])
    /\ home' = [n \in Notes |-> IF home[n] = NoPlace THEN NoPlace ELSE Rehung(home[n], from, to)]
    /\ wanted' = {Rehung(f, from, to) : f \in wanted}
    /\ excuses' = excuses \cup Crossed(c) \cup Odd(from) \cup (IF Within(to, from) THEN {"inward"} ELSE {})
    /\ UNCHANGED <<notes, shelves, slipped>>

\* UPDATE notes SET folder, of the folder itself and of those below it
RenameNotes(c) ==
  LET e == errand[c]
      next == [n \in Notes |->
        IF ~notes[n].here THEN notes[n]
        ELSE IF e.step = "notes at" /\ notes[n].folder = e.from THEN [notes[n] EXCEPT !.folder = e.to]
        ELSE IF e.step = "notes below" /\ Like(notes[n].folder, e.from)
          THEN [notes[n] EXCEPT !.folder = Carried(@, e.from, e.to)]
        ELSE notes[n]]
  IN /\ e.step \in {"notes at", "notes below"}
     /\ notes' = next
     /\ slipped' = slipped \cup {n \in Notes : next[n] # notes[n] /\ Listing(n) # {}}
     /\ Turns(c, [e EXCEPT !.step = IF e.step = "notes at" THEN "notes below" ELSE "shelf"])
     /\ UNCHANGED <<shelves, errands, excuses, ownerVars>>

\* UPDATE note_folders SET path: refused as a whole when a path is taken.
RenameShelves(c) ==
  LET e == errand[c]
      moved == {f \in shelves : IF e.step = "shelf" THEN f = e.from ELSE Like(f, e.from)}
      target(f) == IF e.step = "shelf" THEN e.to ELSE Carried(f, e.from, e.to)
      taken == \E f \in moved : \E g \in shelves \ {f} : target(f) = (IF g \in moved THEN target(g) ELSE g)
  IN /\ e.step \in {"shelf", "shelves"}
     /\ shelves' = IF taken THEN shelves ELSE (shelves \ moved) \cup {target(f) : f \in moved}
     /\ excuses' = IF taken THEN excuses \cup {"taken"} ELSE excuses
     /\ Turns(c, IF e.step = "shelf" THEN [e EXCEPT !.step = "shelves"] ELSE Free)
     /\ UNCHANGED <<notes, errands, slipped, ownerVars>>

\* The instance stops, or the statement fails and the handler gives up.
Drops(c) ==
  /\ errand[c] # Free
  /\ Turns(c, Free)
  /\ slipped' = IF errand[c].step = "unrow" THEN slipped \cup {errand[c].note} ELSE slipped
  /\ excuses' = excuses \cup {"cut"}
  /\ UNCHANGED <<notes, shelves, errands, ownerVars>>

----------------------------------------------------------------------------
FoldersStart ==
  /\ notes = [n \in Notes |-> Nowhere] /\ shelves = {}
  /\ errand = [c \in Clerks |-> Free] /\ errands = MaxErrands
  /\ slipped = {} /\ home = [n \in Notes |-> NoPlace] /\ wanted = {} /\ excuses = {}

FoldersNext == \E c \in Clerks :
  \/ CreateNoteIn(c) \/ ReadNote(c) \/ WriteNote(c) \/ DiscardNote(c) \/ DropNote(c)
  \/ KeepFolder(c) \/ ListFolder(c) \/ DropFolder(c) \/ DiscardListed(c)
  \/ OpenRename(c) \/ RenameNotes(c) \/ RenameShelves(c) \/ Drops(c)

FoldersSpec == FoldersStart /\ [][FoldersNext]_folderVars

(***************************************************************************)
(* The text of a note that is still there is never lost, whatever folders  *)
(* are renamed and deleted around it, unless the note left its folder      *)
(* between the list and the transaction of the folder's deletion, or its   *)
(* own deletion was cut off.                                               *)
(***************************************************************************)
TextKept == \A n \in Notes :
  notes[n].here /\ ~notes[n].text =>
    n \in slipped \/ \E c \in Clerks : errand[c].step = "unrow" /\ errand[c].note = n

(***************************************************************************)
(* Between requests that did not cross, every note and every folder is     *)
(* where the owner's own reading of those requests puts it.  Names that    *)
(* LIKE or a count of bytes mistakes, a new name inside the old one, whose *)
(* notes the second statement moves again, and a new name that is taken    *)
(* are what it takes to differ.                                            *)
(***************************************************************************)
FiledAsAsked == Settled /\ excuses = {} =>
  /\ shelves = wanted
  /\ \A n \in Notes : IF notes[n].here THEN home[n] = notes[n].folder ELSE home[n] = NoPlace

\* Renaming and deleting folders loses no text and files every note as asked,
\* but for the crossings and the names the parts spell out.
NotesKept == TextKept /\ FiledAsAsked

=============================================================================
