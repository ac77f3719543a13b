-------------------------------- MODULE Events --------------------------------
(***************************************************************************)
(* One event the owner keeps a record of: its variables, its entries with  *)
(* a value for some of them, and the list that is read page by page        *)
(* (api/events.go; the assistant's tools in ai/tools.go run the same       *)
(* statements).  Names, notes and units are left out.  A value is known by *)
(* the edit that wrote it.                                                 *)
(***************************************************************************)
EXTENDS Integers, FiniteSets, FiniteSetsExt

CONSTANTS
  Loggers,      \* requests
  MostVariables,\* maxEventVariables
  PageSize,     \* entries on a page
  Instants,     \* times an entry may have
  MaxEntries,   \* bound: entries at a time
  MaxLoggings   \* bound: requests of one behaviour

ASSUME EventsAssumption ==
  /\ PageSize \in Nat \ {0} /\ MostVariables \in Nat /\ MostVariables >= 2
  /\ Instants \subseteq Nat \ {0}  \* 0 is no instant: a list at its start

Still == [step |-> "still"]
NoList == [open |-> FALSE, shown |-> {}, twice |-> FALSE, there |-> {}, cursor |-> 0, over |-> FALSE]

VARIABLES
  event,       \* whether it has a row
  variables,   \* [id, order] of event_variables
  entries,     \* [id, at, values] of event_entries, values a set of [variable, edit]
  logger,      \* [Loggers -> what an open request knows]
  loggings,    \* requests so far; the number of each names what it inserts
  reader,      \* a reading of the list: what it has shown, what has been there throughout
  met          \* subset of {"two additions", "two edits", "one instant"}: what has coincided

eventVars == <<event, variables, entries, logger, loggings, reader, met>>

Asks(l, job) ==
  /\ logger[l] = Still /\ loggings < MaxLoggings /\ loggings' = loggings + 1
  /\ logger' = [logger EXCEPT ![l] = job]
Goes(l, job) == logger' = [logger EXCEPT ![l] = job] /\ UNCHANGED loggings
Ended(l) == Goes(l, Still)
NewId == loggings + 3   \* beyond the ids of the variables an event is created with
EntryOf(id) == CHOOSE e \in entries : e.id = id
HasEntry(id) == \E e \in entries : e.id = id
Owned == {v.id : v \in variables}
\* The reader may count on what has been there, unmoved, since it began.
Touched(ids) == reader' = [reader EXCEPT !.there = @ \ ids]

----------------------------------------------------------------------------
\* createEventVariable and addEventVariableTool: the count, ...
CountVariables(l) ==
  /\ event /\ Cardinality(variables) < MostVariables
  /\ Asks(l, [step |-> "add", id |-> NewId, order |-> Cardinality(variables)])
  /\ UNCHANGED <<event, variables, entries, reader, met>>

\* ... and the insert, which takes the count for the order.
InsertVariable(l) ==
  /\ logger[l].step = "add"
  /\ variables' = IF event THEN variables \cup {[id |-> logger[l].id, order |-> logger[l].order]}
                  ELSE variables
  /\ Ended(l)
  /\ met' = met \cup (IF \E m \in Loggers \ {l} : logger[m].step = "add" THEN {"two additions"} ELSE {})
  /\ UNCHANGED <<event, entries, reader>>

\* deleteEventVariable: the values go with it
DeleteVariable(l) ==
  \E v \in variables :
    /\ Asks(l, Still)
    /\ variables' = variables \ {v}
    /\ entries' = {[e EXCEPT !.values = {x \in @ : x.variable # v.id}] : e \in entries}
    /\ UNCHANGED <<event, reader, met>>

DeleteEvent(l) ==
  /\ event /\ Asks(l, Still)
  /\ event' = FALSE /\ variables' = {} /\ entries' = {}
  /\ Touched(reader.there)
  /\ UNCHANGED met

\* createEventEntry, logEventTool and insertEventValues: one transaction
CreateEntry(l) ==
  \E at \in Instants, chosen \in SUBSET Owned :
    /\ event /\ Cardinality(entries) < MaxEntries
    /\ Asks(l, Still)
    /\ entries' = entries \cup {[id |-> NewId, at |-> at,
                                 values |-> {[variable |-> v, edit |-> NewId] : v \in chosen}]}
    /\ UNCHANGED <<event, variables, reader, met>>

\* updateEventEntry and updateEventEntryTool: the entry is there; one that
\* is given a time or a note holds the row from here on.
OpenEntry(l) ==
  \E e \in entries, moved \in Instants \cup {0}, chosen \in SUBSET Owned :
    /\ moved # 0 => \A m \in Loggers : logger[m].step \in {"clear", "waiting", "values"} =>
                                         logger[m].entry # e.id \/ logger[m].moved = 0
    /\ Asks(l, [step |-> "clear", entry |-> e.id, moved |-> moved, chosen |-> chosen, edit |-> NewId, cut |-> {}])
    /\ met' = met \cup (IF \E m \in Loggers \ {l} : logger[m].step \in {"clear", "waiting", "values"} THEN {"two edits"} ELSE {})
    /\ UNCHANGED <<event, variables, entries, reader>>

\* An edit that brings no values leaves those there are; the time it brings
\* waits for whoever holds the row.
MoveEntry(l) ==
  \E e \in entries, at \in Instants :
    /\ \A m \in Loggers : logger[m].step \in {"clear", "waiting", "values"} =>
                             logger[m].entry # e.id \/ logger[m].moved = 0
    /\ Asks(l, Still)
    /\ entries' = (entries \ {e}) \cup {[e EXCEPT !.at = at]}
    /\ Touched({e.id})
    /\ UNCHANGED <<event, variables, met>>

\* DELETE FROM event_entry_values sees the committed values, and waits for
\* whoever is deleting them; what that one inserts instead it does not see.
ClearValues(l) ==
  LET j == logger[l]
      seen == IF HasEntry(j.entry) THEN EntryOf(j.entry).values ELSE {}
      holders == {m \in Loggers \ {l} : logger[m].step = "values" /\ logger[m].entry = j.entry /\ logger[m].cut \cap seen # {}}
  IN /\ j.step = "clear"
     /\ Goes(l, [j EXCEPT !.step = IF holders = {} THEN "values" ELSE "waiting", !.cut = seen])
     /\ UNCHANGED <<event, variables, entries, reader, met>>

StopWaiting(l) ==
  LET j == logger[l] IN
  /\ j.step = "waiting"
  /\ ~\E m \in Loggers \ {l} : logger[m].step = "values" /\ logger[m].entry = j.entry /\ logger[m].cut \cap j.cut # {}
  /\ Goes(l, [j EXCEPT !.step = "values"])
  /\ UNCHANGED <<event, variables, entries, reader, met>>

InsertBeside(l) ==  \* mutant: the old values stay
  LET j == logger[l]
      kept == IF HasEntry(j.entry) THEN {x \in EntryOf(j.entry).values : x.variable \notin j.chosen} ELSE {}
  IN /\ j.step = "values"
     /\ IF HasEntry(j.entry) /\ j.chosen \subseteq Owned
          THEN /\ entries' = (entries \ {EntryOf(j.entry)}) \cup
                   {[EntryOf(j.entry) EXCEPT !.at = IF j.moved = 0 THEN @ ELSE j.moved,
                                             !.values = kept \cup {[variable |-> v, edit |-> j.edit] : v \in j.chosen}]}
               /\ Touched(IF j.moved = 0 THEN {} ELSE {j.entry})
          ELSE UNCHANGED <<entries, reader>>
     /\ Ended(l)
     /\ UNCHANGED <<event, variables, met>>

\* The inserts and the commit; a value another edit has committed meanwhile,
\* or a variable that is gone, undoes the whole edit.
InsertValues(l) ==
  LET j == logger[l]
      kept == IF HasEntry(j.entry) THEN EntryOf(j.entry).values \ j.cut ELSE {}
      taken == \E x \in kept : x.variable \in j.chosen
  IN /\ j.step = "values"
     /\ IF HasEntry(j.entry) /\ ~taken /\ j.chosen \subseteq Owned
          THEN /\ entries' = (entries \ {EntryOf(j.entry)}) \cup
                   {[EntryOf(j.entry) EXCEPT !.at = IF j.moved = 0 THEN @ ELSE j.moved,
                                             !.values = kept \cup {[variable |-> v, edit |-> j.edit] : v \in j.chosen}]}
               /\ Touched(IF j.moved = 0 THEN {} ELSE {j.entry})
          ELSE UNCHANGED <<entries, reader>>
     /\ Ended(l)
     /\ UNCHANGED <<event, variables, met>>

DeleteEntry(l) ==
  \E e \in entries :
    /\ Asks(l, Still)
    /\ entries' = entries \ {e}
    /\ Touched({e.id})
    /\ UNCHANGED <<event, variables, met>>

\* The request is cancelled: its transaction is rolled back.
CancelLogging(l) ==
  /\ logger[l] # Still /\ Ended(l)
  /\ UNCHANGED <<event, variables, entries, reader, met>>

----------------------------------------------------------------------------
\* listEventEntries: latest first, then by id; the next page begins below the
\* time of the last entry shown.
Later(e, f) == e.at > f.at \/ (e.at = f.at /\ e.id > f.id)
Earlier(e, rows) == Cardinality({f \in rows : Later(f, e)})

PageInclusive(cursor) ==  \* mutant: the cursor itself again
  LET rows == {e \in entries : cursor = 0 \/ e.at <= cursor} IN {e \in rows : Earlier(e, rows) < PageSize}

Page(cursor) ==
  LET rows == {e \in entries : cursor = 0 \/ e.at < cursor} IN {e \in rows : Earlier(e, rows) < PageSize}

ReadPage ==
  LET page == Page(reader.cursor)
      rest == {e \in entries : reader.cursor = 0 \/ e.at < reader.cursor} \ page
      end == IF page = {} THEN reader.cursor ELSE Min({e.at : e \in page})
      there == IF reader.open THEN reader.there ELSE {e.id : e \in entries}
  IN /\ event /\ ~reader.over
     /\ reader' = [open |-> TRUE, shown |-> reader.shown \cup {e.id : e \in page},
                   twice |-> reader.twice \/ \E e \in page : e.id \in reader.shown \cap there,
                   there |-> there, cursor |-> end, over |-> rest = {}]
     /\ met' = met \cup (IF \E e \in rest : e.at = end THEN {"one instant"} ELSE {})
     /\ UNCHANGED <<event, variables, entries, logger, loggings>>

\* createEvent, with some of its variables, and nothing recorded yet; or two
\* entries without values, and somebody who reads the list.
EventsStart ==
  /\ event = TRUE
  /\ \/ /\ variables \in {{[id |-> 1, order |-> 0]}, {[id |-> 1, order |-> 0], [id |-> 2, order |-> 1]}}
        /\ entries = {} /\ reader = [NoList EXCEPT !.over = TRUE]
     \/ /\ variables = {} /\ reader = NoList
        /\ entries \in {{[id |-> 1, at |-> t, values |-> {}], [id |-> 2, at |-> u, values |-> {}]} : t, u \in Instants}
  /\ logger = [l \in Loggers |-> Still] /\ loggings = 0 /\ met = {}

EventsNext ==
  \/ \E l \in Loggers :
       \/ CountVariables(l) \/ InsertVariable(l) \/ DeleteVariable(l) \/ DeleteEvent(l)
       \/ CreateEntry(l) \/ OpenEntry(l) \/ MoveEntry(l) \/ ClearValues(l) \/ StopWaiting(l)
       \/ InsertValues(l) \/ DeleteEntry(l) \/ CancelLogging(l)
  \/ ReadPage

EventsSpec == EventsStart /\ [][EventsNext]_eventVars

(***************************************************************************)
(* An event has at most six variables unless two additions were counted at *)
(* the same time, and an entry holds the values of one edit unless two     *)
(* edits crossed: whatever waits for whose locks, an edit that did not     *)
(* cross another replaces every value, one that fails none.                *)
(***************************************************************************)
OneEditHolds ==
  /\ Cardinality(variables) > MostVariables => "two additions" \in met
  /\ \A e \in entries : Cardinality({x.edit : x \in e.values}) > 1 => "two edits" \in met

(***************************************************************************)
(* The pages of the list show every entry that stands from the first page  *)
(* to the last exactly once, whatever is added, moved or deleted meanwhile,*)
(* unless entries of one instant lie on both sides of a page's end.        *)
(***************************************************************************)
PagesShowAll ==
  /\ ~reader.twice
  /\ reader.over /\ "one instant" \notin met => reader.there \subseteq reader.shown

\* An event's rows and the pages that list them hold together: both of the
\* above.
EventsHold == OneEditHolds /\ PagesShowAll

=============================================================================
