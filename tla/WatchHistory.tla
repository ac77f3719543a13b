---------------------------- MODULE WatchHistory ----------------------------
(***************************************************************************)
(* One show of the library and its watch history: saving it, editing it,   *)
(* the assistant's add_media, the merging of progress entries and the      *)
(* weekly look for new seasons (api/media.go, api/media_progress.go,       *)
(* api/media_refresh.go, ai/tools.go).                                     *)
(*                                                                         *)
(* Progress is measured in seasons; episodes run the same code.  Titles,   *)
(* ratings, tags and the release date (module Releases) are left out;      *)
(* "other" stands for the statuses that write no entry.                    *)
(***************************************************************************)
EXTENDS Integers, Sequences, FiniteSets, SequencesExt

CONSTANTS
  Viewers,     \* requests of the app, the assistant or the refresh
  Aired,       \* bound: seasons there will ever be
  MaxViews,    \* bound: requests of one behaviour
  Absent        \* no row of the show

ASSUME WatchAssumption ==
  /\ Aired \in Nat
  /\ Absent \notin [status : {"begun", "complete", "other", "new_season"},
                   watched : Nat, seasons : Nat, checked : BOOLEAN]

Idling == [step |-> "idle"]
Unsent == "unsent"
NotSent == -1
Chosen == {"begun", "complete", "other"}   \* what a request may ask for

VARIABLES
  show,        \* Absent or [status, watched, seasons, checked]
  copies,      \* rows of this title; the first one is followed
  history,     \* the show's entries, oldest first; readers: whose UPDATE or DELETE has the id
  viewing,     \* [Viewers -> what an open request knows]
  views,       \* requests left
  aired,       \* seasons TMDB lists
  newest,      \* the number of seasons the owner was told of, or has set below that
  upheavals,     \* subset of {"crossed", "cut", "refreshed twice", "announced twice"}
  finishes     \* times a request has made the show complete

watchVars == <<show, copies, history, viewing, views, aired, newest, upheavals, finishes>>

Begins(v) == viewing[v] = Idling /\ views > 0 /\ views' = views - 1
NobodyWatches == \A v \in Viewers : viewing[v] = Idling
Moves(v, state) == viewing' = [viewing EXCEPT ![v] = state]
\* Two requests at a time excuse what either of them read too early.
Crossing(v) == upheavals' = IF \E w \in Viewers \ {v} : viewing[w] # Idling THEN upheavals \cup {"crossed"} ELSE upheavals

Entry(kind) == [kind |-> kind, from |-> 0, to |-> 0, old |-> FALSE, readers |-> {}]
Logged(status) ==   \* the entry a change of status writes
  CASE status = "begun" -> <<Entry("started")>>
    [] status = "complete" -> <<Entry("completed")>>
    [] OTHER -> <<>>

Found == show # Absent   \* a row of the same title and year, or from the same source

\* createMedia and the insert of add_media: looked for, not found.  It is
\* saved with nothing watched yet.
LookForCopy(v) ==
  /\ Begins(v) /\ ~Found
  /\ \E status \in Chosen, seasons \in 0..1 :
       Moves(v, [step |-> "new", status |-> status, seasons |-> seasons])
  /\ Crossing(v)
  /\ UNCHANGED <<show, copies, history, aired, newest, finishes>>

\* The insert, and the entries in statements of their own.
SaveShow(v) ==
  LET new == viewing[v] IN
  /\ new.step = "new"
  /\ copies' = copies + 1
  /\ IF show # Absent THEN UNCHANGED <<show, history, newest, finishes>>
     ELSE /\ show' = [status |-> new.status, watched |-> 0, seasons |-> new.seasons, checked |-> FALSE]
          /\ history' = <<Entry("added")>> \o Logged(new.status)
          /\ newest' = 0
          /\ finishes' = IF new.status = "complete" THEN 1 ELSE 0
  /\ Moves(v, Idling)
  /\ UNCHANGED <<views, aired, upheavals>>

\* updateMedia: the snapshot everything else is compared with.  A correction
\* of the number of seasons is sent by itself here.
ReadShow(v) ==
  /\ Begins(v) /\ show # Absent
  /\ \E status \in Chosen \cup {Unsent, "new_season"}, watched, seasons \in (0..Aired) \cup {NotSent} :
       LET given(x, old) == IF x = NotSent THEN old ELSE x
           total == given(seasons, show.seasons)
       IN /\ status = "new_season" => show.status = "new_season"
          /\ seasons # NotSent <=> (status = Unsent /\ watched = NotSent)
          /\ total > 0 => given(watched, show.watched) <= total
          /\ Moves(v, [step |-> "read", status |-> status, watched |-> watched, seasons |-> seasons,
                       was |-> show.status, stood |-> show.watched])
  /\ Crossing(v)
  /\ UNCHANGED <<show, copies, history, aired, newest, finishes>>

Turned(status) == IF show.status # "complete" /\ status = "complete" THEN finishes + 1 ELSE finishes

WriteShow(v) ==
  LET e == viewing[v] IN
  /\ e.step = "read"
  /\ show' = [show EXCEPT !.status = IF e.status = Unsent THEN @ ELSE e.status,
                          !.watched = IF e.watched = NotSent THEN @ ELSE e.watched,
                          !.seasons = IF e.seasons = NotSent THEN @ ELSE e.seasons]
  /\ newest' = IF e.seasons \in 0..newest THEN e.seasons ELSE newest
  /\ finishes' = Turned(show'.status)
  /\ Moves(v, [e EXCEPT !.step = "written"])
  /\ UNCHANGED <<copies, history, views, aired, upheavals>>

\* The row as it is now against the snapshot: a new status writes its entry,
\* a new position alone goes on to the progress entries.
CompareShow(v) ==
  LET e == viewing[v] IN
  /\ e.step = "written"
  /\ history' = IF show.status # e.was THEN history \o Logged(show.status) ELSE history
  /\ Moves(v, IF show.status = e.was /\ show.watched # e.stood
                THEN [step |-> "progress", from |-> e.stood, to |-> show.watched]
                ELSE Idling)
  /\ UNCHANGED <<show, copies, views, aired, newest, upheavals, finishes>>

NeverOpen == FALSE  \* mutant: a run is never continued

\* The latest entry, when it is one of progress younger than half an hour.
OpenRun == history # <<>> /\ Last(history).kind = "progress" /\ ~Last(history).old

\* logMediaProgress: the read of the latest entry, ...
ReadRun(v) ==
  LET p == viewing[v] IN
  /\ p.step = "progress"
  /\ IF OpenRun
       THEN /\ Moves(v, [step |-> "merge", to |-> p.to])
            /\ history' = [history EXCEPT ![Len(history)].readers = @ \cup {v}]
       ELSE /\ Moves(v, IF p.to > p.from THEN [p EXCEPT !.step = "begin"] ELSE Idling)
            /\ UNCHANGED history
  /\ UNCHANGED <<show, copies, views, aired, newest, upheavals, finishes>>

\* ... and planProgress: the open run goes on, and is the latest again, or is
\* dropped once stepped back to its start, if it is still there; ...
MergeRun(v) ==
  LET p == viewing[v]
      read == {i \in DOMAIN history : v \in history[i].readers}
      i == CHOOSE i \in read : TRUE
      run == [history[i] EXCEPT !.to = p.to, !.old = FALSE, !.readers = @ \ {v}]
  IN /\ p.step = "merge"
     /\ history' = IF read = {} THEN history
                   ELSE IF p.to <= run.from THEN RemoveAt(history, i)
                   ELSE Append(RemoveAt(history, i), run)
     /\ Moves(v, Idling)
     /\ UNCHANGED <<show, copies, views, aired, newest, upheavals, finishes>>

\* ... or a new one begins.
BeginRun(v) ==
  LET p == viewing[v] IN
  /\ p.step = "begin"
  /\ history' = Append(history, [Entry("progress") EXCEPT !.from = p.from, !.to = p.to])
  /\ Moves(v, Idling)
  /\ UNCHANGED <<show, copies, views, aired, newest, upheavals, finishes>>

\* add_media of a title that is there: one read, one write, one entry.
LookForShow(v) ==
  /\ Begins(v) /\ show # Absent
  /\ \E status \in Chosen : Moves(v, [step |-> "again", status |-> status, was |-> show.status])
  /\ Crossing(v)
  /\ UNCHANGED <<show, copies, history, aired, newest, finishes>>

SaveAgain(v) ==
  LET e == viewing[v] IN
  /\ e.step = "again"
  /\ show' = [show EXCEPT !.status = e.status]
  /\ history' = IF e.status = e.was THEN history ELSE history \o Logged(e.status)
  /\ finishes' = Turned(e.status)
  /\ Moves(v, Idling)
  /\ UNCHANGED <<copies, views, aired, newest, upheavals>>

\* staleCompletedShows: complete, and not checked within a week.
LookStale(v) ==
  /\ Begins(v) /\ show # Absent /\ show.status = "complete" /\ ~show.checked
  /\ Moves(v, [step |-> "fetch", had |-> show.seasons])
  /\ upheavals' = upheavals \cup (IF \E w \in Viewers \ {v} : viewing[w] # Idling THEN {"crossed"} ELSE {})
                        \cup (IF \E w \in Viewers \ {v} : viewing[w].step = "fetch" THEN {"refreshed twice"} ELSE {})
  /\ UNCHANGED <<show, copies, history, aired, newest, finishes>>

ApplyRefreshForgets(v) ==  \* mutant: the seasons are announced and not stored
  LET had == viewing[v].had IN
  /\ viewing[v].step = "fetch"
  /\ IF show.status # "complete" THEN UNCHANGED <<show, history, newest, upheavals>>
     ELSE LET again == aired > had /\ had > 0
          IN /\ show' = [show EXCEPT !.checked = TRUE, !.status = IF again THEN "new_season" ELSE @]
             /\ history' = IF again THEN Append(history, Entry("new_season")) ELSE history
             /\ newest' = IF again THEN aired ELSE newest
             /\ upheavals' = IF again /\ aired <= newest THEN upheavals \cup {"announced twice"} ELSE upheavals
  /\ Moves(v, Idling)
  /\ UNCHANGED <<copies, views, aired, finishes>>

\* TMDB's answer against what the row had when it was looked up, applied to a
\* row that is still complete: checked, a baseline, or a new season.
ApplyRefresh(v) ==
  LET had == viewing[v].had IN
  /\ viewing[v].step = "fetch"
  /\ IF show.status # "complete" THEN UNCHANGED <<show, history, newest, upheavals>>
     ELSE LET found == aired > had
              again == found /\ had > 0
          IN /\ show' = [show EXCEPT !.checked = TRUE, !.seasons = IF found THEN aired ELSE @,
                                     !.status = IF again THEN "new_season" ELSE @]
             /\ history' = IF again THEN Append(history, Entry("new_season")) ELSE history
             /\ newest' = IF found THEN aired ELSE newest
             /\ upheavals' = IF again /\ aired <= newest THEN upheavals \cup {"announced twice"} ELSE upheavals
  /\ Moves(v, Idling)
  /\ UNCHANGED <<copies, views, aired, finishes>>

\* TMDB fails, or the process stops: whatever was still to be written is not.
BreaksOff(v) ==
  /\ viewing[v] # Idling
  /\ Moves(v, Idling)
  /\ upheavals' = IF viewing[v].step = "fetch" THEN upheavals ELSE upheavals \cup {"cut"}
  /\ history' = [i \in DOMAIN history |-> [history[i] EXCEPT !.readers = @ \ {v}]]
  /\ UNCHANGED <<show, copies, views, aired, newest, finishes>>

\* Entries cascade.  What an open request still writes to the row, or to its
\* history, finds nothing.
DeleteShow(v) ==
  /\ Begins(v) /\ show # Absent
  /\ show' = Absent /\ history' = <<>> /\ copies' = copies - 1
  /\ newest' = 0 /\ finishes' = 0
  /\ viewing' = [w \in Viewers |-> IF viewing[w].step = "new" THEN viewing[w] ELSE Idling]
  /\ Crossing(v)
  /\ UNCHANGED aired

SeasonAirs == aired < Aired /\ aired' = aired + 1 /\ UNCHANGED <<show, copies, history, viewing, views, newest, upheavals, finishes>>

HalfHourPasses ==
  /\ \E i \in DOMAIN history : ~history[i].old
  /\ history' = [i \in DOMAIN history |-> [history[i] EXCEPT !.old = TRUE]]
  /\ UNCHANGED <<show, copies, viewing, views, aired, newest, upheavals, finishes>>

WeekPasses ==
  /\ show # Absent /\ show.checked
  /\ show' = [show EXCEPT !.checked = FALSE]
  /\ UNCHANGED <<copies, history, viewing, views, aired, newest, upheavals, finishes>>

\* Nothing saved yet, or a show of one season that a request before these has
\* saved as watched to the end.
WatchStart(saved) ==
  /\ show = IF saved THEN [status |-> "complete", watched |-> 1, seasons |-> 1, checked |-> FALSE] ELSE Absent
  /\ history = IF saved THEN <<[Entry("completed") EXCEPT !.old = TRUE]>> ELSE <<>>
  /\ copies = IF saved THEN 1 ELSE 0
  /\ viewing = [v \in Viewers |-> Idling]
  /\ views = IF saved THEN MaxViews - 1 ELSE MaxViews
  /\ aired = 1
  /\ newest = 0
  /\ upheavals = {} /\ finishes = IF saved THEN 1 ELSE 0

WatchInit == \E saved \in BOOLEAN : WatchStart(saved)

WatchNext ==
  \/ \E v \in Viewers :
       \/ LookForCopy(v) \/ SaveShow(v) \/ ReadShow(v) \/ WriteShow(v) \/ CompareShow(v)
       \/ ReadRun(v) \/ MergeRun(v) \/ BeginRun(v)
       \/ LookForShow(v) \/ SaveAgain(v) \/ LookStale(v) \/ ApplyRefresh(v) \/ BreaksOff(v) \/ DeleteShow(v)
  \/ SeasonAirs \/ HalfHourPasses \/ WeekPasses

WatchSpec == WatchInit /\ [][WatchNext]_watchVars

-----------------------------------------------------------------------------

Completions == Cardinality({i \in DOMAIN history : history[i].kind = "completed"})

\* "One S1E3 -> S1E7 entry, not four": no two progress entries in a row of the
\* same half hour.
NoSplitRun ==
  \A i \in DOMAIN history : i > 1 =>
    ~(history[i].kind = "progress" /\ history[i - 1].kind = "progress" /\ ~history[i - 1].old)

\* The yearly counts read the history: unless two requests were open together,
\* the title is saved once, no sitting is split and, if none was cut off either,
\* every time the show became complete has its entry and no other.
HistoryIsTrue ==
  "crossed" \notin upheavals =>
    /\ copies <= 1
    /\ NoSplitRun
    /\ "cut" \notin upheavals /\ NobodyWatches => Completions = finishes

\* A season is announced once, unless two refreshes looked before either wrote.
AnnouncedOneTime == "announced twice" \in upheavals => "refreshed twice" \in upheavals

\* What was watched is told once and as it was, new seasons included.
WatchedAsTold == HistoryIsTrue /\ AnnouncedOneTime

=============================================================================
