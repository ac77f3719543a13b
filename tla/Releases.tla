------------------------------ MODULE Releases ------------------------------
(***************************************************************************)
(* The release date of one saved film or show: its Upcoming status, the    *)
(* move to the pending queue, and the notice of the day before             *)
(* (api/media.go, api/media_releases.go, media/status.go, ai/tools.go).    *)
(*                                                                         *)
(* Dates are days counted from 0.  Of the lifecycle only "upcoming",       *)
(* "pending" and "begun" (every other status) are told apart.  The type    *)
(* stays one that can be released.                                         *)
(***************************************************************************)
EXTENDS Integers, FiniteSets

CONSTANTS
  Curators,     \* requests that edit the title, of the app or the assistant
  Announcers,   \* runs of the release job
  LastRelease,  \* bound: the last day
  MaxCurated,   \* bound: edits
  NoDate        \* an edit that leaves the date alone

ASSUME ReleasesAssumption == LastRelease \in Nat /\ NoDate \notin Int

ReleaseDays == 0..LastRelease
Undated == -1
Resting == [step |-> "idle"]
Keeping == "kept"
Some == 2                  \* bound: two notices or more count alike

VARIABLES
  localDate,   \* the owner's date
  title,       \* [status, date, reminded]; a date is Undated when NULL
  hold,        \* release_reminder_claimed_until: "free", "live" or "lapsed"
  curating,    \* [Curators -> the edit it has resolved on the row it read]
  telling,     \* [Announcers -> what it does about the claim it took]
  curated,     \* edits left
  heard,       \* notices since the date was last changed
  released,    \* 'released' entries since the date was last changed
  slips        \* subset of {"crossed", "late"}: what went wrong around it

releaseVars == <<localDate, title, hold, curating, telling, curated, heard, released, slips>>

ResolveStatusEarly(requested, date) ==  \* mutant: the release day itself still counts as ahead
  IF date # Undated /\ date >= localDate THEN "upcoming"
  ELSE IF requested = "upcoming" THEN "pending" ELSE requested

\* Upcoming belongs to the date, not to the client.
ResolveStatus(requested, date) ==
  IF date > localDate THEN "upcoming"
  ELSE IF requested = "upcoming" THEN "pending" ELSE requested

\* Open edits have read what now changes.
Overtaken(those) ==
  [c \in Curators |-> IF c \in those /\ curating[c] # Resting THEN [curating[c] EXCEPT !.old = TRUE] ELSE curating[c]]
More(count) == IF count < Some THEN count + 1 ELSE Some

Lifecycle == {"upcoming", "pending", "begun"}

Changed(changes) ==
  [title EXCEPT !.status = IF changes.status = Keeping THEN @ ELSE changes.status,
                !.date = IF changes.date = NoDate THEN @ ELSE changes.date]

Reads(c, status, date) ==
  /\ curating[c] = Resting /\ curated > 0
  /\ curated' = curated - 1
  /\ curating' = [curating EXCEPT ![c] = [step |-> "resolved", status |-> status, date |-> date, old |-> FALSE]]
  /\ UNCHANGED <<localDate, title, hold, telling, heard, released, slips>>

\* updateMedia resolves what was sent against a snapshot and writes only what
\* was sent, and the status when the date decides otherwise.
EditTitle(c) ==
  \E status \in Lifecycle \cup {Keeping}, date \in ReleaseDays \cup {Undated, NoDate} :
    LET requested == IF status = Keeping THEN title.status ELSE status
        resolved == ResolveStatus(requested, IF date = NoDate THEN title.date ELSE date)
        writes == status # Keeping \/ resolved # title.status
    IN /\ ~(status = Keeping /\ date = NoDate)
       /\ Reads(c, IF writes THEN resolved ELSE Keeping, date)

\* The assistant's add_media of a title that is there: it always writes both,
\* the date it read when none was given (NULL keeps the one there is).
AddAgain(c) ==
  \E status \in Lifecycle, date \in ReleaseDays \cup {NoDate} :
    LET given == IF date = NoDate THEN title.date ELSE date
    IN Reads(c, ResolveStatus(status, given), IF given = Undated THEN NoDate ELSE given)

WriteTitle(c) ==
  /\ curating[c].step = "resolved"
  /\ LET new == Changed(curating[c])
         moved == new.date # title.date
     IN /\ title' = new
        /\ heard' = IF moved THEN 0 ELSE heard
        /\ released' = IF moved THEN 0 ELSE released
        /\ slips' = IF curating[c].old THEN slips \cup {"crossed"} ELSE slips
  /\ curating' = [Overtaken(IF title' = title THEN {} ELSE Curators) EXCEPT ![c] = Resting]
  /\ UNCHANGED <<localDate, hold, telling, curated>>

Reached == title.status = "upcoming" /\ title.date # Undated /\ title.date <= localDate

GraduateNextDay ==  \* mutant: the release day itself does not count
  /\ title.status = "upcoming" /\ title.date # Undated /\ title.date < localDate
  /\ title' = [title EXCEPT !.status = "pending"]
  /\ hold' = "free"
  /\ released' = More(released)
  /\ curating' = Overtaken(Curators)
  /\ UNCHANGED <<localDate, telling, curated, heard, slips>>

\* graduateReleasedMedia: one statement moves the row and logs the release,
\* on the hourly sweep and on every read of the library.
Graduate ==
  /\ Reached
  /\ title' = [title EXCEPT !.status = "pending"]
  /\ hold' = "free"
  /\ released' = More(released)
  /\ curating' = Overtaken(Curators)
  /\ UNCHANGED <<localDate, telling, curated, heard, slips>>

DueTomorrow == title.status = "upcoming" /\ title.date = localDate + 1

ClaimAnyHold(a) ==  \* mutant: a live claim is taken over
  /\ telling[a] = Resting
  /\ DueTomorrow /\ title.reminded # title.date
  /\ hold' = "live"
  /\ telling' = [telling EXCEPT ![a] = [step |-> "claimed", date |-> title.date]]
  /\ UNCHANGED <<localDate, title, curating, curated, heard, released, slips>>

ClaimRelease(a) ==
  /\ telling[a] = Resting
  /\ DueTomorrow /\ title.reminded # title.date
  /\ hold # "live"
  /\ hold' = "live"
  /\ telling' = [telling EXCEPT ![a] = [step |-> "claimed", date |-> title.date]]
  /\ UNCHANGED <<localDate, title, curating, curated, heard, released, slips>>

\* Push or the email arrives.
TellRelease(a) ==
  /\ telling[a].step = "claimed"
  /\ heard' = IF telling[a].date = title.date THEN More(heard) ELSE heard
  /\ telling' = [telling EXCEPT ![a].step = "told"]
  /\ UNCHANGED <<localDate, title, hold, curating, curated, released, slips>>

\* Nothing arrives: the claim is released, whoever holds it now.
GiveUp(a) ==
  /\ telling[a].step = "claimed"
  /\ hold' = "free"
  /\ telling' = [telling EXCEPT ![a] = Resting]
  /\ UNCHANGED <<localDate, title, curating, curated, heard, released, slips>>

\* The stamp needs the date that was told; without it the claim lapses by itself.
StampRelease(a) ==
  /\ telling[a].step = "told"
  /\ IF title.status = "upcoming" /\ title.date = telling[a].date /\ title.reminded # title.date
       THEN title' = [title EXCEPT !.reminded = title.date] /\ hold' = "free"
       ELSE UNCHANGED <<title, hold>>
  /\ telling' = [telling EXCEPT ![a] = Resting]
  /\ UNCHANGED <<localDate, curating, curated, heard, released, slips>>

\* The process stops: it stamps nothing and releases nothing.
StopAnnouncer(a) ==
  /\ telling[a] # Resting
  /\ telling' = [telling EXCEPT ![a] = Resting]
  /\ slips' = slips \cup {"late"}
  /\ UNCHANGED <<localDate, title, hold, curating, curated, heard, released>>

\* Five minutes after the claim.
HoldLapses ==
  /\ hold = "live"
  /\ hold' = "lapsed"
  /\ slips' = IF \E a \in Announcers : telling[a] # Resting THEN slips \cup {"late"} ELSE slips
  /\ UNCHANGED <<localDate, title, curating, telling, curated, heard, released>>

\* The notices go out at 10:00, so no claim is open at midnight; an edit may be.
NextMidnight ==
  /\ localDate < LastRelease
  /\ hold # "live" /\ \A a \in Announcers : telling[a] = Resting
  /\ localDate' = localDate + 1
  /\ curating' = Overtaken(Curators)
  /\ UNCHANGED <<title, hold, telling, curated, heard, released, slips>>

\* createMedia resolves the status as an edit does.
ReleasesStart(dates) ==
  /\ localDate = 0
  /\ \E date \in dates, status \in Lifecycle :
       title = [status |-> ResolveStatus(status, date), date |-> date, reminded |-> Undated]
  /\ hold = "free"
  /\ curating = [c \in Curators |-> Resting]
  /\ telling = [a \in Announcers |-> Resting]
  /\ curated = MaxCurated
  /\ heard = 0 /\ released = 0 /\ slips = {}

ReleasesRest == title = [status |-> "begun", date |-> Undated, reminded |-> Undated] /\ ReleasesStart({Undated})
ReleasesInit == ReleasesStart({LastRelease, Undated})

ReleasesNext ==
  \/ \E c \in Curators : EditTitle(c) \/ AddAgain(c) \/ WriteTitle(c)
  \/ \E a \in Announcers :
       ClaimRelease(a) \/ TellRelease(a) \/ GiveUp(a) \/ StampRelease(a) \/ StopAnnouncer(a)
  \/ Graduate \/ HoldLapses \/ NextMidnight

\* The hourly ticker of cmd/main.go runs the sweep whatever else happens.
ReleasesSpec == ReleasesInit /\ [][ReleasesNext]_releaseVars /\ WF_releaseVars(Graduate)

-----------------------------------------------------------------------------

\* The owner hears of a date once, unless the process died or was slower than
\* the lease of its claim, or a request wrote over what it had not seen.
HeardOnce == heard > 1 => slips # {}

\* A title is Upcoming exactly while its date is ahead (up to the sweep that
\* follows midnight) and its release is logged once per date, unless an edit
\* wrote what it had resolved on an older row.
ReleasedOnce ==
  "crossed" \notin slips =>
    /\ released <= 1
    /\ title.date > localDate => title.status = "upcoming"
    /\ title.status = "upcoming" => title.date # Undated
    /\ released = 1 => ~Reached

\* "A movie or show cannot remain stale merely because a scheduled sweep was
\* delayed": a date that is reached does not stay Upcoming for ever.
LeavesUpcoming == Reached ~> ~Reached

\* A release is told of once, and a title is released once, however edits, the
\* assistant, the graduating sweep and the announcing job interleave.
ReleaseToldOnce == HeardOnce /\ ReleasedOnce

=============================================================================
