---------------------------- MODULE CalendarProofs ----------------------------
(***************************************************************************)
(* Proofs about what happens on dates: the release of a title (Releases)   *)
(* and its watch history (WatchHistory), the check-ins of a habit (Habits) *)
(* and the entries of an event (Events), for any number of requests and    *)
(* jobs at once.                                                           *)
(***************************************************************************)
EXTENDS Releases, WatchHistory, Habits, Events, SequenceTheorems, SetLemmas, TLAPS

(* What an edit leaves of the row it has resolved.                         *)
StatusAfter(c) == IF curating[c].status = Keeping THEN title.status ELSE curating[c].status
DateAfter(c) == IF curating[c].date = NoDate THEN title.date ELSE curating[c].date
Editing(c) == curating[c] # Resting

(* What is left of an edit that was open.                                  *)
Remains(e, c, those) ==
  /\ DOMAIN e = {"step", "status", "date", "old"}
  /\ e.step = curating[c].step /\ e.status = curating[c].status /\ e.date = curating[c].date
  /\ e.old \in BOOLEAN
  /\ e.old = FALSE => c \notin those /\ e = curating[c]
Announcing(a) == telling[a] # Resting

ReleaseTypes ==
  /\ localDate \in Nat /\ heard \in {0, 1, 2} /\ released \in {0, 1, 2}
  /\ DOMAIN title = {"status", "date", "reminded"}
  /\ title.status \in Lifecycle /\ title.date \in Int /\ title.reminded \in Int
  /\ DOMAIN curating = Curators /\ DOMAIN telling = Announcers
  /\ \A c \in Curators : Editing(c) =>
       /\ DOMAIN curating[c] = {"step", "status", "date", "old"}
       /\ curating[c].step = "resolved"
       /\ curating[c].status \in Lifecycle \cup {Keeping}
       /\ curating[c].date \in Int \cup {NoDate}
       /\ curating[c].old \in BOOLEAN
  /\ \A a \in Announcers : Announcing(a) =>
       /\ DOMAIN telling[a] = {"step", "date"}
       /\ telling[a].step \in {"claimed", "told"} /\ telling[a].date \in Int

(* What an edit has resolved agrees with its date, while it is not         *)
(* overtaken.                                                              *)
ResolvedWell ==
  \A c \in Curators : Editing(c) /\ curating[c].old = FALSE =>
    (StatusAfter(c) = "upcoming" <=> DateAfter(c) > localDate)

(* A release that was logged is of a date that has come.                   *)
InTime ==
  "crossed" \notin slips =>
    /\ released <= 1
    /\ released # 0 => title.date <= localDate /\ title.status # "upcoming"
    /\ title.date > localDate => title.status = "upcoming"
    /\ title.status = "upcoming" => title.date # Undated

(* One announcer at a time, who holds the claim; the owner has heard only  *)
(* of a date that is stamped, or is about to be.                           *)
HeardOf ==
  slips = {} =>
    /\ \A a, b \in Announcers : Announcing(a) /\ Announcing(b) => a = b
    /\ \A a \in Announcers : Announcing(a) =>
         /\ hold = "live" /\ ~Reached
         /\ telling[a].date = localDate + 1
         /\ telling[a].step = "claimed" =>
              title.reminded # telling[a].date /\ (telling[a].date = title.date => heard = 0)
    /\ heard \in {0, 1}
    /\ heard # 0 => \/ title.reminded = title.date
                    \/ \E a \in Announcers :
                         Announcing(a) /\ telling[a].step = "told" /\ telling[a].date = title.date

ReleaseInv == ReleaseTypes /\ ResolvedWell /\ InTime /\ HeardOf

LEMMA ReleaseInvInit == ReleasesInit => ReleaseInv
<1> SUFFICES ASSUME ReleasesInit PROVE ReleaseInv
  OBVIOUS
<1>1. /\ localDate = 0 /\ heard = 0 /\ released = 0 /\ slips = {}
      /\ \A c \in Curators : ~Editing(c)
      /\ \A a \in Announcers : ~Announcing(a)
      /\ DOMAIN curating = Curators /\ DOMAIN telling = Announcers
  BY DEF ReleasesInit, ReleasesStart, Editing, Announcing
<1>2. PICK date \in {LastRelease, Undated}, status \in Lifecycle :
        title = [status |-> ResolveStatus(status, date), date |-> date, reminded |-> Undated]
  BY DEF ReleasesInit, ReleasesStart
<1>3. /\ DOMAIN title = {"status", "date", "reminded"} /\ title.status = ResolveStatus(status, date)
      /\ title.date = date /\ title.reminded = Undated /\ date \in Int
  BY <1>2, ReleasesAssumption DEF Undated
<1>4. title.status \in Lifecycle /\ (title.status = "upcoming" <=> date > 0)
  BY <1>1, <1>3 DEF ResolveStatus, Lifecycle
<1>5. ReleaseTypes
  BY <1>1, <1>3, <1>4 DEF ReleaseTypes, Undated
<1>6. ResolvedWell /\ InTime /\ HeardOf
  BY <1>1, <1>3, <1>4 DEF ResolvedWell, InTime, HeardOf, Undated
<1>7. QED  BY <1>5, <1>6 DEF ReleaseInv

(* An edit that has read the row.                                          *)
LEMMA ReadKeepsReleases ==
  ASSUME ReleaseInv, NEW c \in Curators, NEW status \in Lifecycle \cup {Keeping},
         NEW date \in Int \cup {NoDate}, Reads(c, status, date),
         (IF status = Keeping THEN title.status ELSE status) = "upcoming"
           <=> (IF date = NoDate THEN title.date ELSE date) > localDate
  PROVE  ReleaseInv'
<1> DEFINE new == [step |-> "resolved", status |-> status, date |-> date, old |-> FALSE]
<1>1. /\ curating' = [curating EXCEPT ![c] = new]
      /\ UNCHANGED <<localDate, title, hold, telling, heard, released, slips>>
  BY DEF Reads
<1>2. /\ new # Resting /\ DOMAIN new = {"step", "status", "date", "old"} /\ new.step = "resolved"
      /\ new.status = status /\ new.date = date /\ new.old = FALSE
  BY DEF Resting
<1> HIDE DEF new
<1>3. /\ DOMAIN curating' = Curators /\ curating'[c] = new
      /\ \A d \in Curators \ {c} : curating'[d] = curating[d]
  BY <1>1 DEF ReleaseInv, ReleaseTypes
<1>4. ReleaseTypes'
  <2>1. \A d \in Curators : Editing(d)' =>
          /\ DOMAIN curating'[d] = {"step", "status", "date", "old"}
          /\ curating'[d].step = "resolved"
          /\ curating'[d].status \in Lifecycle \cup {Keeping}
          /\ curating'[d].date \in Int \cup {NoDate}
          /\ curating'[d].old \in BOOLEAN
    <3> SUFFICES ASSUME NEW d \in Curators, Editing(d)'
                 PROVE  /\ DOMAIN curating'[d] = {"step", "status", "date", "old"}
                        /\ curating'[d].step = "resolved"
                        /\ curating'[d].status \in Lifecycle \cup {Keeping}
                        /\ curating'[d].date \in Int \cup {NoDate}
                        /\ curating'[d].old \in BOOLEAN
      OBVIOUS
    <3>1. CASE d = c
      BY <1>2, <1>3, <3>1
    <3>2. CASE d # c
      <4>1. curating'[d] = curating[d]
        BY <1>3, <3>2
      <4>2. Editing(d)
        BY <4>1 DEF Editing
      <4> QED
        BY <4>1, <4>2 DEF ReleaseInv, ReleaseTypes
    <3>3. QED  BY <3>1, <3>2
  <2>2. \A a \in Announcers : Announcing(a)' <=> Announcing(a)
    BY <1>1 DEF Announcing
  <2>3. QED  BY <1>1, <1>3, <2>1, <2>2 DEF ReleaseInv, ReleaseTypes
<1>5. ResolvedWell'
  <2>1. ASSUME NEW d \in Curators, Editing(d)', curating'[d].old = FALSE
        PROVE  StatusAfter(d)' = "upcoming" <=> DateAfter(d)' > localDate'
    <3>1. CASE d = c
      BY <3>1, <1>1, <1>2, <1>3 DEF StatusAfter, DateAfter
    <3>2. CASE d # c
      <4>1. curating'[d] = curating[d] /\ Editing(d)
        BY <3>2, <1>3, <2>1 DEF Editing
      <4>2. QED  BY <4>1, <2>1, <1>1 DEF ReleaseInv, ResolvedWell, StatusAfter, DateAfter
    <3>3. QED  BY <3>1, <3>2
  <2>2. QED  BY <2>1 DEF ResolvedWell
<1>6. InTime' /\ HeardOf'
  BY <1>1 DEF ReleaseInv, InTime, HeardOf, Announcing, Reached
<1>7. QED  BY <1>4, <1>5, <1>6 DEF ReleaseInv

LEMMA EditKeepsReleases ==
  ASSUME ReleaseInv, NEW c \in Curators, EditTitle(c) \/ AddAgain(c)
  PROVE  ReleaseInv'
<1>1. title.status \in Lifecycle /\ title.date \in Int /\ localDate \in Nat
  BY DEF ReleaseInv, ReleaseTypes
<1>2. \A s \in Lifecycle, d \in Int :
        ResolveStatus(s, d) \in Lifecycle /\ (ResolveStatus(s, d) = "upcoming" <=> d > localDate)
  BY <1>1 DEF ResolveStatus, Lifecycle
<1>3. CASE EditTitle(c)
  <2>1. PICK status \in Lifecycle \cup {Keeping}, date \in ReleaseDays \cup {Undated, NoDate} :
          LET requested == IF status = Keeping THEN title.status ELSE status
              resolved == ResolveStatus(requested, IF date = NoDate THEN title.date ELSE date)
              alters == status # Keeping \/ resolved # title.status
          IN  Reads(c, IF alters THEN resolved ELSE Keeping, date)
    BY <1>3 DEF EditTitle
  <2> DEFINE requested == IF status = Keeping THEN title.status ELSE status
             given == IF date = NoDate THEN title.date ELSE date
             resolved == ResolveStatus(requested, given)
             alters == status # Keeping \/ resolved # title.status
             written == IF alters THEN resolved ELSE Keeping
  <2>2. requested \in Lifecycle /\ date \in Int \cup {NoDate} /\ given \in Int
    BY <1>1, ReleasesAssumption DEF ReleaseDays, Undated
  <2>3. resolved \in Lifecycle /\ (resolved = "upcoming" <=> given > localDate)
    BY <1>2, <2>2
  <2>4. Reads(c, written, date)
    BY <2>1
  <2>5. written \in Lifecycle \cup {Keeping} /\ (IF written = Keeping THEN title.status ELSE written) = resolved
    BY <2>3 DEF Lifecycle, Keeping
  <2> HIDE DEF requested, resolved, alters, written
  <2>6. QED  BY <2>2, <2>3, <2>4, <2>5, ReadKeepsReleases
<1>4. CASE AddAgain(c)
  <2>1. PICK status \in Lifecycle, date \in ReleaseDays \cup {NoDate} :
          LET given == IF date = NoDate THEN title.date ELSE date
          IN  Reads(c, ResolveStatus(status, given), IF given = Undated THEN NoDate ELSE given)
    BY <1>4 DEF AddAgain
  <2> DEFINE given == IF date = NoDate THEN title.date ELSE date
             resolved == ResolveStatus(status, given)
             sent == IF given = Undated THEN NoDate ELSE given
  <2>2. given \in Int
    BY <1>1, ReleasesAssumption DEF ReleaseDays
  <2>3. given = Undated => date = NoDate /\ title.date = Undated
    BY ReleasesAssumption DEF ReleaseDays, Undated
  <2>4. resolved \in Lifecycle /\ (resolved = "upcoming" <=> given > localDate)
    BY <1>2, <2>2
  <2>5. Reads(c, resolved, sent)
    BY <2>1
  <2>6. sent \in Int \cup {NoDate} /\ (IF sent = NoDate THEN title.date ELSE sent) = given
    BY <2>2, <2>3, ReleasesAssumption
  <2>7. resolved # Keeping
    BY <2>4 DEF Lifecycle, Keeping
  <2> HIDE DEF given, resolved, sent
  <2>8. QED  BY <2>4, <2>5, <2>6, <2>7, ReadKeepsReleases
<1>5. QED  BY <1>3, <1>4

(* Edits that are overtaken: what they resolved no longer counts.          *)
LEMMA OvertakenEdits ==
  ASSUME ReleaseInv, NEW those, NEW c \in Curators, NEW e, e = Overtaken(those)[c], curating[c] # Resting
  PROVE  Remains(e, c, those)
<1>1. /\ DOMAIN curating[c] = {"step", "status", "date", "old"} /\ curating[c].step = "resolved"
      /\ curating[c].old \in BOOLEAN
  BY DEF ReleaseInv, ReleaseTypes, Editing
<1>2. CASE c \in those
  <2>1. e = [curating[c] EXCEPT !.old = TRUE]
    BY <1>2 DEF Overtaken
  <2>2. QED  BY <2>1, <1>1 DEF Remains
<1>3. CASE c \notin those
  <2>1. e = curating[c]
    BY <1>3 DEF Overtaken
  <2>2. QED  BY <1>1, <1>3, <2>1 DEF Remains
<1>4. QED  BY <1>2, <1>3

LEMMA RestingStays ==
  ASSUME NEW those, NEW c \in Curators, Overtaken(those)[c] # Resting
  PROVE  curating[c] # Resting
BY DEF Overtaken

LEMMA AllOvertaken ==
  ASSUME ReleaseInv, curating' = Overtaken(Curators)
  PROVE  \A d \in Curators : Editing(d)' =>
           /\ DOMAIN curating'[d] = {"step", "status", "date", "old"}
           /\ curating'[d].step = "resolved"
           /\ curating'[d].status \in Lifecycle \cup {Keeping}
           /\ curating'[d].date \in Int \cup {NoDate}
           /\ curating'[d].old \in BOOLEAN /\ curating'[d].old # FALSE
<1> SUFFICES ASSUME NEW d \in Curators, Editing(d)'
             PROVE  /\ DOMAIN curating'[d] = {"step", "status", "date", "old"}
                    /\ curating'[d].step = "resolved"
                    /\ curating'[d].status \in Lifecycle \cup {Keeping}
                    /\ curating'[d].date \in Int \cup {NoDate}
                    /\ curating'[d].old \in BOOLEAN /\ curating'[d].old # FALSE
  OBVIOUS
<1>1. PICK e : e = Overtaken(Curators)[d]
  OBVIOUS
<1>2. curating'[d] = e /\ Overtaken(Curators)[d] # Resting
  BY <1>1 DEF Editing
<1>3. curating[d] # Resting
  BY <1>2, RestingStays
<1>4. Remains(e, d, Curators)
  BY <1>1, <1>3, OvertakenEdits
<1>5. QED  BY <1>2, <1>3, <1>4 DEF Remains, ReleaseInv, ReleaseTypes, Editing

LEMMA WriteKeepsReleases ==
  ASSUME ReleaseInv, NEW c \in Curators, WriteTitle(c)
  PROVE  ReleaseInv'
<1>0. PICK those : those = IF title' = title THEN {} ELSE Curators
  OBVIOUS
<1>1. /\ Editing(c) /\ title' = Changed(curating[c])
      /\ heard' = (IF title'.date # title.date THEN 0 ELSE heard)
      /\ released' = (IF title'.date # title.date THEN 0 ELSE released)
      /\ slips' = (IF curating[c].old THEN slips \cup {"crossed"} ELSE slips)
      /\ curating' = [Overtaken(those) EXCEPT ![c] = Resting]
      /\ UNCHANGED <<localDate, hold, telling>>
  BY <1>0 DEF WriteTitle, Editing, Resting
<1>3. /\ DOMAIN title = {"status", "date", "reminded"} /\ title.status \in Lifecycle /\ title.date \in Int
      /\ title.reminded \in Int /\ localDate \in Nat
      /\ curating[c].status \in Lifecycle \cup {Keeping} /\ curating[c].date \in Int \cup {NoDate}
      /\ curating[c].old \in BOOLEAN
  BY <1>1 DEF ReleaseInv, ReleaseTypes
<1>4. /\ DOMAIN title' = {"status", "date", "reminded"} /\ title'.status = StatusAfter(c)
      /\ title'.date = DateAfter(c) /\ title'.reminded = title.reminded
  BY <1>1, <1>3 DEF Changed, StatusAfter, DateAfter
<1>5. title'.status \in Lifecycle /\ title'.date \in Int
  BY <1>3, <1>4 DEF StatusAfter, DateAfter
<1>6. /\ DOMAIN curating' = Curators /\ curating'[c] = Resting /\ ~Editing(c)'
      /\ \A d \in Curators \ {c} : curating'[d] = Overtaken(those)[d]
  BY <1>1 DEF Overtaken, Editing
<1>7. ASSUME NEW d \in Curators, Editing(d)'
      PROVE  /\ d # c /\ Editing(d)
             /\ DOMAIN curating'[d] = {"step", "status", "date", "old"}
             /\ curating'[d].step = curating[d].step /\ curating'[d].status = curating[d].status
             /\ curating'[d].date = curating[d].date /\ curating'[d].old \in BOOLEAN
             /\ curating'[d].old = FALSE => title' = title /\ curating'[d] = curating[d]
  <2>1. PICK e : e = Overtaken(those)[d]
    OBVIOUS
  <2>2. d # c /\ curating'[d] = e /\ Overtaken(those)[d] # Resting
    BY <1>6, <1>7, <2>1 DEF Editing
  <2>3. curating[d] # Resting
    BY <2>2, RestingStays
  <2>4. Remains(e, d, those)
    BY <2>1, <2>3, OvertakenEdits
  <2>5. d \notin those => title' = title
    BY <1>0
  <2>6. QED  BY <2>2, <2>3, <2>4, <2>5 DEF Remains, Editing
<1>8. ReleaseTypes'
  <2>1. \A d \in Curators : Editing(d)' =>
          /\ DOMAIN curating'[d] = {"step", "status", "date", "old"}
          /\ curating'[d].step = "resolved"
          /\ curating'[d].status \in Lifecycle \cup {Keeping}
          /\ curating'[d].date \in Int \cup {NoDate}
          /\ curating'[d].old \in BOOLEAN
    BY <1>7 DEF ReleaseInv, ReleaseTypes
  <2>2. heard' \in {0, 1, 2} /\ released' \in {0, 1, 2}
    BY <1>1 DEF ReleaseInv, ReleaseTypes
  <2>3. \A a \in Announcers : Announcing(a)' <=> Announcing(a)
    BY <1>1 DEF Announcing
  <2>4. QED  BY <1>1, <1>3, <1>4, <1>5, <1>6, <2>1, <2>2, <2>3 DEF ReleaseInv, ReleaseTypes
<1>9. ResolvedWell'
  <2>1. ASSUME NEW d \in Curators, Editing(d)', curating'[d].old = FALSE
        PROVE  StatusAfter(d)' = "upcoming" <=> DateAfter(d)' > localDate'
    <3>1. Editing(d) /\ title' = title /\ curating'[d] = curating[d] /\ localDate' = localDate
      BY <1>1, <1>7, <2>1
    <3>2. QED  BY <3>1, <2>1 DEF ReleaseInv, ResolvedWell, StatusAfter, DateAfter
  <2>2. QED  BY <2>1 DEF ResolvedWell
<1>10. "crossed" \notin slips' =>
         "crossed" \notin slips /\ (title'.status = "upcoming" <=> title'.date > localDate)
  <2> SUFFICES ASSUME "crossed" \notin slips' PROVE curating[c].old = FALSE /\ "crossed" \notin slips
    BY <1>1, <1>4 DEF ReleaseInv, ResolvedWell
  <2>1. QED  BY <1>1, <1>3
<1>11. InTime'
  <2> SUFFICES ASSUME "crossed" \notin slips' PROVE InTime'
    BY DEF InTime
  <2>1. /\ "crossed" \notin slips /\ (title'.status = "upcoming" <=> title'.date > localDate)
        /\ released \in {0, 1, 2}
    BY <1>10 DEF ReleaseInv, ReleaseTypes
  <2>2. QED  BY <2>1, <1>1, <1>3, <1>5 DEF ReleaseInv, InTime, Undated
<1>12. HeardOf'
  <2> SUFFICES ASSUME slips' = {} PROVE HeardOf'
    BY DEF HeardOf
  <2>1. slips = {} /\ (title'.status = "upcoming" <=> title'.date > localDate)
    BY <1>1, <1>3, <1>10
  <2>2. ~Reached'
    BY <2>1, <1>1, <1>3, <1>5 DEF Reached
  <2>3. \A a \in Announcers : Announcing(a)' <=> Announcing(a)
    BY <1>1 DEF Announcing
  <2>4. HeardOf
    BY DEF ReleaseInv
  <2>5. QED  BY <2>1, <2>2, <2>3, <2>4, <1>1, <1>4 DEF HeardOf
<1>13. QED  BY <1>8, <1>9, <1>11, <1>12 DEF ReleaseInv

LEMMA GraduateKeepsReleases ==
  ASSUME ReleaseInv, Graduate
  PROVE  ReleaseInv'
<1>1. /\ Reached /\ title' = [title EXCEPT !.status = "pending"] /\ hold' = "free"
      /\ released' = More(released) /\ curating' = Overtaken(Curators)
      /\ UNCHANGED <<localDate, telling, heard, slips>>
  BY DEF Graduate
<1>2. /\ DOMAIN title' = {"status", "date", "reminded"} /\ title'.status = "pending"
      /\ title'.date = title.date /\ title'.reminded = title.reminded
      /\ title.date \in Int /\ title.reminded \in Int /\ localDate \in Nat
  BY <1>1 DEF ReleaseInv, ReleaseTypes
<1>3. \A d \in Curators : Editing(d)' =>
        /\ DOMAIN curating'[d] = {"step", "status", "date", "old"}
        /\ curating'[d].step = "resolved"
        /\ curating'[d].status \in Lifecycle \cup {Keeping}
        /\ curating'[d].date \in Int \cup {NoDate}
        /\ curating'[d].old \in BOOLEAN /\ curating'[d].old # FALSE
  BY <1>1, AllOvertaken
<1>4. \A a \in Announcers : Announcing(a)' <=> Announcing(a)
  BY <1>1 DEF Announcing
<1>5. ReleaseTypes'
  <2>1. released' \in {0, 1, 2} /\ DOMAIN curating' = Curators
    BY <1>1 DEF ReleaseInv, ReleaseTypes, More, Some, Overtaken
  <2>2. \A d \in Curators : Editing(d)' =>
          /\ DOMAIN curating'[d] = {"step", "status", "date", "old"}
          /\ curating'[d].step = "resolved"
          /\ curating'[d].status \in Lifecycle \cup {Keeping}
          /\ curating'[d].date \in Int \cup {NoDate}
          /\ curating'[d].old \in BOOLEAN
    BY <1>3
  <2>3. \A a \in Announcers : Announcing(a)' =>
          DOMAIN telling'[a] = {"step", "date"} /\ telling'[a].step \in {"claimed", "told"} /\ telling'[a].date \in Int
    BY <1>1, <1>4 DEF ReleaseInv, ReleaseTypes
  <2>4. /\ localDate' \in Nat /\ heard' \in {0, 1, 2} /\ DOMAIN telling' = Announcers
        /\ title'.status \in Lifecycle /\ title'.date \in Int /\ title'.reminded \in Int
    BY <1>1, <1>2 DEF ReleaseInv, ReleaseTypes, Lifecycle
  <2>5. QED  BY <1>2, <2>1, <2>2, <2>3, <2>4 DEF ReleaseTypes
<1>6. ResolvedWell'
  BY <1>3 DEF ResolvedWell
<1>7. InTime'
  <2> SUFFICES ASSUME "crossed" \notin slips PROVE released = 0 /\ title.date <= localDate
    BY <1>1, <1>2 DEF InTime, More, Some, Undated
  <2>1. QED  BY <1>1 DEF ReleaseInv, InTime, Reached, ReleaseTypes
<1>8. HeardOf'
  <2> SUFFICES ASSUME slips = {} PROVE HeardOf'
    BY <1>1 DEF HeardOf
  <2>1. HeardOf /\ \A a \in Announcers : ~Announcing(a)
    BY <1>1 DEF ReleaseInv, HeardOf
  <2>2. QED  BY <2>1, <1>1, <1>2, <1>4 DEF HeardOf
<1>9. QED  BY <1>5, <1>6, <1>7, <1>8 DEF ReleaseInv

(* A step of an announcer, or of the claim, leaves edits and releases alone. *)
LEMMA AnnouncingKeepsEdits ==
  ASSUME ReleaseInv, UNCHANGED <<localDate, curating, released>>,
         title'.status = title.status, title'.date = title.date, DOMAIN title' = {"status", "date", "reminded"},
         "crossed" \notin slips' => "crossed" \notin slips
  PROVE  ResolvedWell' /\ InTime' /\ \A c \in Curators : Editing(c)' <=> Editing(c)
<1>1. \A c \in Curators : Editing(c)' <=> Editing(c)
  BY DEF Editing
<1>2. ResolvedWell'
  BY <1>1 DEF ReleaseInv, ResolvedWell, StatusAfter, DateAfter
<1>3. InTime'
  BY DEF ReleaseInv, InTime
<1>4. QED  BY <1>1, <1>2, <1>3

LEMMA ClaimKeepsReleases ==
  ASSUME ReleaseInv, NEW a \in Announcers, ClaimRelease(a)
  PROVE  ReleaseInv'
<1> DEFINE new == [step |-> "claimed", date |-> title.date]
<1>1. /\ DueTomorrow /\ title.reminded # title.date /\ hold # "live" /\ hold' = "live"
      /\ telling' = [telling EXCEPT ![a] = new]
      /\ UNCHANGED <<localDate, title, curating, heard, released, slips>>
  BY DEF ClaimRelease
<1>2. new # Resting /\ DOMAIN new = {"step", "date"} /\ new.step = "claimed" /\ new.date = title.date
  BY DEF Resting
<1> HIDE DEF new
<1>3. /\ DOMAIN telling' = Announcers /\ telling'[a] = new
      /\ \A b \in Announcers \ {a} : telling'[b] = telling[b]
  BY <1>1 DEF ReleaseInv, ReleaseTypes
<1>4. Announcing(a)' /\ \A b \in Announcers \ {a} : Announcing(b)' <=> Announcing(b)
  BY <1>2, <1>3 DEF Announcing
<1>5. ResolvedWell' /\ InTime' /\ \A c \in Curators : Editing(c)' <=> Editing(c)
  BY <1>1, AnnouncingKeepsEdits DEF ReleaseInv, ReleaseTypes
<1>6. ReleaseTypes'
  BY <1>1, <1>2, <1>3, <1>4, <1>5 DEF ReleaseInv, ReleaseTypes
<1>7. HeardOf'
  <2> SUFFICES ASSUME slips = {} PROVE HeardOf'
    BY <1>1 DEF HeardOf
  <2>1. HeardOf /\ \A b \in Announcers : ~Announcing(b)
    BY <1>1 DEF ReleaseInv, HeardOf
  <2>2. \A b \in Announcers : Announcing(b)' => b = a
    BY <2>1, <1>4
  <2>3. title.date = localDate + 1 /\ localDate \in Nat
    BY <1>1 DEF DueTomorrow, ReleaseInv, ReleaseTypes
  <2>4. ~Reached'
    BY <2>3, <1>1 DEF Reached
  <2>5. heard = 0
    BY <2>1, <1>1 DEF HeardOf
  <2>6. QED  BY <2>2, <2>3, <2>4, <2>5, <1>1, <1>2, <1>3 DEF HeardOf
<1>8. QED  BY <1>5, <1>6, <1>7 DEF ReleaseInv

LEMMA TellKeepsReleases ==
  ASSUME ReleaseInv, NEW a \in Announcers, TellRelease(a)
  PROVE  ReleaseInv'
<1>1. /\ telling[a].step = "claimed" /\ telling' = [telling EXCEPT ![a].step = "told"]
      /\ heard' = (IF telling[a].date = title.date THEN More(heard) ELSE heard)
      /\ UNCHANGED <<localDate, title, hold, curating, released, slips>>
  BY DEF TellRelease
<1>2. Announcing(a) /\ DOMAIN telling[a] = {"step", "date"} /\ telling[a].date \in Int
  BY <1>1 DEF ReleaseInv, ReleaseTypes, Announcing, Resting
<1>3. /\ DOMAIN telling' = Announcers /\ DOMAIN telling'[a] = {"step", "date"}
      /\ telling'[a].step = "told" /\ telling'[a].date = telling[a].date
      /\ \A b \in Announcers \ {a} : telling'[b] = telling[b]
  BY <1>1, <1>2 DEF ReleaseInv, ReleaseTypes
<1>4. Announcing(a)' /\ \A b \in Announcers \ {a} : Announcing(b)' <=> Announcing(b)
  BY <1>3 DEF Announcing, Resting
<1>5. ResolvedWell' /\ InTime' /\ \A c \in Curators : Editing(c)' <=> Editing(c)
  BY <1>1, AnnouncingKeepsEdits DEF ReleaseInv, ReleaseTypes
<1>6. ReleaseTypes'
  <2>1. heard' \in {0, 1, 2}
    BY <1>1 DEF ReleaseInv, ReleaseTypes, More, Some
  <2>2. QED  BY <1>1, <1>2, <1>3, <1>4, <1>5, <2>1 DEF ReleaseInv, ReleaseTypes
<1>7. HeardOf'
  <2> SUFFICES ASSUME slips = {} PROVE HeardOf'
    BY <1>1 DEF HeardOf
  <2>1. /\ HeardOf /\ \A b \in Announcers : Announcing(b) => b = a
        /\ telling[a].date = localDate + 1 /\ hold = "live" /\ ~Reached
        /\ telling[a].date = title.date => heard = 0
    BY <1>1, <1>2 DEF ReleaseInv, HeardOf
  <2>2. \A b \in Announcers : Announcing(b)' => b = a
    BY <2>1, <1>4
  <2>3. ~Reached'
    BY <2>1, <1>1 DEF Reached
  <2>4. CASE telling[a].date = title.date
    <3>1. heard' = 1
      BY <2>1, <2>4, <1>1 DEF More, Some
    <3>2. QED  BY <2>1, <2>2, <2>3, <2>4, <3>1, <1>1, <1>3, <1>4 DEF HeardOf
  <2>5. CASE telling[a].date # title.date
    <3>1. heard' = heard /\ heard \in {0, 1} /\ (heard # 0 => title.reminded = title.date)
      BY <2>1, <2>5, <1>1 DEF HeardOf
    <3>2. QED  BY <2>1, <2>2, <2>3, <3>1, <1>1, <1>3, <1>4 DEF HeardOf
  <2>6. QED  BY <2>4, <2>5
<1>8. QED  BY <1>5, <1>6, <1>7 DEF ReleaseInv

LEMMA GiveUpKeepsReleases ==
  ASSUME ReleaseInv, NEW a \in Announcers, GiveUp(a)
  PROVE  ReleaseInv'
<1>1. /\ telling[a].step = "claimed" /\ hold' = "free" /\ telling' = [telling EXCEPT ![a] = Resting]
      /\ UNCHANGED <<localDate, title, curating, heard, released, slips>>
  BY DEF GiveUp
<1>2. /\ DOMAIN telling' = Announcers /\ telling'[a] = Resting
      /\ \A b \in Announcers \ {a} : telling'[b] = telling[b]
  BY <1>1 DEF ReleaseInv, ReleaseTypes
<1>3. Announcing(a) /\ ~Announcing(a)' /\ \A b \in Announcers \ {a} : Announcing(b)' <=> Announcing(b)
  BY <1>1, <1>2 DEF Announcing, Resting
<1>4. ResolvedWell' /\ InTime' /\ \A c \in Curators : Editing(c)' <=> Editing(c)
  BY <1>1, AnnouncingKeepsEdits DEF ReleaseInv, ReleaseTypes
<1>5. ReleaseTypes'
  BY <1>1, <1>2, <1>3, <1>4 DEF ReleaseInv, ReleaseTypes
<1>6. HeardOf'
  <2> SUFFICES ASSUME slips = {} PROVE HeardOf'
    BY <1>1 DEF HeardOf
  <2>1. /\ HeardOf /\ \A b \in Announcers : Announcing(b) => b = a
        /\ telling[a].date = title.date => heard = 0
    BY <1>1, <1>3 DEF ReleaseInv, HeardOf
  <2>2. \A b \in Announcers : ~Announcing(b)'
    BY <2>1, <1>3
  <2>3. heard \in {0, 1} /\ (heard # 0 => title.reminded = title.date)
    BY <2>1, <1>1 DEF HeardOf
  <2>4. QED  BY <2>2, <2>3, <1>1 DEF HeardOf
<1>7. QED  BY <1>4, <1>5, <1>6 DEF ReleaseInv

LEMMA StampKeepsReleases ==
  ASSUME ReleaseInv, NEW a \in Announcers, StampRelease(a)
  PROVE  ReleaseInv'
<1> DEFINE stamps == title.status = "upcoming" /\ title.date = telling[a].date /\ title.reminded # title.date
<1>1. /\ telling[a].step = "told" /\ telling' = [telling EXCEPT ![a] = Resting]
      /\ UNCHANGED <<localDate, curating, heard, released, slips>>
      /\ stamps => title' = [title EXCEPT !.reminded = title.date]
      /\ ~stamps => title' = title
  BY DEF StampRelease
<1>2. /\ DOMAIN telling' = Announcers /\ telling'[a] = Resting
      /\ \A b \in Announcers \ {a} : telling'[b] = telling[b]
  BY <1>1 DEF ReleaseInv, ReleaseTypes
<1>3. Announcing(a) /\ ~Announcing(a)' /\ \A b \in Announcers \ {a} : Announcing(b)' <=> Announcing(b)
  BY <1>1, <1>2 DEF Announcing, Resting
<1>4. /\ DOMAIN title = {"status", "date", "reminded"} /\ title.date \in Int /\ title.reminded \in Int
      /\ localDate \in Nat
  BY DEF ReleaseInv, ReleaseTypes
<1>5. /\ DOMAIN title' = {"status", "date", "reminded"} /\ title'.status = title.status
      /\ title'.date = title.date /\ title'.reminded \in {title.reminded, title.date}
      /\ stamps => title'.reminded = title.date
  <2>1. CASE stamps
    BY <2>1, <1>1, <1>4
  <2>2. CASE ~stamps
    BY <2>2, <1>1, <1>4
  <2>3. QED  BY <2>1, <2>2
<1>6. ResolvedWell' /\ InTime' /\ \A c \in Curators : Editing(c)' <=> Editing(c)
  BY <1>1, <1>5, AnnouncingKeepsEdits
<1>7. ReleaseTypes'
  BY <1>1, <1>2, <1>3, <1>4, <1>5, <1>6 DEF ReleaseInv, ReleaseTypes
<1>8. HeardOf'
  <2> SUFFICES ASSUME slips = {} PROVE HeardOf'
    BY <1>1 DEF HeardOf
  <2>1. /\ HeardOf /\ InTime /\ \A b \in Announcers : Announcing(b) => b = a
        /\ telling[a].date = localDate + 1
    BY <1>3 DEF ReleaseInv, HeardOf
  <2>2. \A b \in Announcers : ~Announcing(b)'
    BY <2>1, <1>3
  <2>3. ASSUME heard # 0 PROVE title'.reminded = title'.date
    <3>1. title.reminded = title.date \/ telling[a].date = title.date
      BY <2>1, <2>3 DEF HeardOf
    <3>2. telling[a].date = title.date => title.status = "upcoming"
      BY <2>1, <1>4 DEF InTime
    <3>3. QED  BY <3>1, <3>2, <1>5
  <2>4. heard \in {0, 1}
    BY <2>1 DEF HeardOf
  <2>5. QED  BY <2>2, <2>3, <2>4, <1>1 DEF HeardOf
<1>9. QED  BY <1>6, <1>7, <1>8 DEF ReleaseInv

(* The process stops, or the lease of the claim runs out.                  *)
LEMMA FaultsKeepReleases ==
  ASSUME ReleaseInv, HoldLapses \/ \E a \in Announcers : StopAnnouncer(a)
  PROVE  ReleaseInv'
<1>1. /\ UNCHANGED <<localDate, title, curating, heard, released>>
      /\ "crossed" \notin slips' => "crossed" \notin slips
      /\ slips' = {} => slips = {} /\ UNCHANGED telling /\ \A a \in Announcers : ~Announcing(a)
  BY DEF HoldLapses, StopAnnouncer, Announcing
<1>2. /\ DOMAIN telling' = Announcers
      /\ \A a \in Announcers : Announcing(a)' => Announcing(a) /\ telling'[a] = telling[a]
  <2>1. CASE HoldLapses
    BY <2>1 DEF HoldLapses, ReleaseInv, ReleaseTypes, Announcing
  <2>2. ASSUME NEW a \in Announcers, StopAnnouncer(a) PROVE <1>2!:
    BY <2>2 DEF StopAnnouncer, ReleaseInv, ReleaseTypes, Announcing
  <2>3. QED  BY <2>1, <2>2
<1>3. ResolvedWell' /\ InTime' /\ \A c \in Curators : Editing(c)' <=> Editing(c)
  BY <1>1, AnnouncingKeepsEdits DEF ReleaseInv, ReleaseTypes
<1>4. ReleaseTypes'
  BY <1>1, <1>2, <1>3 DEF ReleaseInv, ReleaseTypes
<1>5. HeardOf'
  <2> SUFFICES ASSUME slips' = {} PROVE HeardOf'
    BY DEF HeardOf
  <2>1. HeardOf /\ slips = {} /\ \A a \in Announcers : ~Announcing(a) /\ ~Announcing(a)'
    BY <1>1, <1>2 DEF ReleaseInv
  <2>2. QED  BY <2>1, <1>1 DEF HeardOf
<1>6. QED  BY <1>3, <1>4, <1>5 DEF ReleaseInv

LEMMA MidnightKeepsReleases ==
  ASSUME ReleaseInv, NextMidnight
  PROVE  ReleaseInv'
<1>1. /\ localDate' = localDate + 1 /\ curating' = Overtaken(Curators)
      /\ \A a \in Announcers : ~Announcing(a)
      /\ UNCHANGED <<title, hold, telling, heard, released, slips>>
  BY DEF NextMidnight, Announcing
<1>2. title.date \in Int /\ localDate \in Nat /\ localDate' \in Nat
  BY <1>1 DEF ReleaseInv, ReleaseTypes
<1>3. \A d \in Curators : Editing(d)' =>
        /\ DOMAIN curating'[d] = {"step", "status", "date", "old"}
        /\ curating'[d].step = "resolved"
        /\ curating'[d].status \in Lifecycle \cup {Keeping}
        /\ curating'[d].date \in Int \cup {NoDate}
        /\ curating'[d].old \in BOOLEAN /\ curating'[d].old # FALSE
  BY <1>1, AllOvertaken
<1>4. \A a \in Announcers : ~Announcing(a)'
  BY <1>1 DEF Announcing
<1>5. ReleaseTypes'
  <2>1. DOMAIN curating' = Curators
    BY <1>1 DEF Overtaken
  <2>2. QED  BY <1>1, <1>2, <1>3, <1>4, <2>1 DEF ReleaseInv, ReleaseTypes
<1>6. ResolvedWell'
  BY <1>3 DEF ResolvedWell
<1>7. InTime'
  BY <1>1, <1>2 DEF ReleaseInv, InTime
<1>8. HeardOf'
  <2> SUFFICES ASSUME slips = {} PROVE HeardOf'
    BY <1>1 DEF HeardOf
  <2>1. HeardOf
    BY DEF ReleaseInv
  <2>2. QED  BY <2>1, <1>1, <1>4 DEF HeardOf
<1>9. QED  BY <1>5, <1>6, <1>7, <1>8 DEF ReleaseInv

LEMMA ReleaseInvNext == ReleaseInv /\ [ReleasesNext]_releaseVars => ReleaseInv'
<1> SUFFICES ASSUME ReleaseInv, [ReleasesNext]_releaseVars PROVE ReleaseInv'
  OBVIOUS
<1>1. ASSUME NEW c \in Curators, EditTitle(c) \/ AddAgain(c) PROVE ReleaseInv'
  BY <1>1, EditKeepsReleases
<1>2. ASSUME NEW c \in Curators, WriteTitle(c) PROVE ReleaseInv'
  BY <1>2, WriteKeepsReleases
<1>3. ASSUME NEW a \in Announcers, ClaimRelease(a) PROVE ReleaseInv'
  BY <1>3, ClaimKeepsReleases
<1>4. ASSUME NEW a \in Announcers, TellRelease(a) PROVE ReleaseInv'
  BY <1>4, TellKeepsReleases
<1>5. ASSUME NEW a \in Announcers, GiveUp(a) PROVE ReleaseInv'
  BY <1>5, GiveUpKeepsReleases
<1>6. ASSUME NEW a \in Announcers, StampRelease(a) PROVE ReleaseInv'
  BY <1>6, StampKeepsReleases
<1>7. CASE HoldLapses \/ \E a \in Announcers : StopAnnouncer(a)
  BY <1>7, FaultsKeepReleases
<1>8. CASE Graduate
  BY <1>8, GraduateKeepsReleases
<1>9. CASE NextMidnight
  BY <1>9, MidnightKeepsReleases
<1>10. CASE UNCHANGED releaseVars
  <2>1. UNCHANGED <<localDate, title, hold, curating, telling, heard, released, slips>>
    BY <1>10 DEF releaseVars
  <2>2. ResolvedWell' /\ InTime' /\ \A c \in Curators : Editing(c)' <=> Editing(c)
    BY <2>1, AnnouncingKeepsEdits DEF ReleaseInv, ReleaseTypes
  <2>3. \A a \in Announcers : Announcing(a)' <=> Announcing(a)
    BY <2>1 DEF Announcing
  <2>4. ReleaseTypes'
    BY <2>1, <2>2, <2>3 DEF ReleaseInv, ReleaseTypes
  <2>5. HeardOf'
    BY <2>1, <2>3 DEF ReleaseInv, HeardOf, Reached
  <2>6. QED  BY <2>2, <2>4, <2>5 DEF ReleaseInv
<1>11. QED
  BY <1>1, <1>2, <1>3, <1>4, <1>5, <1>6, <1>7, <1>8, <1>9, <1>10 DEF ReleasesNext

(* However edits, the assistant, the graduating sweep and the announcing   *)
(* job interleave, the owner hears of a release once, and a title is       *)
(* Upcoming while its date is ahead and released once when it comes, as    *)
(* long as no process dies or outlives its claim and no edit writes over   *)
(* a row it has not seen.                                                  *)
THEOREM ReleaseIsToldOnce == ReleasesSpec => []ReleaseToldOnce
<1>1. ReleaseInv => ReleaseToldOnce
  <2> SUFFICES ASSUME ReleaseInv PROVE HeardOnce /\ ReleasedOnce
    BY DEF ReleaseToldOnce
  <2>1. HeardOnce
    BY DEF HeardOnce, ReleaseInv, HeardOf
  <2>2. ReleasedOnce
    <3> SUFFICES ASSUME "crossed" \notin slips PROVE ReleasedOnce
      BY DEF ReleasedOnce
    <3>1. QED  BY DEF ReleasedOnce, ReleaseInv, InTime, Reached
  <2>3. QED  BY <2>1, <2>2
<1>2. QED
  BY <1>1, ReleaseInvInit, ReleaseInvNext, PTL DEF ReleasesSpec

-----------------------------------------------------------------------------
(* A check-in between its two statements remembers that the day was not as *)
(* it is wanted.                                                           *)
WantedOtherwise ==
  /\ DOMAIN request = Requests
  /\ \A r \in Requests : request[r] # NoRequest =>
       /\ request[r].want = "on" => ~request[r].logged
       /\ request[r].want = "off" => request[r].logged

LEMMA ReadRemembers ==
  ASSUME WantedOtherwise, NEW r \in Requests, NEW days, NEW want, Read(r, days, want)
  PROVE  /\ WantedOtherwise' /\ logs' = logs
         /\ \A q \in Requests : request[q] # NoRequest => request'[q] = request[q]
<1> DEFINE logged == logs \cap days # {}
           asks == [want |-> want, days |-> days, logged |-> logged]
<1>1. logs' = logs /\ request[r] = NoRequest
  BY DEF Read
<1>2. \/ request' = request
      \/ /\ want # (IF logged THEN "on" ELSE "off")
         /\ request' = [request EXCEPT ![r] = asks]
  BY DEF Read
<1>3. CASE request' = request
  BY <1>1, <1>3 DEF WantedOtherwise
<1>4. CASE /\ want # (IF logged THEN "on" ELSE "off")
           /\ request' = [request EXCEPT ![r] = asks]
  <2>1. request'[r].want = want /\ request'[r].logged = logged
    BY <1>4 DEF WantedOtherwise
  <2>2. \A q \in Requests \ {r} : request'[q] = request[q]
    BY <1>4 DEF WantedOtherwise
  <2>3. DOMAIN request' = Requests
    BY <1>4 DEF WantedOtherwise
  <2>4. /\ want = "on" => ~logged
        /\ want = "off" => logged
    BY <1>4
  <2> QED
    BY <1>1, <2>1, <2>2, <2>3, <2>4 DEF WantedOtherwise
<1> QED
  BY <1>2, <1>3, <1>4

LEMMA WriteAsWanted ==
  ASSUME WantedOtherwise, NEW r \in Requests, Write(r)
  PROVE  /\ WantedOtherwise'
         /\ \A q \in Requests \ {r} : request'[q] = request[q]
         /\ request[r].want = "on" => logs \subseteq logs'
         /\ request[r].want = "off" => logs' \subseteq logs
<1>1. request[r] # NoRequest /\ request' = [request EXCEPT ![r] = NoRequest]
  BY DEF Write
<1>2. /\ DOMAIN request' = Requests /\ request'[r] = NoRequest
      /\ \A q \in Requests \ {r} : request'[q] = request[q]
  BY <1>1 DEF WantedOtherwise
<1>3. WantedOtherwise'
  BY <1>2 DEF WantedOtherwise
<1>4. /\ request[r].want = "on" => ~request[r].logged
      /\ request[r].want = "off" => request[r].logged
  BY <1>1 DEF WantedOtherwise
<1>5. CASE request[r].logged
  <2>1. logs' = logs \ request[r].days
    BY <1>5 DEF Write
  <2> QED
    BY <2>1, <1>2, <1>3, <1>4, <1>5
<1>6. CASE ~request[r].logged
  <2>1. logs' = logs \/ logs' = logs \cup {First(request[r].days)}
    BY <1>6 DEF Write
  <2> QED
    BY <2>1, <1>2, <1>3, <1>4, <1>6
<1> QED
  BY <1>5, <1>6

(* What a check-in may do to the days when it ends.                        *)
EndsHarmless(r) ==
  request[r] # NoRequest /\ request'[r] = NoRequest =>
    /\ request[r].want = "on" => logs \subseteq logs'
    /\ request[r].want = "off" => logs' \subseteq logs

LEMMA HabitStep ==
  ASSUME WantedOtherwise, [HabitNext]_habitVars
  PROVE  WantedOtherwise' /\ \A r \in Requests : EndsHarmless(r)
<1>1. CASE UNCHANGED habitVars
  BY <1>1 DEF habitVars, WantedOtherwise, EndsHarmless
<1>2. CASE CreateHabit \/ UpdateHabit \/ DeleteHabit \/ LogTool \/ NextDay
  <2>1. request' = request
    BY <1>2 DEF CreateHabit, UpdateHabit, DeleteHabit, LogTool, NextDay
  <2> QED
    BY <2>1 DEF WantedOtherwise, EndsHarmless
<1>3. ASSUME NEW r \in Requests, ReadDay(r) \/ ReadPeriod(r)
      PROVE  WantedOtherwise' /\ \A q \in Requests : EndsHarmless(q)
  <2>1. PICK days, want : Read(r, days, want)
    BY <1>3 DEF ReadDay, ReadPeriod
  <2> QED
    BY <2>1, ReadRemembers DEF EndsHarmless
<1>4. ASSUME NEW r \in Requests, Write(r)
      PROVE  WantedOtherwise' /\ \A q \in Requests : EndsHarmless(q)
  BY <1>4, WriteAsWanted DEF EndsHarmless
<1> QED
  BY <1>1, <1>2, <1>3, <1>4 DEF HabitNext

(* A check-in that wants a day on removes none and one that wants it off   *)
(* adds none, however requests, edits of the cadence, deletions and the    *)
(* assistant's one-statement log interleave: api/habits.go.                *)
THEOREM ResendsDoNoHarm == HabitSpec => ResendHarmless
<1> DEFINE Harmless ==
      \A r \in Requests :
        request[r] # NoRequest /\ request'[r] = NoRequest =>
          /\ request[r].want = "on" => logs \subseteq logs'
          /\ request[r].want = "off" => logs' \subseteq logs
<1>1. HabitInit => WantedOtherwise
  BY DEF HabitInit, WantedOtherwise
<1>2. WantedOtherwise /\ [HabitNext]_habitVars => WantedOtherwise' /\ [Harmless]_habitVars
  BY HabitStep DEF EndsHarmless
<1> QED
  BY <1>1, <1>2, PTL DEF ResendHarmless, HabitSpec


-----------------------------------------------------------------------------
(* Events: the entries of one event and the list that shows them.          *)

Adding(l) == logger[l].step = "add"
Changing(l) == logger[l].step \in {"clear", "waiting", "values"}
IsEntry(e) == e \in [id : Nat, at : Instants, values : {e.values}]
IsJob(j) ==
  \/ j = Still \/ j.step = "add"
  \/ j \in [step : {"clear", "waiting", "values"}, entry : Nat, moved : Instants \cup {0},
            chosen : {j.chosen}, edit : {j.edit}, cut : {j.cut}]

(* What is inserted, or opened, has a number drawn before.                 *)
EventTypes ==
  /\ loggings \in Nat /\ IsFiniteSet(variables) /\ IsFiniteSet(entries)
  /\ \A e \in entries : IsEntry(e) /\ e.id < NewId
  /\ \A e, f \in entries : e.id = f.id => e = f
  /\ DOMAIN logger = Loggers /\ \A l \in Loggers : IsJob(logger[l])
  /\ \A l \in Loggers : Changing(l) => logger[l].entry < NewId
  /\ reader = [open |-> reader.open, shown |-> reader.shown, twice |-> reader.twice,
               there |-> reader.there, cursor |-> reader.cursor, over |-> reader.over]
  /\ reader.cursor \in Nat /\ reader.open \in BOOLEAN /\ reader.over \in BOOLEAN

(* Who has counted the variables alone may add one.                        *)
Counted ==
  "two additions" \notin met =>
    /\ Cardinality(variables) <= MostVariables
    /\ (\E l \in Loggers : Adding(l)) => Cardinality(variables) < MostVariables

(* An edit that crosses no other has cut every value its entry has.        *)
OneMind(values) == \A x, y \in values : x.edit = y.edit
CutsAll ==
  "two edits" \notin met =>
    /\ \A l, m \in Loggers : Changing(l) /\ Changing(m) => l = m
    /\ \A e \in entries : OneMind(e.values)
    /\ \A l \in Loggers : logger[l].step \in {"waiting", "values"} =>
         \A e \in entries : e.id = logger[l].entry => e.values \subseteq logger[l].cut

(* The cursor parts what has been shown from what is to come.              *)
Parted ==
  /\ ~ reader.twice
  /\ ~ reader.open => reader.shown = {} /\ reader.there = {} /\ reader.cursor = 0
  /\ reader.open /\ ~ reader.over => reader.cursor # 0
  /\ \A i \in reader.there : \E e \in entries : e.id = i
  /\ \A e \in entries : e.id \in reader.shown /\ e.id \in reader.there => e.at >= reader.cursor
  /\ "one instant" \notin met /\ reader.cursor # 0 =>
       \A e \in entries : e.id \in reader.there /\ e.at >= reader.cursor => e.id \in reader.shown
  /\ "one instant" \notin met /\ reader.over => reader.there \subseteq reader.shown

EventInv == EventTypes /\ Counted /\ CutsAll /\ Parted

(* What a request does to the others, to the numbers drawn and to the list.*)
Drops(gone) ==
  reader' = [open |-> reader.open, shown |-> reader.shown, twice |-> reader.twice,
             there |-> reader.there \ gone, cursor |-> reader.cursor, over |-> reader.over]

LEMMA TouchDrops ==
  ASSUME EventTypes, NEW gone, Touched(gone)
  PROVE  Drops(gone)
<1>1. reader = [open |-> reader.open, shown |-> reader.shown, twice |-> reader.twice,
                there |-> reader.there, cursor |-> reader.cursor, over |-> reader.over]
  BY DEF EventTypes
<1>2. reader' = [reader EXCEPT !.there = reader.there \ gone]
  BY DEF Touched
<1> QED
  BY <1>1, <1>2 DEF Drops

LEMMA NoneDrop ==
  ASSUME EventTypes, reader' = reader
  PROVE  Drops({})
<1>1. reader = [open |-> reader.open, shown |-> reader.shown, twice |-> reader.twice,
                there |-> reader.there, cursor |-> reader.cursor, over |-> reader.over]
  BY DEF EventTypes
<1> QED
  BY <1>1 DEF Drops

LEMMA JobIs ==
  ASSUME EventTypes, NEW l \in Loggers, NEW job, logger' = [logger EXCEPT ![l] = job]
  PROVE  /\ DOMAIN logger' = Loggers /\ logger'[l] = job
         /\ \A m \in Loggers : m # l => logger'[m] = logger[m]
BY DEF EventTypes

LEMMA TypesKept ==
  ASSUME EventTypes, loggings' \in {loggings, loggings + 1},
         NEW l \in Loggers, NEW job, logger' = [logger EXCEPT ![l] = job], IsJob(job),
         job.step \in {"clear", "waiting", "values"} => job.entry < NewId',
         IsFiniteSet(variables'), IsFiniteSet(entries'),
         \A e \in entries' : IsEntry(e) /\ e.id < NewId',
         \A e, f \in entries' : e.id = f.id => e = f,
         NEW gone, Drops(gone)
  PROVE  EventTypes'
<1>1. /\ DOMAIN logger' = Loggers /\ logger'[l] = job
      /\ \A m \in Loggers : m # l => logger'[m] = logger[m]
  BY JobIs
<1>2. loggings' \in Nat /\ NewId <= NewId' /\ NewId \in Nat /\ NewId' \in Nat
  BY DEF EventTypes, NewId
<1>3. \A m \in Loggers : IsJob(logger'[m])
  BY <1>1 DEF EventTypes
<1>4. \A m \in Loggers : Changing(m)' => logger'[m].entry < NewId'
  <2> SUFFICES ASSUME NEW m \in Loggers, m # l, Changing(m)' PROVE logger'[m].entry < NewId'
    BY <1>1 DEF Changing
  <2>1. Changing(m) /\ logger'[m] = logger[m]
    BY <1>1 DEF Changing
  <2>2. PICK i \in Nat : i = logger[m].entry /\ i < NewId
    <3>1. IsJob(logger[m]) /\ logger[m].entry < NewId
      BY <2>1 DEF EventTypes
    <3>2. logger[m].entry \in Nat
      BY <2>1, <3>1 DEF IsJob, Changing, Still
    <3> QED
      BY <3>1, <3>2
  <2> QED
    BY <1>2, <2>1, <2>2
<1>5. /\ reader' = [open |-> reader'.open, shown |-> reader'.shown, twice |-> reader'.twice,
                    there |-> reader'.there, cursor |-> reader'.cursor, over |-> reader'.over]
      /\ reader'.cursor \in Nat /\ reader'.open \in BOOLEAN /\ reader'.over \in BOOLEAN
  BY DEF Drops, EventTypes
<1> QED
  BY <1>1, <1>2, <1>3, <1>4, <1>5 DEF EventTypes

(* An entry the reader counts on stands, at its time.                      *)
LEMMA PartedKept ==
  ASSUME Parted, "one instant" \in met => "one instant" \in met', NEW gone, Drops(gone),
         \A f \in entries' : f.id \in reader.there \ gone => \E e \in entries : e.id = f.id /\ e.at = f.at,
         \A e \in entries : e.id \in reader.there \ gone => \E f \in entries' : f.id = e.id
  PROVE  Parted'
<1>1. /\ reader'.open = reader.open /\ reader'.shown = reader.shown /\ reader'.twice = reader.twice
      /\ reader'.cursor = reader.cursor /\ reader'.over = reader.over /\ reader'.there = reader.there \ gone
  BY DEF Drops
<1>2. \A i \in reader'.there : \E f \in entries' : f.id = i
  <2> SUFFICES ASSUME NEW i \in reader'.there PROVE \E f \in entries' : f.id = i
    OBVIOUS
  <2>1. i \in reader.there \ gone
    BY <1>1
  <2>2. PICK e \in entries : e.id = i
    BY <2>1 DEF Parted
  <2> QED
    BY <2>1, <2>2
<1>3. \A f \in entries' : f.id \in reader'.shown /\ f.id \in reader'.there => f.at >= reader'.cursor
  BY <1>1 DEF Parted
<1>4. "one instant" \notin met' /\ reader'.cursor # 0 =>
        \A f \in entries' : f.id \in reader'.there /\ f.at >= reader'.cursor => f.id \in reader'.shown
  BY <1>1 DEF Parted
<1> QED
  BY <1>1, <1>2, <1>3, <1>4 DEF Parted

LEMMA EntryIs ==
  ASSUME NEW id, HasEntry(id)
  PROVE  EntryOf(id) \in entries /\ EntryOf(id).id = id
BY DEF HasEntry, EntryOf

(* What ends changes nothing for those that go on.                         *)
LEMMA Ends ==
  ASSUME EventTypes, NEW l \in Loggers, logger' = [logger EXCEPT ![l] = Still]
  PROVE  /\ \A m \in Loggers : Adding(m)' => m # l /\ Adding(m)
         /\ \A m \in Loggers : Changing(m)' => m # l /\ Changing(m) /\ logger'[m] = logger[m]
BY JobIs DEF Adding, Changing, Still

LEMMA StillIs ==
  IsJob(Still) /\ Still.step \notin {"clear", "waiting", "values"}
BY DEF IsJob, Still

LEMMA CutsEnd ==
  ASSUME EventTypes, CutsAll, NEW l \in Loggers, logger' = [logger EXCEPT ![l] = Still],
         "two edits" \in met => "two edits" \in met',
         \A f \in entries' : (\E e \in entries : e.id = f.id /\ f.values \subseteq e.values)
                             \/ (OneMind(f.values) /\ \A m \in Loggers \ {l} : Changing(m) => logger[m].entry # f.id)
  PROVE  CutsAll'
<1> SUFFICES ASSUME "two edits" \notin met'
             PROVE  /\ \A m, k \in Loggers : Changing(m)' /\ Changing(k)' => m = k
                    /\ \A f \in entries' : OneMind(f.values)
                    /\ \A m \in Loggers : logger'[m].step \in {"waiting", "values"} =>
                         \A f \in entries' : f.id = logger'[m].entry => f.values \subseteq logger'[m].cut
  BY DEF CutsAll
<1>1. \A m \in Loggers : Changing(m)' => m # l /\ Changing(m) /\ logger'[m] = logger[m]
  BY Ends
<1>2. /\ \A m, k \in Loggers : Changing(m) /\ Changing(k) => m = k
      /\ \A e \in entries : OneMind(e.values)
      /\ \A m \in Loggers : logger[m].step \in {"waiting", "values"} =>
           \A e \in entries : e.id = logger[m].entry => e.values \subseteq logger[m].cut
  BY DEF CutsAll
<1>3. \A f \in entries' : OneMind(f.values)
  BY <1>2 DEF OneMind
<1>4. ASSUME NEW m \in Loggers, logger'[m].step \in {"waiting", "values"},
             NEW f \in entries', f.id = logger'[m].entry
      PROVE  f.values \subseteq logger'[m].cut
  <2>1. m # l /\ Changing(m) /\ logger'[m] = logger[m]
    BY <1>1, <1>4 DEF Changing
  <2>2. PICK e \in entries : e.id = f.id /\ f.values \subseteq e.values
    BY <1>4, <2>1
  <2> QED
    BY <1>2, <1>4, <2>1, <2>2
<1> QED
  BY <1>1, <1>2, <1>3, <1>4

(* Rows and requests left as they are.                                     *)
LEMMA EntriesStay ==
  ASSUME EventTypes, entries' = entries, loggings' \in {loggings, loggings + 1}
  PROVE  /\ IsFiniteSet(entries') /\ NewId \in Nat /\ NewId' \in Nat /\ NewId <= NewId'
         /\ \A e \in entries' : IsEntry(e) /\ e.id < NewId'
         /\ \A e, f \in entries' : e.id = f.id => e = f
         /\ \A f \in entries' : \E e \in entries : e.id = f.id /\ e.at = f.at
         /\ \A e \in entries : \E f \in entries' : f.id = e.id
         /\ \A f \in entries' : \E e \in entries : e.id = f.id /\ f.values \subseteq e.values
<1>1. NewId \in Nat /\ NewId' \in Nat /\ NewId <= NewId'
  BY DEF EventTypes, NewId
<1>2. \A e \in entries : e.id \in Nat /\ IsEntry(e) /\ e.id < NewId
  BY DEF EventTypes, IsEntry
<1>3. \A e \in entries : e.id < NewId'
  BY <1>1, <1>2
<1> QED
  BY <1>1, <1>2, <1>3 DEF EventTypes

LEMMA CutsStay ==
  ASSUME EventTypes, CutsAll, entries' = entries, "two edits" \in met => "two edits" \in met',
         \A m \in Loggers : Changing(m)' => Changing(m) /\ logger'[m] = logger[m]
  PROVE  CutsAll'
<1> SUFFICES ASSUME "two edits" \notin met'
             PROVE  /\ \A m, k \in Loggers : Changing(m)' /\ Changing(k)' => m = k
                    /\ \A f \in entries' : OneMind(f.values)
                    /\ \A m \in Loggers : logger'[m].step \in {"waiting", "values"} =>
                         \A f \in entries' : f.id = logger'[m].entry => f.values \subseteq logger'[m].cut
  BY DEF CutsAll
<1>1. \A m \in Loggers : logger'[m].step \in {"waiting", "values"} => logger'[m] = logger[m]
  BY DEF Changing
<1> QED
  BY <1>1 DEF CutsAll

LEMMA OneMore ==
  ASSUME NEW c \in Nat, NEW d \in Nat, NEW n \in Nat, d <= c + 1, c < n
  PROVE  d <= n
OBVIOUS

LEMMA Fewer ==
  ASSUME NEW c \in Nat, NEW d \in Nat, NEW n \in Nat, d <= c
  PROVE  (c <= n => d <= n) /\ (c < n => d < n)
OBVIOUS

(* Variables.                                                              *)
LEMMA CountVariablesKeeps ==
  ASSUME EventInv, NEW l \in Loggers, CountVariables(l)
  PROVE  EventInv'
<1>0. /\ EventTypes /\ Counted /\ CutsAll /\ Parted
      /\ UNCHANGED <<event, variables, entries, reader, met>>
      /\ Cardinality(variables) < MostVariables /\ loggings' = loggings + 1
  BY DEF EventInv, CountVariables, Asks
<1> DEFINE job == [step |-> "add", id |-> NewId, order |-> Cardinality(variables)]
<1>1. logger' = [logger EXCEPT ![l] = job] /\ job.step = "add" /\ IsJob(job)
  BY DEF CountVariables, Asks, IsJob
<1> HIDE DEF job
<1>2. Drops({})
  BY <1>0, NoneDrop
<1>3. EventTypes'
  <2>1. IsFiniteSet(variables')
    BY <1>0 DEF EventTypes
  <2>2. job.step \notin {"clear", "waiting", "values"}
    BY <1>1
  <2> QED
    BY <1>0, <1>1, <1>2, <2>1, <2>2, EntriesStay, TypesKept
<1>4. Counted'
  BY <1>0 DEF Counted
<1>5. \A m \in Loggers : Changing(m)' => Changing(m) /\ logger'[m] = logger[m]
  BY <1>0, <1>1, JobIs DEF Changing
<1>6. CutsAll'
  BY <1>0, <1>5, CutsStay
<1>7. Parted'
  BY <1>0, <1>2, EntriesStay, PartedKept
<1> QED
  BY <1>3, <1>4, <1>6, <1>7 DEF EventInv

LEMMA InsertVariableKeeps ==
  ASSUME EventInv, NEW l \in Loggers, InsertVariable(l)
  PROVE  EventInv'
<1>0. /\ EventTypes /\ Counted /\ CutsAll /\ Parted
      /\ UNCHANGED <<event, entries, reader, loggings>> /\ Adding(l)
      /\ logger' = [logger EXCEPT ![l] = Still]
  BY DEF EventInv, InsertVariable, Ended, Goes, Adding
<1>1. PICK v : variables' \in {variables, variables \cup {v}}
  BY DEF InsertVariable
<1>2. /\ Cardinality(variables) \in Nat /\ Cardinality(variables') \in Nat /\ IsFiniteSet(variables')
      /\ Cardinality(variables') <= Cardinality(variables) + 1
  <2>1. IsFiniteSet(variables)
    BY <1>0 DEF EventTypes
  <2>2. Cardinality(variables) \in Nat
    BY <2>1, FS_CardinalityType
  <2>3. /\ IsFiniteSet(variables \cup {v})
        /\ Cardinality(variables \cup {v}) =
             IF v \in variables THEN Cardinality(variables) ELSE Cardinality(variables) + 1
    BY <2>1, FS_AddElement
  <2>4. CASE variables' = variables
    BY <2>1, <2>2, <2>4
  <2>5. CASE variables' = variables \cup {v}
    BY <2>2, <2>3, <2>5
  <2> QED
    BY <1>1, <2>4, <2>5
<1>3. met \subseteq met' /\ ("two additions" \notin met' => \A m \in Loggers \ {l} : ~ Adding(m))
  BY DEF InsertVariable, Adding
<1>4. Drops({})
  BY <1>0, NoneDrop
<1>5. EventTypes'
  BY <1>0, <1>2, <1>4, StillIs, EntriesStay, TypesKept
<1>6. Counted'
  <2> SUFFICES ASSUME "two additions" \notin met'
               PROVE  Cardinality(variables') <= MostVariables /\ \A m \in Loggers : ~ Adding(m)'
    BY DEF Counted
  <2>1. Cardinality(variables) < MostVariables
    BY <1>0, <1>3 DEF Counted
  <2>2. \A m \in Loggers : ~ Adding(m)'
    BY <1>0, <1>3, Ends
  <2>3. PICK c \in Nat, d \in Nat, n \in Nat :
          c = Cardinality(variables) /\ d = Cardinality(variables') /\ n = MostVariables
    BY <1>2, EventsAssumption
  <2>4. d <= c + 1 /\ c < n
    BY <1>2, <2>1, <2>3
  <2>5. d <= n
    BY <2>3, <2>4, OneMore
  <2> QED
    BY <2>2, <2>3, <2>5
<1>7. \A m \in Loggers : Changing(m)' => Changing(m) /\ logger'[m] = logger[m]
  BY <1>0, Ends
<1>8. CutsAll'
  BY <1>0, <1>3, <1>7, CutsStay
<1>9. Parted'
  BY <1>0, <1>3, <1>4, EntriesStay, PartedKept
<1> QED
  BY <1>5, <1>6, <1>8, <1>9 DEF EventInv

(* Fewer variables, and nobody new who adds one.                           *)
LEMMA CountedFewer ==
  ASSUME EventTypes, Counted, variables' \subseteq variables, "two additions" \in met => "two additions" \in met',
         \A m \in Loggers : Adding(m)' => Adding(m)
  PROVE  IsFiniteSet(variables') /\ Counted'
<1>1. IsFiniteSet(variables)
  BY DEF EventTypes
<1>2. IsFiniteSet(variables') /\ Cardinality(variables') <= Cardinality(variables)
  BY <1>1, FS_Subset
<1>3. Cardinality(variables) \in Nat /\ Cardinality(variables') \in Nat
  BY <1>1, <1>2, FS_CardinalityType
<1>4. PICK c \in Nat, d \in Nat, n \in Nat :
        c = Cardinality(variables) /\ d = Cardinality(variables') /\ n = MostVariables /\ d <= c
  BY <1>2, <1>3, EventsAssumption
<1>5. (c <= n => d <= n) /\ (c < n => d < n)
  BY <1>4, Fewer
<1> SUFFICES ASSUME "two additions" \notin met'
             PROVE  d <= n /\ ((\E l \in Loggers : Adding(l)') => d < n)
  BY <1>2, <1>4 DEF Counted
<1>6. c <= n /\ ((\E l \in Loggers : Adding(l)) => c < n)
  BY <1>4 DEF Counted
<1> QED
  BY <1>5, <1>6

LEMMA DeleteVariableKeeps ==
  ASSUME EventInv, NEW l \in Loggers, DeleteVariable(l)
  PROVE  EventInv'
<1>0. /\ EventTypes /\ Counted /\ CutsAll /\ Parted
      /\ UNCHANGED <<event, reader, met>> /\ loggings' = loggings + 1
      /\ logger' = [logger EXCEPT ![l] = Still]
  BY DEF EventInv, DeleteVariable, Asks
<1>1. PICK v \in variables :
        /\ variables' = variables \ {v}
        /\ entries' = {[e EXCEPT !.values = {x \in e.values : x.variable # v.id}] : e \in entries}
  BY DEF DeleteVariable
<1> DEFINE Left(e) == [e EXCEPT !.values = {x \in e.values : x.variable # v.id}]
<1>2. \A e \in entries : /\ Left(e) \in entries' /\ Left(e).id = e.id /\ Left(e).at = e.at
                         /\ Left(e).values \subseteq e.values /\ IsEntry(Left(e))
  BY <1>0, <1>1 DEF EventTypes, IsEntry
<1>3. \A f \in entries' : \E e \in entries : f = Left(e)
  BY <1>1
<1>4. IsFiniteSet(entries')
  <2> DEFINE g == [e \in entries |-> Left(e)]
  <2>1. g \in Surjection(entries, entries')
    BY <1>1 DEF Surjection
  <2>2. IsFiniteSet(entries)
    BY <1>0 DEF EventTypes
  <2> QED
    BY <2>1, <2>2, FS_Surjection
<1> HIDE DEF Left
<1>5. NewId \in Nat /\ NewId' \in Nat /\ NewId <= NewId'
  BY <1>0 DEF EventTypes, NewId
<1>6. \A f \in entries' : IsEntry(f) /\ f.id < NewId'
  <2> SUFFICES ASSUME NEW f \in entries' PROVE IsEntry(f) /\ f.id < NewId'
    OBVIOUS
  <2>1. PICK e \in entries : f = Left(e)
    BY <1>3
  <2>2. e.id < NewId /\ e.id \in Nat
    BY <1>0 DEF EventTypes, IsEntry
  <2> QED
    BY <1>2, <1>5, <2>1, <2>2
<1>7. \A e, f \in entries' : e.id = f.id => e = f
  BY <1>0, <1>2, <1>3 DEF EventTypes
<1>8. Drops({})
  BY <1>0, NoneDrop
<1>9. IsFiniteSet(variables') /\ Counted'
  BY <1>0, <1>1, Ends, CountedFewer
<1>10. EventTypes'
  BY <1>0, <1>4, <1>6, <1>7, <1>8, <1>9, StillIs, TypesKept
<1>11. CutsAll'
  <2>1. \A f \in entries' : \E e \in entries : e.id = f.id /\ f.values \subseteq e.values
    BY <1>2, <1>3
  <2> QED
    BY <1>0, <2>1, CutsEnd
<1>12. Parted'
  <2>1. \A f \in entries' : \E e \in entries : e.id = f.id /\ e.at = f.at
    BY <1>2, <1>3
  <2>2. \A e \in entries : \E f \in entries' : f.id = e.id
    BY <1>2
  <2> QED
    BY <1>0, <1>8, <2>1, <2>2, PartedKept
<1> QED
  BY <1>9, <1>10, <1>11, <1>12 DEF EventInv

(* Entries.                                                                *)
LEMMA DeleteEventKeeps ==
  ASSUME EventInv, NEW l \in Loggers, DeleteEvent(l)
  PROVE  EventInv'
<1>0. /\ EventTypes /\ Counted /\ CutsAll /\ Parted
      /\ UNCHANGED met /\ loggings' = loggings + 1 /\ variables' = {} /\ entries' = {}
      /\ logger' = [logger EXCEPT ![l] = Still] /\ Touched(reader.there)
  BY DEF EventInv, DeleteEvent, Asks
<1>1. Drops(reader.there)
  BY <1>0, TouchDrops
<1>2. IsFiniteSet(entries')
  BY <1>0, FS_EmptySet
<1>3. IsFiniteSet(variables') /\ Counted'
  BY <1>0, Ends, CountedFewer
<1>4. EventTypes'
  BY <1>0, <1>1, <1>2, <1>3, StillIs, TypesKept
<1>5. CutsAll'
  BY <1>0, CutsEnd
<1>6. Parted'
  BY <1>0, <1>1, PartedKept
<1> QED
  BY <1>3, <1>4, <1>5, <1>6 DEF EventInv

LEMMA DeleteEntryKeeps ==
  ASSUME EventInv, NEW l \in Loggers, DeleteEntry(l)
  PROVE  EventInv'
<1>0. /\ EventTypes /\ Counted /\ CutsAll /\ Parted
      /\ UNCHANGED <<event, variables, met>> /\ loggings' = loggings + 1
      /\ logger' = [logger EXCEPT ![l] = Still]
  BY DEF EventInv, DeleteEntry, Asks
<1>1. PICK e \in entries : entries' = entries \ {e} /\ Touched({e.id})
  BY DEF DeleteEntry
<1>2. Drops({e.id})
  BY <1>0, <1>1, TouchDrops
<1>3. IsFiniteSet(entries')
  BY <1>0, <1>1, FS_RemoveElement DEF EventTypes
<1>4. IsFiniteSet(variables') /\ Counted'
  BY <1>0, Ends, CountedFewer
<1>5. \A f \in entries' : IsEntry(f) /\ f.id < NewId'
  <2> SUFFICES ASSUME NEW f \in entries' PROVE IsEntry(f) /\ f.id < NewId'
    OBVIOUS
  <2>1. IsEntry(f) /\ f.id < NewId /\ f.id \in Nat
    BY <1>0, <1>1 DEF EventTypes, IsEntry
  <2>2. NewId \in Nat /\ NewId' \in Nat /\ NewId <= NewId'
    BY <1>0 DEF EventTypes, NewId
  <2> QED
    BY <2>1, <2>2
<1>6. \A f, g \in entries' : f.id = g.id => f = g
  BY <1>0, <1>1 DEF EventTypes
<1>7. EventTypes'
  BY <1>0, <1>2, <1>3, <1>4, <1>5, <1>6, StillIs, TypesKept
<1>8. CutsAll'
  BY <1>0, <1>1, CutsEnd
<1>9. Parted'
  BY <1>0, <1>1, <1>2, PartedKept
<1> QED
  BY <1>4, <1>7, <1>8, <1>9 DEF EventInv

LEMMA CreateEntryKeeps ==
  ASSUME EventInv, NEW l \in Loggers, CreateEntry(l)
  PROVE  EventInv'
<1>0. /\ EventTypes /\ Counted /\ CutsAll /\ Parted
      /\ UNCHANGED <<event, variables, reader, met>> /\ loggings' = loggings + 1
      /\ logger' = [logger EXCEPT ![l] = Still]
  BY DEF EventInv, CreateEntry, Asks
<1>1. PICK at \in Instants, chosen \in SUBSET Owned :
        entries' = entries \cup {[id |-> NewId, at |-> at,
                                  values |-> {[variable |-> v, edit |-> NewId] : v \in chosen}]}
  BY DEF CreateEntry
<1>2. PICK new : new = [id |-> NewId, at |-> at, values |-> {[variable |-> v, edit |-> NewId] : v \in chosen}]
  OBVIOUS
<1>3. NewId \in Nat /\ NewId' \in Nat /\ NewId' = NewId + 1
  BY <1>0 DEF EventTypes, NewId
<1>4. new.id = NewId /\ IsEntry(new) /\ OneMind(new.values)
  <2>1. new.id = NewId /\ IsEntry(new) /\ new.values = {[variable |-> v, edit |-> NewId] : v \in chosen}
    BY <1>2, <1>3 DEF IsEntry
  <2>2. \A x \in new.values : x.edit = NewId
    BY <2>1
  <2> QED
    BY <2>1, <2>2 DEF OneMind
<1>5. entries' = entries \cup {new}
  BY <1>1, <1>2
<1>6. IsFiniteSet(entries')
  BY <1>0, <1>5, FS_AddElement DEF EventTypes
<1>7. \A e \in entries : IsEntry(e) /\ e.id \in Nat /\ e.id < NewId /\ e.id # NewId /\ e.id < NewId'
  <2> SUFFICES ASSUME NEW e \in entries
               PROVE  IsEntry(e) /\ e.id \in Nat /\ e.id < NewId /\ e.id # NewId /\ e.id < NewId'
    OBVIOUS
  <2>1. IsEntry(e) /\ e.id < NewId /\ e.id \in Nat
    BY <1>0 DEF EventTypes, IsEntry
  <2> QED
    BY <1>3, <2>1
<1>8. \A f \in entries' : IsEntry(f) /\ f.id < NewId'
  BY <1>3, <1>4, <1>5, <1>7
<1>9. \A f, g \in entries' : f.id = g.id => f = g
  BY <1>0, <1>4, <1>5, <1>7 DEF EventTypes
<1>10. Drops({})
  BY <1>0, NoneDrop
<1>11. IsFiniteSet(variables') /\ Counted'
  BY <1>0, Ends, CountedFewer
<1>12. EventTypes'
  BY <1>0, <1>6, <1>8, <1>9, <1>10, <1>11, StillIs, TypesKept
<1>13. CutsAll'
  <2>1. \A m \in Loggers : Changing(m) => logger[m].entry # NewId
    <3> SUFFICES ASSUME NEW m \in Loggers, Changing(m) PROVE logger[m].entry # NewId
      OBVIOUS
    <3>1. logger[m].entry \in Nat /\ logger[m].entry < NewId
      BY <1>0 DEF EventTypes, IsJob, Changing, Still
    <3> QED
      BY <1>3, <3>1
  <2> QED
    BY <1>0, <1>4, <1>5, <2>1, CutsEnd
<1>14. Parted'
  <2>1. NewId \notin reader.there
    BY <1>0, <1>7 DEF Parted
  <2> QED
    BY <1>0, <1>4, <1>5, <1>10, <2>1, PartedKept
<1> QED
  BY <1>11, <1>12, <1>13, <1>14 DEF EventInv

LEMMA MoveEntryKeeps ==
  ASSUME EventInv, NEW l \in Loggers, MoveEntry(l)
  PROVE  EventInv'
<1>0. /\ EventTypes /\ Counted /\ CutsAll /\ Parted
      /\ UNCHANGED <<event, variables, met>> /\ loggings' = loggings + 1
      /\ logger' = [logger EXCEPT ![l] = Still]
  BY DEF EventInv, MoveEntry, Asks
<1>1. PICK e \in entries, at \in Instants :
        entries' = (entries \ {e}) \cup {[e EXCEPT !.at = at]} /\ Touched({e.id})
  BY DEF MoveEntry
<1>2. PICK new : new = [e EXCEPT !.at = at]
  OBVIOUS
<1>3. entries' = (entries \ {e}) \cup {new}
  BY <1>1, <1>2
<1>4. IsEntry(e)
  BY <1>0 DEF EventTypes
<1>5. IsEntry(new) /\ new.id = e.id /\ new.values = e.values
  BY <1>2, <1>4 DEF IsEntry
<1>6. IsFiniteSet(entries')
  BY <1>0, <1>3, FS_RemoveElement, FS_AddElement DEF EventTypes
<1>7. NewId \in Nat /\ NewId' \in Nat /\ NewId <= NewId'
  BY <1>0 DEF EventTypes, NewId
<1>8. \A f \in entries : IsEntry(f) /\ f.id < NewId'
  <2> SUFFICES ASSUME NEW f \in entries PROVE IsEntry(f) /\ f.id < NewId'
    OBVIOUS
  <2>1. IsEntry(f) /\ f.id < NewId /\ f.id \in Nat
    BY <1>0 DEF EventTypes, IsEntry
  <2> QED
    BY <1>7, <2>1
<1>9. \A f \in entries' : f = new \/ (f \in entries /\ f # e /\ f.id # e.id)
  BY <1>0, <1>3 DEF EventTypes
<1>10. \A f \in entries' : IsEntry(f) /\ f.id < NewId'
  BY <1>5, <1>8, <1>9
<1>11. \A f, g \in entries' : f.id = g.id => f = g
  BY <1>0, <1>5, <1>9 DEF EventTypes
<1>12. Drops({e.id})
  BY <1>0, <1>1, TouchDrops
<1>13. IsFiniteSet(variables') /\ Counted'
  BY <1>0, Ends, CountedFewer
<1>14. EventTypes'
  BY <1>0, <1>6, <1>10, <1>11, <1>12, <1>13, StillIs, TypesKept
<1>15. CutsAll'
  <2>1. \A f \in entries' : \E d \in entries : d.id = f.id /\ f.values \subseteq d.values
    BY <1>5, <1>9
  <2> QED
    BY <1>0, <2>1, CutsEnd
<1>16. Parted'
  <2>1. \A f \in entries' : f.id \in reader.there \ {e.id} => \E d \in entries : d.id = f.id /\ d.at = f.at
    BY <1>5, <1>9
  <2>2. \A d \in entries : \E f \in entries' : f.id = d.id
    BY <1>3, <1>5
  <2> QED
    BY <1>0, <1>12, <2>1, <2>2, PartedKept
<1> QED
  BY <1>13, <1>14, <1>15, <1>16 DEF EventInv

LEMMA CancelLoggingKeeps ==
  ASSUME EventInv, NEW l \in Loggers, CancelLogging(l)
  PROVE  EventInv'
<1>0. /\ EventTypes /\ Counted /\ CutsAll /\ Parted
      /\ UNCHANGED <<event, variables, entries, reader, met, loggings>>
      /\ logger' = [logger EXCEPT ![l] = Still]
  BY DEF EventInv, CancelLogging, Ended, Goes
<1>1. Drops({})
  BY <1>0, NoneDrop
<1>2. IsFiniteSet(variables') /\ Counted'
  BY <1>0, Ends, CountedFewer
<1>3. EventTypes'
  BY <1>0, <1>1, <1>2, StillIs, EntriesStay, TypesKept
<1>4. CutsAll'
  BY <1>0, EntriesStay, CutsEnd
<1>5. Parted'
  BY <1>0, <1>1, EntriesStay, PartedKept
<1> QED
  BY <1>2, <1>3, <1>4, <1>5 DEF EventInv

(* Edits of an entry.                                                      *)
LEMMA OpenEntryKeeps ==
  ASSUME EventInv, NEW l \in Loggers, OpenEntry(l)
  PROVE  EventInv'
<1>0. /\ EventTypes /\ Counted /\ CutsAll /\ Parted
      /\ UNCHANGED <<event, variables, entries, reader>> /\ loggings' = loggings + 1
      /\ met' = met \cup (IF \E m \in Loggers \ {l} : Changing(m) THEN {"two edits"} ELSE {})
  BY DEF EventInv, OpenEntry, Asks, Changing
<1>1. PICK e \in entries, moved \in Instants \cup {0}, chosen \in SUBSET Owned :
        logger' = [logger EXCEPT ![l] = [step |-> "clear", entry |-> e.id, moved |-> moved, chosen |-> chosen,
                                         edit |-> NewId, cut |-> {}]]
  BY DEF OpenEntry, Asks
<1>2. PICK job : job = [step |-> "clear", entry |-> e.id, moved |-> moved, chosen |-> chosen,
                        edit |-> NewId, cut |-> {}]
  OBVIOUS
<1>3. e.id \in Nat /\ e.id < NewId
  BY <1>0 DEF EventTypes, IsEntry
<1>4. IsJob(job) /\ job.step = "clear" /\ job.entry = e.id
  BY <1>2, <1>3 DEF IsJob
<1>5. logger' = [logger EXCEPT ![l] = job]
  BY <1>1, <1>2
<1>6. /\ logger'[l] = job /\ \A m \in Loggers : m # l => logger'[m] = logger[m]
  BY <1>0, <1>5, JobIs
<1>7. Drops({})
  BY <1>0, NoneDrop
<1>8. IsFiniteSet(variables') /\ Counted'
  <2>1. \A m \in Loggers : Adding(m)' => Adding(m)
    BY <1>4, <1>6 DEF Adding
  <2> QED
    BY <1>0, <2>1, CountedFewer
<1>9. EventTypes'
  <2>1. job.entry < NewId'
    BY <1>0, <1>3, <1>4, EntriesStay
  <2> QED
    BY <1>0, <1>4, <1>5, <1>7, <1>8, <2>1, EntriesStay, TypesKept
<1>10. CutsAll'
  <2> SUFFICES ASSUME "two edits" \notin met'
               PROVE  /\ \A m, k \in Loggers : Changing(m)' /\ Changing(k)' => m = k
                      /\ \A f \in entries' : OneMind(f.values)
                      /\ \A m \in Loggers : logger'[m].step \in {"waiting", "values"} =>
                           \A f \in entries' : f.id = logger'[m].entry => f.values \subseteq logger'[m].cut
    BY DEF CutsAll
  <2>1. "two edits" \notin met /\ \A m \in Loggers : m # l => ~ Changing(m)
    BY <1>0
  <2>2. \A m \in Loggers : Changing(m)' => m = l
    BY <1>6, <2>1 DEF Changing
  <2>3. \A m \in Loggers : logger'[m].step \notin {"waiting", "values"}
    BY <1>4, <1>6, <2>1 DEF Changing
  <2> QED
    BY <1>0, <2>1, <2>2, <2>3 DEF CutsAll
<1>11. Parted'
  BY <1>0, <1>7, EntriesStay, PartedKept
<1> QED
  BY <1>8, <1>9, <1>10, <1>11 DEF EventInv

(* An edit that goes on, with all its entry has in its cut.                *)
LEMMA GoesOn ==
  ASSUME EventInv, NEW l \in Loggers, Changing(l), UNCHANGED <<event, variables, entries, reader, met, loggings>>,
         NEW job, logger' = [logger EXCEPT ![l] = job], IsJob(job), job.step \in {"waiting", "values"},
         job.entry = logger[l].entry,
         \A e \in entries : e.id = job.entry /\ "two edits" \notin met => e.values \subseteq job.cut
  PROVE  EventInv'
<1>0. EventTypes /\ Counted /\ CutsAll /\ Parted
  BY DEF EventInv
<1>1. logger'[l] = job /\ \A m \in Loggers : m # l => logger'[m] = logger[m]
  BY <1>0, JobIs
<1>2. Drops({})
  BY <1>0, NoneDrop
<1>3. IsFiniteSet(variables') /\ Counted'
  <2>1. \A m \in Loggers : Adding(m)' => Adding(m)
    BY <1>1 DEF Adding
  <2> QED
    BY <1>0, <2>1, CountedFewer
<1>4. EventTypes'
  <2>1. job.entry < NewId /\ NewId' = NewId
    BY <1>0 DEF EventTypes, NewId
  <2> QED
    BY <1>0, <1>2, <1>3, <2>1, EntriesStay, TypesKept
<1>5. CutsAll'
  <2> SUFFICES ASSUME "two edits" \notin met'
               PROVE  /\ \A m, k \in Loggers : Changing(m)' /\ Changing(k)' => m = k
                      /\ \A f \in entries' : OneMind(f.values)
                      /\ \A m \in Loggers : logger'[m].step \in {"waiting", "values"} =>
                           \A f \in entries' : f.id = logger'[m].entry => f.values \subseteq logger'[m].cut
    BY DEF CutsAll
  <2>1. \A m \in Loggers : Changing(m)' => Changing(m)
    BY <1>1 DEF Changing
  <2>2. ASSUME NEW m \in Loggers, logger'[m].step \in {"waiting", "values"},
               NEW f \in entries, f.id = logger'[m].entry
        PROVE  f.values \subseteq logger'[m].cut
    <3>1. CASE m = l
      BY <1>1, <2>2, <3>1
    <3>2. CASE m # l
      BY <1>0, <1>1, <2>2, <3>2 DEF CutsAll
    <3> QED
      BY <3>1, <3>2
  <2> QED
    BY <1>0, <2>1, <2>2 DEF CutsAll
<1>6. Parted'
  BY <1>0, <1>2, EntriesStay, PartedKept
<1> QED
  BY <1>3, <1>4, <1>5, <1>6 DEF EventInv

LEMMA JobHas ==
  ASSUME EventTypes, NEW l \in Loggers, Changing(l)
  PROVE  /\ logger[l] \in [step : {"clear", "waiting", "values"}, entry : Nat, moved : Instants \cup {0},
                           chosen : {logger[l].chosen}, edit : {logger[l].edit}, cut : {logger[l].cut}]
         /\ logger[l].entry \in Nat /\ logger[l].entry < NewId /\ logger[l].moved \in Instants \cup {0}
<1>1. IsJob(logger[l]) /\ logger[l].entry < NewId
  BY DEF EventTypes
<1>2. logger[l] # Still /\ logger[l].step # "add"
  BY DEF Changing, Still
<1> QED
  BY <1>1, <1>2 DEF IsJob

LEMMA ClearValuesKeeps ==
  ASSUME EventInv, NEW l \in Loggers, ClearValues(l)
  PROVE  EventInv'
<1>0. /\ EventTypes /\ UNCHANGED <<event, variables, entries, reader, met, loggings>> /\ Changing(l)
  BY DEF EventInv, ClearValues, Goes, Changing
<1>1. PICK seen : seen = IF HasEntry(logger[l].entry) THEN EntryOf(logger[l].entry).values ELSE {}
  OBVIOUS
<1>2. PICK step \in {"values", "waiting"} :
        logger' = [logger EXCEPT ![l] = [logger[l] EXCEPT !.step = step, !.cut = seen]]
  BY <1>1 DEF ClearValues, Goes
<1>3. PICK job : job = [logger[l] EXCEPT !.step = step, !.cut = seen]
  OBVIOUS
<1>4. IsJob(job) /\ job.step = step /\ job.cut = seen /\ job.entry = logger[l].entry
  BY <1>0, <1>3, JobHas DEF IsJob
<1>5. ASSUME NEW e \in entries, e.id = job.entry PROVE e.values \subseteq job.cut
  <2>1. HasEntry(logger[l].entry)
    BY <1>4, <1>5 DEF HasEntry
  <2>2. EntryOf(logger[l].entry) = e
    BY <1>0, <1>4, <1>5, <2>1, EntryIs DEF EventTypes
  <2> QED
    BY <1>1, <1>4, <2>1, <2>2
<1>6. logger' = [logger EXCEPT ![l] = job] /\ job.step \in {"waiting", "values"}
  BY <1>2, <1>3, <1>4
<1> QED
  BY <1>0, <1>4, <1>5, <1>6, GoesOn

LEMMA StopWaitingKeeps ==
  ASSUME EventInv, NEW l \in Loggers, StopWaiting(l)
  PROVE  EventInv'
<1>0. /\ EventTypes /\ CutsAll /\ UNCHANGED <<event, variables, entries, reader, met, loggings>>
      /\ Changing(l) /\ logger[l].step = "waiting"
  BY DEF EventInv, StopWaiting, Goes, Changing
<1>1. PICK job : job = [logger[l] EXCEPT !.step = "values"]
  OBVIOUS
<1>2. logger' = [logger EXCEPT ![l] = job]
  BY <1>1 DEF StopWaiting, Goes
<1>3. IsJob(job) /\ job.step = "values" /\ job.cut = logger[l].cut /\ job.entry = logger[l].entry
  BY <1>0, <1>1, JobHas DEF IsJob
<1>4. \A e \in entries : e.id = job.entry /\ "two edits" \notin met => e.values \subseteq job.cut
  BY <1>0, <1>3 DEF CutsAll
<1> QED
  BY <1>0, <1>2, <1>3, <1>4, GoesOn

LEMMA InsertValuesKeeps ==
  ASSUME EventInv, NEW l \in Loggers, InsertValues(l)
  PROVE  EventInv'
<1>0. /\ EventTypes /\ Counted /\ CutsAll /\ Parted
      /\ UNCHANGED <<event, variables, met, loggings>> /\ Changing(l) /\ logger[l].step = "values"
      /\ logger' = [logger EXCEPT ![l] = Still]
  BY DEF EventInv, InsertValues, Ended, Goes, Changing
<1>1. IsFiniteSet(variables') /\ Counted'
  BY <1>0, Ends, CountedFewer
<1>2. CASE UNCHANGED <<entries, reader>>
  <2>1. Drops({})
    BY <1>0, <1>2, NoneDrop
  <2>2. EventTypes'
    BY <1>0, <1>1, <1>2, <2>1, StillIs, EntriesStay, TypesKept
  <2>3. CutsAll'
    BY <1>0, <1>2, EntriesStay, CutsEnd
  <2>4. Parted'
    BY <1>0, <1>2, <2>1, EntriesStay, PartedKept
  <2> QED
    BY <1>1, <2>2, <2>3, <2>4 DEF EventInv
<1>3. CASE ~ UNCHANGED <<entries, reader>>
  <2>1. PICK i, moved, chosen, edit, cut :
          i = logger[l].entry /\ moved = logger[l].moved /\ chosen = logger[l].chosen
          /\ edit = logger[l].edit /\ cut = logger[l].cut
    OBVIOUS
  <2>2. HasEntry(i)
    BY <1>3, <2>1 DEF InsertValues
  <2>3. PICK e \in entries : e = EntryOf(i) /\ e.id = i
    BY <2>2, EntryIs
  <2>4. PICK kept : kept = e.values \ cut
    OBVIOUS
  <2>5. PICK at : at = IF moved = 0 THEN e.at ELSE moved
    OBVIOUS
  <2>6. PICK values : values = kept \cup {[variable |-> v, edit |-> edit] : v \in chosen}
    OBVIOUS
  <2>7. entries' = (entries \ {e}) \cup {[e EXCEPT !.at = at, !.values = values]}
    <3> DEFINE j == logger[l]
               standing == IF HasEntry(j.entry) THEN EntryOf(j.entry).values \ j.cut ELSE {}
    <3>1. entries' = (entries \ {EntryOf(j.entry)}) \cup
                       {[EntryOf(j.entry) EXCEPT !.at = IF j.moved = 0 THEN @ ELSE j.moved,
                                                 !.values = standing \cup {[variable |-> v, edit |-> j.edit] : v \in j.chosen}]}
      BY <1>3 DEF InsertValues
    <3>2. standing = kept
      BY <2>1, <2>2, <2>3, <2>4
    <3>3. EntryOf(j.entry) = e /\ at = (IF j.moved = 0 THEN e.at ELSE j.moved)
          /\ values = standing \cup {[variable |-> v, edit |-> j.edit] : v \in j.chosen}
      BY <2>1, <2>3, <2>5, <2>6, <3>2
    <3> HIDE DEF standing, j
    <3> QED
      BY <3>1, <3>3
  <2>8. Touched(IF moved = 0 THEN {} ELSE {i})
    BY <1>3, <2>1 DEF InsertValues
  <2>9. PICK new : new = [e EXCEPT !.at = at, !.values = values]
    OBVIOUS
  <2>10. entries' = (entries \ {e}) \cup {new}
    BY <2>7, <2>9
  <2>11. IsEntry(e) /\ e.id \in Nat /\ e.id < NewId /\ moved \in Instants \cup {0}
    BY <1>0, <2>1, JobHas DEF EventTypes, IsEntry
  <2>12. IsEntry(new) /\ new.id = i /\ new.at = at /\ new.values = values
    BY <2>3, <2>5, <2>9, <2>11 DEF IsEntry
  <2>13. IsFiniteSet(entries')
    BY <1>0, <2>10, FS_RemoveElement, FS_AddElement DEF EventTypes
  <2>14. NewId' = NewId
    BY <1>0 DEF NewId
  <2>15. \A f \in entries' : IsEntry(f) /\ f.id < NewId'
    BY <1>0, <2>3, <2>10, <2>11, <2>12, <2>14 DEF EventTypes
  <2>16. \A f \in entries' : f = new \/ (f \in entries /\ f # e /\ f.id # i)
    BY <1>0, <2>3, <2>10 DEF EventTypes
  <2>17. \A f, g \in entries' : f.id = g.id => f = g
    BY <1>0, <2>12, <2>16 DEF EventTypes
  <2>18. PICK gone : gone = (IF moved = 0 THEN {} ELSE {i}) /\ Drops(gone)
    BY <1>0, <2>8, TouchDrops
  <2>19. EventTypes'
    BY <1>0, <1>1, <2>13, <2>15, <2>17, <2>18, StillIs, TypesKept
  <2>20. CutsAll'
    <3> SUFFICES ASSUME "two edits" \notin met'
                 PROVE  /\ \A m, k \in Loggers : Changing(m)' /\ Changing(k)' => m = k
                        /\ \A f \in entries' : OneMind(f.values)
                        /\ \A m \in Loggers : logger'[m].step \in {"waiting", "values"} =>
                             \A f \in entries' : f.id = logger'[m].entry => f.values \subseteq logger'[m].cut
      BY DEF CutsAll
    <3>1. \A m \in Loggers : ~ Changing(m)'
      BY <1>0, Ends DEF CutsAll
    <3>2. e.values \subseteq cut
      BY <1>0, <2>1, <2>3 DEF CutsAll
    <3>3. \A x \in values : x.edit = edit
      <4>1. kept = {}
        BY <2>4, <3>2
      <4>2. values = {[variable |-> v, edit |-> edit] : v \in chosen}
        BY <2>6, <4>1
      <4> SUFFICES ASSUME NEW x \in values PROVE x.edit = edit
        OBVIOUS
      <4>3. PICK v \in chosen : x = [variable |-> v, edit |-> edit]
        BY <4>2
      <4> QED
        BY <4>3
    <3>4. OneMind(new.values)
      BY <2>12, <3>3 DEF OneMind
    <3>5. \A f \in entries' : OneMind(f.values)
      BY <1>0, <2>16, <3>4 DEF CutsAll
    <3> QED
      BY <3>1, <3>5 DEF Changing
  <2>21. Parted'
    <3>1. i \notin gone => new.at = e.at
      BY <2>5, <2>12, <2>18
    <3>2. \A f \in entries' : f.id \in reader.there \ gone => \E d \in entries : d.id = f.id /\ d.at = f.at
      BY <2>3, <2>12, <2>16, <3>1
    <3>3. \A d \in entries : \E f \in entries' : f.id = d.id
      BY <2>3, <2>10, <2>12
    <3> QED
      BY <1>0, <2>18, <3>2, <3>3, PartedKept
  <2> QED
    BY <1>1, <2>19, <2>20, <2>21 DEF EventInv
<1> QED
  BY <1>2, <1>3

(* Pages.  Of the rows to come the latest comes first, so that a row that  *)
(* stays behind lies at, or before, the page's end.                        *)
LEMMA LaterIs ==
  ASSUME NEW e \in entries, NEW f \in entries, NEW g \in entries, \A x \in entries : IsEntry(x)
  PROVE  /\ Later(g, f) /\ Later(f, e) => Later(g, e)
         /\ ~ Later(e, e)
         /\ e.at > f.at => Later(e, f)
<1>1. PICK ei \in Nat, fi \in Nat, gi \in Nat : ei = e.id /\ fi = f.id /\ gi = g.id
  BY DEF IsEntry
<1>2. PICK ea \in Nat, fa \in Nat, ga \in Nat : ea = e.at /\ fa = f.at /\ ga = g.at
  BY EventsAssumption DEF IsEntry
<1> QED
  BY <1>1, <1>2 DEF Later

LEMMA Ahead ==
  ASSUME NEW rows \in SUBSET entries, EventTypes, NEW e \in entries
  PROVE  /\ IsFiniteSet({f \in rows : Later(f, e)}) /\ Earlier(e, rows) \in Nat
         /\ IsFiniteSet(rows)
<1>1. IsFiniteSet(rows)
  BY FS_Subset DEF EventTypes
<1>2. {f \in rows : Later(f, e)} \in SUBSET rows
  OBVIOUS
<1>3. IsFiniteSet({f \in rows : Later(f, e)})
  BY <1>1, <1>2, FS_Subset
<1> QED
  BY <1>1, <1>3, FS_CardinalityType DEF Earlier

LEMMA FirstThere ==
  ASSUME EventTypes, NEW rows \in SUBSET entries, rows # {}
  PROVE  \E e \in rows : Earlier(e, rows) = 0
<1> DEFINE counts == {Earlier(e, rows) : e \in rows}
<1>1. counts \in SUBSET Nat /\ counts # {}
  BY Ahead
<1>2. PICK n \in counts : \A m \in counts : n <= m
  <2> HIDE DEF counts
  <2> QED
    BY <1>1, LeastNatural
<1>3. PICK e \in rows : n = Earlier(e, rows)
  OBVIOUS
<1>4. ASSUME NEW f \in rows, Later(f, e) PROVE FALSE
  <2>1. \A x \in entries : IsEntry(x)
    BY DEF EventTypes
  <2> DEFINE F == {g \in rows : Later(g, f)}
             E == {g \in rows : Later(g, e)}
  <2>2. F \in SUBSET E /\ f \in E /\ f \notin F
    BY <1>4, <2>1, LaterIs
  <2>3. IsFiniteSet(E)
    BY Ahead
  <2>4. Cardinality(F) <= Cardinality(E) /\ Cardinality(F) # Cardinality(E)
    <3> HIDE DEF E, F
    <3> QED
      BY <2>2, <2>3, FS_Subset
  <2>5. Cardinality(F) = Earlier(f, rows) /\ Cardinality(E) = Earlier(e, rows)
    BY DEF Earlier
  <2>6. Earlier(e, rows) <= Earlier(f, rows)
    BY <1>2, <1>3
  <2>7. Earlier(e, rows) \in Nat /\ Earlier(f, rows) \in Nat
    BY Ahead
  <2> HIDE DEF E, F
  <2> QED
    BY <2>4, <2>5, <2>6, <2>7
<1>5. {f \in rows : Later(f, e)} = {}
  BY <1>4
<1> QED
  BY <1>5, FS_EmptySet DEF Earlier

LEMMA Behindhand ==
  ASSUME EventTypes, NEW rows \in SUBSET entries, NEW m \in rows, Earlier(m, rows) < PageSize,
         NEW e \in rows, e.at > m.at
  PROVE  Earlier(e, rows) < PageSize
<1>1. \A x \in entries : IsEntry(x)
  BY DEF EventTypes
<1> DEFINE E == {f \in rows : Later(f, e)}
           M == {f \in rows : Later(f, m)}
<1>2. E \in SUBSET M
  <2>1. Later(e, m)
    BY <1>1, LaterIs
  <2> QED
    BY <1>1, <2>1, LaterIs
<1>3. IsFiniteSet(M)
  BY Ahead
<1>4. Cardinality(E) <= Cardinality(M)
  <2> HIDE DEF E, M
  <2> QED
    BY <1>2, <1>3, FS_Subset
<1>5. Earlier(e, rows) <= Earlier(m, rows)
  BY <1>4 DEF Earlier
<1>6. Earlier(e, rows) \in Nat /\ Earlier(m, rows) \in Nat
  BY Ahead
<1> QED
  BY <1>5, <1>6, EventsAssumption

(* What one page is.                                                       *)
Below(cursor) == {e \in entries : cursor = 0 \/ e.at < cursor}
Foot(cursor, page) == IF page = {} THEN cursor ELSE Min({e.at : e \in page})

LEMMA PageIs ==
  ASSUME EventTypes, NEW cursor \in Nat, NEW rows, rows = Below(cursor),
         NEW page, page = Page(cursor), NEW end, end = Foot(cursor, page)
  PROVE  /\ page \subseteq rows /\ (rows # {} => page # {}) /\ end \in Nat
         /\ \A e \in page : e.at >= end
         /\ page # {} => end # 0 /\ (cursor # 0 => end < cursor)
         /\ \A e \in rows \ page : e.at <= end
<1>0. page = {e \in rows : Earlier(e, rows) < PageSize} /\ rows \in SUBSET entries
  BY DEF Page, Below
<1>b. /\ rows = {e \in entries : cursor = 0 \/ e.at < cursor}
      /\ end = IF page = {} THEN cursor ELSE Min({e.at : e \in page})
  BY DEF Below, Foot
<1>1. \A e \in entries : e.at \in Nat /\ e.at # 0
  BY EventsAssumption DEF EventTypes, IsEntry
<1>2. rows # {} => page # {}
  BY <1>0, FirstThere, EventsAssumption
<1>3. CASE page = {}
  BY <1>0, <1>b, <1>2, <1>3
<1>4. CASE page # {}
  <2> DEFINE times == {e.at : e \in page}
  <2>1. times \in SUBSET Nat /\ times # {}
    BY <1>0, <1>1, <1>4
  <2>2. PICK t \in times : \A u \in times : t <= u
    <3> HIDE DEF times
    <3> QED
      BY <2>1, LeastNatural
  <2>3. Min(times) \in times /\ \A u \in times : Min(times) <= u
    BY <2>2 DEF Min
  <2>4. end = Min(times)
    BY <1>b, <1>4
  <2>5. PICK m \in page : m.at = end
    BY <2>3, <2>4
  <2>6. end \in Nat /\ end # 0 /\ (cursor # 0 => end < cursor)
    BY <1>0, <1>1, <1>b, <2>5
  <2>7. \A e \in page : e.at >= end
    <3> SUFFICES ASSUME NEW e \in page PROVE e.at >= end
      OBVIOUS
    <3>1. e.at \in times /\ e.at \in Nat
      BY <1>0, <1>1
    <3>2. end <= e.at
      BY <2>3, <2>4, <3>1
    <3> QED
      BY <2>6, <3>1, <3>2
  <2>8. ASSUME NEW e \in rows, e \notin page PROVE e.at <= end
    <3>1. ~ (e.at > m.at)
      BY <1>0, <2>5, <2>8, Behindhand
    <3>2. e.at \in Nat /\ m.at = end
      BY <1>0, <1>1, <2>5, <2>8
    <3>3. ~ (e.at > end)
      BY <3>1, <3>2
    <3> HIDE DEF times
    <3> QED
      BY <2>6, <3>2, <3>3
  <2> QED
    BY <1>0, <1>2, <1>4, <2>6, <2>7, <2>8
<1> QED
  BY <1>3, <1>4

(* Every page lies below the cursor and holds the latest of what does.     *)
LEMMA ReadPageKeeps ==
  ASSUME EventInv, ReadPage
  PROVE  EventInv'
<1>0. EventTypes /\ Counted /\ CutsAll /\ Parted
  BY DEF EventInv
<1>1. PICK cursor \in Nat : cursor = reader.cursor
  BY <1>0 DEF EventTypes
<1>2. PICK rows : rows = Below(cursor)
  OBVIOUS
<1>3. PICK page : page = Page(cursor)
  OBVIOUS
<1>4. PICK end : end = Foot(cursor, page)
  OBVIOUS
<1>5. PICK there : there = IF reader.open THEN reader.there ELSE {e.id : e \in entries}
  OBVIOUS
<1>6. /\ page \subseteq rows /\ (rows # {} => page # {}) /\ end \in Nat
      /\ \A e \in page : e.at >= end
      /\ page # {} => end # 0 /\ (cursor # 0 => end < cursor)
      /\ \A e \in rows \ page : e.at <= end
  BY <1>0, <1>2, <1>3, <1>4, PageIs
<1>7. PICK again : again = (reader.twice \/ \E e \in page : e.id \in reader.shown \cap there)
  OBVIOUS
<1>8. PICK last \in BOOLEAN : last = (rows \ page = {})
  OBVIOUS
<1>9. /\ ~ reader.over /\ UNCHANGED <<variables, entries, logger, loggings>>
      /\ reader' = [open |-> TRUE, shown |-> reader.shown \cup {e.id : e \in page}, twice |-> again,
                    there |-> there, cursor |-> end, over |-> last]
      /\ met' = met \cup (IF \E e \in rows \ page : e.at = end THEN {"one instant"} ELSE {})
  BY <1>1, <1>2, <1>3, <1>4, <1>5, <1>7, <1>8 DEF ReadPage, Below, Foot
<1>10. /\ reader'.open = TRUE /\ reader'.shown = reader.shown \cup {e.id : e \in page} /\ reader'.twice = again
       /\ reader'.there = there /\ reader'.cursor = end /\ reader'.over = last
  BY <1>9
<1>11. EventTypes'
  <2>1. reader' = [open |-> reader'.open, shown |-> reader'.shown, twice |-> reader'.twice,
                   there |-> reader'.there, cursor |-> reader'.cursor, over |-> reader'.over]
    BY <1>9, <1>10
  <2>2. reader'.cursor \in Nat /\ reader'.open \in BOOLEAN /\ reader'.over \in BOOLEAN
    BY <1>6, <1>8, <1>10
  <2> QED
    BY <1>0, <1>9, <2>1, <2>2 DEF EventTypes, NewId, Changing
<1>12. Counted' /\ CutsAll'
  BY <1>0, <1>9 DEF Counted, CutsAll, Adding, Changing
<1>13. Parted'
  <2>1. \A e \in entries : e.at \in Nat /\ e.at # 0
    BY <1>0, EventsAssumption DEF EventTypes, IsEntry
  <2>2. \A i \in there : \E e \in entries : e.id = i
    BY <1>0, <1>5 DEF Parted
  <2>3. reader.open => cursor # 0 /\ there = reader.there
    BY <1>0, <1>1, <1>5, <1>9 DEF Parted
  <2>4. ~ reader.open => reader.shown = {} /\ there = {e.id : e \in entries} /\ cursor = 0
    BY <1>0, <1>1, <1>5 DEF Parted
  <2>5. \A e \in entries : e.id \in reader.shown /\ e.id \in there => reader.open /\ e.at >= cursor
    BY <1>0, <1>1, <2>3, <2>4 DEF Parted
  <2>6. \A e \in page : e \in entries /\ (cursor = 0 \/ e.at < cursor)
    BY <1>2, <1>6 DEF Below
  <2>7. ~ again
    <3> SUFFICES ASSUME NEW e \in page, e.id \in reader.shown, e.id \in there PROVE FALSE
      BY <1>0, <1>7 DEF Parted
    <3> QED
      BY <2>1, <2>3, <2>5, <2>6
  <2>8. ~ last => end # 0
    BY <1>6, <1>8
  <2>9. ASSUME NEW e \in entries, e.id \in reader.shown \cup {d.id : d \in page}, e.id \in there
        PROVE  e.at >= end
    <3>1. CASE e.id \in reader.shown
      <4>1. e.at >= cursor /\ cursor # 0 /\ end <= cursor
        <5>1. e.at >= cursor /\ cursor # 0
          BY <2>3, <2>5, <2>9, <3>1
        <5>2. end <= cursor
          BY <1>4, <1>6, <5>1 DEF Foot
        <5> QED
          BY <5>1, <5>2
      <4> QED
        BY <1>6, <2>1, <4>1
    <3>2. CASE e.id \in {d.id : d \in page}
      <4>1. e \in page
        BY <1>0, <2>6, <2>9, <3>2 DEF EventTypes
      <4> QED
        BY <1>6, <4>1
    <3> QED
      BY <2>9, <3>1, <3>2
  <2>10. ASSUME "one instant" \notin met', NEW e \in entries, e.id \in there, e.at >= end \/ last
         PROVE  e.id \in reader.shown \cup {d.id : d \in page}
    <3>1. "one instant" \notin met /\ \A d \in rows \ page : d.at # end
      BY <1>9, <2>10
    <3>2. CASE e \in rows
      <4>1. ~ (e \in rows \ page)
        <5>1. CASE last
          BY <1>8, <5>1
        <5>2. CASE e.at >= end
          <6> SUFFICES ASSUME e \in rows \ page PROVE FALSE
            OBVIOUS
          <6>1. e.at <= end /\ e.at # end /\ e.at >= end
            BY <1>6, <3>1, <5>2
          <6>2. e.at \in Nat /\ end \in Nat
            BY <1>6, <2>1, <2>10
          <6> QED
            BY <6>1, <6>2
        <5> QED
          BY <2>10, <5>1, <5>2
      <4> QED
        BY <3>2, <4>1
    <3>3. CASE e \notin rows
      <4>1. cursor # 0 /\ e.at >= cursor
        <5>1. e.at \in Nat /\ cursor # 0 /\ ~ (e.at < cursor)
          BY <1>2, <2>1, <2>10, <3>3 DEF Below
        <5> QED
          BY <1>1, <5>1
      <4>2. reader.open /\ e.id \in reader.there
        BY <2>3, <2>4, <2>10, <4>1
      <4> QED
        BY <1>0, <1>1, <2>10, <3>1, <4>1, <4>2 DEF Parted
    <3> QED
      BY <3>2, <3>3
  <2>11. "one instant" \notin met' /\ last => there \subseteq reader.shown \cup {d.id : d \in page}
    <3> SUFFICES ASSUME "one instant" \notin met', last, NEW i \in there
                 PROVE  i \in reader.shown \cup {d.id : d \in page}
      OBVIOUS
    <3>1. PICK e \in entries : e.id = i
      BY <2>2
    <3> QED
      BY <2>10, <3>1
  <2> QED
    BY <1>9, <1>10, <2>2, <2>7, <2>8, <2>9, <2>10, <2>11 DEF Parted
<1> QED
  BY <1>11, <1>12, <1>13 DEF EventInv

LEMMA EventStart ==
  ASSUME EventsStart
  PROVE  EventInv
<1>1. logger = [l \in Loggers |-> Still] /\ loggings = 0 /\ met = {}
  BY DEF EventsStart
<1>2. IsFiniteSet(variables) /\ Cardinality(variables) \in Nat /\ Cardinality(variables) <= 2
  <2>1. PICK a, b : a = [id |-> 1, order |-> 0] /\ b = [id |-> 2, order |-> 1]
    OBVIOUS
  <2>2. a # b
    BY <2>1
  <2>3. variables \in {{a}, {a, b}, {}}
    BY <2>1 DEF EventsStart
  <2>4. IsFiniteSet({a}) /\ Cardinality({a}) = 1
    BY FS_Singleton
  <2>5. IsFiniteSet({a} \cup {b}) /\ Cardinality({a} \cup {b}) = Cardinality({a}) + 1
    BY <2>2, <2>4, FS_AddElement
  <2>6. {a, b} = {a} \cup {b}
    OBVIOUS
  <2>7. CASE variables = {a}
    BY <2>4, <2>7
  <2>8. CASE variables = {a, b}
    BY <2>4, <2>5, <2>6, <2>8
  <2>9. CASE variables = {}
    BY <2>9, FS_EmptySet
  <2> QED
    BY <2>3, <2>7, <2>8, <2>9
<1>3. Counted
  <2>1. \A l \in Loggers : ~ Adding(l)
    BY <1>1 DEF Adding, Still
  <2>2. PICK c \in Nat : c = Cardinality(variables) /\ c <= MostVariables
    BY <1>2, EventsAssumption
  <2> QED
    BY <2>1, <2>2 DEF Counted
<1>4. IsFiniteSet(entries) /\ (\A e \in entries : IsEntry(e) /\ e.id < NewId /\ e.values = {})
      /\ \A e, f \in entries : e.id = f.id => e = f
  <2>1. CASE entries = {}
    BY <2>1, FS_EmptySet
  <2>2. ASSUME NEW t \in Instants, NEW u \in Instants,
               entries = {[id |-> 1, at |-> t, values |-> {}], [id |-> 2, at |-> u, values |-> {}]}
        PROVE  <1>4!1
    <3>1. PICK a : a = [id |-> 1, at |-> t, values |-> {}]
      OBVIOUS
    <3>2. PICK b : b = [id |-> 2, at |-> u, values |-> {}]
      OBVIOUS
    <3>3. entries = {a} \cup {b}
      BY <2>2, <3>1, <3>2
    <3>4. IsFiniteSet(entries)
      BY <3>3, FS_Singleton, FS_Union
    <3>5. IsEntry(a) /\ IsEntry(b)
      BY <3>1, <3>2 DEF IsEntry
    <3>6. NewId = 3
      BY <1>1 DEF NewId
    <3> QED
      BY <3>1, <3>2, <3>3, <3>4, <3>5, <3>6
  <2>3. \/ entries = {}
        \/ \E t, u \in Instants : entries = {[id |-> 1, at |-> t, values |-> {}], [id |-> 2, at |-> u, values |-> {}]}
    BY DEF EventsStart
  <2> QED
    BY <2>1, <2>2, <2>3
<1>5. CASE reader = [NoList EXCEPT !.over = TRUE]
  <2>1. reader = [open |-> FALSE, shown |-> {}, twice |-> FALSE, there |-> {}, cursor |-> 0, over |-> TRUE]
    BY <1>5 DEF NoList
  <2> QED
    BY <1>1, <1>2, <1>3, <1>4, <2>1, StillIs DEF EventInv, EventTypes, CutsAll, Parted, OneMind, Changing, Still
<1>6. CASE reader = NoList
  <2>1. reader = [open |-> FALSE, shown |-> {}, twice |-> FALSE, there |-> {}, cursor |-> 0, over |-> FALSE]
    BY <1>6 DEF NoList
  <2> QED
    BY <1>1, <1>2, <1>3, <1>4, <2>1, StillIs DEF EventInv, EventTypes, CutsAll, Parted, OneMind, Changing, Still
<1> QED
  BY <1>5, <1>6 DEF EventsStart

LEMMA EventRests ==
  ASSUME EventInv, UNCHANGED eventVars
  PROVE  EventInv'
BY DEF EventInv, EventTypes, Counted, CutsAll, Parted, eventVars, Adding, Changing, NewId

LEMMA EventSays ==
  EventInv => EventsHold
<1> SUFFICES ASSUME EventInv PROVE EventsHold
  OBVIOUS
<1>1. EventTypes /\ Counted /\ CutsAll /\ Parted
  BY DEF EventInv
<1>2. Cardinality(variables) > MostVariables => "two additions" \in met
  <2>1. PICK c \in Nat : c = Cardinality(variables)
    BY <1>1, FS_CardinalityType DEF EventTypes
  <2>2. "two additions" \notin met => c <= MostVariables
    BY <1>1, <2>1 DEF Counted
  <2>3. PICK n \in Nat : n = MostVariables
    BY EventsAssumption
  <2>4. "two additions" \notin met => ~ (c > n)
    <3> SUFFICES ASSUME c <= n PROVE ~ (c > n)
      BY <2>2, <2>3
    <3> QED
      BY <2>3
  <2> QED
    BY <2>1, <2>3, <2>4
<1>3. ASSUME NEW e \in entries, "two edits" \notin met
      PROVE  ~ (Cardinality({x.edit : x \in e.values}) > 1)
  <2>1. PICK edits : edits = {x.edit : x \in e.values}
    OBVIOUS
  <2>2. \A x, y \in edits : x = y
    BY <1>1, <1>3, <2>1 DEF CutsAll, OneMind
  <2>3. Cardinality(edits) \in {0, 1}
    BY <2>2, AtMostOne
  <2> QED
    BY <2>1, <2>3
<1> QED
  BY <1>1, <1>2, <1>3 DEF EventsHold, OneEditHolds, PagesShowAll, Parted

(***************************************************************************)
(* Whatever the size of a page, the limit of the variables, the instants   *)
(* and the requests: an event has no more variables than allowed unless    *)
(* two additions were counted at the same time, an entry holds the values  *)
(* of one edit unless two crossed, and the pages of a reading show every   *)
(* entry that stood unmoved throughout exactly once, unless a page ended   *)
(* among entries of one instant.                                           *)
(***************************************************************************)
THEOREM EventsStayTogether == EventsSpec => []EventsHold
<1>1. EventsStart => EventInv
  BY EventStart
<1>2. EventInv /\ [EventsNext]_eventVars => EventInv'
  <2> SUFFICES ASSUME EventInv, [EventsNext]_eventVars PROVE EventInv'
    OBVIOUS
  <2>1. ASSUME NEW l \in Loggers,
               \/ CountVariables(l) \/ InsertVariable(l) \/ DeleteVariable(l) \/ DeleteEvent(l)
               \/ CreateEntry(l) \/ OpenEntry(l) \/ MoveEntry(l) \/ ClearValues(l) \/ StopWaiting(l) \/ InsertValues(l)
               \/ DeleteEntry(l) \/ CancelLogging(l)
        PROVE  EventInv'
    BY <2>1, CountVariablesKeeps, InsertVariableKeeps, DeleteVariableKeeps, DeleteEventKeeps, CreateEntryKeeps,
       OpenEntryKeeps, MoveEntryKeeps, ClearValuesKeeps, StopWaitingKeeps, InsertValuesKeeps, DeleteEntryKeeps, CancelLoggingKeeps
  <2>2. CASE ReadPage
    BY <2>2, ReadPageKeeps
  <2>3. CASE UNCHANGED eventVars
    BY <2>3, EventRests
  <2> QED
    BY <2>1, <2>2, <2>3 DEF EventsNext
<1>3. EventInv => EventsHold
  BY EventSays
<1> QED
  BY <1>1, <1>2, <1>3, PTL DEF EventsSpec

-----------------------------------------------------------------------------
(* WatchHistory: one show, whoever saves, edits and refreshes it.          *)

Status == {"begun", "complete", "other", "new_season"}
Kept == [kind : {"added", "started", "completed", "progress", "new_season"},
         from : Int, to : Int, old : BOOLEAN, readers : SUBSET Viewers]
IsShow(s) == s \in [status : Status, watched : Nat, seasons : Nat, checked : BOOLEAN]
Sent == Nat \cup {NotSent}
IsView(x) ==
  \/ x = Idling
  \/ x \in [step : {"new"}, status : Status, seasons : Nat]
  \/ x \in [step : {"read", "written"}, status : Status \cup {Unsent}, watched : Sent, seasons : Sent,
            was : Status, stood : Nat]
  \/ x \in [step : {"progress", "begin"}, from : Nat, to : Nat]
  \/ x \in [step : {"merge"}, to : Nat]
  \/ x \in [step : {"again"}, status : Status, was : Status]
  \/ x \in [step : {"fetch"}, had : Nat]

ShowTypes ==
  /\ copies \in Int /\ newest \in Nat /\ aired \in Nat /\ finishes \in Nat
  /\ show = Absent \/ IsShow(show)
  /\ history \in Seq(Kept)
OfShow(x) == x.step \notin {"idle", "new"} => show # Absent
ViewTypes == DOMAIN viewing = Viewers /\ \A v \in Viewers : IsView(viewing[v]) /\ OfShow(viewing[v])

(* What is at work agrees with the row, when it is alone.                  *)
Fits(x) ==
  /\ x.step = "new" => show = Absent
  /\ x.step \in {"read", "again"} => x.was = show.status
OneViews ==
  "crossed" \notin upheavals =>
    /\ \A v, w \in Viewers : viewing[v] # Idling /\ viewing[w] # Idling => v = w
    /\ copies = IF show = Absent THEN 0 ELSE 1
    /\ \A v \in Viewers : Fits(viewing[v])

(* An edit that has made the show complete still owes the entry.           *)
Completed(h) == {i \in DOMAIN h : h[i].kind = "completed"}
Undisturbed == upheavals \cap {"crossed", "cut"} = {}
Owes(x) == x.step = "written" /\ x.was # "complete" /\ show.status = "complete"
Owing(x) == IF Owes(x) THEN 1 ELSE 0
EntriesTell ==
  Undisturbed =>
    /\ (\E v \in Viewers : Owes(viewing[v])) => finishes = Cardinality(Completed(history)) + 1
    /\ (\A v \in Viewers : ~ Owes(viewing[v])) => finishes = Cardinality(Completed(history))

(* A refresh alone has looked up no fewer seasons than were told.          *)
LooksUpAlone ==
  /\ show # Absent => newest <= show.seasons
  /\ "refreshed twice" \notin upheavals =>
       /\ "announced twice" \notin upheavals
       /\ \A v, w \in Viewers : viewing[v].step = "fetch" /\ viewing[w].step = "fetch" => v = w
       /\ \A v \in Viewers : viewing[v].step = "fetch" => newest <= viewing[v].had

(* Nobody splits a sitting who knows the latest entry.                     *)
Unsplit(h) ==
  \A i \in DOMAIN h : i > 1 => ~ (h[i].kind = "progress" /\ h[i - 1].kind = "progress" /\ ~ h[i - 1].old)
Settles(h) == h = <<>> \/ h[Len(h)].kind # "progress" \/ h[Len(h)].old
ReadBy(h, v) == {i \in DOMAIN h : v \in h[i].readers}
OfRun(x, v, h) ==
  /\ x.step = "merge" => h # <<>> /\ h[Len(h)].kind = "progress" /\ ReadBy(h, v) = {Len(h)}
  /\ x.step # "merge" => ReadBy(h, v) = {}
  /\ x.step = "begin" => Settles(h)
RunsMerge ==
  "crossed" \notin upheavals => Unsplit(history) /\ \A v \in Viewers : OfRun(viewing[v], v, history)

WatchInv == ShowTypes /\ ViewTypes /\ OneViews /\ EntriesTell /\ LooksUpAlone /\ RunsMerge

(* What an entry more, or the last one less, makes of a history.           *)
LEMMA CompletedIs ==
  ASSUME NEW h \in Seq(Kept)
  PROVE  IsFiniteSet(Completed(h)) /\ Cardinality(Completed(h)) \in Nat
<1>1. Completed(h) \subseteq 1 .. Len(h)
  BY LenProperties DEF Completed
<1>2. Len(h) \in Nat
  BY LenProperties
<1>3. IsFiniteSet(1 .. Len(h))
  BY <1>2, FS_Interval
<1>4. IsFiniteSet(Completed(h))
  BY <1>1, <1>3, FS_Subset
<1> QED
  BY <1>4, FS_CardinalityType

LEMMA AppendTells ==
  ASSUME NEW h \in Seq(Kept), NEW e \in Kept
  PROVE  /\ Append(h, e) \in Seq(Kept)
         /\ Cardinality(Completed(Append(h, e))) = Cardinality(Completed(h)) + (IF e.kind = "completed" THEN 1 ELSE 0)
<1>1. PICK n \in Nat : n = Len(h)
  BY LenProperties
<1>2. PICK g : g = Append(h, e)
  OBVIOUS
<1>3. /\ g \in Seq(Kept) /\ Len(g) = n + 1
      /\ \A i \in 1 .. n : g[i] = h[i]
      /\ g[n + 1] = e
  BY <1>1, <1>2, AppendProperties
<1>4. DOMAIN h = 1 .. n /\ DOMAIN g = 1 .. (n + 1)
  BY <1>1, <1>3, LenProperties
<1>5. CASE e.kind = "completed"
  <2>1. Completed(g) = Completed(h) \cup {n + 1}
    BY <1>1, <1>3, <1>4, <1>5 DEF Completed
  <2>2. n + 1 \notin Completed(h)
    BY <1>1, <1>4 DEF Completed
  <2>3. Cardinality(Completed(g)) = Cardinality(Completed(h)) + 1
    BY <2>1, <2>2, CompletedIs, FS_AddElement
  <2> QED
    BY <1>2, <1>3, <1>5, <2>3
<1>6. CASE e.kind # "completed"
  <2>1. Completed(g) = Completed(h)
    BY <1>1, <1>3, <1>4, <1>6 DEF Completed
  <2> QED
    BY <1>2, <1>3, <1>6, <2>1, CompletedIs
<1> QED
  BY <1>5, <1>6

LEMMA AppendReads ==
  ASSUME NEW h \in Seq(Kept), NEW e \in Kept, e.readers = {}
  PROVE  \A w : ReadBy(Append(h, e), w) = ReadBy(h, w)
<1>1. PICK n \in Nat : n = Len(h)
  BY LenProperties
<1>2. PICK g : g = Append(h, e)
  OBVIOUS
<1>3. /\ g \in Seq(Kept) /\ Len(g) = n + 1
      /\ \A i \in 1 .. n : g[i] = h[i]
      /\ g[n + 1] = e
  BY <1>1, <1>2, AppendProperties
<1>4. DOMAIN h = 1 .. n /\ DOMAIN g = 1 .. (n + 1)
  BY <1>1, <1>3, LenProperties
<1> QED
  BY <1>1, <1>2, <1>3, <1>4 DEF ReadBy

(* An entry of progress follows no fresh one.                              *)
LEMMA AppendUnsplit ==
  ASSUME NEW h \in Seq(Kept), NEW e \in Kept, Unsplit(h), e.kind # "progress" \/ Settles(h)
  PROVE  Unsplit(Append(h, e))
<1>1. PICK n \in Nat : n = Len(h)
  BY LenProperties
<1>2. PICK g : g = Append(h, e)
  OBVIOUS
<1>3. /\ g \in Seq(Kept) /\ Len(g) = n + 1
      /\ \A i \in 1 .. n : g[i] = h[i]
      /\ g[n + 1] = e
  BY <1>1, <1>2, AppendProperties
<1>4. DOMAIN h = 1 .. n /\ DOMAIN g = 1 .. (n + 1)
  BY <1>1, <1>3, LenProperties
<1>5. SUFFICES ASSUME NEW i \in 1 .. (n + 1), i > 1, g[i].kind = "progress", g[i - 1].kind = "progress", ~ g[i - 1].old
               PROVE  FALSE
  BY <1>2, <1>4 DEF Unsplit
<1>6. i - 1 \in 1 .. n /\ g[i - 1] = h[i - 1]
  BY <1>1, <1>3, <1>5
<1>7. CASE i \in 1 .. n
  <2>1. g[i] = h[i]
    BY <1>3, <1>7
  <2> QED
    BY <1>4, <1>5, <1>6, <1>7, <2>1 DEF Unsplit
<1>8. CASE i \notin 1 .. n
  <2>1. i = n + 1 /\ i - 1 = n
    BY <1>1, <1>5, <1>8
  <2>2. e.kind = "progress" /\ h[n].kind = "progress" /\ ~ h[n].old
    BY <1>3, <1>5, <1>6, <2>1
  <2>3. h # <<>>
    BY <1>1, <1>6, <2>1, EmptySeq
  <2> QED
    BY <1>1, <2>2, <2>3 DEF Settles
<1> QED
  BY <1>7, <1>8

LEMMA FrontTells ==
  ASSUME NEW h \in Seq(Kept), h # <<>>, h[Len(h)].kind = "progress", Unsplit(h)
  PROVE  /\ Front(h) \in Seq(Kept) /\ Completed(Front(h)) = Completed(h)
         /\ Unsplit(Front(h)) /\ Settles(Front(h))
         /\ \A w : ReadBy(Front(h), w) = ReadBy(h, w) \ {Len(h)}
<1>1. PICK n \in Nat : n = Len(h) - 1 /\ Len(h) = n + 1
  <2>1. Len(h) \in Nat \ {0}
    BY EmptySeq
  <2> QED
    BY <2>1
<1>2. PICK g : g = Front(h)
  OBVIOUS
<1>3. DOMAIN h = 1 .. (n + 1) /\ \A i \in 1 .. n : h[i] \in Kept
  BY <1>1, LenProperties, ElementOfSeq
<1>4. g \in Seq(Kept) /\ Len(g) = n /\ \A i \in 1 .. n : g[i] = h[i]
  <2>1. g = SubSeq(h, 1, n)
    BY <1>1, <1>2 DEF Front
  <2>2. /\ SubSeq(h, 1, n) \in Seq(Kept)
        /\ Len(SubSeq(h, 1, n)) = IF 1 <= n THEN n - 1 + 1 ELSE 0
        /\ \A i \in 1 .. (n - 1 + 1) : SubSeq(h, 1, n)[i] = h[1 + i - 1]
    BY <1>1, <1>3, SubSeqProperties
  <2>3. n - 1 + 1 = n /\ \A i \in 1 .. n : 1 + i - 1 = i
    BY <1>1
  <2> QED
    BY <1>1, <2>1, <2>2, <2>3
<1>5. DOMAIN g = 1 .. n
  BY <1>4, LenProperties
<1>6. Completed(g) = Completed(h)
  <2>1. h[n + 1].kind = "progress"
    BY <1>1
  <2> QED
    BY <1>1, <1>3, <1>4, <1>5, <2>1 DEF Completed
<1>7. Unsplit(g)
  <2> SUFFICES ASSUME NEW i \in 1 .. n, i > 1
               PROVE  ~ (g[i].kind = "progress" /\ g[i - 1].kind = "progress" /\ ~ g[i - 1].old)
    BY <1>5 DEF Unsplit
  <2>1. i \in DOMAIN h /\ i - 1 \in 1 .. n
    BY <1>1, <1>3
  <2>2. g[i] = h[i] /\ g[i - 1] = h[i - 1]
    BY <1>4, <2>1
  <2> QED
    BY <2>1, <2>2 DEF Unsplit
<1>8. Settles(g)
  <2>1. CASE n = 0
    <3>1. Len(g) = 0
      BY <1>4, <2>1
    <3> QED
      BY <1>4, <3>1, EmptySeq DEF Settles
  <2>2. CASE n # 0
    <3>1. n \in 1 .. n /\ n + 1 \in DOMAIN h /\ n + 1 > 1 /\ (n + 1) - 1 = n
      BY <1>1, <1>3, <2>2
    <3>2. ~ (h[n + 1].kind = "progress" /\ h[n].kind = "progress" /\ ~ h[n].old)
      BY <3>1 DEF Unsplit
    <3>3. g[Len(g)] = h[n]
      BY <1>4, <3>1
    <3> QED
      BY <1>1, <3>2, <3>3 DEF Settles
  <2> QED
    BY <2>1, <2>2
<1>9. \A w : ReadBy(g, w) = ReadBy(h, w) \ {n + 1}
  BY <1>1, <1>3, <1>4, <1>5 DEF ReadBy
<1> QED
  BY <1>1, <1>2, <1>4, <1>6, <1>7, <1>8, <1>9

(* What the DELETE or the UPDATE of an entry takes from its place.         *)
LEMMA RemoveIsKept ==
  ASSUME NEW h \in Seq(Kept), NEW i \in DOMAIN h
  PROVE  RemoveAt(h, i) \in Seq(Kept) /\ (i = Len(h) => RemoveAt(h, i) = Front(h))
<1>1. PICK n \in Nat : n = Len(h) /\ DOMAIN h = 1 .. n
  BY LenProperties
<1>2. \A j \in 1 .. n : h[j] \in Kept
  BY <1>1, ElementOfSeq
<1>3. i \in Nat /\ i >= 1 /\ i <= n
  BY <1>1
<1>4. SubSeq(h, 1, i - 1) \in Seq(Kept)
  BY <1>1, <1>2, <1>3, SubSeqProperties
<1>5. SubSeq(h, i + 1, n) \in Seq(Kept)
  BY <1>1, <1>2, <1>3, SubSeqProperties
<1>6. RemoveAt(h, i) \in Seq(Kept)
  BY <1>1, <1>4, <1>5, ConcatProperties DEF RemoveAt
<1>7. ASSUME i = n PROVE RemoveAt(h, i) = Front(h)
  <2>1. SubSeq(h, i + 1, n) = <<>>
    <3>1. Len(SubSeq(h, i + 1, n)) = 0
      BY <1>1, <1>2, <1>3, <1>7, SubSeqProperties
    <3> QED
      BY <1>5, <3>1, EmptySeq
  <2>2. SubSeq(h, 1, i - 1) \o <<>> = SubSeq(h, 1, i - 1)
    BY <1>4, ConcatEmptySeq
  <2> QED
    BY <1>1, <1>7, <2>1, <2>2 DEF RemoveAt, Front
<1> QED
  BY <1>1, <1>6, <1>7

(* What a change of status writes.                                         *)
LEMMA LoggedTells ==
  ASSUME NEW h \in Seq(Kept), NEW status
  PROVE  /\ h \o Logged(status) \in Seq(Kept) /\ (Unsplit(h) => Unsplit(h \o Logged(status)))
         /\ Cardinality(Completed(h \o Logged(status)))
              = Cardinality(Completed(h)) + (IF status = "complete" THEN 1 ELSE 0)
         /\ \A w : ReadBy(h \o Logged(status), w) = ReadBy(h, w)
<1>1. /\ Entry("started") \in Kept /\ Entry("completed") \in Kept
      /\ Entry("started").kind = "started" /\ Entry("completed").kind = "completed"
      /\ Entry("started").readers = {} /\ Entry("completed").readers = {}
  BY DEF Entry, Kept
<1>2. CASE status = "begun"
  <2>1. Logged(status) = <<Entry("started")>> /\ status # "complete"
    BY <1>2 DEF Logged
  <2>2. h \o Logged(status) = Append(h, Entry("started"))
    BY <1>1, <2>1, AppendIsConcat
  <2>3. PICK e \in Kept : e = Entry("started") /\ e.kind = "started" /\ e.readers = {}
    BY <1>1
  <2>4. Append(h, e) \in Seq(Kept) /\ Cardinality(Completed(Append(h, e))) = Cardinality(Completed(h)) + 0
    BY <2>3, AppendTells
  <2>5. \A w : ReadBy(Append(h, e), w) = ReadBy(h, w)
    BY <2>3, AppendReads
  <2>6. Unsplit(h) => Unsplit(Append(h, e))
    BY <2>3, AppendUnsplit
  <2> QED
    BY <2>1, <2>2, <2>3, <2>4, <2>5, <2>6
<1>3. CASE status = "complete"
  <2>1. Logged(status) = <<Entry("completed")>>
    BY <1>3 DEF Logged
  <2>2. h \o Logged(status) = Append(h, Entry("completed"))
    BY <1>1, <2>1, AppendIsConcat
  <2>3. PICK e \in Kept : e = Entry("completed") /\ e.kind = "completed" /\ e.readers = {}
    BY <1>1
  <2>4. Append(h, e) \in Seq(Kept) /\ Cardinality(Completed(Append(h, e))) = Cardinality(Completed(h)) + 1
    BY <2>3, AppendTells
  <2>5. \A w : ReadBy(Append(h, e), w) = ReadBy(h, w)
    BY <2>3, AppendReads
  <2>6. Unsplit(h) => Unsplit(Append(h, e))
    BY <2>3, AppendUnsplit
  <2> QED
    BY <1>3, <2>2, <2>3, <2>4, <2>5, <2>6
<1>4. CASE status \notin {"begun", "complete"}
  <2>1. Logged(status) = <<>>
    BY <1>4 DEF Logged
  <2>2. h \o Logged(status) = h
    BY <2>1, ConcatEmptySeq
  <2> QED
    BY <1>4, <2>2, CompletedIs
<1> QED
  BY <1>2, <1>3, <1>4

(* One request goes on, the others stay where they are.                    *)
LEMMA ViewingIs ==
  ASSUME ViewTypes, NEW v \in Viewers, NEW x, viewing' = [viewing EXCEPT ![v] = x]
  PROVE  /\ DOMAIN viewing' = Viewers /\ viewing'[v] = x
         /\ \A w \in Viewers : w # v => viewing'[w] = viewing[w]
BY DEF ViewTypes

LEMMA NoneMore ==
  ASSUME NEW c \in Nat, NEW n, n = 0
  PROVE  c + n = c
OBVIOUS

LEMMA FewerStill ==
  ASSUME NEW k \in Nat, NEW m \in Nat, NEW n \in Nat, k <= m, m <= n
  PROVE  k <= n
OBVIOUS

LEMMA MoreStill ==
  ASSUME NEW k \in Nat, NEW m \in Nat, NEW n \in Nat, k <= m, n > m
  PROVE  ~ (n <= k)
OBVIOUS

LEMMA IdlingIs ==
  Idling.step = "idle" /\ IsView(Idling)
BY DEF Idling, IsView

LEMMA StepKeeps ==
  ASSUME WatchInv, NEW v \in Viewers, NEW x, IsView(x), viewing' = [viewing EXCEPT ![v] = x],
         viewing[v] # Idling \/ x # Idling,
         x # Idling /\ (\E w \in Viewers : w # v /\ viewing[w] # Idling) => "crossed" \in upheavals',
         upheavals \subseteq upheavals',
         ShowTypes', OfShow(x)', show # Absent => show' # Absent, show' # Absent => newest' <= show'.seasons,
         "crossed" \notin upheavals' =>
           /\ copies' = (IF show' = Absent THEN 0 ELSE 1) /\ Fits(x)'
           /\ Unsplit(history') /\ OfRun(x, v, history')
           /\ \A w \in Viewers : w # v => ReadBy(history', w) = {},
         Undisturbed' => finishes' = Cardinality(Completed(history')) + Owing(x)',
         "refreshed twice" \notin upheavals' =>
           /\ "announced twice" \notin upheavals'
           /\ \A w \in Viewers : w # v /\ viewing[w].step = "fetch" => newest' <= viewing[w].had
           /\ x.step = "fetch" => newest' <= x.had /\ \A w \in Viewers : w # v => viewing[w].step # "fetch"
  PROVE  WatchInv'
<1>0. ShowTypes /\ ViewTypes /\ OneViews /\ EntriesTell /\ LooksUpAlone
  BY DEF WatchInv
<1>1. /\ DOMAIN viewing' = Viewers /\ viewing'[v] = x
      /\ \A w \in Viewers : w # v => viewing'[w] = viewing[w]
  BY <1>0, ViewingIs
<1>2. ViewTypes'
  <2>1. \A w \in Viewers : w # v => OfShow(viewing[w])'
    BY <1>0, <1>1 DEF ViewTypes, OfShow
  <2>2. OfShow(viewing[v])'
    BY <1>1 DEF OfShow
  <2> QED
    BY <1>0, <1>1, <2>1, <2>2 DEF ViewTypes
<1>3. "crossed" \notin upheavals' => \A w \in Viewers : w # v => viewing'[w] = Idling
  BY <1>0, <1>1 DEF OneViews
<1>4. OneViews'
  <2> SUFFICES ASSUME "crossed" \notin upheavals'
               PROVE  /\ \A u, w \in Viewers : viewing'[u] # Idling /\ viewing'[w] # Idling => u = w
                      /\ copies' = IF show' = Absent THEN 0 ELSE 1
                      /\ \A w \in Viewers : Fits(viewing[w])'
    BY DEF OneViews
  <2>1. \A w \in Viewers : w # v => Fits(viewing[w])'
    <3> SUFFICES ASSUME NEW w \in Viewers, w # v PROVE Fits(viewing[w])'
      OBVIOUS
    <3>1. viewing'[w].step = "idle"
      BY <1>3, IdlingIs
    <3> QED
      BY <3>1 DEF Fits
  <2>2. Fits(viewing[v])'
    BY <1>1 DEF Fits
  <2> QED
    BY <1>3, <2>1, <2>2
<1>5. EntriesTell'
  <2> SUFFICES ASSUME Undisturbed'
               PROVE  /\ (\E w \in Viewers : Owes(viewing[w])') => finishes' = Cardinality(Completed(history')) + 1
                      /\ (\A w \in Viewers : ~ Owes(viewing[w])') => finishes' = Cardinality(Completed(history'))
    BY DEF EntriesTell
  <2>1. "crossed" \notin upheavals'
    BY DEF Undisturbed
  <2>2. \A w \in Viewers : w # v => ~ Owes(viewing[w])'
    <3> SUFFICES ASSUME NEW w \in Viewers, w # v PROVE ~ Owes(viewing[w])'
      OBVIOUS
    <3>1. viewing'[w].step = "idle"
      BY <1>3, <2>1, IdlingIs
    <3> QED
      BY <3>1 DEF Owes
  <2>3. Owes(viewing[v])' = Owes(x)'
    BY <1>1 DEF Owes
  <2>4. CASE Owes(x)'
    <3>1. Owing(x)' = 1
      BY <2>4 DEF Owing
    <3> QED
      BY <2>3, <2>4, <3>1
  <2>5. CASE ~ Owes(x)'
    <3>1. finishes' = Cardinality(Completed(history'))
      <4>1. PICK c \in Nat : c = Cardinality(Completed(history'))
        BY CompletedIs DEF ShowTypes
      <4>2. Owing(x)' = 0
        BY <2>5 DEF Owing
      <4>3. c + Owing(x)' = c
        BY <4>2, NoneMore
      <4> QED
        BY <4>1, <4>3
    <3>2. \A w \in Viewers : ~ Owes(viewing[w])'
      BY <2>2, <2>3, <2>5
    <3> QED
      BY <3>1, <3>2
  <2> QED
    BY <2>4, <2>5
<1>6. LooksUpAlone'
  <2> SUFFICES ASSUME "refreshed twice" \notin upheavals'
               PROVE  /\ "announced twice" \notin upheavals'
                      /\ \A u, w \in Viewers : viewing'[u].step = "fetch" /\ viewing'[w].step = "fetch" => u = w
                      /\ \A w \in Viewers : viewing'[w].step = "fetch" => newest' <= viewing'[w].had
    BY DEF LooksUpAlone
  <2>1. \A u, w \in Viewers : viewing[u].step = "fetch" /\ viewing[w].step = "fetch" => u = w
    BY <1>0 DEF LooksUpAlone
  <2> QED
    BY <1>1, <2>1
<1>7. RunsMerge'
  <2> SUFFICES ASSUME "crossed" \notin upheavals'
               PROVE  Unsplit(history') /\ \A w \in Viewers : OfRun(viewing'[w], w, history')
    BY DEF RunsMerge
  <2>1. ASSUME NEW w \in Viewers, w # v PROVE OfRun(viewing'[w], w, history')
    <3>1. viewing'[w].step = "idle" /\ ReadBy(history', w) = {}
      BY <1>3, <2>1, IdlingIs
    <3> QED
      BY <3>1 DEF OfRun
  <2>2. OfRun(viewing'[v], v, history')
    BY <1>1
  <2> QED
    BY <2>1, <2>2
<1> QED
  BY <1>2, <1>4, <1>5, <1>6, <1>7 DEF WatchInv

(* A request that begins leaves the rows alone.                            *)
LEMMA BeginKeeps ==
  ASSUME WatchInv, NEW v \in Viewers, NEW x, IsView(x), viewing' = [viewing EXCEPT ![v] = x],
         viewing[v] = Idling, x # Idling, Fits(x), OfShow(x), x.step \notin {"written", "merge", "begin"},
         UNCHANGED <<show, copies, history, aired, newest, finishes>>,
         upheavals \subseteq upheavals',
         (\E w \in Viewers \ {v} : viewing[w] # Idling) => "crossed" \in upheavals',
         "announced twice" \in upheavals' => "announced twice" \in upheavals,
         x.step = "fetch" => /\ newest <= x.had
                             /\ (\E w \in Viewers \ {v} : viewing[w].step = "fetch") => "refreshed twice" \in upheavals'
  PROVE  WatchInv'
<1>0. ShowTypes /\ ViewTypes /\ OneViews /\ EntriesTell /\ LooksUpAlone /\ RunsMerge
  BY DEF WatchInv
<1>1. ShowTypes' /\ OfShow(x)'
  BY <1>0 DEF ShowTypes, OfShow
<1>2. "crossed" \notin upheavals' =>
           /\ copies' = (IF show' = Absent THEN 0 ELSE 1) /\ Fits(x)'
           /\ Unsplit(history') /\ OfRun(x, v, history')
           /\ \A w \in Viewers : w # v => ReadBy(history', w) = {}
  <2> SUFFICES ASSUME "crossed" \notin upheavals'
               PROVE  /\ copies' = (IF show' = Absent THEN 0 ELSE 1) /\ Fits(x)'
                      /\ Unsplit(history) /\ OfRun(x, v, history)
                      /\ \A w \in Viewers : w # v => ReadBy(history, w) = {}
    OBVIOUS
  <2>1. "crossed" \notin upheavals /\ \A w \in Viewers : viewing[w] = Idling
    OBVIOUS
  <2>2. copies' = (IF show' = Absent THEN 0 ELSE 1) /\ Fits(x)'
    BY <1>0, <2>1 DEF OneViews, Fits
  <2>3. Unsplit(history) /\ \A w \in Viewers : OfRun(Idling, w, history)
    BY <1>0, <2>1 DEF RunsMerge
  <2>4. \A w \in Viewers : ReadBy(history, w) = {}
    BY <2>3, IdlingIs DEF OfRun
  <2> QED
    BY <2>2, <2>3, <2>4 DEF OfRun
<1>3. Undisturbed' => finishes' = Cardinality(Completed(history')) + Owing(x)'
  <2> SUFFICES ASSUME Undisturbed' PROVE finishes' = Cardinality(Completed(history')) + Owing(x)'
    OBVIOUS
  <2>1. Undisturbed /\ \A w \in Viewers : viewing[w] = Idling
    BY DEF Undisturbed
  <2>2. finishes = Cardinality(Completed(history))
    <3>1. \A w \in Viewers : ~ Owes(viewing[w])
      BY <2>1, IdlingIs DEF Owes
    <3> QED
      BY <1>0, <2>1, <3>1 DEF EntriesTell
  <2>3. ~ Owes(x)'
    BY DEF Owes
  <2>4. PICK c \in Nat : c = Cardinality(Completed(history))
    BY <1>0, CompletedIs DEF ShowTypes
  <2>5. Owing(x)' = 0
    BY <2>3 DEF Owing
  <2>6. c + Owing(x)' = c
    BY <2>5, NoneMore
  <2> QED
    BY <2>2, <2>4, <2>6
<1>4. "refreshed twice" \notin upheavals' =>
        /\ "announced twice" \notin upheavals'
        /\ \A w \in Viewers : w # v /\ viewing[w].step = "fetch" => newest' <= viewing[w].had
        /\ x.step = "fetch" => newest' <= x.had /\ \A w \in Viewers : w # v => viewing[w].step # "fetch"
  BY <1>0 DEF LooksUpAlone
<1>5. show' # Absent => newest' <= show'.seasons
  BY <1>0 DEF LooksUpAlone
<1>6. x # Idling /\ (\E w \in Viewers : w # v /\ viewing[w] # Idling) => "crossed" \in upheavals'
  OBVIOUS
<1> QED
  BY <1>1, <1>2, <1>3, <1>4, <1>5, <1>6, StepKeeps

LEMMA CrossingMarks ==
  ASSUME NEW v \in Viewers, Crossing(v)
  PROVE  /\ upheavals \subseteq upheavals'
         /\ (\E w \in Viewers \ {v} : viewing[w] # Idling) => "crossed" \in upheavals'
         /\ \A u \in {"cut", "refreshed twice", "announced twice"} : u \in upheavals' <=> u \in upheavals
BY DEF Crossing

LEMMA LookForCopyKeeps ==
  ASSUME WatchInv, NEW v \in Viewers, LookForCopy(v)
  PROVE  WatchInv'
<1>1. PICK status \in Chosen, seasons \in 0 .. 1 :
        viewing' = [viewing EXCEPT ![v] = [step |-> "new", status |-> status, seasons |-> seasons]]
  BY DEF LookForCopy, Moves
<1>2. PICK x : x = [step |-> "new", status |-> status, seasons |-> seasons]
  OBVIOUS
<1>3. status \in Status /\ seasons \in Nat
  BY DEF Status, Chosen
<1>4. x \in [step : {"new"}, status : Status, seasons : Nat] /\ x.step = "new"
  BY <1>2, <1>3
<1>5. IsView(x) /\ x # Idling /\ Fits(x) /\ OfShow(x)
  BY <1>4 DEF IsView, Idling, Fits, OfShow, LookForCopy, Found
<1>6. viewing[v] = Idling /\ UNCHANGED <<show, copies, history, aired, newest, finishes>> /\ Crossing(v)
  BY DEF LookForCopy, Begins
<1> QED
  BY <1>1, <1>2, <1>4, <1>5, <1>6, CrossingMarks, BeginKeeps

LEMMA ReadShowKeeps ==
  ASSUME WatchInv, NEW v \in Viewers, ReadShow(v)
  PROVE  WatchInv'
<1>0. show # Absent /\ IsShow(show)
  BY DEF WatchInv, ShowTypes, ReadShow
<1>1. PICK status \in Chosen \cup {Unsent, "new_season"}, watched, seasons \in (0..Aired) \cup {NotSent} :
        viewing' = [viewing EXCEPT ![v] = [step |-> "read", status |-> status, watched |-> watched, seasons |-> seasons,
                                           was |-> show.status, stood |-> show.watched]]
  BY DEF ReadShow, Moves
<1>2. PICK x : x = [step |-> "read", status |-> status, watched |-> watched, seasons |-> seasons,
                    was |-> show.status, stood |-> show.watched]
  OBVIOUS
<1>3. status \in Status \cup {Unsent} /\ watched \in Sent /\ seasons \in Sent /\ show.status \in Status /\ show.watched \in Nat
  BY <1>0, WatchAssumption DEF Status, Chosen, Unsent, Sent, IsShow
<1>4. x \in [step : {"read", "written"}, status : Status \cup {Unsent}, watched : Sent, seasons : Sent, was : Status, stood : Nat]
      /\ x.step = "read" /\ x.was = show.status
  BY <1>2, <1>3
<1>5. IsView(x) /\ x # Idling /\ Fits(x) /\ OfShow(x)
  BY <1>0, <1>4 DEF IsView, Idling, Fits, OfShow
<1>6. viewing[v] = Idling /\ UNCHANGED <<show, copies, history, aired, newest, finishes>> /\ Crossing(v)
  BY DEF ReadShow, Begins
<1> QED
  BY <1>1, <1>2, <1>4, <1>5, <1>6, CrossingMarks, BeginKeeps

LEMMA LookForShowKeeps ==
  ASSUME WatchInv, NEW v \in Viewers, LookForShow(v)
  PROVE  WatchInv'
<1>0. show # Absent /\ IsShow(show)
  BY DEF WatchInv, ShowTypes, LookForShow
<1>1. PICK status \in Chosen :
        viewing' = [viewing EXCEPT ![v] = [step |-> "again", status |-> status, was |-> show.status]]
  BY DEF LookForShow, Moves
<1>2. PICK x : x = [step |-> "again", status |-> status, was |-> show.status]
  OBVIOUS
<1>3. status \in Status /\ show.status \in Status
  BY <1>0 DEF Status, Chosen, IsShow
<1>4. x \in [step : {"again"}, status : Status, was : Status] /\ x.step = "again" /\ x.was = show.status
  BY <1>2, <1>3
<1>5. IsView(x) /\ x # Idling /\ Fits(x) /\ OfShow(x)
  BY <1>0, <1>4 DEF IsView, Idling, Fits, OfShow
<1>6. viewing[v] = Idling /\ UNCHANGED <<show, copies, history, aired, newest, finishes>> /\ Crossing(v)
  BY DEF LookForShow, Begins
<1> QED
  BY <1>1, <1>2, <1>4, <1>5, <1>6, CrossingMarks, BeginKeeps

LEMMA LookStaleKeeps ==
  ASSUME WatchInv, NEW v \in Viewers, LookStale(v)
  PROVE  WatchInv'
<1>0. show # Absent /\ IsShow(show) /\ newest <= show.seasons
  BY DEF WatchInv, ShowTypes, LooksUpAlone, LookStale
<1>2. PICK x : x = [step |-> "fetch", had |-> show.seasons]
  OBVIOUS
<1>4. x \in [step : {"fetch"}, had : Nat] /\ x.step = "fetch" /\ x.had = show.seasons
  BY <1>0, <1>2 DEF IsShow
<1>5. IsView(x) /\ x # Idling /\ Fits(x) /\ OfShow(x)
  BY <1>0, <1>4 DEF IsView, Idling, Fits, OfShow
<1>6. /\ viewing[v] = Idling /\ viewing' = [viewing EXCEPT ![v] = x]
      /\ UNCHANGED <<show, copies, history, aired, newest, finishes>>
      /\ upheavals' = upheavals \cup (IF \E w \in Viewers \ {v} : viewing[w] # Idling THEN {"crossed"} ELSE {})
                        \cup (IF \E w \in Viewers \ {v} : viewing[w].step = "fetch" THEN {"refreshed twice"} ELSE {})
  BY <1>2 DEF LookStale, Begins, Moves
<1>7. /\ upheavals \subseteq upheavals'
      /\ (\E w \in Viewers \ {v} : viewing[w] # Idling) => "crossed" \in upheavals'
      /\ "announced twice" \in upheavals' => "announced twice" \in upheavals
      /\ (\E w \in Viewers \ {v} : viewing[w].step = "fetch") => "refreshed twice" \in upheavals'
  BY <1>6
<1> QED
  BY <1>0, <1>4, <1>5, <1>6, <1>7, BeginKeeps

(* Who is at work alone has no entry in hand, but to go on with it.        *)
LEMMA AloneReads ==
  ASSUME WatchInv, NEW v \in Viewers, viewing[v] # Idling, viewing[v].step # "merge", "crossed" \notin upheavals
  PROVE  Unsplit(history) /\ \A w \in Viewers : ReadBy(history, w) = {}
<1>1. Unsplit(history) /\ \A w \in Viewers : OfRun(viewing[w], w, history)
  BY DEF WatchInv, RunsMerge
<1>2. \A w \in Viewers : w # v => viewing[w] = Idling
  BY DEF WatchInv, OneViews
<1>3. \A w \in Viewers : viewing[w].step # "merge"
  BY <1>2, IdlingIs
<1> QED
  BY <1>1, <1>3 DEF OfRun

(* A request that is done.                                                 *)
LEMMA EndKeeps ==
  ASSUME WatchInv, NEW v \in Viewers, viewing' = [viewing EXCEPT ![v] = Idling], viewing[v] # Idling,
         upheavals \subseteq upheavals', ShowTypes', show # Absent => show' # Absent, show' # Absent => newest' <= show'.seasons,
         "crossed" \notin upheavals' =>
           /\ copies' = (IF show' = Absent THEN 0 ELSE 1)
           /\ Unsplit(history') /\ \A w \in Viewers : ReadBy(history', w) = {},
         Undisturbed' => finishes' = Cardinality(Completed(history')),
         "refreshed twice" \notin upheavals' =>
           /\ "announced twice" \notin upheavals'
           /\ \A w \in Viewers : w # v /\ viewing[w].step = "fetch" => newest' <= viewing[w].had
  PROVE  WatchInv'
<1>1. Owing(Idling)' = 0
  BY IdlingIs DEF Owing, Owes
<1>2. Undisturbed' => finishes' = Cardinality(Completed(history')) + Owing(Idling)'
  BY <1>1, NoneMore, CompletedIs DEF ShowTypes
<1>3. Fits(Idling)' /\ OfShow(Idling)'
  BY IdlingIs DEF Fits, OfShow
<1>4. "crossed" \notin upheavals' =>
        /\ copies' = (IF show' = Absent THEN 0 ELSE 1) /\ Fits(Idling)'
        /\ Unsplit(history') /\ OfRun(Idling, v, history')
        /\ \A w \in Viewers : w # v => ReadBy(history', w) = {}
  <2> SUFFICES ASSUME "crossed" \notin upheavals' PROVE OfRun(Idling, v, history')
    BY <1>3
  <2> QED
    BY IdlingIs DEF OfRun
<1>5. Idling.step # "fetch" /\ IsView(Idling)
  BY IdlingIs
<1> QED
  BY <1>2, <1>3, <1>4, <1>5, StepKeeps

LEMMA SaveShowKeeps ==
  ASSUME WatchInv, NEW v \in Viewers, SaveShow(v)
  PROVE  WatchInv'
<1>0. ShowTypes /\ ViewTypes /\ OneViews /\ EntriesTell /\ LooksUpAlone
  BY DEF WatchInv
<1>1. /\ viewing[v].step = "new" /\ copies' = copies + 1 /\ viewing' = [viewing EXCEPT ![v] = Idling]
      /\ UNCHANGED <<views, aired, upheavals>>
  BY DEF SaveShow, Moves
<1>2. viewing[v] # Idling
  BY <1>1, IdlingIs
<1>3. PICK status \in Status, seasons \in Nat : viewing[v].status = status /\ viewing[v].seasons = seasons
  BY <1>0, <1>1, IdlingIs DEF ViewTypes, IsView
<1>4. CASE show # Absent
  <2>1. UNCHANGED <<show, history, newest, finishes>>
    BY <1>4 DEF SaveShow
  <2>2. "crossed" \in upheavals
    BY <1>0, <1>1, <1>4 DEF OneViews, Fits
  <2>3. ShowTypes'
    BY <1>0, <1>1, <2>1 DEF ShowTypes
  <2>4. "crossed" \in upheavals' /\ ~ Undisturbed'
    BY <1>1, <2>2 DEF Undisturbed
  <2> QED
    BY <1>0, <1>1, <1>2, <1>4, <2>1, <2>3, <2>4, EndKeeps DEF LooksUpAlone
<1>5. CASE show = Absent
  <2>1. /\ show' = [status |-> status, watched |-> 0, seasons |-> seasons, checked |-> FALSE]
        /\ history' = <<Entry("added")>> \o Logged(status)
        /\ newest' = 0
        /\ finishes' = IF status = "complete" THEN 1 ELSE 0
    BY <1>3, <1>5 DEF SaveShow
  <2>2. show' # Absent /\ IsShow(show') /\ show'.seasons = seasons
    <3>1. IsShow(show') /\ show'.seasons = seasons
      BY <1>3, <2>1 DEF IsShow
    <3>2. show' # Absent
      BY <3>1, WatchAssumption DEF IsShow, Status
    <3> QED
      BY <3>1, <3>2
  <2>3. PICK h : h = <<Entry("added")>>
    OBVIOUS
  <2>4. h \in Seq(Kept) /\ Unsplit(h) /\ Cardinality(Completed(h)) = 0 /\ \A w : ReadBy(h, w) = {}
    <3>1. Entry("added") \in Kept /\ Entry("added").kind = "added" /\ Entry("added").readers = {}
      BY DEF Entry, Kept
    <3>2. h \in Seq(Kept) /\ Len(h) = 1 /\ DOMAIN h = {1} /\ h[1] = Entry("added")
      BY <2>3, <3>1
    <3>3. Completed(h) = {}
      BY <3>1, <3>2 DEF Completed
    <3>4. \A w : ReadBy(h, w) = {}
      BY <3>1, <3>2 DEF ReadBy
    <3>5. Unsplit(h)
      BY <3>2 DEF Unsplit
    <3> QED
      BY <3>2, <3>3, <3>4, <3>5, FS_EmptySet
  <2>5. /\ history' \in Seq(Kept) /\ Unsplit(history') /\ \A w : ReadBy(history', w) = {}
        /\ Cardinality(Completed(history')) = Cardinality(Completed(h)) + (IF status = "complete" THEN 1 ELSE 0)
    BY <2>1, <2>3, <2>4, LoggedTells
  <2>6. finishes' = Cardinality(Completed(history')) /\ finishes' \in Nat
    <3>1. CASE status = "complete"
      BY <2>1, <2>4, <2>5, <3>1
    <3>2. CASE status # "complete"
      BY <2>1, <2>4, <2>5, <3>2
    <3> QED
      BY <3>1, <3>2
  <2>7. ShowTypes'
    BY <1>0, <1>1, <2>1, <2>2, <2>5, <2>6 DEF ShowTypes
  <2>8. "crossed" \notin upheavals' => copies' = 1
    BY <1>0, <1>1, <1>5 DEF OneViews
  <2>9. "refreshed twice" \notin upheavals' =>
          /\ "announced twice" \notin upheavals'
          /\ \A w \in Viewers : w # v /\ viewing[w].step = "fetch" => newest' <= viewing[w].had
    <3> SUFFICES ASSUME NEW w \in Viewers, viewing[w].step = "fetch" PROVE newest' <= viewing[w].had
      BY <1>0, <1>1 DEF LooksUpAlone
    <3>1. viewing[w].had \in Nat
      BY <1>0, IdlingIs DEF ViewTypes, IsView
    <3> QED
      BY <2>1, <3>1
  <2>10. newest' <= show'.seasons
    BY <2>1, <2>2
  <2> QED
    BY <1>1, <1>2, <1>5, <2>2, <2>5, <2>6, <2>7, <2>8, <2>9, <2>10, EndKeeps
<1> QED
  BY <1>4, <1>5

LEMMA WriteShowKeeps ==
  ASSUME WatchInv, NEW v \in Viewers, WriteShow(v)
  PROVE  WatchInv'
<1>0. ShowTypes /\ ViewTypes /\ OneViews /\ EntriesTell /\ LooksUpAlone
  BY DEF WatchInv
<1>1. /\ viewing[v].step = "read" /\ viewing' = [viewing EXCEPT ![v] = [viewing[v] EXCEPT !.step = "written"]]
      /\ UNCHANGED <<copies, history, views, aired, upheavals>>
  BY DEF WriteShow, Moves
<1>2. PICK status \in Status \cup {Unsent}, watched \in Sent, seasons \in Sent, was \in Status, stood \in Nat :
        viewing[v] = [step |-> "read", status |-> status, watched |-> watched, seasons |-> seasons,
                      was |-> was, stood |-> stood]
  BY <1>0, <1>1, IdlingIs DEF ViewTypes, IsView
<1>3. PICK x : x = [step |-> "written", status |-> status, watched |-> watched, seasons |-> seasons,
                    was |-> was, stood |-> stood]
  OBVIOUS
<1>4. viewing' = [viewing EXCEPT ![v] = x] /\ x.step = "written" /\ x.was = was
  <2>1. [viewing[v] EXCEPT !.step = "written"] = x
    BY <1>2, <1>3
  <2>2. viewing' = [viewing EXCEPT ![v] = x]
    BY <1>1, <2>1, Zenon
  <2>3. x.step = "written" /\ x.was = was
    BY <1>3
  <2> QED
    BY <2>2, <2>3
<1>5. IsView(x) /\ x # Idling /\ viewing[v] # Idling
  <2>1. x \in [step : {"read", "written"}, status : Status \cup {Unsent}, watched : Sent, seasons : Sent,
               was : Status, stood : Nat]
    BY <1>2, <1>3
  <2> QED
    BY <1>1, <1>4, <2>1, IdlingIs DEF IsView
<1>6. (\E w \in Viewers : w # v /\ viewing[w] # Idling) => "crossed" \in upheavals'
  BY <1>0, <1>1, <1>5 DEF OneViews
<1>7. show # Absent
  BY <1>0, <1>1 DEF ViewTypes, OfShow
<1>8. /\ show' = [show EXCEPT !.status = IF status = Unsent THEN @ ELSE status,
                              !.watched = IF watched = NotSent THEN @ ELSE watched,
                              !.seasons = IF seasons = NotSent THEN @ ELSE seasons]
      /\ newest' = IF seasons \in 0 .. newest THEN seasons ELSE newest
      /\ finishes' = Turned(show'.status)
  BY <1>2, <1>7 DEF WriteShow
<1>9. PICK was2 \in Status, stood2 \in Nat, had \in Nat, checked \in BOOLEAN :
        show = [status |-> was2, watched |-> stood2, seasons |-> had, checked |-> checked]
  BY <1>0, <1>7 DEF ShowTypes, IsShow
<1>10. PICK s : s = IF status = Unsent THEN was2 ELSE status
  OBVIOUS
<1>11. PICK k : k = IF watched = NotSent THEN stood2 ELSE watched
  OBVIOUS
<1>12. PICK n : n = IF seasons = NotSent THEN had ELSE seasons
  OBVIOUS
<1>13. s \in Status /\ k \in Nat /\ n \in Nat
  BY <1>2, <1>9, <1>10, <1>11, <1>12 DEF Sent
<1>14. show' = [status |-> s, watched |-> k, seasons |-> n, checked |-> checked]
  BY <1>8, <1>9, <1>10, <1>11, <1>12
<1>15. show' # Absent /\ IsShow(show') /\ show'.status = s /\ show'.seasons = n
  BY <1>9, <1>13, <1>14, WatchAssumption DEF IsShow, Status
<1>16. newest' \in Nat /\ newest' <= newest /\ newest' <= n
  <2>1. newest \in Nat /\ newest <= had
    BY <1>0, <1>7, <1>9 DEF ShowTypes, LooksUpAlone
  <2>2. CASE seasons \in 0 .. newest
    <3>1. seasons # NotSent /\ n = seasons
      BY <1>12, <2>1, <2>2 DEF NotSent
    <3> QED
      BY <1>8, <2>1, <2>2, <3>1
  <2>3. CASE seasons \notin 0 .. newest
    <3>1. newest' = newest
      BY <1>8, <2>3
    <3>2. n = had \/ (n \in Nat /\ n \notin 0 .. newest)
      BY <1>12, <1>13, <2>3
    <3> QED
      BY <1>9, <2>1, <3>1, <3>2
  <2> QED
    BY <2>2, <2>3
<1>17. show.status = was2 /\ finishes' = (IF was2 # "complete" /\ s = "complete" THEN finishes + 1 ELSE finishes)
  BY <1>8, <1>9, <1>15 DEF Turned
<1>18. finishes' \in Nat
  BY <1>0, <1>17 DEF ShowTypes
<1>19. ShowTypes'
  BY <1>0, <1>1, <1>15, <1>16, <1>18 DEF ShowTypes
<1>20. "crossed" \notin upheavals' =>
         /\ copies' = (IF show' = Absent THEN 0 ELSE 1) /\ Fits(x)'
         /\ Unsplit(history') /\ OfRun(x, v, history')
         /\ \A w \in Viewers : w # v => ReadBy(history', w) = {}
  <2> SUFFICES ASSUME "crossed" \notin upheavals
               PROVE  /\ copies' = (IF show' = Absent THEN 0 ELSE 1) /\ Fits(x)'
                      /\ Unsplit(history) /\ OfRun(x, v, history)
                      /\ \A w \in Viewers : w # v => ReadBy(history, w) = {}
    BY <1>1
  <2>1. Unsplit(history) /\ \A w \in Viewers : ReadBy(history, w) = {}
    BY <1>1, <1>5, AloneReads
  <2>2. copies' = (IF show' = Absent THEN 0 ELSE 1) /\ Fits(x)'
    BY <1>0, <1>1, <1>4, <1>7, <1>15 DEF OneViews, Fits
  <2>3. OfRun(x, v, history)
    BY <1>4, <2>1 DEF OfRun
  <2> QED
    BY <2>1, <2>2, <2>3
<1>21. Undisturbed' => finishes' = Cardinality(Completed(history')) + Owing(x)'
  <2> SUFFICES ASSUME Undisturbed' PROVE finishes' = Cardinality(Completed(history')) + Owing(x)'
    OBVIOUS
  <2>1. Undisturbed /\ "crossed" \notin upheavals
    BY <1>1 DEF Undisturbed
  <2>2. was = was2
    BY <1>0, <1>1, <1>2, <1>17, <2>1 DEF OneViews, Fits
  <2>3. \A w \in Viewers : viewing[w].step # "written"
    <3>1. \A w \in Viewers : w # v => viewing[w] = Idling
      BY <1>0, <1>5, <2>1 DEF OneViews
    <3> QED
      BY <1>1, <3>1, IdlingIs
  <2>4. finishes = Cardinality(Completed(history))
    BY <1>0, <2>1, <2>3 DEF EntriesTell, Owes
  <2>5. PICK c \in Nat : c = Cardinality(Completed(history)) /\ c = Cardinality(Completed(history')) /\ finishes = c
    BY <1>0, <1>1, <2>4, CompletedIs DEF ShowTypes
  <2>6. Owes(x)' <=> was2 # "complete" /\ s = "complete"
    BY <1>4, <1>15, <2>2 DEF Owes
  <2>7. CASE was2 # "complete" /\ s = "complete"
    <3>1. Owing(x)' = 1
      BY <2>6, <2>7 DEF Owing
    <3>2. finishes' = c + 1
      BY <1>17, <2>5, <2>7
    <3> QED
      BY <2>5, <3>1, <3>2
  <2>8. CASE ~ (was2 # "complete" /\ s = "complete")
    <3>1. Owing(x)' = 0
      BY <2>6, <2>8 DEF Owing
    <3>2. finishes' = c
      BY <1>17, <2>5, <2>8
    <3> QED
      BY <2>5, <3>1, <3>2, NoneMore
  <2> QED
    BY <2>7, <2>8
<1>22. "refreshed twice" \notin upheavals' =>
         /\ "announced twice" \notin upheavals'
         /\ \A w \in Viewers : w # v /\ viewing[w].step = "fetch" => newest' <= viewing[w].had
  <2> SUFFICES ASSUME "refreshed twice" \notin upheavals, NEW w \in Viewers, viewing[w].step = "fetch"
               PROVE  newest' <= viewing[w].had
    BY <1>0, <1>1 DEF LooksUpAlone
  <2>1. viewing[w].had \in Nat
    BY <1>0, IdlingIs DEF ViewTypes, IsView
  <2>2. newest <= viewing[w].had /\ newest \in Nat
    BY <1>0 DEF LooksUpAlone, ShowTypes
  <2> QED
    BY <1>16, <2>1, <2>2, FewerStill
<1>23. newest' <= show'.seasons
  BY <1>15, <1>16
<1>24. upheavals \subseteq upheavals' /\ OfShow(x)' /\ x.step # "fetch"
  BY <1>1, <1>4, <1>15 DEF OfShow
<1> QED
  BY <1>4, <1>5, <1>6, <1>15, <1>19, <1>20, <1>21, <1>22, <1>23, <1>24, StepKeeps

LEMMA CompareShowKeeps ==
  ASSUME WatchInv, NEW v \in Viewers, CompareShow(v)
  PROVE  WatchInv'
<1>0. ShowTypes /\ ViewTypes /\ OneViews /\ EntriesTell /\ LooksUpAlone
  BY DEF WatchInv
<1>1. viewing[v].step = "written" /\ UNCHANGED <<show, copies, views, aired, newest, upheavals, finishes>>
  BY DEF CompareShow
<1>2. viewing[v] # Idling /\ viewing[v].was \in Status /\ viewing[v].stood \in Nat
  BY <1>0, <1>1, IdlingIs DEF ViewTypes, IsView
<1>3. PICK was \in Status, stood \in Nat : was = viewing[v].was /\ stood = viewing[v].stood
  BY <1>2
<1>4. show # Absent
  BY <1>0, <1>1 DEF ViewTypes, OfShow
<1>5. "crossed" \notin upheavals => show # Absent /\ copies = 1 /\ \A w \in Viewers : w # v => viewing[w] = Idling
  BY <1>0, <1>1, <1>2, <1>4 DEF OneViews, Fits
<1>6. show.status \in Status /\ show.watched \in Nat
  BY <1>0, <1>4 DEF ShowTypes, IsShow
<1>7. "refreshed twice" \notin upheavals' =>
           /\ "announced twice" \notin upheavals'
           /\ \A w \in Viewers : w # v /\ viewing[w].step = "fetch" => newest' <= viewing[w].had
  BY <1>0, <1>1 DEF LooksUpAlone
<1>8. /\ upheavals \subseteq upheavals' /\ (show' # Absent => newest' <= show'.seasons)
      /\ "crossed" \notin upheavals' => copies' = (IF show' = Absent THEN 0 ELSE 1)
  BY <1>0, <1>1 DEF LooksUpAlone, OneViews
<1>9. "crossed" \notin upheavals' => Unsplit(history) /\ \A w \in Viewers : ReadBy(history, w) = {}
  BY <1>1, <1>2, AloneReads
<1>10. Undisturbed' => Undisturbed /\ "crossed" \notin upheavals
  BY <1>1 DEF Undisturbed
<1>11. CASE show.status # was
  <2>1. history' = history \o Logged(show.status) /\ viewing' = [viewing EXCEPT ![v] = Idling]
    BY <1>3, <1>11 DEF CompareShow, Moves
  <2>2. /\ history' \in Seq(Kept) /\ (Unsplit(history) => Unsplit(history'))
        /\ \A w : ReadBy(history', w) = ReadBy(history, w)
        /\ Cardinality(Completed(history'))
             = Cardinality(Completed(history)) + (IF show.status = "complete" THEN 1 ELSE 0)
    BY <1>0, <2>1, LoggedTells DEF ShowTypes
  <2>3. ShowTypes'
    BY <1>0, <1>1, <2>2 DEF ShowTypes
  <2>4. Undisturbed' => finishes' = Cardinality(Completed(history'))
    <3> SUFFICES ASSUME Undisturbed' PROVE finishes' = Cardinality(Completed(history'))
      OBVIOUS
    <3>1. PICK c \in Nat : c = Cardinality(Completed(history))
      BY <1>0, CompletedIs DEF ShowTypes
    <3>2. CASE show.status = "complete"
      <4>1. Owes(viewing[v])
        BY <1>1, <1>3, <1>11, <3>2 DEF Owes
      <4>2. finishes = c + 1
        BY <1>0, <1>10, <3>1, <4>1 DEF EntriesTell
      <4> QED
        BY <1>1, <2>2, <3>1, <3>2, <4>2
    <3>3. CASE show.status # "complete"
      <4>1. \A w \in Viewers : ~ Owes(viewing[w])
        BY <3>3 DEF Owes
      <4>2. finishes = c
        BY <1>0, <1>10, <3>1, <4>1 DEF EntriesTell
      <4> QED
        BY <1>1, <2>2, <3>1, <3>3, <4>2
    <3> QED
      BY <3>2, <3>3
  <2> QED
    BY <1>1, <1>2, <1>7, <1>8, <1>9, <2>1, <2>2, <2>3, <2>4, EndKeeps
<1>12. CASE show.status = was
  <2>1. history' = history
    BY <1>3, <1>12 DEF CompareShow
  <2>2. ShowTypes'
    BY <1>0, <1>1, <2>1 DEF ShowTypes
  <2>3. Undisturbed' => finishes' = Cardinality(Completed(history'))
    <3> SUFFICES ASSUME Undisturbed' PROVE finishes' = Cardinality(Completed(history'))
      OBVIOUS
    <3>1. \A w \in Viewers : w # v => ~ Owes(viewing[w])
      BY <1>5, <1>10, IdlingIs DEF Owes
    <3>2. ~ Owes(viewing[v])
      BY <1>3, <1>5, <1>10, <1>12 DEF Owes
    <3>3. \A w \in Viewers : ~ Owes(viewing[w])
      BY <3>1, <3>2
    <3> QED
      BY <1>0, <1>1, <1>10, <2>1, <3>3 DEF EntriesTell
  <2>4. CASE viewing' = [viewing EXCEPT ![v] = Idling]
    BY <1>1, <1>2, <1>7, <1>8, <1>9, <2>1, <2>2, <2>3, <2>4, EndKeeps
  <2>5. CASE viewing' # [viewing EXCEPT ![v] = Idling]
    <3>1. viewing' = [viewing EXCEPT ![v] = [step |-> "progress", from |-> stood, to |-> show.watched]]
      BY <1>3, <2>5 DEF CompareShow, Moves
    <3>2. PICK x : x = [step |-> "progress", from |-> stood, to |-> show.watched]
      OBVIOUS
    <3>3. x \in [step : {"progress", "begin"}, from : Nat, to : Nat] /\ x.step = "progress"
      BY <1>3, <1>6, <3>2
    <3>4. IsView(x) /\ x # Idling /\ Fits(x)' /\ OfShow(x)' /\ ~ Owes(x)'
      BY <1>1, <1>4, <3>3, IdlingIs DEF IsView, Fits, OfShow, Owes
    <3>5. Undisturbed' => finishes' = Cardinality(Completed(history')) + Owing(x)'
      BY <2>2, <2>3, <3>4, CompletedIs, NoneMore DEF Owing, ShowTypes
    <3>6. (\E w \in Viewers : w # v /\ viewing[w] # Idling) => "crossed" \in upheavals'
      BY <1>1, <1>5
    <3>7. "crossed" \notin upheavals' => Unsplit(history') /\ OfRun(x, v, history') /\ \A w \in Viewers : ReadBy(history', w) = {}
      BY <1>9, <2>1, <3>3 DEF OfRun
    <3> QED
      BY <1>1, <1>2, <1>7, <1>8, <1>4, <2>2, <3>1, <3>2, <3>3, <3>4, <3>5, <3>6, <3>7, StepKeeps
  <2> QED
    BY <2>4, <2>5
<1> QED
  BY <1>11, <1>12

(* Entries marked in place tell what they told.                            *)
LEMMA SameKinds ==
  ASSUME NEW h \in Seq(Kept), NEW g, g = [i \in DOMAIN h |-> g[i]],
         \A i \in DOMAIN h : g[i] \in Kept /\ g[i].kind = h[i].kind /\ (h[i].old => g[i].old)
  PROVE  /\ g \in Seq(Kept) /\ DOMAIN g = DOMAIN h /\ Len(g) = Len(h)
         /\ Completed(g) = Completed(h) /\ (Unsplit(h) => Unsplit(g))
<1>1. PICK n \in Nat : n = Len(h) /\ DOMAIN h = 1 .. n
  BY LenProperties
<1>2. DOMAIN g = 1 .. n /\ g \in [1 .. n -> Kept]
  BY <1>1
<1>3. g \in Seq(Kept) /\ Len(g) = n
  <2>1. g \in Seq(Kept)
    BY <1>1, <1>2, SeqDef
  <2> QED
    BY <1>1, <1>2, <2>1, LenProperties
<1>4. Completed(g) = Completed(h)
  BY <1>1, <1>2 DEF Completed
<1>5. ASSUME Unsplit(h) PROVE Unsplit(g)
  <2> SUFFICES ASSUME NEW i \in 1 .. n, i > 1
               PROVE  ~ (g[i].kind = "progress" /\ g[i - 1].kind = "progress" /\ ~ g[i - 1].old)
    BY <1>2 DEF Unsplit
  <2>1. i - 1 \in 1 .. n
    BY <1>1
  <2>2. ~ (h[i].kind = "progress" /\ h[i - 1].kind = "progress" /\ ~ h[i - 1].old)
    BY <1>1, <1>5 DEF Unsplit
  <2>3. g[i].kind = h[i].kind /\ g[i - 1].kind = h[i - 1].kind /\ (h[i - 1].old => g[i - 1].old)
    BY <1>1, <2>1
  <2> QED
    BY <2>2, <2>3
<1> QED
  BY <1>1, <1>2, <1>3, <1>4, <1>5

(* A run is at the end of its history, and there is nothing to owe.        *)
LEMMA NothingOwed ==
  ASSUME WatchInv, NEW v \in Viewers, viewing[v] # Idling, viewing[v].step # "written", Undisturbed
  PROVE  finishes = Cardinality(Completed(history))
<1>1. \A w \in Viewers : w # v => viewing[w] = Idling
  BY DEF WatchInv, OneViews, Undisturbed
<1>2. \A w \in Viewers : ~ Owes(viewing[w])
  BY <1>1, IdlingIs DEF Owes
<1> QED
  BY <1>2 DEF WatchInv, EntriesTell

LEMMA ReadRunKeeps ==
  ASSUME WatchInv, NEW v \in Viewers, ReadRun(v)
  PROVE  WatchInv'
<1>0. ShowTypes /\ ViewTypes /\ OneViews /\ LooksUpAlone
  BY DEF WatchInv
<1>1. viewing[v].step = "progress" /\ UNCHANGED <<show, copies, views, aired, newest, upheavals, finishes>>
  BY DEF ReadRun
<1>2. viewing[v] # Idling /\ show # Absent
  BY <1>0, <1>1, IdlingIs DEF ViewTypes, OfShow
<1>3. PICK from \in Nat, to \in Nat : viewing[v] = [step |-> "progress", from |-> from, to |-> to]
  BY <1>0, <1>1, IdlingIs DEF ViewTypes, IsView
<1>4. PICK h \in Seq(Kept) : h = history
  BY <1>0 DEF ShowTypes
<1>5. "crossed" \notin upheavals =>
        /\ copies = 1 /\ \A w \in Viewers : w # v => viewing[w] = Idling
        /\ Unsplit(h) /\ \A w \in Viewers : ReadBy(h, w) = {}
  BY <1>0, <1>1, <1>2, <1>4, AloneReads DEF OneViews
<1>6. "refreshed twice" \notin upheavals' =>
           /\ "announced twice" \notin upheavals'
           /\ \A w \in Viewers : w # v /\ viewing[w].step = "fetch" => newest' <= viewing[w].had
  BY <1>0, <1>1 DEF LooksUpAlone
<1>7. upheavals \subseteq upheavals' /\ show' # Absent /\ newest' <= show'.seasons
  BY <1>0, <1>1, <1>2 DEF LooksUpAlone
<1>8. Undisturbed' => finishes' = Cardinality(Completed(h))
  BY <1>1, <1>2, <1>4, NothingOwed DEF Undisturbed
<1>9. (\E w \in Viewers : w # v /\ viewing[w] # Idling) => "crossed" \in upheavals'
  BY <1>1, <1>5
<1>10. OpenRun <=> h # <<>> /\ h[Len(h)].kind = "progress" /\ ~ h[Len(h)].old
  BY <1>4 DEF OpenRun, Last
<1>11. CASE OpenRun
  <2>1. PICK x : x = [step |-> "merge", to |-> to]
    OBVIOUS
  <2>2. viewing' = [viewing EXCEPT ![v] = x] /\ history' = [h EXCEPT ![Len(h)].readers = @ \cup {v}]
    BY <1>3, <1>4, <1>11, <2>1 DEF ReadRun, Moves
  <2>3. x \in [step : {"merge"}, to : Nat] /\ x.step = "merge"
    BY <2>1
  <2>4. IsView(x) /\ x # Idling /\ Fits(x)' /\ OfShow(x)' /\ ~ Owes(x)'
    BY <1>7, <2>3, IdlingIs DEF IsView, Fits, OfShow, Owes
  <2>5. PICK n \in Nat : n = Len(h) /\ DOMAIN h = 1 .. n /\ n \in 1 .. n
    BY <1>10, <1>11, EmptySeq, LenProperties
  <2>6. PICK g : g = history'
    OBVIOUS
  <2>7. \A i \in 1 .. n : h[i] \in Kept
    BY <2>5, ElementOfSeq
  <2>8. \A i \in 1 .. n : g[i] = [h[i] EXCEPT !.readers = IF i = n THEN @ \cup {v} ELSE @]
    BY <2>2, <2>5, <2>6, <2>7 DEF Kept
  <2>9. \A i \in 1 .. n : /\ g[i] \in Kept /\ g[i].kind = h[i].kind /\ (h[i].old => g[i].old)
                          /\ g[i].readers = IF i = n THEN h[i].readers \cup {v} ELSE h[i].readers
    <3> SUFFICES ASSUME NEW i \in 1 .. n
                 PROVE  /\ g[i] \in Kept /\ g[i].kind = h[i].kind /\ (h[i].old => g[i].old)
                        /\ g[i].readers = IF i = n THEN h[i].readers \cup {v} ELSE h[i].readers
      OBVIOUS
    <3>1. PICK e \in Kept : e = h[i]
      BY <2>7
    <3>2. PICK r : r = IF i = n THEN e.readers \cup {v} ELSE e.readers
      OBVIOUS
    <3>3. g[i] = [e EXCEPT !.readers = r]
      BY <2>8, <3>1, <3>2
    <3>4. r \in SUBSET Viewers
      BY <3>2 DEF Kept
    <3>5. g[i] \in Kept /\ g[i].kind = e.kind /\ g[i].old = e.old /\ g[i].readers = r
      BY <3>3, <3>4 DEF Kept
    <3> QED
      BY <3>1, <3>2, <3>5
  <2>10. g = [i \in DOMAIN h |-> g[i]]
    BY <2>2, <2>5, <2>6
  <2>11. g \in Seq(Kept) /\ DOMAIN g = 1 .. n /\ Len(g) = n /\ Completed(g) = Completed(h) /\ (Unsplit(h) => Unsplit(g))
    BY <2>5, <2>9, <2>10, SameKinds
  <2>12. ShowTypes'
    BY <1>0, <1>1, <2>6, <2>11 DEF ShowTypes
  <2>13. ASSUME "crossed" \notin upheavals'
         PROVE  Unsplit(g) /\ OfRun(x, v, g) /\ \A w \in Viewers : w # v => ReadBy(g, w) = {}
    <3>1. Unsplit(h) /\ \A w \in Viewers : ReadBy(h, w) = {}
      BY <1>1, <1>5, <2>13
    <3>2. ReadBy(g, v) = {n}
      BY <2>5, <2>9, <2>11, <3>1 DEF ReadBy
    <3>3. \A w \in Viewers : w # v => ReadBy(g, w) = {}
      <4> SUFFICES ASSUME NEW w \in Viewers, w # v, NEW i \in 1 .. n, w \in g[i].readers PROVE FALSE
        BY <2>11 DEF ReadBy
      <4>1. w \in h[i].readers
        BY <2>9
      <4> QED
        BY <2>5, <3>1, <4>1 DEF ReadBy
    <3>4. g # <<>> /\ g[n].kind = "progress"
      BY <1>10, <1>11, <2>5, <2>9, <2>11, EmptySeq
    <3>5. OfRun(x, v, g)
      BY <2>3, <2>11, <3>2, <3>4 DEF OfRun
    <3> QED
      BY <2>11, <3>1, <3>3, <3>5
  <2>14. "crossed" \notin upheavals' =>
           /\ copies' = (IF show' = Absent THEN 0 ELSE 1) /\ Fits(x)'
           /\ Unsplit(history') /\ OfRun(x, v, history')
           /\ \A w \in Viewers : w # v => ReadBy(history', w) = {}
    BY <1>1, <1>5, <1>7, <2>4, <2>6, <2>13
  <2>15. Undisturbed' => finishes' = Cardinality(Completed(history')) + Owing(x)'
    BY <1>8, <2>4, <2>6, <2>11, CompletedIs, NoneMore DEF Owing
  <2> QED
    BY <1>2, <1>6, <1>7, <1>9, <2>2, <2>3, <2>4, <2>12, <2>14, <2>15, StepKeeps
<1>12. CASE ~ OpenRun
  <2>1. history' = h /\ viewing' = [viewing EXCEPT ![v] = IF to > from THEN [viewing[v] EXCEPT !.step = "begin"] ELSE Idling]
    BY <1>3, <1>4, <1>12 DEF ReadRun, Moves
  <2>2. ShowTypes'
    BY <1>0, <1>1, <1>4, <2>1 DEF ShowTypes
  <2>3. "crossed" \notin upheavals' => copies' = (IF show' = Absent THEN 0 ELSE 1)
    BY <1>1, <1>5, <1>7
  <2>4. "crossed" \notin upheavals' => Unsplit(history') /\ \A w \in Viewers : ReadBy(history', w) = {}
    BY <1>1, <1>5, <2>1
  <2>5. CASE to > from
    <3>1. PICK x : x = [step |-> "begin", from |-> from, to |-> to]
      OBVIOUS
    <3>2. [viewing[v] EXCEPT !.step = "begin"] = x
      BY <1>3, <3>1
    <3>3. viewing' = [viewing EXCEPT ![v] = x]
      BY <2>1, <2>5, <3>2
    <3>4. x \in [step : {"progress", "begin"}, from : Nat, to : Nat] /\ x.step = "begin"
      BY <3>1
    <3>5. IsView(x) /\ x # Idling /\ Fits(x)' /\ OfShow(x)' /\ ~ Owes(x)'
      BY <1>7, <3>4, IdlingIs DEF IsView, Fits, OfShow, Owes
    <3>6. Settles(h)
      BY <1>10, <1>12 DEF Settles
    <3>7. "crossed" \notin upheavals' => OfRun(x, v, history')
      BY <2>1, <2>4, <3>4, <3>6 DEF OfRun
    <3>8. Undisturbed' => finishes' = Cardinality(Completed(history')) + Owing(x)'
      BY <1>8, <2>1, <3>5, CompletedIs, NoneMore DEF Owing
    <3> QED
      BY <1>2, <1>6, <1>7, <1>9, <2>2, <2>3, <2>4, <3>3, <3>4, <3>5, <3>7, <3>8, StepKeeps
  <2>6. CASE ~ (to > from)
    <3>1. viewing' = [viewing EXCEPT ![v] = Idling]
      BY <2>1, <2>6
    <3>2. Undisturbed' => finishes' = Cardinality(Completed(history'))
      BY <1>8, <2>1
    <3> QED
      BY <1>2, <1>6, <1>7, <2>2, <2>3, <2>4, <3>1, <3>2, EndKeeps
  <2> QED
    BY <2>5, <2>6
<1> QED
  BY <1>11, <1>12

LEMMA MergeRunKeeps ==
  ASSUME WatchInv, NEW v \in Viewers, MergeRun(v)
  PROVE  WatchInv'
<1>0. ShowTypes /\ ViewTypes /\ OneViews /\ LooksUpAlone /\ RunsMerge
  BY DEF WatchInv
<1>1. /\ viewing[v].step = "merge" /\ viewing' = [viewing EXCEPT ![v] = Idling]
      /\ UNCHANGED <<show, copies, views, aired, newest, upheavals, finishes>>
  BY DEF MergeRun, Moves
<1>2. viewing[v] # Idling /\ show # Absent
  BY <1>0, <1>1, IdlingIs DEF ViewTypes, OfShow
<1>3. PICK to \in Nat : viewing[v].to = to
  BY <1>0, <1>1, IdlingIs DEF ViewTypes, IsView
<1>4. PICK h \in Seq(Kept) : h = history
  BY <1>0 DEF ShowTypes
<1>5. PICK i : i = CHOOSE j \in ReadBy(h, v) : TRUE
  OBVIOUS
<1>6. PICK run : run = [h[i] EXCEPT !.to = to, !.old = FALSE, !.readers = @ \ {v}]
  OBVIOUS
<1>7. \/ ReadBy(h, v) = {} /\ history' = h
      \/ ReadBy(h, v) # {} /\ history' = RemoveAt(h, i)
      \/ ReadBy(h, v) # {} /\ history' = Append(RemoveAt(h, i), run)
  <2>1. history' = IF ReadBy(h, v) = {} THEN h
                   ELSE IF to <= run.from THEN RemoveAt(h, i) ELSE Append(RemoveAt(h, i), run)
    BY <1>3, <1>4, <1>5, <1>6 DEF MergeRun, ReadBy
  <2> QED
    BY <2>1
<1>8. ASSUME ReadBy(h, v) # {}
      PROVE  /\ i \in DOMAIN h /\ i \in ReadBy(h, v) /\ run \in Kept /\ run.kind = h[i].kind
             /\ run.readers = h[i].readers \ {v}
             /\ RemoveAt(h, i) \in Seq(Kept) /\ Append(RemoveAt(h, i), run) \in Seq(Kept)
  <2>1. i \in ReadBy(h, v)
    BY <1>5, <1>8
  <2>2. i \in DOMAIN h
    BY <2>1 DEF ReadBy
  <2>3. PICK e \in Kept : e = h[i]
    BY <2>2, ElementOfSeq, LenProperties
  <2>4. run \in Kept /\ run.kind = e.kind /\ run.readers = e.readers \ {v}
    <3>1. PICK r : r = e.readers \ {v}
      OBVIOUS
    <3>2. run = [e EXCEPT !.to = to, !.old = FALSE, !.readers = r]
      BY <1>6, <2>3, <3>1
    <3>3. PICK kind \in {"added", "started", "completed", "progress", "new_season"}, begun \in Int, reached \in Int,
               old \in BOOLEAN, had \in SUBSET Viewers :
            e = [kind |-> kind, from |-> begun, to |-> reached, old |-> old, readers |-> had]
      BY DEF Kept
    <3>4. run = [kind |-> kind, from |-> begun, to |-> to, old |-> FALSE, readers |-> r]
      BY <3>2, <3>3
    <3>5. r \in SUBSET Viewers
      BY <3>1, <3>3
    <3>6. run \in Kept
      BY <3>3, <3>4, <3>5 DEF Kept
    <3> QED
      BY <3>1, <3>3, <3>4, <3>6
  <2>5. RemoveAt(h, i) \in Seq(Kept)
    BY <2>2, RemoveIsKept
  <2> QED
    BY <2>1, <2>2, <2>3, <2>4, <2>5, AppendTells
<1>9. history' \in Seq(Kept)
  BY <1>7, <1>8
<1>10. ShowTypes'
  BY <1>0, <1>1, <1>9 DEF ShowTypes
<1>11. ASSUME "crossed" \notin upheavals
       PROVE  /\ copies = 1 /\ Unsplit(history') /\ \A w \in Viewers : ReadBy(history', w) = {}
              /\ Cardinality(Completed(history')) = Cardinality(Completed(h))
  <2>1. Unsplit(h) /\ h # <<>> /\ h[Len(h)].kind = "progress" /\ ReadBy(h, v) = {Len(h)}
    BY <1>0, <1>1, <1>4, <1>11 DEF RunsMerge, OfRun
  <2>2. \A w \in Viewers : w # v => ReadBy(h, w) = {}
    <3> SUFFICES ASSUME NEW w \in Viewers, w # v PROVE ReadBy(h, w) = {}
      OBVIOUS
    <3>1. viewing[w].step = "idle"
      BY <1>0, <1>2, <1>11, IdlingIs DEF OneViews
    <3> QED
      BY <1>0, <1>4, <1>11, <3>1 DEF RunsMerge, OfRun
  <2>3. i = Len(h)
    BY <1>8, <2>1
  <2>4. PICK g : g = RemoveAt(h, i)
    OBVIOUS
  <2>5. g = Front(h)
    BY <1>8, <2>1, <2>3, <2>4, RemoveIsKept
  <2>6. /\ g \in Seq(Kept) /\ Completed(g) = Completed(h) /\ Unsplit(g) /\ Settles(g)
        /\ \A w : ReadBy(g, w) = ReadBy(h, w) \ {Len(h)}
    BY <2>1, <2>5, FrontTells
  <2>7. \A w \in Viewers : ReadBy(g, w) = {}
    BY <2>1, <2>2, <2>6
  <2>8. run \in Kept /\ run.kind = "progress" /\ run.readers = {}
    <3>1. \A w \in Viewers : w # v => w \notin h[i].readers
      BY <1>8, <2>1, <2>2 DEF ReadBy
    <3>2. run.readers \subseteq Viewers
      BY <1>8, <2>1 DEF Kept
    <3> QED
      BY <1>8, <2>1, <2>3, <3>1, <3>2
  <2>9. CASE history' = g
    BY <1>0, <1>2, <1>11, <2>6, <2>7, <2>9 DEF OneViews
  <2>10. CASE history' = Append(g, run)
    <3>1. Unsplit(Append(g, run))
      BY <2>6, <2>8, AppendUnsplit
    <3>2. \A w : ReadBy(Append(g, run), w) = ReadBy(g, w)
      BY <2>6, <2>8, AppendReads
    <3>3. Cardinality(Completed(Append(g, run))) = Cardinality(Completed(g))
      BY <2>6, <2>8, AppendTells, CompletedIs
    <3> QED
      BY <1>0, <1>2, <1>11, <2>6, <2>7, <2>10, <3>1, <3>2, <3>3 DEF OneViews
  <2> QED
    BY <1>7, <2>1, <2>4, <2>9, <2>10
<1>12. Undisturbed' => finishes' = Cardinality(Completed(history'))
  <2> SUFFICES ASSUME Undisturbed' PROVE finishes' = Cardinality(Completed(history'))
    OBVIOUS
  <2>1. Undisturbed /\ "crossed" \notin upheavals
    BY <1>1 DEF Undisturbed
  <2>2. finishes = Cardinality(Completed(history))
    BY <1>1, <1>2, <2>1, NothingOwed
  <2> QED
    BY <1>1, <1>4, <1>11, <2>1, <2>2
<1>13. "refreshed twice" \notin upheavals' =>
           /\ "announced twice" \notin upheavals'
           /\ \A w \in Viewers : w # v /\ viewing[w].step = "fetch" => newest' <= viewing[w].had
  BY <1>0, <1>1 DEF LooksUpAlone
<1>14. upheavals \subseteq upheavals' /\ show' # Absent /\ newest' <= show'.seasons
  BY <1>0, <1>1, <1>2 DEF LooksUpAlone
<1>15. "crossed" \notin upheavals' =>
         /\ copies' = (IF show' = Absent THEN 0 ELSE 1)
         /\ Unsplit(history') /\ \A w \in Viewers : ReadBy(history', w) = {}
  BY <1>1, <1>2, <1>11
<1> QED
  BY <1>1, <1>2, <1>10, <1>12, <1>13, <1>14, <1>15, EndKeeps

LEMMA BeginRunKeeps ==
  ASSUME WatchInv, NEW v \in Viewers, BeginRun(v)
  PROVE  WatchInv'
<1>0. ShowTypes /\ ViewTypes /\ OneViews /\ LooksUpAlone /\ RunsMerge
  BY DEF WatchInv
<1>1. /\ viewing[v].step = "begin" /\ viewing' = [viewing EXCEPT ![v] = Idling]
      /\ UNCHANGED <<show, copies, views, aired, newest, upheavals, finishes>>
  BY DEF BeginRun, Moves
<1>2. viewing[v] # Idling /\ show # Absent
  BY <1>0, <1>1, IdlingIs DEF ViewTypes, OfShow
<1>3. PICK from \in Nat, to \in Nat : viewing[v].from = from /\ viewing[v].to = to
  BY <1>0, <1>1, IdlingIs DEF ViewTypes, IsView
<1>4. PICK h \in Seq(Kept) : h = history
  BY <1>0 DEF ShowTypes
<1>5. PICK run : run = [Entry("progress") EXCEPT !.from = from, !.to = to]
  OBVIOUS
<1>6. run \in Kept /\ run.kind = "progress" /\ run.readers = {}
  <2>1. run = [kind |-> "progress", from |-> from, to |-> to, old |-> FALSE, readers |-> {}]
    BY <1>5 DEF Entry
  <2> QED
    BY <2>1 DEF Kept
<1>7. history' = Append(h, run)
  BY <1>3, <1>4, <1>5 DEF BeginRun
<1>8. history' \in Seq(Kept) /\ Cardinality(Completed(history')) = Cardinality(Completed(h))
  <2>1. Cardinality(Completed(Append(h, run))) = Cardinality(Completed(h)) + 0 /\ Append(h, run) \in Seq(Kept)
    BY <1>6, AppendTells
  <2> QED
    BY <1>7, <2>1, CompletedIs
<1>9. ShowTypes'
  BY <1>0, <1>1, <1>8 DEF ShowTypes
<1>10. ASSUME "crossed" \notin upheavals
       PROVE  copies = 1 /\ Unsplit(history') /\ \A w \in Viewers : ReadBy(history', w) = {}
  <2>1. Unsplit(h) /\ \A w \in Viewers : ReadBy(h, w) = {}
    BY <1>1, <1>2, <1>4, <1>10, AloneReads
  <2>2. Settles(h)
    BY <1>0, <1>1, <1>4, <1>10 DEF RunsMerge, OfRun
  <2>3. Unsplit(Append(h, run))
    BY <1>6, <2>1, <2>2, AppendUnsplit
  <2>4. \A w : ReadBy(Append(h, run), w) = ReadBy(h, w)
    BY <1>6, AppendReads
  <2> QED
    BY <1>0, <1>2, <1>7, <1>10, <2>1, <2>3, <2>4 DEF OneViews
<1>11. Undisturbed' => finishes' = Cardinality(Completed(history'))
  BY <1>1, <1>2, <1>4, <1>8, NothingOwed DEF Undisturbed
<1>12. "refreshed twice" \notin upheavals' =>
           /\ "announced twice" \notin upheavals'
           /\ \A w \in Viewers : w # v /\ viewing[w].step = "fetch" => newest' <= viewing[w].had
  BY <1>0, <1>1 DEF LooksUpAlone
<1>13. upheavals \subseteq upheavals' /\ show' # Absent /\ newest' <= show'.seasons
  BY <1>0, <1>1, <1>2 DEF LooksUpAlone
<1>14. "crossed" \notin upheavals' =>
         /\ copies' = (IF show' = Absent THEN 0 ELSE 1)
         /\ Unsplit(history') /\ \A w \in Viewers : ReadBy(history', w) = {}
  BY <1>1, <1>2, <1>10
<1> QED
  BY <1>1, <1>2, <1>9, <1>11, <1>12, <1>13, <1>14, EndKeeps

LEMMA SaveAgainKeeps ==
  ASSUME WatchInv, NEW v \in Viewers, SaveAgain(v)
  PROVE  WatchInv'
<1>0. ShowTypes /\ ViewTypes /\ OneViews /\ EntriesTell /\ LooksUpAlone
  BY DEF WatchInv
<1>1. /\ viewing[v].step = "again" /\ viewing' = [viewing EXCEPT ![v] = Idling]
      /\ UNCHANGED <<copies, views, aired, newest, upheavals>>
  BY DEF SaveAgain, Moves
<1>2. viewing[v] # Idling
  BY <1>1, IdlingIs
<1>3. PICK status \in Status, was \in Status : viewing[v].status = status /\ viewing[v].was = was
  BY <1>0, <1>1, IdlingIs DEF ViewTypes, IsView
<1>4. "crossed" \notin upheavals =>
        show # Absent /\ copies = 1 /\ was = show.status /\ \A w \in Viewers : w # v => viewing[w] = Idling
  BY <1>0, <1>1, <1>2, <1>3 DEF OneViews, Fits, ViewTypes, OfShow
<1>5. "refreshed twice" \notin upheavals' =>
           /\ "announced twice" \notin upheavals'
           /\ \A w \in Viewers : w # v /\ viewing[w].step = "fetch" => newest' <= viewing[w].had
  BY <1>0, <1>1 DEF LooksUpAlone
<1>6. show # Absent
  BY <1>0, <1>1 DEF ViewTypes, OfShow
<1>7. "crossed" \notin upheavals' => Unsplit(history) /\ \A w \in Viewers : ReadBy(history, w) = {}
  BY <1>1, <1>2, AloneReads
<1>8. /\ show' = [show EXCEPT !.status = status]
      /\ history' = IF status = was THEN history ELSE history \o Logged(status)
      /\ finishes' = Turned(status)
  BY <1>3, <1>6 DEF SaveAgain
<1>9. IsShow(show') /\ show'.seasons = show.seasons
  <2>1. IsShow(show)
    BY <1>0, <1>6 DEF ShowTypes
  <2> QED
    BY <1>3, <1>8, <2>1 DEF IsShow
<1>10. show' # Absent
  BY <1>9, WatchAssumption DEF IsShow, Status
<1>11. PICK c \in Nat : c = Cardinality(Completed(history))
  BY <1>0, CompletedIs DEF ShowTypes
<1>12. /\ history' \in Seq(Kept) /\ (Unsplit(history) => Unsplit(history'))
      /\ \A w : ReadBy(history', w) = ReadBy(history, w)
      /\ Cardinality(Completed(history')) = IF status # was /\ status = "complete" THEN c + 1 ELSE c
  <2>1. CASE status = was
    BY <1>0, <1>8, <1>11, <2>1 DEF ShowTypes
  <2>2. CASE status # was
    <3>1. /\ history' \in Seq(Kept) /\ (Unsplit(history) => Unsplit(history'))
          /\ \A w : ReadBy(history', w) = ReadBy(history, w)
          /\ Cardinality(Completed(history')) = Cardinality(Completed(history)) + (IF status = "complete" THEN 1 ELSE 0)
      BY <1>0, <1>8, <2>2, LoggedTells DEF ShowTypes
    <3>2. CASE status = "complete"
      BY <1>11, <2>2, <3>1, <3>2
    <3>3. CASE status # "complete"
      BY <1>11, <2>2, <3>1, <3>3
    <3> QED
      BY <3>2, <3>3
  <2> QED
    BY <2>1, <2>2
<1>13. finishes' = (IF show.status # "complete" /\ status = "complete" THEN finishes + 1 ELSE finishes) /\ finishes' \in Nat
  BY <1>0, <1>8 DEF Turned, ShowTypes
<1>14. ShowTypes'
  BY <1>0, <1>1, <1>9, <1>12, <1>13 DEF ShowTypes
<1>15. Undisturbed' => finishes' = Cardinality(Completed(history'))
  <2> SUFFICES ASSUME Undisturbed' PROVE finishes' = Cardinality(Completed(history'))
    OBVIOUS
  <2>1. Undisturbed /\ "crossed" \notin upheavals
    BY <1>1 DEF Undisturbed
  <2>2. \A w \in Viewers : ~ Owes(viewing[w])
    BY <1>1, <1>4, <2>1, IdlingIs DEF Owes
  <2>3. finishes = c
    BY <1>0, <1>11, <2>1, <2>2 DEF EntriesTell
  <2> QED
    BY <1>4, <1>12, <1>13, <2>1, <2>3
<1>16. newest' <= show'.seasons
  BY <1>0, <1>1, <1>6, <1>9 DEF LooksUpAlone
<1>17. "crossed" \notin upheavals' =>
         /\ copies' = (IF show' = Absent THEN 0 ELSE 1)
         /\ Unsplit(history') /\ \A w \in Viewers : ReadBy(history', w) = {}
  BY <1>1, <1>4, <1>7, <1>10, <1>12
<1>18. upheavals \subseteq upheavals'
  BY <1>1
<1> QED
  BY <1>1, <1>2, <1>5, <1>10, <1>14, <1>15, <1>16, <1>17, <1>18, EndKeeps

(* What is looked up alone is told once.                                   *)
LEMMA ApplyRefreshKeeps ==
  ASSUME WatchInv, NEW v \in Viewers, ApplyRefresh(v)
  PROVE  WatchInv'
<1>0. ShowTypes /\ ViewTypes /\ OneViews /\ EntriesTell /\ LooksUpAlone
  BY DEF WatchInv
<1>1. /\ viewing[v].step = "fetch" /\ viewing' = [viewing EXCEPT ![v] = Idling]
      /\ UNCHANGED <<copies, views, aired, finishes>>
  BY DEF ApplyRefresh, Moves
<1>2. viewing[v] # Idling
  BY <1>1, IdlingIs
<1>3. show # Absent
  BY <1>0, <1>1 DEF ViewTypes, OfShow
<1>4. PICK had \in Nat : viewing[v].had = had
  BY <1>0, <1>1, IdlingIs DEF ViewTypes, IsView
<1>5. "crossed" \notin upheavals => copies = 1 /\ Unsplit(history) /\ \A w \in Viewers : ReadBy(history, w) = {}
  BY <1>0, <1>1, <1>2, <1>3, AloneReads DEF OneViews
<1>6. Undisturbed => finishes = Cardinality(Completed(history))
  BY <1>1, <1>2, NothingOwed
<1>7. "refreshed twice" \notin upheavals =>
        /\ newest <= had /\ "announced twice" \notin upheavals
        /\ \A w \in Viewers : w # v => viewing[w].step # "fetch"
  BY <1>0, <1>1, <1>4 DEF LooksUpAlone
<1>8. CASE show.status # "complete"
  <2>1. UNCHANGED <<show, history, newest, upheavals>>
    BY <1>8 DEF ApplyRefresh
  <2>2. ShowTypes' /\ upheavals \subseteq upheavals' /\ (Undisturbed' => Undisturbed)
    BY <1>0, <1>1, <2>1 DEF ShowTypes, Undisturbed
  <2>3. show' # Absent => newest' <= show'.seasons
    BY <1>0, <2>1 DEF LooksUpAlone
  <2>4. "crossed" \notin upheavals' =>
          /\ copies' = (IF show' = Absent THEN 0 ELSE 1)
          /\ Unsplit(history') /\ \A w \in Viewers : ReadBy(history', w) = {}
    BY <1>1, <1>5, <1>3, <2>1
  <2>5. Undisturbed' => finishes' = Cardinality(Completed(history'))
    BY <1>1, <1>6, <2>1, <2>2
  <2> QED
    BY <1>1, <1>2, <1>7, <1>3, <2>1, <2>2, <2>3, <2>4, <2>5, EndKeeps
<1>9. CASE show.status = "complete"
  <2>1. PICK again \in BOOLEAN : again = (aired > had /\ had > 0)
    OBVIOUS
  <2>2. /\ show' = [show EXCEPT !.checked = TRUE, !.seasons = IF aired > had THEN aired ELSE @,
                                !.status = IF again THEN "new_season" ELSE @]
        /\ history' = IF again THEN Append(history, Entry("new_season")) ELSE history
        /\ newest' = IF aired > had THEN aired ELSE newest
        /\ upheavals' = IF again /\ aired <= newest THEN upheavals \cup {"announced twice"} ELSE upheavals
    BY <1>4, <1>9, <2>1 DEF ApplyRefresh
  <2>3. PICK watched \in Nat, seasons \in Nat, checked \in BOOLEAN :
          show = [status |-> "complete", watched |-> watched, seasons |-> seasons, checked |-> checked]
    BY <1>0, <1>9, <1>3 DEF ShowTypes, IsShow
  <2>4. PICK n : n = IF aired > had THEN aired ELSE seasons
    OBVIOUS
  <2>5. PICK s : s = IF again THEN "new_season" ELSE "complete"
    OBVIOUS
  <2>6. n \in Nat /\ s \in Status
    BY <1>0, <2>3, <2>4, <2>5 DEF ShowTypes, Status
  <2>7. show' = [status |-> s, watched |-> watched, seasons |-> n, checked |-> TRUE]
    BY <2>2, <2>3, <2>4, <2>5
  <2>8. IsShow(show') /\ show'.seasons = n
    BY <2>3, <2>6, <2>7 DEF IsShow
  <2>9. show' # Absent
    BY <2>8, WatchAssumption DEF IsShow, Status
  <2>10. newest \in Nat /\ newest <= seasons /\ aired \in Nat
    BY <1>0, <1>3, <2>3 DEF ShowTypes, LooksUpAlone
  <2>11. newest' \in Nat /\ newest' <= n
    <3>1. CASE aired > had
      <4>1. newest' = aired /\ n = aired
        BY <2>2, <2>4, <3>1
      <4> QED
        BY <2>10, <4>1
    <3>2. CASE ~ (aired > had)
      BY <2>2, <2>4, <2>10, <3>2
    <3> QED
      BY <3>1, <3>2
  <2>12. /\ history' \in Seq(Kept) /\ (Unsplit(history) => Unsplit(history'))
         /\ \A w : ReadBy(history', w) = ReadBy(history, w)
         /\ Cardinality(Completed(history')) = Cardinality(Completed(history))
    <3>1. CASE again
      <4>1. PICK e : e = Entry("new_season")
        OBVIOUS
      <4>2. e \in Kept /\ e.kind = "new_season" /\ e.readers = {}
        BY <4>1 DEF Entry, Kept
      <4>3. history' = Append(history, e)
        BY <2>2, <3>1, <4>1
      <4>4. history \in Seq(Kept)
        BY <1>0 DEF ShowTypes
      <4>5. Append(history, e) \in Seq(Kept) /\ (Unsplit(history) => Unsplit(Append(history, e)))
        BY <4>2, <4>4, AppendTells, AppendUnsplit
      <4>6. Cardinality(Completed(Append(history, e))) = Cardinality(Completed(history))
        BY <4>2, <4>4, AppendTells, CompletedIs
      <4>7. \A w : ReadBy(Append(history, e), w) = ReadBy(history, w)
        BY <4>2, <4>4, AppendReads
      <4> QED
        BY <4>3, <4>5, <4>7, <4>6
    <3>2. CASE ~ again
      BY <1>0, <2>2, <3>2 DEF ShowTypes
    <3> QED
      BY <3>1, <3>2
  <2>13. ShowTypes'
    BY <1>0, <1>1, <2>8, <2>11, <2>12 DEF ShowTypes
  <2>14. upheavals \subseteq upheavals' /\ upheavals' \subseteq upheavals \cup {"announced twice"}
    BY <2>2
  <2>15. (Undisturbed' => Undisturbed) /\ ("crossed" \notin upheavals' => "crossed" \notin upheavals)
         /\ ("refreshed twice" \notin upheavals' => "refreshed twice" \notin upheavals)
    BY <2>14 DEF Undisturbed
  <2>16. "refreshed twice" \notin upheavals' =>
           /\ "announced twice" \notin upheavals'
           /\ \A w \in Viewers : w # v /\ viewing[w].step = "fetch" => newest' <= viewing[w].had
    <3> SUFFICES ASSUME "refreshed twice" \notin upheavals PROVE "announced twice" \notin upheavals'
      BY <1>7, <2>15
    <3>1. CASE again
      <4>1. newest <= had /\ aired > had
        BY <1>7, <2>1, <3>1
      <4>2. ~ (aired <= newest)
        <5>1. newest \in Nat /\ aired \in Nat
          BY <2>10
        <5> QED
          BY <1>4, <4>1, <5>1, MoreStill
      <4> QED
        BY <1>7, <2>2, <4>2
    <3>2. CASE ~ again
      BY <1>7, <2>2, <3>2
    <3> QED
      BY <3>1, <3>2
  <2>17. newest' <= show'.seasons
    BY <2>8, <2>11
  <2>18. "crossed" \notin upheavals' =>
           /\ copies' = (IF show' = Absent THEN 0 ELSE 1)
           /\ Unsplit(history') /\ \A w \in Viewers : ReadBy(history', w) = {}
    BY <1>1, <1>5, <2>9, <2>12, <2>15
  <2>19. Undisturbed' => finishes' = Cardinality(Completed(history'))
    BY <1>1, <1>6, <2>12, <2>15
  <2> QED
    BY <1>1, <1>2, <2>9, <2>13, <2>14, <2>16, <2>17, <2>18, <2>19, EndKeeps
<1> QED
  BY <1>8, <1>9

LEMMA BreaksOffKeeps ==
  ASSUME WatchInv, NEW v \in Viewers, BreaksOff(v)
  PROVE  WatchInv'
<1>0. ShowTypes /\ ViewTypes /\ OneViews /\ LooksUpAlone /\ RunsMerge
  BY DEF WatchInv
<1>1. /\ viewing[v] # Idling /\ viewing' = [viewing EXCEPT ![v] = Idling]
      /\ upheavals' = IF viewing[v].step = "fetch" THEN upheavals ELSE upheavals \cup {"cut"}
      /\ UNCHANGED <<show, copies, views, aired, newest, finishes>>
  BY DEF BreaksOff, Moves
<1>2. PICK h \in Seq(Kept) : h = history
  BY <1>0 DEF ShowTypes
<1>3. PICK g : g = history'
  OBVIOUS
<1>4. g = [i \in DOMAIN h |-> [h[i] EXCEPT !.readers = @ \ {v}]]
  BY <1>2, <1>3 DEF BreaksOff
<1>5. \A i \in DOMAIN h : /\ g[i] \in Kept /\ g[i].kind = h[i].kind /\ (h[i].old => g[i].old)
                         /\ g[i].readers = h[i].readers \ {v}
  <2> SUFFICES ASSUME NEW i \in DOMAIN h
               PROVE  /\ g[i] \in Kept /\ g[i].kind = h[i].kind /\ (h[i].old => g[i].old)
                      /\ g[i].readers = h[i].readers \ {v}
    OBVIOUS
  <2>1. PICK e \in Kept : e = h[i]
    BY ElementOfSeq, LenProperties
  <2>2. PICK r : r = e.readers \ {v}
    OBVIOUS
  <2>3. g[i] = [e EXCEPT !.readers = r]
    BY <1>4, <2>1, <2>2
  <2>4. r \in SUBSET Viewers
    BY <2>2 DEF Kept
  <2>5. g[i] \in Kept /\ g[i].kind = e.kind /\ g[i].old = e.old /\ g[i].readers = r
    BY <2>3, <2>4 DEF Kept
  <2> QED
    BY <2>1, <2>2, <2>5
<1>6. g = [i \in DOMAIN h |-> g[i]]
  BY <1>4
<1>7. g \in Seq(Kept) /\ DOMAIN g = DOMAIN h /\ Completed(g) = Completed(h) /\ (Unsplit(h) => Unsplit(g))
  BY <1>5, <1>6, SameKinds
<1>8. ShowTypes' /\ upheavals \subseteq upheavals' /\ (show' # Absent => newest' <= show'.seasons)
  BY <1>0, <1>1, <1>3, <1>7 DEF ShowTypes, LooksUpAlone
<1>9. ASSUME "crossed" \notin upheavals'
      PROVE  /\ copies' = (IF show' = Absent THEN 0 ELSE 1)
             /\ Unsplit(g) /\ \A w \in Viewers : ReadBy(g, w) = {}
  <2>1. copies' = (IF show' = Absent THEN 0 ELSE 1)
    BY <1>0, <1>1, <1>9 DEF OneViews
  <2>2. Unsplit(h)
    BY <1>0, <1>1, <1>2, <1>9 DEF RunsMerge
  <2>3. \A w \in Viewers : w # v => ReadBy(h, w) = {}
    <3> SUFFICES ASSUME NEW w \in Viewers, w # v PROVE ReadBy(h, w) = {}
      OBVIOUS
    <3>1. viewing[w].step = "idle"
      BY <1>0, <1>1, <1>9, IdlingIs DEF OneViews
    <3> QED
      BY <1>0, <1>1, <1>2, <1>9, <3>1 DEF RunsMerge, OfRun
  <2>4. \A w \in Viewers : ReadBy(g, w) = {}
    <3> SUFFICES ASSUME NEW w \in Viewers, NEW i \in DOMAIN h, w \in g[i].readers PROVE FALSE
      BY <1>7 DEF ReadBy
    <3>1. w # v /\ w \in h[i].readers
      BY <1>5
    <3> QED
      BY <2>3, <3>1 DEF ReadBy
  <2> QED
    BY <1>7, <2>1, <2>2, <2>4
<1>10. "refreshed twice" \notin upheavals' =>
           /\ "announced twice" \notin upheavals'
           /\ \A w \in Viewers : w # v /\ viewing[w].step = "fetch" => newest' <= viewing[w].had
  BY <1>0, <1>1 DEF LooksUpAlone
<1>11. Undisturbed' => finishes' = Cardinality(Completed(history'))
  <2> SUFFICES ASSUME Undisturbed' PROVE finishes = Cardinality(Completed(history))
    BY <1>1, <1>2, <1>3, <1>7
  <2>1. Undisturbed /\ viewing[v].step = "fetch"
    BY <1>1 DEF Undisturbed
  <2> QED
    BY <1>1, <2>1, NothingOwed
<1>12. show # Absent => show' # Absent
  BY <1>1
<1> QED
  BY <1>1, <1>3, <1>8, <1>9, <1>10, <1>11, <1>12, EndKeeps

LEMMA DeleteShowKeeps ==
  ASSUME WatchInv, NEW v \in Viewers, DeleteShow(v)
  PROVE  WatchInv'
<1>0. ShowTypes /\ ViewTypes /\ OneViews /\ LooksUpAlone
  BY DEF WatchInv
<1>1. /\ viewing[v] = Idling /\ show # Absent /\ show' = Absent /\ history' = <<>> /\ copies' = copies - 1
      /\ newest' = 0 /\ finishes' = 0 /\ Crossing(v) /\ UNCHANGED aired
      /\ viewing' = [w \in Viewers |-> IF viewing[w].step = "new" THEN viewing[w] ELSE Idling]
  BY DEF DeleteShow, Begins
<1>2. /\ upheavals \subseteq upheavals'
      /\ (\E w \in Viewers \ {v} : viewing[w] # Idling) => "crossed" \in upheavals'
      /\ \A u \in {"cut", "refreshed twice", "announced twice"} : u \in upheavals' <=> u \in upheavals
  BY <1>1, CrossingMarks
<1>3. history' \in Seq(Kept) /\ Unsplit(history') /\ Completed(history') = {} /\ \A w : ReadBy(history', w) = {}
  BY <1>1, EmptySeq DEF Unsplit, Completed, ReadBy
<1>4. ShowTypes'
  BY <1>0, <1>1, <1>3 DEF ShowTypes
<1>5. \A w \in Viewers : /\ viewing'[w].step \in {"idle", "new"} /\ IsView(viewing'[w])
                         /\ viewing'[w].step = "idle" \/ viewing'[w] = viewing[w]
  <2> SUFFICES ASSUME NEW w \in Viewers
               PROVE  /\ viewing'[w].step \in {"idle", "new"} /\ IsView(viewing'[w])
                      /\ viewing'[w].step = "idle" \/ viewing'[w] = viewing[w]
    OBVIOUS
  <2>1. CASE viewing[w].step = "new"
    BY <1>0, <1>1, <2>1 DEF ViewTypes
  <2>2. CASE viewing[w].step # "new"
    <3>1. viewing'[w] = Idling
      BY <1>1, <2>2
    <3> QED
      BY <3>1, IdlingIs
  <2> QED
    BY <2>1, <2>2
<1>6. ViewTypes'
  BY <1>1, <1>5 DEF ViewTypes, OfShow
<1>7. "crossed" \notin upheavals' => "crossed" \notin upheavals /\ \A w \in Viewers : viewing'[w] = Idling
  <2> SUFFICES ASSUME "crossed" \notin upheavals', NEW w \in Viewers
               PROVE  "crossed" \notin upheavals /\ viewing'[w] = Idling
    OBVIOUS
  <2>1. viewing[w] = Idling
    BY <1>1, <1>2
  <2> QED
    BY <1>1, <1>2, <2>1
<1>8. OneViews'
  <2>1. "crossed" \notin upheavals' => copies' = 0
    BY <1>0, <1>1, <1>7 DEF OneViews
  <2>2. \A w \in Viewers : Fits(viewing[w])'
    BY <1>1, <1>5 DEF Fits
  <2> QED
    BY <1>1, <1>7, <2>1, <2>2 DEF OneViews
<1>9. EntriesTell'
  <2>1. Cardinality(Completed(history')) = 0
    BY <1>3, FS_EmptySet
  <2>2. \A w \in Viewers : ~ Owes(viewing[w])'
    BY <1>5 DEF Owes
  <2> QED
    BY <1>1, <2>1, <2>2 DEF EntriesTell
<1>10. LooksUpAlone'
  BY <1>0, <1>1, <1>2, <1>5 DEF LooksUpAlone
<1>11. RunsMerge'
  BY <1>3, <1>5 DEF RunsMerge, OfRun
<1> QED
  BY <1>4, <1>6, <1>8, <1>9, <1>10, <1>11 DEF WatchInv

LEMMA TimeKeepsHistory ==
  ASSUME WatchInv, HalfHourPasses
  PROVE  WatchInv'
<1>0. ShowTypes /\ ViewTypes /\ OneViews /\ EntriesTell /\ LooksUpAlone /\ RunsMerge
  BY DEF WatchInv
<1>1. UNCHANGED <<show, copies, viewing, views, aired, newest, upheavals, finishes>>
  BY DEF HalfHourPasses
<1>2. PICK h \in Seq(Kept) : h = history
  BY <1>0 DEF ShowTypes
<1>3. PICK g : g = history'
  OBVIOUS
<1>4. g = [i \in DOMAIN h |-> [h[i] EXCEPT !.old = TRUE]]
  BY <1>2, <1>3 DEF HalfHourPasses
<1>5. \A i \in DOMAIN h : /\ g[i] \in Kept /\ g[i].kind = h[i].kind /\ g[i].old = TRUE
                         /\ g[i].readers = h[i].readers
  <2> SUFFICES ASSUME NEW i \in DOMAIN h
               PROVE  /\ g[i] \in Kept /\ g[i].kind = h[i].kind /\ g[i].old = TRUE
                      /\ g[i].readers = h[i].readers
    OBVIOUS
  <2>1. PICK e \in Kept : e = h[i]
    BY ElementOfSeq, LenProperties
  <2>2. g[i] = [e EXCEPT !.old = TRUE]
    BY <1>4, <2>1
  <2> QED
    BY <2>1, <2>2 DEF Kept
<1>6. g = [i \in DOMAIN h |-> g[i]]
  BY <1>4
<1>7. /\ g \in Seq(Kept) /\ DOMAIN g = DOMAIN h /\ Len(g) = Len(h) /\ Completed(g) = Completed(h)
      /\ Unsplit(h) => Unsplit(g)
  BY <1>5, <1>6, SameKinds
<1>8. ShowTypes' /\ ViewTypes' /\ OneViews' /\ LooksUpAlone'
  BY <1>0, <1>1, <1>3, <1>7 DEF ShowTypes, ViewTypes, OfShow, OneViews, LooksUpAlone, Fits
<1>9. EntriesTell'
  BY <1>0, <1>1, <1>2, <1>3, <1>7 DEF EntriesTell, Undisturbed, Owes
<1>10. RunsMerge'
  <2>1. \A w : ReadBy(g, w) = ReadBy(h, w)
    BY <1>5, <1>7 DEF ReadBy
  <2>2. h # <<>> => g # <<>> /\ g[Len(g)].kind = h[Len(h)].kind /\ g[Len(g)].old
    <3> SUFFICES ASSUME h # <<>> PROVE g # <<>> /\ g[Len(g)].kind = h[Len(h)].kind /\ g[Len(g)].old
      OBVIOUS
    <3>1. PICK n \in Nat : n = Len(h) /\ n \in DOMAIN h /\ n # 0
      BY EmptySeq, LenProperties
    <3>2. g # <<>>
      BY <1>7, <3>1, EmptySeq
    <3> QED
      BY <1>5, <1>7, <3>1, <3>2
  <2>3. h = <<>> => g = <<>>
    BY <1>7, EmptySeq
  <2>4. Settles(g)
    BY <2>2, <2>3 DEF Settles
  <2>5. \A x, w : OfRun(x, w, h) => OfRun(x, w, g)
    BY <1>7, <2>1, <2>2, <2>4 DEF OfRun
  <2> QED
    BY <1>0, <1>1, <1>2, <1>3, <1>7, <2>5 DEF RunsMerge
<1> QED
  BY <1>8, <1>9, <1>10 DEF WatchInv

LEMMA WeekKeepsHistory ==
  ASSUME WatchInv, WeekPasses
  PROVE  WatchInv'
<1>0. ShowTypes /\ ViewTypes /\ OneViews /\ EntriesTell /\ LooksUpAlone /\ RunsMerge
  BY DEF WatchInv
<1>1. /\ show # Absent /\ show' = [show EXCEPT !.checked = FALSE]
      /\ UNCHANGED <<copies, history, viewing, views, aired, newest, upheavals, finishes>>
  BY DEF WeekPasses
<1>2. IsShow(show) /\ IsShow(show') /\ show'.status = show.status /\ show'.seasons = show.seasons
  BY <1>0, <1>1 DEF ShowTypes, IsShow
<1>3. show' # Absent
  BY <1>2, WatchAssumption DEF IsShow, Status
<1>4. ShowTypes' /\ ViewTypes' /\ LooksUpAlone' /\ RunsMerge'
  BY <1>0, <1>1, <1>2, <1>3 DEF ShowTypes, ViewTypes, OfShow, LooksUpAlone, RunsMerge
<1>5. OneViews'
  <2>1. \A w \in Viewers : Fits(viewing[w]) => Fits(viewing[w])'
    BY <1>1, <1>2, <1>3 DEF Fits
  <2> QED
    BY <1>0, <1>1, <1>3, <2>1 DEF OneViews
<1>6. EntriesTell'
  BY <1>0, <1>1, <1>2 DEF EntriesTell, Undisturbed, Owes
<1> QED
  BY <1>4, <1>5, <1>6 DEF WatchInv

LEMMA SeasonKeepsHistory ==
  ASSUME WatchInv, SeasonAirs
  PROVE  WatchInv'
<1>1. /\ aired' = aired + 1
      /\ UNCHANGED <<show, copies, history, viewing, views, newest, upheavals, finishes>>
  BY DEF SeasonAirs
<1>2. ShowTypes'
  BY <1>1 DEF WatchInv, ShowTypes
<1>3. ViewTypes' /\ OneViews' /\ EntriesTell' /\ LooksUpAlone' /\ RunsMerge'
  BY <1>1 DEF WatchInv, ViewTypes, OfShow, OneViews, EntriesTell, LooksUpAlone, RunsMerge, Fits, Owes, Undisturbed
<1> QED
  BY <1>2, <1>3 DEF WatchInv

LEMMA HistoryRests ==
  ASSUME WatchInv, UNCHANGED watchVars
  PROVE  WatchInv'
BY DEF WatchInv, watchVars, ShowTypes, ViewTypes, OfShow, OneViews, EntriesTell, LooksUpAlone, RunsMerge, Fits, Owes, Undisturbed

LEMMA WatchBegins ==
  ASSUME WatchInit
  PROVE  WatchInv
<1>1. PICK saved \in BOOLEAN : WatchStart(saved)
  BY DEF WatchInit
<1>2. /\ viewing = [v \in Viewers |-> Idling] /\ aired = 1 /\ newest = 0 /\ upheavals = {}
      /\ \A v \in Viewers : viewing[v] = Idling /\ viewing[v].step = "idle"
  BY <1>1, IdlingIs DEF WatchStart
<1>3. ViewTypes
  BY <1>2, IdlingIs DEF ViewTypes, OfShow
<1>4. CASE saved = TRUE
  <2>1. /\ show = [status |-> "complete", watched |-> 1, seasons |-> 1, checked |-> FALSE]
        /\ history = <<[Entry("completed") EXCEPT !.old = TRUE]>> /\ copies = 1 /\ finishes = 1
    BY <1>1, <1>4 DEF WatchStart
  <2>2. IsShow(show) /\ show.seasons = 1
    BY <2>1 DEF IsShow, Status
  <2>3. show # Absent
    BY <2>2, WatchAssumption DEF IsShow, Status
  <2>4. PICK e : e = [Entry("completed") EXCEPT !.old = TRUE]
    OBVIOUS
  <2>5. e \in Kept /\ e.kind = "completed" /\ e.readers = {}
    <3>1. e = [kind |-> "completed", from |-> 0, to |-> 0, old |-> TRUE, readers |-> {}]
      BY <2>4 DEF Entry
    <3> QED
      BY <3>1 DEF Kept
  <2>6. history = <<e>>
    BY <2>1, <2>4
  <2>7. history \in Seq(Kept) /\ Unsplit(history) /\ Completed(history) = {1} /\ \A w : ReadBy(history, w) = {}
    BY <2>5, <2>6 DEF Unsplit, Completed, ReadBy
  <2>8. Cardinality(Completed(history)) = 1
    BY <2>7, FS_Singleton
  <2>9. ShowTypes
    BY <1>2, <2>1, <2>2, <2>7 DEF ShowTypes
  <2>10. OneViews /\ EntriesTell /\ LooksUpAlone
    BY <1>2, <2>1, <2>2, <2>3, <2>8 DEF OneViews, EntriesTell, LooksUpAlone, Fits, Owes
  <2>11. RunsMerge
    BY <1>2, <2>7 DEF RunsMerge, OfRun
  <2> QED
    BY <1>3, <2>9, <2>10, <2>11 DEF WatchInv
<1>5. CASE saved = FALSE
  <2>1. show = Absent /\ history = <<>> /\ copies = 0 /\ finishes = 0
    BY <1>1, <1>5 DEF WatchStart
  <2>2. history \in Seq(Kept) /\ Unsplit(history) /\ Completed(history) = {} /\ \A w : ReadBy(history, w) = {}
    BY <2>1, EmptySeq DEF Unsplit, Completed, ReadBy
  <2>3. Cardinality(Completed(history)) = 0
    BY <2>2, FS_EmptySet
  <2>4. ShowTypes
    BY <1>2, <2>1, <2>2 DEF ShowTypes
  <2>5. OneViews /\ EntriesTell /\ LooksUpAlone
    BY <1>2, <2>1, <2>3 DEF OneViews, EntriesTell, LooksUpAlone, Fits, Owes
  <2>6. RunsMerge
    BY <1>2, <2>2 DEF RunsMerge, OfRun
  <2> QED
    BY <1>3, <2>4, <2>5, <2>6 DEF WatchInv
<1> QED
  BY <1>4, <1>5

LEMMA WatchSays ==
  WatchInv => WatchedAsTold
<1> SUFFICES ASSUME WatchInv PROVE WatchedAsTold
  OBVIOUS
<1>1. OneViews /\ EntriesTell /\ LooksUpAlone /\ RunsMerge
  BY DEF WatchInv
<1>2. "crossed" \notin upheavals /\ "cut" \notin upheavals /\ NobodyWatches => Completions = finishes
  <2> SUFFICES ASSUME Undisturbed, NobodyWatches PROVE Cardinality(Completed(history)) = finishes
    BY DEF Undisturbed, Completions, Completed
  <2>1. \A v \in Viewers : ~ Owes(viewing[v])
    BY IdlingIs DEF NobodyWatches, Owes
  <2> QED
    BY <1>1, <2>1 DEF EntriesTell
<1>3. "crossed" \notin upheavals => copies <= 1
  BY <1>1 DEF OneViews
<1>4. "crossed" \notin upheavals => NoSplitRun
  BY <1>1 DEF RunsMerge, Unsplit, NoSplitRun
<1>5. AnnouncedOneTime
  BY <1>1 DEF LooksUpAlone, AnnouncedOneTime
<1> QED
  BY <1>2, <1>3, <1>4, <1>5 DEF WatchedAsTold, HistoryIsTrue

(***************************************************************************)
(* The history of a show is true, for any number of requests, seasons and  *)
(* weeks: unless two requests were open together, the title is saved once, *)
(* no sitting is split and, if none was cut off either, every time the     *)
(* show became complete has its one entry; and a season is announced once  *)
(* unless two refreshes looked it up before either wrote.                  *)
(***************************************************************************)
THEOREM HistoryStaysTrue == WatchSpec => []WatchedAsTold
<1>1. WatchInit => WatchInv
  BY WatchBegins
<1>2. WatchInv /\ [WatchNext]_watchVars => WatchInv'
  <2> SUFFICES ASSUME WatchInv, [WatchNext]_watchVars PROVE WatchInv'
    OBVIOUS
  <2>1. ASSUME NEW v \in Viewers,
               \/ LookForCopy(v) \/ SaveShow(v) \/ ReadShow(v) \/ WriteShow(v) \/ CompareShow(v)
               \/ ReadRun(v) \/ MergeRun(v) \/ BeginRun(v)
               \/ LookForShow(v) \/ SaveAgain(v) \/ LookStale(v) \/ ApplyRefresh(v) \/ BreaksOff(v) \/ DeleteShow(v)
        PROVE  WatchInv'
    BY <2>1, LookForCopyKeeps, SaveShowKeeps, ReadShowKeeps, WriteShowKeeps, CompareShowKeeps, ReadRunKeeps,
       MergeRunKeeps, BeginRunKeeps, LookForShowKeeps, SaveAgainKeeps, LookStaleKeeps, ApplyRefreshKeeps, BreaksOffKeeps, DeleteShowKeeps
  <2>2. CASE SeasonAirs \/ HalfHourPasses \/ WeekPasses
    BY <2>2, SeasonKeepsHistory, TimeKeepsHistory, WeekKeepsHistory
  <2>3. CASE UNCHANGED watchVars
    BY <2>3, HistoryRests
  <2> QED
    BY <2>1, <2>2, <2>3 DEF WatchNext
<1>3. WatchInv => WatchedAsTold
  BY WatchSays
<1> QED
  BY <1>1, <1>2, <1>3, PTL DEF WatchSpec

=============================================================================
