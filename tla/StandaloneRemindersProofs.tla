---------------------- MODULE StandaloneRemindersProofs ----------------------
(***************************************************************************)
(* Proofs about StandaloneReminders, for every number of handlers and      *)
(* occurrences and every timing that TimesAssumption and TimeoutAssumption *)
(* allow.                                                                  *)
(***************************************************************************)
EXTENDS StandaloneReminders, SetLemmas

USE DEF Ids, Pairs

(* Every sequence number was given out by one of the inserts so far.       *)
SeqBound == \A o \in Ids : occ[o].seq <= lastId

TInv == TypeOK /\ SeqBound

-----------------------------------------------------------------------------
LEMMA NextAtType ==
  ASSUME NEW rule \in [step : Nat, count : Nat, until : Nat], NEW at \in Nat
  PROVE  NextAt(rule, at) \in Nat
BY DEF NextAt

LEMMA NewRowType ==
  ASSUME NEW seq \in Nat, NEW at \in Nat
  PROVE  NewRow(seq, at) \in Row /\ NewRow(seq, at).seq = seq
BY DEF NewRow, Row, Stages, NoClaim

(* Taking or releasing a claim changes nothing else of a row.              *)
LEMMA ClaimOnly ==
  ASSUME NEW r \in Row, NEW c \in Nat
  PROVE  LET new == [r EXCEPT !.claim = c] IN
         /\ new \in Row /\ new.status = r.status /\ new.seq = r.seq /\ new.fire = r.fire
         /\ new.sched = r.sched /\ new.late = r.late /\ new.claim = c
BY DEF Row

LEMMA ClaimsOnly ==
  ASSUME occ \in [Ids -> Row], NEW o \in Ids, NEW c \in Nat, occ' = [occ EXCEPT ![o].claim = c]
  PROVE  /\ occ' \in [Ids -> Row] /\ occ'[o].claim = c
         /\ \A p \in Ids : p # o => occ'[p] = occ[p]
         /\ \A p \in Ids : /\ occ'[p].status = occ[p].status /\ occ'[p].seq = occ[p].seq
                          /\ occ'[p].fire = occ[p].fire /\ occ'[p].sched = occ[p].sched
                          /\ occ'[p].late = occ[p].late
<1> DEFINE new == [occ[o] EXCEPT !.claim = c]
<1>1. /\ new \in Row /\ new.status = occ[o].status /\ new.seq = occ[o].seq
      /\ new.fire = occ[o].fire /\ new.sched = occ[o].sched /\ new.late = occ[o].late
      /\ new.claim = c
  BY ClaimOnly
<1>2. occ' = [occ EXCEPT ![o] = new]
  OBVIOUS
<1> HIDE DEF new
<1>3. occ'[o] = new /\ \A p \in Ids : p # o => occ'[p] = occ[p]
  BY <1>2
<1>4. occ' \in [Ids -> Row]
  BY <1>1, <1>2
<1>5. \A p \in Ids : /\ occ'[p].status = occ[p].status /\ occ'[p].seq = occ[p].seq
                   /\ occ'[p].fire = occ[p].fire /\ occ'[p].sched = occ[p].sched
                   /\ occ'[p].late = occ[p].late
  BY <1>1, <1>3
<1> QED
  BY <1>1, <1>3, <1>4, <1>5

LEMMA EnqueuedType ==
  ASSUME TypeOK, NEW o \in Ids, NEW at \in Nat, NEW kept \in SUBSET Task, Enqueued(o, at, kept)
  PROVE  tasks' \in SUBSET Task /\ happened' \in [Events -> Nat]
BY DEF TypeOK, Enqueued, Happens, Events, Task

(* The sequence a replaced series continues with is a fresh bounded number.*)
LEMMA ReplaceSequenceType ==
  ASSUME TInv
  PROVE  ReplaceSequence \in Nat /\ ReplaceSequence <= lastId + 1
<1> DEFINE rows == {o \in Ids : occ[o].status \notin {"none", "gone"}}
           top == {o \in rows : \A p \in rows : occ[p].seq <= occ[o].seq}
           seqs == {occ[o].seq : o \in rows}
<1>1. lastId \in Nat /\ \A o \in Ids : occ[o].seq \in Nat /\ occ[o].seq <= lastId
  BY TimesAssumption DEF TInv, TypeOK, Row, SeqBound
<1>2. CASE Pending # {}
  <2>1. (CHOOSE o \in Pending : TRUE) \in Ids
    BY <1>2 DEF Pending
  <2> QED
    BY <1>1, <1>2, <2>1 DEF ReplaceSequence
<1>3. CASE Pending = {} /\ rows # {}
  <2>1. seqs \in SUBSET Nat /\ seqs # {} /\ \A n \in seqs : n <= lastId
    BY <1>1, <1>3
  <2>2. \E m \in seqs : \A n \in seqs : n <= m
    <3> HIDE DEF seqs
    <3> QED BY <2>1, <1>1, GreatestNatural
  <2>3. top # {}
    BY <2>2
  <2>4. (CHOOSE o \in top : TRUE) \in Ids
    BY <2>3
  <2> QED
    BY <1>1, <1>3, <2>4 DEF ReplaceSequence
<1>4. CASE Pending = {} /\ rows = {}
  BY <1>1, <1>4 DEF ReplaceSequence
<1> QED
  BY <1>2, <1>3, <1>4

-----------------------------------------------------------------------------
(* Advance, shared by Skip and Complete.                                   *)
LEMMA AdvanceType ==
  ASSUME TInv, NEW o \in Pending, NEW how \in {"delivered", "skipped"},
         NEW kept \in SUBSET Task, Advance(o, how, kept)
  PROVE  /\ rem' \in [state : {"none", "live", "gone"}, active : BOOLEAN, startsAt : Nat,
                      rule : [step : Nat, count : Nat, until : Nat]]
         /\ occ' \in [Ids -> Row] /\ lastId' \in 0 .. MaxOcc
         /\ tasks' \in SUBSET Task /\ happened' \in [Events -> Nat]
         /\ \A p \in Ids : occ'[p].seq <= lastId'
<1> DEFINE row == [occ[o] EXCEPT !.status = how, !.claim = NoClaim]
           at == NextAt(rem.rule, row.sched)
<1>1. o \in Ids /\ lastId \in Nat /\ \A p \in Ids : occ[p].seq \in Nat /\ occ[p].seq <= lastId
  BY TimesAssumption DEF TInv, TypeOK, Row, SeqBound, Pending
<1>r. occ[o] \in Row
  BY <1>1 DEF TInv, TypeOK
<1>2. row \in Row /\ row.seq = occ[o].seq
  BY <1>r DEF Row, Stages, NoClaim
<1>3. at \in Nat
  BY <1>2, NextAtType DEF TInv, TypeOK, Row
<1>4. CASE rem.active /\ HasNext(rem.rule, row.sched, row.seq)
  <2>1. /\ lastId < MaxOcc /\ lastId' = lastId + 1
        /\ occ' = [occ EXCEPT ![o] = row, ![lastId + 1] = NewRow(row.seq + 1, at)]
        /\ Enqueued(lastId + 1, at, kept)
        /\ UNCHANGED rem
    BY <1>4 DEF Advance
  <2>a. row.seq + 1 \in Nat /\ row.seq + 1 <= lastId + 1
    BY <1>1, <1>2
  <2> HIDE DEF row, at
  <2>2. NewRow(row.seq + 1, at) \in Row /\ NewRow(row.seq + 1, at).seq = row.seq + 1
    BY <2>a, <1>3, NewRowType
  <2>3. lastId + 1 \in Ids /\ lastId' \in 0 .. MaxOcc
    BY <2>1, <1>1, TimesAssumption
  <2>4. tasks' \in SUBSET Task /\ happened' \in [Events -> Nat]
    BY <2>1, <2>3, <1>3, EnqueuedType DEF TInv
  <2>5. occ' \in [Ids -> Row]
    BY <2>1, <2>2, <1>2 DEF TInv, TypeOK
  <2>6. \A p \in Ids : occ'[p].seq <= lastId'
    <3> DEFINE new == NewRow(row.seq + 1, at)
    <3>1. new.seq <= lastId'
      BY <2>1, <2>2, <2>a
    <3>2. row.seq <= lastId'
      BY <2>1, <2>a, <1>1, <1>2
    <3> HIDE DEF new
    <3>3. \A p \in Ids : occ'[p] = new \/ occ'[p] = row \/ occ'[p] = occ[p]
      BY <2>1, <2>3 DEF TInv, TypeOK, new
    <3>4. \A p \in Ids : occ[p].seq <= lastId'
      BY <2>1, <1>1
    <3> QED
      BY <3>1, <3>2, <3>3, <3>4
  <2> QED
    BY <2>1, <2>3, <2>4, <2>5, <2>6 DEF TInv, TypeOK
<1>5. CASE ~(rem.active /\ HasNext(rem.rule, row.sched, row.seq))
  <2>1. /\ occ' = [occ EXCEPT ![o] = row]
        /\ rem' = [rem EXCEPT !.active = FALSE]
        /\ tasks' = kept
        /\ UNCHANGED <<lastId, happened>>
    BY <1>5 DEF Advance
  <2> QED
    BY <2>1, <1>1, <1>2 DEF TInv, TypeOK
<1> QED
  BY <1>4, <1>5

LEMMA ClaimType ==
  ASSUME TypeOK, NEW w \in Workers, NEW o \in Ids, NEW task \in SUBSET Task, Claim(w, o, task)
  PROVE  /\ occ' \in [Ids -> Row] /\ tasks' \in SUBSET Task
         /\ worker' \in [Workers -> Request \union {Idle}]
         /\ \A p \in Ids : occ'[p].seq = occ[p].seq
<1>1. now + Lease \in Nat /\ now \in Nat
  BY TimesAssumption DEF TypeOK
<1>2. occ' \in [Ids -> Row] /\ \A p \in Ids : occ'[p].seq = occ[p].seq
  <2>1. occ \in [Ids -> Row] /\ occ' = [occ EXCEPT ![o].claim = now + Lease]
    BY DEF TypeOK, Claim
  <2> QED
    BY <1>1, <2>1, ClaimsOnly
<1>3. [pc |-> "sending", occ |-> o, fire |-> occ[o].fire, task |-> task, since |-> now] \in Request
  BY <1>1 DEF TypeOK, Row, Request
<1> QED
  BY <1>2, <1>3 DEF TypeOK, Claim

-----------------------------------------------------------------------------
LEMMA TInvInit == Init => TInv
<1> SUFFICES ASSUME Init PROVE TInv
  OBVIOUS
<1>1. NoRow \in Row /\ NoRow.seq = 0
  BY DEF NoRow, Row, Stages, NoClaim
<1>2. TypeOK
  BY <1>1, TimesAssumption DEF Init, TypeOK, Events
<1>3. SeqBound
  BY <1>1 DEF Init, SeqBound
<1> QED
  BY <1>2, <1>3 DEF TInv

LEMMA TInvNext == TInv /\ [Next]_vars => TInv'
<1> SUFFICES ASSUME TInv, [Next]_vars PROVE TInv'
  OBVIOUS
<1> USE DEF TInv
<1>a. lastId \in Nat /\ now \in Nat /\ \A p \in Ids : occ[p].seq \in Nat /\ occ[p].seq <= lastId
  BY TimesAssumption DEF TypeOK, Row, SeqBound
<1>1. CASE Create
  <2>1. PICK rule \in Rules, at \in now .. Horizon :
          /\ rem' = [state |-> "live", active |-> TRUE, startsAt |-> at, rule |-> rule]
          /\ occ' = [occ EXCEPT ![lastId + 1] = NewRow(1, at)]
          /\ Enqueued(lastId + 1, at, tasks)
    BY <1>1 DEF Create
  <2>2. lastId + 1 \in Ids /\ at \in Nat
    BY <1>1, <1>a, TimesAssumption DEF Create
  <2>3. NewRow(1, at) \in Row /\ NewRow(1, at).seq = 1
    BY <2>2, NewRowType
  <2>4. tasks' \in SUBSET Task /\ happened' \in [Events -> Nat]
    BY <2>1, <2>2, EnqueuedType DEF TypeOK
  <2>5. SeqBound'
    BY <1>1, <2>1, <2>2, <2>3, <1>a DEF Create, SeqBound, TypeOK
  <2>6. occ' \in [Ids -> Row] /\ lastId' \in 0 .. MaxOcc
    BY <1>1, <2>1, <2>2, <2>3, <1>a DEF Create, TypeOK
  <2> QED
    BY <1>1, <2>1, <2>2, <2>4, <2>5, <2>6, RulesAssumption DEF Create, TypeOK, UserUnchanged
<1>2. CASE Replace
  <2>1. PICK rule \in Rules, at \in now .. Horizon :
          /\ rem' = [rem EXCEPT !.active = TRUE, !.startsAt = at, !.rule = rule]
          /\ occ' = [o \in Ids |->
                       IF o = lastId + 1 THEN NewRow(ReplaceSequence, at)
                       ELSE IF o \in Pending
                         THEN [occ[o] EXCEPT !.status = "cancelled", !.claim = NoClaim]
                       ELSE occ[o]]
          /\ Enqueued(lastId + 1, at, tasks)
    BY <1>2 DEF Replace
  <2>a. lastId < MaxOcc /\ lastId' = lastId + 1 /\ edits' = edits + 1 /\ UserUnchanged
    BY <1>2 DEF Replace, Edit
  <2>2. lastId + 1 \in Ids /\ at \in Nat
    BY <2>a, <1>a, TimesAssumption
  <2>3. /\ NewRow(ReplaceSequence, at) \in Row
        /\ NewRow(ReplaceSequence, at).seq <= lastId + 1
    BY <2>2, NewRowType, ReplaceSequenceType
  <2>4. tasks' \in SUBSET Task /\ happened' \in [Events -> Nat]
    BY <2>1, <2>2, EnqueuedType DEF TypeOK
  <2> DEFINE new == NewRow(ReplaceSequence, at)
             cancelled(o) == [occ[o] EXCEPT !.status = "cancelled", !.claim = NoClaim]
  <2>5. \A o \in Ids : cancelled(o) \in Row /\ cancelled(o).seq = occ[o].seq
    <3> SUFFICES ASSUME NEW o \in Ids PROVE cancelled(o) \in Row /\ cancelled(o).seq = occ[o].seq
      OBVIOUS
    <3>1. occ[o] \in Row
      BY DEF TypeOK
    <3> QED
      BY <3>1 DEF Row, Stages, NoClaim
  <2>b. /\ new \in Row /\ new.seq <= lastId'
        /\ occ' = [o \in Ids |-> IF o = lastId + 1 THEN new
                                ELSE IF o \in Pending THEN cancelled(o) ELSE occ[o]]
    BY <2>a, <2>1, <2>3
  <2>c. \A o \in Ids : occ[o].seq <= lastId' /\ occ[o] \in Row
    BY <2>a, <1>a DEF TypeOK
  <2> HIDE DEF new, cancelled
  <2>6. occ' \in [Ids -> Row] /\ lastId' \in 0 .. MaxOcc
    BY <2>a, <2>b, <2>c, <2>5, <2>2
  <2>7. SeqBound'
    <3>1. \A o \in Ids : occ'[o] = new \/ occ'[o] = cancelled(o) \/ occ'[o] = occ[o]
      BY <2>b
    <3> QED
      BY <3>1, <2>b, <2>c, <2>5 DEF SeqBound
  <2>8. edits' \in Nat
    BY <2>a DEF TypeOK
  <2>9. rem' \in [state : {"none", "live", "gone"}, active : BOOLEAN, startsAt : Nat,
                  rule : [step : Nat, count : Nat, until : Nat]]
    BY <2>1, <2>2, RulesAssumption DEF TypeOK
  <2> QED
    BY <2>a, <2>4, <2>6, <2>7, <2>8, <2>9 DEF TypeOK, UserUnchanged
<1>3. ASSUME NEW o \in Ids, Snooze(o) PROVE TInv'
  <2>1. PICK at \in now + SnoozeMin .. Horizon :
          /\ occ' = [occ EXCEPT ![o].fire = at, ![o].claim = NoClaim]
          /\ Enqueued(o, at, tasks)
    BY <1>3 DEF Snooze
  <2>2. at \in Nat
    BY <1>a, TimesAssumption
  <2>3. tasks' \in SUBSET Task /\ happened' \in [Events -> Nat]
    BY <2>1, <2>2, EnqueuedType DEF TypeOK
  <2>4. occ' \in [Ids -> Row] /\ \A p \in Ids : occ'[p].seq = occ[p].seq
    <3>1. [occ[o] EXCEPT !.fire = at, !.claim = NoClaim] \in Row
      <4>1. occ[o] \in Row
        BY DEF TypeOK
      <4> QED
        BY <2>2, <4>1 DEF Row, NoClaim
    <3>2. occ' = [occ EXCEPT ![o] = [occ[o] EXCEPT !.fire = at, !.claim = NoClaim]]
      BY <2>1 DEF TypeOK
    <3> QED
      BY <3>1, <3>2 DEF TypeOK, Row
  <2>5. edits' \in Nat
    BY <1>3 DEF Snooze, Edit, TypeOK
  <2> QED
    BY <1>3, <1>a, <2>3, <2>4, <2>5 DEF Snooze, TypeOK, SeqBound, UserUnchanged
<1>4. ASSUME NEW o \in Ids, Skip(o) PROVE TInv'
  <2>1. o \in Pending /\ Advance(o, "skipped", tasks) /\ edits' \in Nat
    BY <1>4 DEF Skip, Edit, TypeOK
  <2>2. /\ rem' \in [state : {"none", "live", "gone"}, active : BOOLEAN, startsAt : Nat,
                     rule : [step : Nat, count : Nat, until : Nat]]
        /\ occ' \in [Ids -> Row] /\ lastId' \in 0 .. MaxOcc
        /\ tasks' \in SUBSET Task /\ happened' \in [Events -> Nat]
        /\ \A p \in Ids : occ'[p].seq <= lastId'
    BY <2>1, AdvanceType DEF TypeOK
  <2> QED
    BY <1>4, <2>1, <2>2 DEF Skip, TypeOK, SeqBound, UserUnchanged
<1>5. CASE Delete
  <2>1. /\ NoRow \in Row /\ NoRow.seq = 0
        /\ [NoRow EXCEPT !.status = "gone"] \in Row /\ [NoRow EXCEPT !.status = "gone"].seq = 0
    BY DEF NoRow, Row, Stages, NoClaim
  <2>2. occ' \in [Ids -> Row] /\ \A p \in Ids : occ'[p].seq = 0
    BY <1>5, <2>1 DEF Delete
  <2>3. edits' \in Nat
    BY <1>5 DEF Delete, Edit, TypeOK
  <2>4. rem' \in [state : {"none", "live", "gone"}, active : BOOLEAN, startsAt : Nat,
                  rule : [step : Nat, count : Nat, until : Nat]]
    BY <1>5 DEF Delete, TypeOK
  <2>5. UNCHANGED <<lastId, tasks, happened, now, worker, lastSweep, channel, account, sent, dups, lost>>
    BY <1>5 DEF Delete, UserUnchanged
  <2> QED
    <3>1. SeqBound'
      BY <1>a, <2>2, <2>5 DEF SeqBound
    <3>2. TypeOK'
      BY <2>2, <2>3, <2>4, <2>5 DEF TypeOK
    <3> QED
      BY <3>1, <3>2
<1>6. ASSUME NEW o \in Ids, DeleteOccurrence(o) PROVE TInv'
  <2>1. [NoRow EXCEPT !.status = "gone"] \in Row /\ [NoRow EXCEPT !.status = "gone"].seq = 0
    BY DEF NoRow, Row, Stages, NoClaim
  <2>2. occ' \in [Ids -> Row] /\ \A p \in Ids : occ'[p].seq <= lastId
    BY <1>6, <1>a, <2>1 DEF DeleteOccurrence, TypeOK
  <2>3. rem' \in [state : {"none", "live", "gone"}, active : BOOLEAN, startsAt : Nat,
                  rule : [step : Nat, count : Nat, until : Nat]]
    BY <1>6 DEF DeleteOccurrence, TypeOK
  <2>4. edits' \in Nat
    BY <1>6 DEF DeleteOccurrence, Edit, TypeOK
  <2> QED
    BY <1>6, <2>2, <2>3, <2>4 DEF DeleteOccurrence, TypeOK, SeqBound, UserUnchanged
<1>7. CASE ToggleAccount
  BY <1>7 DEF ToggleAccount, Happens, TypeOK, SeqBound, Events
<1>8. CASE Tick
  BY <1>8 DEF Tick, TypeOK, SeqBound
<1>9. ASSUME NEW w \in Workers, Fire(w) PROVE TInv'
  <2>1. PICK t \in tasks :
          IF Due(t.occ) /\ rem.active THEN Claim(w, t.occ, {t})
          ELSE tasks' = tasks \ {t} /\ UNCHANGED <<occ, worker>>
    BY <1>9 DEF Fire
  <2>2. t.occ \in Ids /\ {t} \in SUBSET Task
    BY DEF TypeOK, Task
  <2>3. /\ occ' \in [Ids -> Row] /\ tasks' \in SUBSET Task
        /\ worker' \in [Workers -> Request \union {Idle}]
        /\ \A p \in Ids : occ'[p].seq = occ[p].seq
    <3>1. CASE Due(t.occ) /\ rem.active
      BY <2>1, <2>2, <3>1, ClaimType
    <3>2. CASE ~(Due(t.occ) /\ rem.active)
      BY <2>1, <3>2 DEF TypeOK
    <3> QED
      BY <3>1, <3>2
  <2> QED
    BY <1>9, <1>a, <2>3 DEF Fire, TypeOK, SeqBound, DeliveryUnchanged
<1>10. ASSUME NEW w \in Workers, Sweep(w) PROVE TInv'
  <2>1. /\ occ' \in [Ids -> Row] /\ tasks' \in SUBSET Task
        /\ worker' \in [Workers -> Request \union {Idle}]
        /\ \A p \in Ids : occ'[p].seq = occ[p].seq
    <3>1. ASSUME NEW o \in Ids, Claim(w, o, {})
          PROVE  /\ occ' \in [Ids -> Row] /\ tasks' \in SUBSET Task
                 /\ worker' \in [Workers -> Request \union {Idle}]
                 /\ \A p \in Ids : occ'[p].seq = occ[p].seq
      BY <3>1, ClaimType
    <3>2. CASE UNCHANGED <<occ, worker, tasks>>
      BY <3>2 DEF TypeOK
    <3> QED
      BY <1>10, <3>1, <3>2 DEF Sweep
  <2> QED
    BY <1>10, <1>a, <2>1 DEF Sweep, TypeOK, SeqBound, DeliveryUnchanged
<1>11. ASSUME NEW w \in Workers, Attempt(w) PROVE TInv'
  <2> DEFINE pair == <<worker[w].occ, worker[w].fire>>
             again == {[t EXCEPT !.at = now] : t \in worker[w].task}
  <2>1. worker[w] \in Request
    BY <1>11 DEF Attempt, TypeOK, Idle
  <2>2. pair \in Pairs /\ again \in SUBSET Task /\ worker[w].occ \in Ids
    BY <2>1, <1>a DEF Request, Task
  <2>3. sent' \in SUBSET Pairs /\ dups' \in SUBSET Pairs
    BY <1>11, <2>2 DEF Attempt, TypeOK
  <2>4. /\ occ' \in [Ids -> Row] /\ tasks' \in SUBSET Task /\ happened' \in [Events -> Nat]
        /\ worker' \in [Workers -> Request \union {Idle}]
        /\ \A p \in Ids : occ'[p].seq = occ[p].seq
    <3>1. CASE worker' = [worker EXCEPT ![w].pc = "sent"] /\ UNCHANGED <<occ, tasks, happened>>
      <4>1. [worker[w] EXCEPT !.pc = "sent"] \in Request
        BY <2>1 DEF Request
      <4>2. worker' \in [Workers -> Request \union {Idle}]
        BY <3>1, <4>1 DEF TypeOK
      <4> QED
        BY <3>1, <4>2 DEF TypeOK
    <3>2. CASE /\ Happens("unsent") /\ worker' = [worker EXCEPT ![w] = Idle]
               /\ occ' = IF occ[worker[w].occ].status = "gone" THEN occ
                         ELSE [occ EXCEPT ![worker[w].occ].claim = NoClaim]
               /\ tasks' = (tasks \ worker[w].task) \union again
      <4>1. occ' \in [Ids -> Row] /\ \A p \in Ids : occ'[p].seq = occ[p].seq
        <5>1. occ \in [Ids -> Row] /\ NoClaim \in Nat
          BY DEF TypeOK, NoClaim
        <5>2. CASE occ' = [occ EXCEPT ![worker[w].occ].claim = NoClaim]
          BY <5>1, <5>2, <2>2, ClaimsOnly
        <5>3. CASE occ' = occ
          BY <5>1, <5>3
        <5> QED
          BY <3>2, <5>2, <5>3
      <4>2. happened' \in [Events -> Nat]
        <5>1. happened \in [Events -> Nat] /\ "unsent" \in Events
          BY DEF TypeOK, Events
        <5>2. happened["unsent"] + 1 \in Nat
          BY <5>1
        <5>3. happened' = [happened EXCEPT !["unsent"] = happened["unsent"] + 1]
          BY <3>2 DEF Happens
        <5> QED
          BY <5>1, <5>2, <5>3
      <4> QED
        BY <2>2, <3>2, <4>1, <4>2 DEF TypeOK
    <3> QED
      BY <1>11, <3>1, <3>2 DEF Attempt
  <2>5. UNCHANGED <<now, rem, lastId, lastSweep, channel, account, lost, edits>>
    BY <1>11 DEF Attempt, DeliveryUnchanged
  <2>6. TypeOK'
    BY <1>a, <2>3, <2>4, <2>5 DEF TypeOK
  <2>7. SeqBound'
    BY <1>a, <2>4, <2>5 DEF SeqBound
  <2> QED
    BY <2>6, <2>7
<1>12. ASSUME NEW w \in Workers, Complete(w) PROVE TInv'
  <2>1. worker' \in [Workers -> Request \union {Idle}]
    BY <1>12 DEF Complete, TypeOK
  <2>2. tasks \ worker[w].task \in SUBSET Task
    BY DEF TypeOK
  <2>3. /\ rem' \in [state : {"none", "live", "gone"}, active : BOOLEAN, startsAt : Nat,
                     rule : [step : Nat, count : Nat, until : Nat]]
        /\ occ' \in [Ids -> Row] /\ lastId' \in 0 .. MaxOcc
        /\ tasks' \in SUBSET Task /\ happened' \in [Events -> Nat]
        /\ \A p \in Ids : occ'[p].seq <= lastId'
    <3>1. CASE worker[w].occ \in Pending
      <4>1. Advance(worker[w].occ, "delivered", tasks \ worker[w].task)
        BY <1>12, <3>1 DEF Complete
      <4> QED
        BY <4>1, <3>1, <2>2, AdvanceType
    <3>2. CASE worker[w].occ \notin Pending
      BY <1>12, <1>a, <3>2, <2>2 DEF Complete, TypeOK
    <3> QED
      BY <3>1, <3>2
  <2> QED
    BY <1>12, <2>1, <2>3 DEF Complete, TypeOK, SeqBound, DeliveryUnchanged
<1>13. ASSUME NEW w \in Workers, Abort(w) PROVE TInv'
  <2>1. worker[w] \in Request
    BY <1>13 DEF Abort, TypeOK, Idle
  <2>2. lost' \in SUBSET Pairs
    BY <1>13, <2>1 DEF Abort, TypeOK, Request
  <2>3. tasks' \in SUBSET Task
    BY <1>13, <1>a, <2>1 DEF Abort, TypeOK, Request, Task
  <2>4. happened' \in [Events -> Nat] /\ worker' \in [Workers -> Request \union {Idle}]
    BY <1>13 DEF Abort, Happens, TypeOK, Events
  <2> QED
    BY <1>13, <2>2, <2>3, <2>4 DEF Abort, TypeOK, SeqBound, DeliveryUnchanged
<1>14. CASE UNCHANGED vars
  BY <1>14 DEF vars, TypeOK, SeqBound
<1> QED
  BY <1>1, <1>2, <1>3, <1>4, <1>5, <1>6, <1>7, <1>8, <1>9, <1>10, <1>11, <1>12, <1>13, <1>14
     DEF Next, UserStep, WorkerStep

(* Every variable keeps its type.                                          *)
THEOREM TypeCorrect == Spec => []TypeOK
<1>1. Spec => []TInv
  BY TInvInit, TInvNext, PTL DEF Spec
<1>2. TInv => TypeOK
  BY DEF TInv
<1> QED
  BY <1>1, <1>2, PTL

-----------------------------------------------------------------------------
(* The series: what the steps do to the stages of the occurrences.         *)

Stage == [o \in Ids |-> occ[o].status]
Running == rem.state = "live" /\ rem.active

(* An id not drawn yet has no row.                                         *)
Fresh == \A o \in Ids : o > lastId => occ[o].status = "none"

SInv == TInv /\ Fresh /\ SeriesRuns

(* An abstract step keeps one current occurrence, or none after the end.   *)
LEMMA PromiseKeepsSeries ==
  ASSUME SeriesRuns, [Promise!Next]_(Promise!vars)
  PROVE  SeriesRuns'
<1> DEFINE Cur == {o \in Ids : Stage[o] = "pending"}
<1>1. Cur = Pending /\ Cur' = Pending'
  BY DEF Stage, Pending
<1>2. IF Running THEN \E o \in Ids : Cur = {o} ELSE Cur = {}
  BY <1>1 DEF SeriesRuns, Running
<1>3. SUFFICES IF Running' THEN \E o \in Ids : Cur' = {o} ELSE Cur' = {}
  BY <1>1 DEF SeriesRuns, Running
<1>4. CASE UNCHANGED <<Stage, Running>>
  BY <1>2, <1>4
<1>5. CASE Promise!Drop
  BY <1>5 DEF Promise!Drop, Promise!Unborn, Stage, Running
<1>6. ASSUME NEW o \in Ids, Promise!Begin(o) PROVE Running' /\ Cur' = {o}
  BY <1>6 DEF Promise!Begin, Promise!Current, Stage, Running
<1>7. ASSUME NEW o \in Ids, Promise!Forget(o) PROVE Running' = Running /\ Cur' = Cur
  BY <1>7 DEF Promise!Forget, Stage, Running
<1>8. ASSUME NEW o \in Ids, NEW how \in {"delivered", "skipped"}, Promise!Move(o, how)
      PROVE  IF Running' THEN \E p \in Ids : Cur' = {p} ELSE Cur' = {}
  <2>1. Running /\ Cur = {o}
    BY <1>2, <1>8 DEF Promise!Move, Promise!Current, Stage, Running
  <2>2. ASSUME NEW n \in Ids, Promise!Unborn(n), Running' = Running,
               Stage' = [Stage EXCEPT ![o] = how, ![n] = "pending"]
        PROVE  Cur' = {n}
    <3>1. Stage[n] = "none" /\ n # o /\ n \notin Cur
      BY <2>1, <2>2 DEF Promise!Unborn, Stage
    <3>2. \A p \in Ids : p # o /\ p # n => Stage'[p] = Stage[p]
      BY <2>2 DEF Stage
    <3>3. Stage'[n] = "pending" /\ Stage'[o] = how
      BY <2>2, <3>1 DEF Stage
    <3>4. \A p \in Ids : Stage[p] = "pending" <=> p = o
      BY <2>1
    <3> HIDE DEF Stage
    <3>5. \A p \in Ids : Stage'[p] = "pending" <=> p = n
      BY <3>1, <3>2, <3>3, <3>4
    <3> QED
      BY <3>5
  <2>3. ASSUME Stage' = [Stage EXCEPT ![o] = how], Running' = FALSE PROVE Cur' = {}
    BY <2>1, <2>3 DEF Stage
  <2>4. \/ \E n \in Ids : /\ Promise!Unborn(n) /\ Running' = Running
                          /\ Stage' = [Stage EXCEPT ![o] = how, ![n] = "pending"]
        \/ Stage' = [Stage EXCEPT ![o] = how] /\ Running' = FALSE
    BY <1>8 DEF Promise!Move, Stage, Running
  <2> HIDE DEF Cur
  <2> QED
    BY <2>1, <2>2, <2>3, <2>4
<1> HIDE DEF Cur
<1> QED
  BY <1>2, <1>4, <1>5, <1>6, <1>7, <1>8 DEF Promise!Next, Promise!vars, Stage, Running

(* Closing the current occurrence is a Move of the promise.                *)
LEMMA AdvanceMoves ==
  ASSUME SInv, NEW o \in Pending, NEW how \in {"delivered", "skipped"}, NEW kept,
         Advance(o, how, kept)
  PROVE  Fresh' /\ Promise!Move(o, how)
<1> DEFINE row == [occ[o] EXCEPT !.status = how, !.claim = NoClaim]
           at == NextAt(rem.rule, row.sched)
<1>1. o \in Ids /\ lastId \in Nat /\ Running /\ occ[o] \in Row /\ occ[o].status = "pending"
  BY TimesAssumption DEF SInv, TInv, TypeOK, SeriesRuns, Running, Pending
<1>2. o <= lastId
  BY <1>1 DEF SInv, Fresh
<1>3. row.status = how
  BY <1>1 DEF Row
<1>4. CASE rem.active /\ HasNext(rem.rule, row.sched, row.seq)
  <2> DEFINE n == lastId + 1
             new == NewRow(row.seq + 1, at)
  <2>1. /\ lastId < MaxOcc /\ lastId' = n
        /\ occ' = [occ EXCEPT ![o] = row, ![n] = new]
        /\ UNCHANGED rem
    BY <1>4 DEF Advance
  <2>2. n \in Ids /\ n # o /\ new.status = "pending" /\ occ[n].status = "none"
    BY <2>1, <1>1, <1>2, TimesAssumption DEF NewRow, SInv, Fresh
  <2> HIDE DEF row, new
  <2>3. \A p \in Ids : occ'[p] = IF p = n THEN new ELSE IF p = o THEN row ELSE occ[p]
    BY <2>1, <2>2 DEF SInv, TInv, TypeOK
  <2>4. Fresh'
    <3>1. \A p \in Ids : p > n => p # o /\ p > lastId /\ occ'[p] = occ[p]
      BY <2>3, <1>1, <1>2
    <3> QED
      BY <3>1, <2>1 DEF SInv, Fresh
  <2>5. Stage' = [Stage EXCEPT ![o] = how, ![n] = "pending"]
    BY <2>2, <2>3, <1>1, <1>3 DEF Stage
  <2> QED
    BY <2>1, <2>2, <2>4, <2>5, <1>1
       DEF Promise!Move, Promise!Current, Promise!Unborn, Stage, Running
<1>5. CASE ~(rem.active /\ HasNext(rem.rule, row.sched, row.seq))
  <2>1. /\ occ' = [occ EXCEPT ![o] = row]
        /\ rem' = [rem EXCEPT !.active = FALSE]
        /\ UNCHANGED lastId
    BY <1>5 DEF Advance
  <2>2. ~Running'
    BY <2>1 DEF Running, SInv, TInv, TypeOK
  <2> HIDE DEF row
  <2>3. \A p \in Ids : occ'[p] = IF p = o THEN row ELSE occ[p]
    BY <2>1, <1>1 DEF SInv, TInv, TypeOK
  <2>4. Fresh'
    BY <2>1, <2>3, <1>1, <1>2 DEF SInv, Fresh
  <2>5. Stage' = [Stage EXCEPT ![o] = how]
    BY <2>3, <1>1, <1>3 DEF Stage
  <2> QED
    BY <2>2, <2>4, <2>5, <1>1 DEF Promise!Move, Promise!Current, Stage, Running
<1> QED
  BY <1>4, <1>5

(* A step that only claims, releases, notifies or waits.                   *)
LEMMA StutterKeeps ==
  ASSUME Fresh, UNCHANGED <<rem, lastId>>, \A o \in Ids : occ'[o].status = occ[o].status
  PROVE  Fresh' /\ UNCHANGED (Promise!vars)
BY DEF Fresh, Promise!vars

LEMMA ClaimStutters ==
  ASSUME TInv, NEW w \in Workers, NEW o \in Ids, NEW task, Claim(w, o, task)
  PROVE  \A p \in Ids : occ'[p].status = occ[p].status
<1>1. occ \in [Ids -> Row] /\ now \in Nat
  BY DEF TInv, TypeOK
<1>2. now + Lease \in Nat
  BY <1>1, TimesAssumption
<1>3. occ' = [occ EXCEPT ![o].claim = now + Lease]
  BY DEF Claim
<1> QED
  BY <1>1, <1>2, <1>3, ClaimsOnly

LEMMA StepPromise ==
  ASSUME SInv, [Next]_vars
  PROVE  Fresh' /\ [Promise!Next]_(Promise!vars)
<1>a. lastId \in Nat /\ Fresh /\ TypeOK /\ \A o \in Ids : occ[o] \in Row
  BY TimesAssumption DEF SInv, TInv, TypeOK
<1>1. CASE Create
  <2>0. PICK n \in Ids : n = lastId + 1
    BY <1>1, <1>a, TimesAssumption DEF Create
  <2>1. PICK at \in now .. Horizon : occ' = [occ EXCEPT ![n] = NewRow(1, at)]
    BY <1>1, <2>0 DEF Create
  <2>2. n \in Ids /\ lastId' = n /\ Pending = {} /\ Running' /\ occ[n].status = "none"
    BY <1>1, <2>0, <1>a DEF Create, SInv, SeriesRuns, Running, Fresh
  <2>3. \A p \in Ids : occ'[p].status = IF p = n THEN "pending" ELSE occ[p].status
    BY <2>1, <2>2 DEF NewRow, SInv, TInv, TypeOK
  <2>4. Fresh'
    BY <2>0, <2>2, <2>3, <1>a DEF Fresh
  <2>5. Promise!Begin(n)
    BY <2>2, <2>3 DEF Promise!Begin, Promise!Unborn, Promise!Current, Pending, Running
  <2>6. \E o \in Ids : Promise!Begin(o)
    BY <2>2, <2>5
  <2> QED
    BY <2>4, <2>6 DEF Promise!Next
<1>2. CASE Replace
  <2>0. PICK n \in Ids : n = lastId + 1
    <3>1. lastId < MaxOcc
      BY <1>2 DEF Replace
    <3> QED
      BY <3>1, <1>a, TimesAssumption
  <2>1. PICK rule \in Rules, at \in now .. Horizon :
          /\ rem' = [rem EXCEPT !.active = TRUE, !.startsAt = at, !.rule = rule]
          /\ occ' = [o \in Ids |->
                       IF o = n THEN NewRow(ReplaceSequence, at)
                       ELSE IF o \in Pending
                         THEN [occ[o] EXCEPT !.status = "cancelled", !.claim = NoClaim]
                       ELSE occ[o]]
    BY <1>2, <2>0 DEF Replace
  <2>2. rem.state = "live" /\ lastId < MaxOcc /\ lastId' = n
    BY <1>2, <2>0 DEF Replace
  <2>3. n \in Ids /\ Running' /\ occ[n].status = "none"
    <3>2. Running'
      BY <2>1, <2>2, <1>a DEF Running, TypeOK
    <3> QED
      BY <2>0, <3>2, <1>a DEF Fresh
  <2>4. \A p \in Ids : occ'[p].status = IF p = n THEN "pending"
                                       ELSE IF p \in Pending THEN "cancelled" ELSE occ[p].status
    BY <2>1, <2>3, <1>a DEF NewRow, Row
  <2>5. Fresh'
    BY <2>0, <2>2, <2>4, <1>a DEF Fresh, Pending
  <2>6. Promise!Begin(n)
    BY <2>3, <2>4 DEF Promise!Begin, Promise!Unborn, Promise!Current, Pending, Running
  <2>7. \E o \in Ids : Promise!Begin(o)
    BY <2>3, <2>6
  <2> QED
    BY <2>5, <2>7 DEF Promise!Next
<1>3. ASSUME NEW o \in Ids, Snooze(o) PROVE Fresh' /\ UNCHANGED (Promise!vars)
  <2>1. \A p \in Ids : occ'[p].status = occ[p].status
    <3>1. PICK at \in now + SnoozeMin .. Horizon :
            occ' = [occ EXCEPT ![o].fire = at, ![o].claim = NoClaim]
      BY <1>3 DEF Snooze
    <3>2. [occ[o] EXCEPT !.fire = at, !.claim = NoClaim].status = occ[o].status
      BY <1>a DEF Row
    <3>3. /\ occ'[o] = [occ[o] EXCEPT !.fire = at, !.claim = NoClaim]
          /\ \A p \in Ids : p # o => occ'[p] = occ[p]
      BY <3>1, <1>a DEF TypeOK
    <3> QED
      BY <3>2, <3>3
  <2> QED
    BY <1>3, <1>a, <2>1, StutterKeeps DEF Snooze
<1>4. ASSUME NEW o \in Ids, Skip(o) PROVE Fresh' /\ Promise!Next
  BY <1>4, AdvanceMoves DEF Skip, Promise!Next
<1>5. CASE Delete
  <2>1. /\ \A p \in Ids : occ'[p].status = IF occ[p].status = "none" THEN "none" ELSE "gone"
        /\ UNCHANGED lastId /\ ~Running'
    BY <1>5, <1>a DEF Delete, NoRow, Running, TypeOK
  <2>2. Fresh'
    BY <2>1, <1>a DEF Fresh
  <2>3. Promise!Drop
    BY <2>1 DEF Promise!Drop, Promise!Unborn, Running
  <2> QED
    BY <2>2, <2>3 DEF Promise!Next
<1>6. ASSUME NEW o \in Ids, DeleteOccurrence(o) PROVE Fresh' /\ Promise!Next
  <2> DEFINE rest == {p \in Ids \ {o} : occ[p].status \in {"pending", "delivered", "skipped"}}
             whole == ~rem.active /\ rest = {}
  <2>1. /\ rem.state = "live" /\ occ[o].status \in {"delivered", "skipped"} /\ UNCHANGED lastId
        /\ rem' = IF whole THEN [rem EXCEPT !.state = "gone"] ELSE rem
        /\ occ' = [p \in Ids |-> IF p = o \/ (whole /\ occ[p].status # "none")
                                THEN [NoRow EXCEPT !.status = "gone"] ELSE occ[p]]
    BY <1>6 DEF DeleteOccurrence
  <2> HIDE DEF whole
  <2>2. \A p \in Ids : occ'[p].status = IF p = o \/ (whole /\ occ[p].status # "none")
                                       THEN "gone" ELSE occ[p].status
    BY <2>1 DEF NoRow
  <2>3. Fresh'
    BY <2>1, <2>2, <1>a DEF Fresh
  <2>4. CASE whole
    <3>1. ~Running'
      BY <2>1, <2>4, <1>a DEF Running, TypeOK
    <3>2. Promise!Drop
      BY <2>1, <2>2, <2>4, <3>1 DEF Promise!Drop, Promise!Unborn, Running
    <3> QED
      BY <2>3, <3>2 DEF Promise!Next
  <2>5. CASE ~whole
    <3>1. Promise!Forget(o)
      BY <2>1, <2>2, <2>5 DEF Promise!Forget
    <3> QED
      BY <2>3, <3>1 DEF Promise!Next
  <2> QED
    BY <2>4, <2>5
<1>7. ASSUME NEW w \in Workers, Fire(w) \/ Sweep(w) PROVE Fresh' /\ UNCHANGED (Promise!vars)
  <2>1. \A t \in tasks : t.occ \in Ids
    BY <1>a DEF TypeOK, Task
  <2>2. \A p \in Ids : occ'[p].status = occ[p].status
    BY <1>7, <2>1, ClaimStutters DEF Fire, Sweep, SInv
  <2> QED
    BY <1>7, <1>a, <2>2, StutterKeeps DEF Fire, Sweep
<1>8. ASSUME NEW w \in Workers, Attempt(w) PROVE Fresh' /\ UNCHANGED (Promise!vars)
  <2>1. \A p \in Ids : occ'[p].status = occ[p].status
    <3>1. \/ occ' = occ
          \/ occ' = [occ EXCEPT ![worker[w].occ].claim = NoClaim]
      BY <1>8 DEF Attempt
    <3>2. occ \in [Ids -> Row]
      BY <1>a DEF TypeOK
    <3>0. worker[w].occ \in Ids
      BY <1>8, <1>a DEF Attempt, TypeOK, Idle, Request
    <3>3. ASSUME occ' = [occ EXCEPT ![worker[w].occ].claim = NoClaim], NEW p \in Ids
          PROVE  occ'[p].status = occ[p].status
      BY <3>0, <3>2, <3>3, ClaimsOnly DEF NoClaim
    <3> QED
      BY <3>1, <3>3
  <2> QED
    BY <1>8, <1>a, <2>1, StutterKeeps DEF Attempt
<1>9. ASSUME NEW w \in Workers, Complete(w) PROVE Fresh' /\ [Promise!Next]_(Promise!vars)
  <2>1. CASE worker[w].occ \in Pending
    BY <1>9, <2>1, AdvanceMoves DEF Complete, Promise!Next, Pending
  <2>2. CASE worker[w].occ \notin Pending
    BY <1>9, <1>a, <2>2, StutterKeeps DEF Complete
  <2> QED
    BY <2>1, <2>2
<1>10. CASE UNCHANGED <<rem, occ, lastId>>
  BY <1>10, <1>a, StutterKeeps
<1> QED
  BY <1>1, <1>2, <1>3, <1>4, <1>5, <1>6, <1>7, <1>8, <1>9, <1>10
     DEF Next, UserStep, WorkerStep, ToggleAccount, Tick, Abort, vars

LEMMA SInvInit == Init => SInv /\ Promise!Init
<1> SUFFICES ASSUME Init PROVE SInv /\ Promise!Init
  OBVIOUS
<1>1. Fresh /\ SeriesRuns
  BY DEF Init, Fresh, NoRow, SeriesRuns, Pending
<1>2. Promise!Init
  BY DEF Init, NoRow, Promise!Init
<1> QED
  BY <1>1, <1>2, TInvInit DEF SInv

LEMMA SInvNext == SInv /\ [Next]_vars => SInv'
<1> SUFFICES ASSUME SInv, [Next]_vars PROVE SInv'
  OBVIOUS
<1>1. Fresh' /\ [Promise!Next]_(Promise!vars)
  BY StepPromise
<1>2. SeriesRuns'
  BY <1>1, PromiseKeepsSeries DEF SInv
<1> QED
  BY <1>1, <1>2, TInvNext DEF SInv

LEMMA SInvAlways == Spec => []SInv
BY SInvInit, SInvNext, PTL DEF Spec

(* An active series always has exactly one occurrence to come, and nothing *)
(* else has any.                                                           *)
THEOREM SeriesAlwaysRuns == Spec => []SeriesRuns
<1>1. SInv => SeriesRuns
  BY DEF SInv
<1> QED
  BY <1>1, SInvAlways, PTL

(* The statements, requests, retries and crashes together implement the    *)
(* series the owner was promised.                                          *)
THEOREM ImplementsPromise == Spec => KeepsPromise
<1>1. Init => Promise!Init
  BY SInvInit
<1>2. SInv /\ [Next]_vars => [Promise!Next]_(Promise!vars)
  BY StepPromise
<1> QED
  BY <1>1, <1>2, SInvAlways, PTL DEF Spec, KeepsPromise, Promise!Spec

-----------------------------------------------------------------------------
(* The lease: why a time is notified twice only after a lost request.      *)

Busy(w) == worker[w].pc # "idle"
Holds(o, fire) == occ[o].status = "pending" /\ occ[o].fire = fire

(* A request lives at most MaxRun after its claim, and works on a row.     *)
Alive == \A w \in Workers : Busy(w) =>
  /\ worker[w].fire <= worker[w].since
  /\ worker[w].since <= now /\ now <= worker[w].since + MaxRun
  /\ occ[worker[w].occ].status # "none"

(* While the row still has the time a request claimed, its lease stands;   *)
(* a snooze since then has moved it beyond that request's life.            *)
Leased == \A w \in Workers : Busy(w) =>
  \A o \in Ids : o = worker[w].occ /\ occ[o].status = "pending" =>
    IF occ[o].fire = worker[w].fire THEN occ[o].claim = worker[w].since + Lease
    ELSE occ[o].fire >= worker[w].since + SnoozeMin

(* No two requests work on the same time of the same occurrence.           *)
Apart == \A v, w \in Workers : v # w /\ Busy(v) /\ Busy(w) =>
  worker[v].occ # worker[w].occ \/ worker[v].fire # worker[w].fire

(* A notified time is past; while the row still shows it, its request is   *)
(* about to complete, or died.                                             *)
Notified == \A o \in Ids, f \in Nat : <<o, f>> \in sent =>
  /\ f <= now /\ occ[o].status # "none"
  /\ Holds(o, f) => \/ <<o, f>> \in lost
                    \/ \E w \in Workers : /\ worker[w].pc = "sent"
                                         /\ worker[w].occ = o /\ worker[w].fire = f

(* A request still to notify a time notified before is making up for a     *)
(* lost one.                                                               *)
Repeats == \A w \in Workers :
  worker[w].pc = "sending" /\ <<worker[w].occ, worker[w].fire>> \in sent
  => <<worker[w].occ, worker[w].fire>> \in lost

LInv == Alive /\ Leased /\ Apart /\ Notified /\ Repeats /\ DupsOnlyAfterLoss

LEMMA Timing ==
  /\ MaxRun \in Nat /\ Lease \in Nat /\ SnoozeMin \in Nat /\ SnoozeMin > 0
  /\ MaxRun <= Lease /\ MaxRun < SnoozeMin
BY TimesAssumption, TimeoutAssumption

LEMMA BusyType ==
  ASSUME TypeOK
  PROVE  /\ now \in Nat /\ occ \in [Ids -> Row]
         /\ \A w \in Workers : Busy(w) => /\ worker[w] \in Request /\ worker[w].occ \in Ids
                                         /\ worker[w].fire \in Nat /\ worker[w].since \in Nat
BY DEF TypeOK, Busy, Request, Idle

(* User requests, completions and deaths: rows are opened, closed or       *)
(* snoozed, and a request that ends leaves its time closed or lost.        *)
LEMMA RowsChange ==
  ASSUME TypeOK, TypeOK', LInv, UNCHANGED <<now, sent, dups>>, lost \subseteq lost',
         \A o \in Ids : \/ occ'[o] = occ[o]
                       \/ occ[o].status = "none"
                       \/ occ'[o].status \notin {"pending", "none"}
                       \/ /\ occ[o].status = "pending" /\ occ'[o].status = "pending"
                          /\ occ'[o].fire >= now + SnoozeMin,
         \A w \in Workers :
           \/ worker'[w] = worker[w]
           \/ /\ worker'[w] = Idle
              /\ worker[w].pc = "sent" =>
                   \/ <<worker[w].occ, worker[w].fire>> \in lost'
                   \/ occ'[worker[w].occ].status # "pending"
  PROVE  LInv'
<1>0. Idle.pc = "idle"
  BY DEF Idle
<1>a. \A w \in Workers : worker'[w] = worker[w] \/ worker'[w] = Idle
  OBVIOUS
<1>1. \A w \in Workers : Busy(w)' => Busy(w) /\ worker'[w] = worker[w]
  BY <1>0, <1>a DEF Busy
<1>2. \A o \in Ids : occ[o] \in Row /\ occ'[o] \in Row /\ occ[o].fire \in Nat /\ occ'[o].fire \in Nat
  BY DEF TypeOK, Row
<1>3. Alive'
  BY <1>1, <1>2, BusyType DEF LInv, Alive
<1>4. Leased'
  <2> SUFFICES ASSUME NEW w \in Workers, Busy(w)', NEW o \in Ids,
                      o = worker'[w].occ, occ'[o].status = "pending"
               PROVE  IF occ'[o].fire = worker'[w].fire
                      THEN occ'[o].claim = worker'[w].since + Lease
                      ELSE occ'[o].fire >= worker'[w].since + SnoozeMin
    BY DEF Leased
  <2>1. /\ Busy(w) /\ worker'[w] = worker[w] /\ o = worker[w].occ /\ occ[o].status # "none"
        /\ worker[w].fire <= worker[w].since /\ worker[w].since <= now
        /\ worker[w].fire \in Nat /\ worker[w].since \in Nat /\ now \in Nat
    BY <1>1, BusyType DEF LInv, Alive
  <2>2. CASE occ'[o] = occ[o]
    BY <2>1, <2>2 DEF LInv, Leased
  <2>3. CASE occ'[o].fire >= now + SnoozeMin
    BY <2>1, <2>3, <1>2, Timing
  <2> QED
    BY <2>1, <2>2, <2>3
<1>5. Apart'
  BY <1>1 DEF LInv, Apart
<1>6. Notified'
  <2> SUFFICES ASSUME NEW o \in Ids, NEW f \in Nat, <<o, f>> \in sent
               PROVE  /\ f <= now /\ occ'[o].status # "none"
                      /\ Holds(o, f)' => \/ <<o, f>> \in lost'
                                        \/ \E w \in Workers : /\ worker'[w].pc = "sent"
                                              /\ worker'[w].occ = o /\ worker'[w].fire = f
    BY DEF Notified
  <2>1. /\ f <= now /\ occ[o].status # "none"
        /\ Holds(o, f) => \/ <<o, f>> \in lost
                          \/ \E w \in Workers : /\ worker[w].pc = "sent"
                                               /\ worker[w].occ = o /\ worker[w].fire = f
    BY DEF LInv, Notified
  <2>2. occ'[o].status # "none"
    BY <2>1
  <2>3. ASSUME Holds(o, f)'
        PROVE  \/ <<o, f>> \in lost'
               \/ \E w \in Workers : /\ worker'[w].pc = "sent"
                                    /\ worker'[w].occ = o /\ worker'[w].fire = f
    <3>1. occ'[o] = occ[o]
      BY <2>1, <2>3, <1>2, BusyType, Timing DEF Holds
    <3>2. CASE <<o, f>> \in lost
      BY <3>2
    <3>3. ASSUME NEW w \in Workers, worker[w].pc = "sent", worker[w].occ = o, worker[w].fire = f
          PROVE  worker'[w] = worker[w] \/ <<o, f>> \in lost'
      BY <3>3, <2>3 DEF Holds
    <3> QED
      BY <2>1, <2>3, <3>1, <3>2, <3>3 DEF Holds
  <2> QED
    BY <2>1, <2>2, <2>3
<1>7. Repeats'
  BY <1>0, <1>a DEF LInv, Repeats
<1>8. DupsOnlyAfterLoss'
  BY DEF LInv, DupsOnlyAfterLoss
<1> QED
  BY <1>3, <1>4, <1>5, <1>6, <1>7, <1>8 DEF LInv

(* What Advance, which Skip and Complete share, does to the rows.          *)
LEMMA AdvanceRows ==
  ASSUME SInv, NEW o \in Pending, NEW how \in {"delivered", "skipped"}, NEW kept,
         Advance(o, how, kept)
  PROVE  /\ occ'[o].status = how
         /\ \A p \in Ids : \/ occ'[p] = occ[p]
                          \/ occ[p].status = "none"
                          \/ occ'[p].status \notin {"pending", "none"}
<1> DEFINE row == [occ[o] EXCEPT !.status = how, !.claim = NoClaim]
           new == NewRow(row.seq + 1, NextAt(rem.rule, row.sched))
<1>1. /\ o \in Ids /\ lastId \in Nat /\ occ[o] \in Row /\ occ[o].status = "pending"
      /\ Fresh /\ occ \in [Ids -> Row]
  BY TimesAssumption DEF SInv, TInv, TypeOK, Pending
<1>2. row.status = how
  BY <1>1 DEF Row
<1>3. o <= lastId
  BY <1>1 DEF Fresh
<1>4. \/ /\ lastId < MaxOcc
         /\ occ' = [occ EXCEPT ![o] = row, ![lastId + 1] = new]
      \/ occ' = [occ EXCEPT ![o] = row]
  BY DEF Advance
<1> HIDE DEF row, new
<1>5. occ'[o] = row /\ \A p \in Ids : p # o => occ'[p] = occ[p] \/ p > lastId
  <2>1. CASE occ' = [occ EXCEPT ![o] = row, ![lastId + 1] = new]
    <3>1. o # lastId + 1
      BY <1>1, <1>3
    <3>2. occ'[o] = row /\ \A p \in Ids : p # o => occ'[p] = occ[p] \/ p = lastId + 1
      BY <1>1, <2>1, <3>1
    <3> QED
      BY <3>2, <1>1
  <2>2. CASE occ' = [occ EXCEPT ![o] = row]
    BY <1>1, <2>2
  <2> QED
    BY <1>4, <2>1, <2>2
<1> QED
  BY <1>1, <1>2, <1>5 DEF Fresh

(* A request claims the due occurrence: every lease on its time has run    *)
(* out, and so has the life of every request that took one.                *)
LEMMA ClaimKeepsLease ==
  ASSUME TypeOK, TypeOK', LInv, NEW w \in Workers, ~Busy(w), NEW o \in Ids, NEW task,
         Due(o), Claim(w, o, task), UNCHANGED <<now, sent, dups, lost>>
  PROVE  LInv'
<1>1. /\ occ[o].status = "pending" /\ occ[o].fire <= now /\ occ[o].claim < now
      /\ now \in Nat /\ occ \in [Ids -> Row] /\ worker \in [Workers -> Request \union {Idle}]
  BY DEF Due, Pending, TypeOK
<1>b. now + Lease \in Nat /\ occ' = [occ EXCEPT ![o].claim = now + Lease]
  BY <1>1, Timing DEF Claim
<1>2. /\ \A p \in Ids : p # o => occ'[p] = occ[p]
      /\ occ'[o].status = "pending" /\ occ'[o].fire = occ[o].fire
      /\ occ'[o].claim = now + Lease
  BY <1>1, <1>b, ClaimsOnly
<1>3. \A v \in Workers : Busy(v) /\ worker[v].occ = o => worker[v].fire # occ[o].fire
  <2> SUFFICES ASSUME NEW v \in Workers, Busy(v), worker[v].occ = o, worker[v].fire = occ[o].fire
               PROVE  FALSE
    OBVIOUS
  <2>1. occ[o].claim = worker[v].since + Lease
    BY <1>1 DEF LInv, Leased
  <2>2. worker[v].since \in Nat /\ now <= worker[v].since + MaxRun
    BY BusyType DEF LInv, Alive
  <2> QED
    BY <1>1, <2>1, <2>2, Timing
<1>4. <<o, occ[o].fire>> \in sent => <<o, occ[o].fire>> \in lost
  <2>1. occ[o].fire \in Nat
    BY <1>1 DEF Row
  <2>2. \A v \in Workers : worker[v].pc = "sent" => Busy(v)
    BY DEF Busy
  <2> QED
    BY <1>1, <1>3, <2>1, <2>2 DEF LInv, Notified, Holds
<1> DEFINE new == [pc |-> "sending", occ |-> o, fire |-> occ[o].fire, task |-> task, since |-> now]
<1>5. \/ worker' = worker
      \/ worker' = [worker EXCEPT ![w] = new]
  BY DEF Claim
<1>6. new.pc = "sending" /\ new.occ = o /\ new.fire = occ[o].fire /\ new.since = now
  OBVIOUS
<1> HIDE DEF new
<1>7. \A v \in Workers : worker'[v] = worker[v] \/ (v = w /\ worker'[v] = new)
  BY <1>1, <1>5
<1>8. \A v \in Workers : v # w => worker'[v] = worker[v]
  BY <1>7
<1>9. \A p \in Ids : occ'[p].status = occ[p].status /\ occ'[p].fire = occ[p].fire
  BY <1>2, <1>1
<1>10. occ[o].fire \in Nat
  BY <1>1 DEF Row
<1>11. Alive'
  BY <1>1, <1>6, <1>7, <1>9, <1>10, Timing, BusyType DEF LInv, Alive, Busy
<1>12. Leased'
  <2> SUFFICES ASSUME NEW v \in Workers, Busy(v)', NEW p \in Ids,
                      p = worker'[v].occ, occ'[p].status = "pending"
               PROVE  IF occ'[p].fire = worker'[v].fire
                      THEN occ'[p].claim = worker'[v].since + Lease
                      ELSE occ'[p].fire >= worker'[v].since + SnoozeMin
    BY DEF Leased
  <2>1. CASE worker'[v] = worker[v]
    BY <2>1, <1>1, <1>2, <1>3, <1>9 DEF LInv, Leased, Busy
  <2>2. CASE worker'[v] = new
    BY <2>2, <1>2, <1>6
  <2> QED
    BY <2>1, <2>2, <1>7
<1>13. Apart'
  BY <1>3, <1>6, <1>7, <1>8 DEF LInv, Apart, Busy
<1>14. Notified'
  <2>1. \A v \in Workers : worker[v].pc = "sent" => worker'[v] = worker[v]
    BY <1>8 DEF Busy
  <2> QED
    BY <1>9, <2>1 DEF LInv, Notified, Holds
<1>15. Repeats'
  BY <1>4, <1>6, <1>7 DEF LInv, Repeats
<1>16. DupsOnlyAfterLoss'
  BY DEF LInv, DupsOnlyAfterLoss
<1> QED
  BY <1>11, <1>12, <1>13, <1>14, <1>15, <1>16 DEF LInv

(* Notifying, and releasing the claim after notifying nobody.  The release *)
(* does not check who holds the claim; nobody else does.                   *)
LEMMA AttemptKeepsLease ==
  ASSUME TypeOK, TypeOK', LInv, NEW w \in Workers, Attempt(w)
  PROVE  LInv'
<1> DEFINE o == worker[w].occ
           f == worker[w].fire
<1>1. /\ worker[w].pc = "sending" /\ Busy(w) /\ o \in Ids /\ f \in Nat /\ worker[w].since \in Nat
      /\ now \in Nat /\ occ \in [Ids -> Row] /\ worker \in [Workers -> Request \union {Idle}]
      /\ worker[w] \in Request
  BY BusyType DEF Attempt, Busy, TypeOK
<1>2. UNCHANGED <<now, lost>>
  BY DEF Attempt, DeliveryUnchanged
<1>3. \/ /\ sent' = sent \union {<<o, f>>}
         /\ dups' = IF <<o, f>> \in sent THEN dups \union {<<o, f>>} ELSE dups
         /\ worker' = [worker EXCEPT ![w].pc = "sent"] /\ UNCHANGED occ
      \/ /\ UNCHANGED <<sent, dups>>
         /\ worker' = [worker EXCEPT ![w] = Idle]
         /\ occ' = occ \/ occ' = [occ EXCEPT ![o].claim = NoClaim]
  BY DEF Attempt, Delivered
<1>4. f <= worker[w].since /\ worker[w].since <= now /\ now <= worker[w].since + MaxRun
      /\ occ[o].status # "none"
  BY <1>1 DEF LInv, Alive
<1>5. CASE /\ sent' = sent \union {<<o, f>>}
           /\ dups' = IF <<o, f>> \in sent THEN dups \union {<<o, f>>} ELSE dups
           /\ worker' = [worker EXCEPT ![w].pc = "sent"] /\ UNCHANGED occ
  <2>1. /\ worker'[w].pc = "sent" /\ worker'[w].occ = o /\ worker'[w].fire = f
        /\ worker'[w].since = worker[w].since
        /\ \A v \in Workers : v # w => worker'[v] = worker[v]
    BY <1>1, <1>5 DEF Request
  <2>2. \A v \in Workers : /\ Busy(v)' <=> Busy(v)
                           /\ Busy(v) => /\ worker'[v].occ = worker[v].occ
                                         /\ worker'[v].fire = worker[v].fire
                                         /\ worker'[v].since = worker[v].since
    BY <1>1, <2>1 DEF Busy
  <2>3. Alive'
    BY <1>2, <1>5, <2>2 DEF LInv, Alive
  <2>4. Leased'
    BY <1>5, <2>2 DEF LInv, Leased
  <2>5. Apart'
    BY <2>2 DEF LInv, Apart
  <2>6. Notified'
    <3> SUFFICES ASSUME NEW p \in Ids, NEW g \in Nat, <<p, g>> \in sent'
                 PROVE  /\ g <= now' /\ occ'[p].status # "none"
                        /\ Holds(p, g)' => \/ <<p, g>> \in lost'
                                          \/ \E v \in Workers : /\ worker'[v].pc = "sent"
                                                /\ worker'[v].occ = p /\ worker'[v].fire = g
      BY DEF Notified
    <3>1. CASE p = o /\ g = f
      BY <3>1, <1>1, <1>2, <1>4, <1>5, <2>1
    <3>2. CASE ~(p = o /\ g = f)
      <4>1. <<p, g>> \in sent
        BY <3>2, <1>5
      <4>2. \A v \in Workers : worker[v].pc = "sent" => worker'[v] = worker[v]
        BY <1>1, <2>1
      <4> QED
        BY <4>1, <4>2, <1>2, <1>5 DEF LInv, Notified, Holds
    <3> QED
      BY <3>1, <3>2
  <2>7. Repeats'
    <3> SUFFICES ASSUME NEW v \in Workers, worker'[v].pc = "sending",
                        <<worker'[v].occ, worker'[v].fire>> \in sent'
                 PROVE  <<worker'[v].occ, worker'[v].fire>> \in lost
      BY <1>2 DEF Repeats
    <3>1. v # w /\ worker'[v] = worker[v] /\ Busy(v)
      BY <2>1 DEF Busy
    <3>2. worker[v].occ # o \/ worker[v].fire # f
      BY <3>1, <1>1 DEF LInv, Apart
    <3>3. <<worker[v].occ, worker[v].fire>> \in sent
      BY <3>1, <3>2, <1>5
    <3> QED
      BY <3>1, <3>3 DEF LInv, Repeats
  <2>8. DupsOnlyAfterLoss'
    BY <1>1, <1>2, <1>5 DEF LInv, DupsOnlyAfterLoss, Repeats
  <2> QED
    BY <2>3, <2>4, <2>5, <2>6, <2>7, <2>8 DEF LInv
<1>6. CASE /\ UNCHANGED <<sent, dups>>
           /\ worker' = [worker EXCEPT ![w] = Idle]
           /\ occ' = occ \/ occ' = [occ EXCEPT ![o].claim = NoClaim]
  <2>1. /\ worker'[w].pc = "idle" /\ \A v \in Workers : v # w => worker'[v] = worker[v]
    BY <1>1, <1>6 DEF Idle
  <2>2. /\ \A p \in Ids : occ'[p].status = occ[p].status /\ occ'[p].fire = occ[p].fire
        /\ \A p \in Ids : p # o => occ'[p].claim = occ[p].claim
    <3>1. CASE occ' = [occ EXCEPT ![o].claim = NoClaim]
      BY <1>1, <3>1, ClaimsOnly DEF NoClaim
    <3> QED
      BY <1>6, <3>1
  <2>3. \A v \in Workers : Busy(v)' => v # w /\ Busy(v) /\ worker'[v] = worker[v]
    BY <2>1 DEF Busy
  <2>4. Alive'
    BY <1>2, <2>2, <2>3, BusyType DEF LInv, Alive
  <2>5. \A v \in Workers : v # w /\ Busy(v) /\ worker[v].occ = o /\ occ[o].status = "pending"
          => worker[v].fire # occ[o].fire
    <3> SUFFICES ASSUME NEW v \in Workers, v # w, Busy(v), worker[v].occ = o,
                        occ[o].status = "pending", worker[v].fire = occ[o].fire
                 PROVE  FALSE
      OBVIOUS
    <3>1. f # occ[o].fire
      BY <1>1 DEF LInv, Apart
    <3>2. occ[o].fire >= worker[w].since + SnoozeMin
      BY <3>1, <1>1 DEF LInv, Leased
    <3>3. worker[v].fire <= worker[v].since /\ worker[v].since <= now
          /\ worker[v].fire \in Nat /\ worker[v].since \in Nat
      BY BusyType DEF LInv, Alive
    <3> QED
      BY <3>2, <3>3, <1>1, <1>4, Timing
  <2>6. Leased'
    BY <2>2, <2>3, <2>5 DEF LInv, Leased
  <2>7. Apart'
    BY <2>3 DEF LInv, Apart
  <2>8. Notified'
    <3>1. \A v \in Workers : worker[v].pc = "sent" => worker'[v] = worker[v]
      BY <1>1, <2>1
    <3> QED
      BY <1>2, <1>6, <2>2, <3>1 DEF LInv, Notified, Holds
  <2>9. Repeats' /\ DupsOnlyAfterLoss'
    BY <1>2, <1>6, <2>1 DEF LInv, Repeats, DupsOnlyAfterLoss
  <2> QED
    BY <2>4, <2>6, <2>7, <2>8, <2>9 DEF LInv
<1> QED
  BY <1>3, <1>5, <1>6

LEMMA LInvNext == SInv /\ SInv' /\ LInv /\ [Next]_vars => LInv'
<1> SUFFICES ASSUME SInv, SInv', LInv, [Next]_vars PROVE LInv'
  OBVIOUS
<1>0. /\ TypeOK /\ TypeOK' /\ Fresh /\ lastId \in Nat /\ now \in Nat
      /\ occ \in [Ids -> Row]
  <2>1. TypeOK /\ TypeOK' /\ Fresh
    BY DEF SInv, TInv
  <2>2. lastId \in Nat /\ now \in Nat /\ occ \in [Ids -> Row]
    BY <2>1, TimesAssumption DEF TypeOK
  <2> QED
    BY <2>1, <2>2
<1>a. /\ TypeOK /\ TypeOK' /\ Fresh /\ lastId \in Nat /\ now \in Nat
      /\ occ \in [Ids -> Row] /\ \A o \in Ids : occ[o].status = "none" \/ o <= lastId
  <2>1. \A o \in Ids : o > lastId \/ o <= lastId
    BY <1>0
  <2> QED
    BY <1>0, <2>1 DEF Fresh
<1>b. ASSUME UNCHANGED <<now, sent, dups, lost, worker>>,
             \A o \in Ids : \/ occ'[o] = occ[o]
                           \/ occ[o].status = "none"
                           \/ occ'[o].status \notin {"pending", "none"}
                           \/ /\ occ[o].status = "pending" /\ occ'[o].status = "pending"
                              /\ occ'[o].fire >= now + SnoozeMin
      PROVE  LInv'
  BY <1>b, <1>a, RowsChange
<1>1. CASE Create
  <2>1. \A o \in Ids : occ'[o] = occ[o] \/ o = lastId + 1
    BY <1>1, <1>a DEF Create
  <2>2. \A o \in Ids : o = lastId + 1 => occ[o].status = "none"
    BY <1>a
  <2> QED
    BY <1>1, <1>b, <2>1, <2>2 DEF Create, UserUnchanged
<1>2. CASE Replace
  <2>1. \A o \in Ids : o = lastId + 1 => occ[o].status = "none"
    BY <1>a
  <2>2. \A o \in Ids : \/ o = lastId + 1 \/ occ'[o] = occ[o] \/ occ'[o].status = "cancelled"
    <3>1. \A o \in Ids : \/ o = lastId + 1 \/ occ'[o] = occ[o]
                        \/ occ'[o] = [occ[o] EXCEPT !.status = "cancelled", !.claim = NoClaim]
      BY <1>2 DEF Replace
    <3>2. \A o \in Ids : [occ[o] EXCEPT !.status = "cancelled", !.claim = NoClaim].status = "cancelled"
      BY <1>a DEF Row
    <3> QED
      BY <3>1, <3>2
  <2> QED
    BY <1>2, <1>b, <2>1, <2>2 DEF Replace, UserUnchanged
<1>3. ASSUME NEW o \in Ids, Snooze(o) PROVE LInv'
  <2>1. /\ occ[o].status = "pending" /\ occ'[o].status = "pending" /\ occ'[o].fire >= now + SnoozeMin
        /\ \A p \in Ids : p # o => occ'[p] = occ[p]
    BY <1>3, <1>a, Timing DEF Snooze, Pending, Row
  <2> QED
    BY <1>3, <1>b, <2>1 DEF Snooze, UserUnchanged
<1>4. ASSUME NEW o \in Ids, Skip(o) PROVE LInv'
  BY <1>4, <1>b, AdvanceRows DEF Skip, UserUnchanged
<1>5. CASE Delete
  <2>1. \A o \in Ids : occ[o].status = "none" \/ occ'[o].status = "gone"
    BY <1>5, <1>a DEF Delete, NoRow
  <2> QED
    BY <1>5, <1>b, <2>1 DEF Delete, UserUnchanged
<1>6. ASSUME NEW o \in Ids, DeleteOccurrence(o) PROVE LInv'
  <2>1. \A p \in Ids : occ'[p] = occ[p] \/ occ'[p].status = "gone"
    BY <1>6, <1>a DEF DeleteOccurrence, NoRow
  <2> QED
    BY <1>6, <1>b, <2>1 DEF DeleteOccurrence, UserUnchanged
<1>7. ASSUME NEW w \in Workers, Fire(w) PROVE LInv'
  <2>1. PICK t \in tasks :
          IF Due(t.occ) /\ rem.active THEN Claim(w, t.occ, {t})
          ELSE tasks' = tasks \ {t} /\ UNCHANGED <<occ, worker>>
    BY <1>7 DEF Fire
  <2>2. /\ UNCHANGED <<now, sent, dups, lost>> /\ ~Busy(w) /\ t.occ \in Ids
    BY <1>7, <1>a DEF Fire, DeliveryUnchanged, Busy, TypeOK, Task
  <2>3. CASE Due(t.occ) /\ rem.active
    BY <2>1, <2>2, <2>3, <1>a, ClaimKeepsLease
  <2>4. CASE ~(Due(t.occ) /\ rem.active)
    BY <2>1, <2>2, <2>4, <1>b
  <2> QED
    BY <2>3, <2>4
<1>8. ASSUME NEW w \in Workers, Sweep(w) PROVE LInv'
  <2>1. UNCHANGED <<now, sent, dups, lost>> /\ ~Busy(w)
    BY <1>8 DEF Sweep, DeliveryUnchanged, Busy
  <2>2. ASSUME NEW o \in Ids, Due(o), Claim(w, o, {}) PROVE LInv'
    BY <2>1, <2>2, <1>a, ClaimKeepsLease
  <2>3. CASE UNCHANGED <<occ, worker, tasks>>
    BY <2>1, <2>3, <1>b
  <2> QED
    BY <1>8, <2>2, <2>3 DEF Sweep
<1>9. ASSUME NEW w \in Workers, Attempt(w) PROVE LInv'
  BY <1>9, <1>a, AttemptKeepsLease
<1>10. ASSUME NEW w \in Workers, Complete(w) PROVE LInv'
  <2>1. /\ worker' = [worker EXCEPT ![w] = Idle] /\ UNCHANGED <<now, sent, dups, lost>>
    BY <1>10 DEF Complete, DeliveryUnchanged
  <2>2. \A v \in Workers : worker'[v] = worker[v] \/ (v = w /\ worker'[v] = Idle)
    BY <2>1, <1>a DEF TypeOK
  <2>3. CASE worker[w].occ \in Pending
    <3>1. Advance(worker[w].occ, "delivered", tasks \ worker[w].task)
      BY <1>10, <2>3 DEF Complete
    <3>2. /\ occ'[worker[w].occ].status = "delivered"
          /\ \A p \in Ids : \/ occ'[p] = occ[p]
                           \/ occ[p].status = "none"
                           \/ occ'[p].status \notin {"pending", "none"}
      BY <2>3, <3>1, AdvanceRows
    <3> QED
      BY <2>1, <2>2, <3>2, <1>a, RowsChange
  <2>4. CASE worker[w].occ \notin Pending
    <3>1. occ' = occ
      BY <1>10, <2>4 DEF Complete
    <3>2. worker[w].pc = "sent" => occ'[worker[w].occ].status # "pending"
      BY <3>1, <2>4, <1>a, BusyType DEF Pending, Busy
    <3> QED
      BY <2>1, <2>2, <3>1, <3>2, <1>a, RowsChange
  <2> QED
    BY <2>3, <2>4
<1>11. ASSUME NEW w \in Workers, Abort(w) PROVE LInv'
  <2>1. /\ UNCHANGED <<now, sent, dups, occ>> /\ lost \subseteq lost'
        /\ worker[w].pc = "sent" => <<worker[w].occ, worker[w].fire>> \in lost'
    BY <1>11 DEF Abort, DeliveryUnchanged
  <2>2. \A v \in Workers : worker'[v] = worker[v] \/ (v = w /\ worker'[v] = Idle)
    BY <1>11, <1>a DEF Abort, TypeOK
  <2> QED
    BY <2>1, <2>2, <1>a, RowsChange
<1>12. CASE Tick
  <2>1. /\ now' = now + 1 /\ UNCHANGED <<occ, worker, sent, dups, lost>>
        /\ \A w \in Workers : Busy(w) => now - worker[w].since < MaxRun
    BY <1>12 DEF Tick, Busy
  <2>2. Alive'
    BY <2>1, <1>a, BusyType, Timing DEF LInv, Alive, Busy
  <2>3. Leased' /\ Apart' /\ Repeats' /\ DupsOnlyAfterLoss'
    BY <2>1 DEF LInv, Leased, Apart, Repeats, DupsOnlyAfterLoss, Busy
  <2>4. Notified'
    BY <2>1, <1>a DEF LInv, Notified, Holds
  <2> QED
    BY <2>2, <2>3, <2>4 DEF LInv
<1>13. CASE UNCHANGED <<now, occ, worker, sent, dups, lost>>
  BY <1>13, <1>b
<1> QED
  BY <1>1, <1>2, <1>3, <1>4, <1>5, <1>6, <1>7, <1>8, <1>9, <1>10, <1>11, <1>12, <1>13
     DEF Next, UserStep, WorkerStep, ToggleAccount, vars

LEMMA LInvInit == Init => LInv
BY DEF Init, LInv, Alive, Leased, Apart, Notified, Repeats, DupsOnlyAfterLoss, Busy, Idle

(* Whatever the number of handlers, sweeps, retries and snoozes, a time is *)
(* notified twice only when a request that notified it died uncompleted.   *)
THEOREM DuplicatesOnlyAfterLoss == Spec => []DupsOnlyAfterLoss
<1>1. SInv /\ LInv /\ [Next]_vars => (SInv /\ LInv)'
  BY SInvNext, LInvNext
<1>2. LInv => DupsOnlyAfterLoss
  BY DEF LInv
<1> QED
  BY <1>1, <1>2, SInvInit, LInvInit, PTL DEF Spec

-----------------------------------------------------------------------------
(* The safety sweep: why the occurrence to come stays within reach.        *)

(* The request works on the time the occurrence has.                       *)
Serves(w, o) == Busy(w) /\ worker[w].occ = o /\ worker[w].fire = occ[o].fire

(* What the setbacks so far may have cost: each a lease, and the wait for  *)
(* the sweep after it.                                                     *)
Behind == Setbacks * (SweepPeriod + Lease)

Owed == happened["deletion"] = 0 /\ SweepPeriod + Behind <= Grace

(* Nobody is at the occurrence, and neither a claim nor a sweep in vain    *)
(* came later than its time and what the setbacks cost; or whoever is at   *)
(* it began within one more sweep of that.                                 *)
InReach(o) ==
  IF \E w \in Workers : Serves(w, o)
  THEN \A w \in Workers : Serves(w, o) => worker[w].since <= occ[o].fire + Behind + SweepPeriod
  ELSE occ[o].claim <= occ[o].fire + Behind /\ lastSweep <= occ[o].fire + Behind

Swept == lastSweep <= now /\ now <= lastSweep + SweepPeriod
Stays == happened["deletion"] = 0 => account = "live"
RInv == Swept /\ Stays /\ (Owed => \A o \in Pending : Ahead(o) => InReach(o))

LEMMA Counts ==
  ASSUME TypeOK
  PROVE  /\ happened["unsent"] \in Nat /\ happened["abort"] \in Nat /\ happened["deletion"] \in Nat
         /\ Setbacks \in Nat /\ Behind \in Nat /\ lastSweep \in Nat /\ now \in Nat
         /\ SweepPeriod \in Nat /\ Lease \in Nat /\ Grace \in Nat
<1>1. happened["unsent"] \in Nat /\ happened["abort"] \in Nat /\ happened["deletion"] \in Nat
  BY DEF TypeOK, Events
<1>2. Setbacks \in Nat
  BY <1>1 DEF Setbacks
<1>3. SweepPeriod \in Nat /\ Lease \in Nat /\ Grace \in Nat
  BY TimesAssumption
<1>4. PICK a \in Nat : a = SweepPeriod + Lease
  BY <1>3
<1>5. Setbacks * a \in Nat
  BY <1>2, <1>4
<1>6. Behind \in Nat
  BY <1>4, <1>5 DEF Behind
<1> QED
  BY <1>1, <1>2, <1>3, <1>6 DEF TypeOK

LEMMA BehindGrows ==
  ASSUME TypeOK, Setbacks' = Setbacks + 1
  PROVE  Behind' = Behind + SweepPeriod + Lease
<1>1. PICK a \in Nat, n \in Nat : a = SweepPeriod + Lease /\ n = Setbacks
  BY Counts
<1>2. (n + 1) * a = n * a + a
  BY <1>1
<1>3. Behind = n * a /\ Behind' = (n + 1) * a
  BY <1>1 DEF Behind
<1>4. n * a \in Nat
  BY <1>1
<1> QED
  BY <1>1, <1>2, <1>3, <1>4, Counts

(* An event that is no setback and no deletion, or none at all.            *)
LEMMA EventCounts ==
  ASSUME TypeOK, UNCHANGED happened \/ Happens("unqueued")
  PROVE  Setbacks' = Setbacks /\ happened'["deletion"] = happened["deletion"]
BY DEF Happens, Setbacks, TypeOK, Events

LEMMA SetbackCounts ==
  ASSUME TypeOK, Happens("unsent") \/ Happens("abort")
  PROVE  Setbacks' = Setbacks + 1 /\ happened'["deletion"] = happened["deletion"]
<1>1. CASE Happens("unsent")
  <2>1. /\ happened'["unsent"] = happened["unsent"] + 1 /\ happened'["abort"] = happened["abort"]
        /\ happened'["deletion"] = happened["deletion"]
    BY <1>1 DEF Happens, TypeOK, Events
  <2> QED
    BY <2>1, Counts DEF Setbacks
<1>2. CASE Happens("abort")
  <2>1. /\ happened'["abort"] = happened["abort"] + 1 /\ happened'["unsent"] = happened["unsent"]
        /\ happened'["deletion"] = happened["deletion"]
    BY <1>2 DEF Happens, TypeOK, Events
  <2> QED
    BY <2>1, Counts DEF Setbacks
<1> QED
  BY <1>1, <1>2

(* User requests and completions: the occurrence to come is as it was, or  *)
(* has just been opened or snoozed, and whoever leaves has closed it.      *)
LEMMA RowsStayInReach ==
  ASSUME TypeOK, TypeOK', LInv, RInv, UNCHANGED <<now, lastSweep, account>>,
         Setbacks' = Setbacks, happened'["deletion"] = happened["deletion"],
         \A o \in Pending' :
           \/ occ'[o] = occ[o]
           \/ /\ occ'[o].claim = NoClaim
              /\ \/ occ[o].status = "none" /\ (Ahead(o)' => occ'[o].fire >= now)
                 \/ occ[o].status = "pending" /\ occ'[o].fire >= now + SnoozeMin,
         \A w \in Workers :
           \/ worker'[w] = worker[w]
           \/ worker'[w] = Idle /\ occ'[worker[w].occ].status # "pending"
  PROVE  RInv'
<1>1. Behind' = Behind
  BY DEF Behind
<1>2. Swept' /\ Stays' /\ (Owed' => Owed)
  BY <1>1 DEF RInv, Swept, Stays, Owed
<1> SUFFICES ASSUME Owed, NEW o \in Pending', Ahead(o)' PROVE InReach(o)'
  BY <1>2 DEF RInv
<1>3. /\ o \in Ids /\ occ'[o].status = "pending" /\ occ[o] \in Row /\ occ'[o] \in Row
      /\ occ[o].fire \in Nat /\ occ'[o].fire \in Nat
  BY DEF Pending, TypeOK, Row
<1>4. Idle.pc = "idle"
  BY DEF Idle
<1>5. \A w \in Workers : Serves(w, o)' => worker'[w] = worker[w]
  BY <1>4 DEF Serves, Busy
<1>6. CASE occ'[o] = occ[o]
  <2>1. o \in Pending /\ Ahead(o)
    BY <1>3, <1>6 DEF Pending, Ahead
  <2>2. InReach(o)
    BY <2>1 DEF RInv
  <2>3. \A w \in Workers : Serves(w, o)' <=> Serves(w, o)
    BY <1>3, <1>5, <1>6 DEF Serves, Busy
  <2>4. \A w \in Workers : Serves(w, o) => worker'[w].since = worker[w].since
    BY <1>5, <2>3
  <2> QED
    BY <1>1, <1>6, <2>2, <2>3, <2>4 DEF InReach
<1>7. CASE occ'[o] # occ[o]
  <2>1. occ'[o].claim = NoClaim /\ occ'[o].fire >= now
    BY <1>3, <1>7, Timing, Counts
  <2>2. occ[o].status = "none" \/ (occ[o].status = "pending" /\ occ'[o].fire >= now + SnoozeMin)
    BY <1>3, <1>7
  <2>3. \A w \in Workers : ~ Serves(w, o)'
    <3> SUFFICES ASSUME NEW w \in Workers, Serves(w, o)' PROVE FALSE
      OBVIOUS
    <3>1. Busy(w) /\ worker[w].occ = o /\ worker[w].fire = occ'[o].fire
      BY <1>5 DEF Serves, Busy
    <3>2. /\ occ[o].status # "none" /\ worker[w].fire <= worker[w].since /\ worker[w].since <= now
          /\ worker[w].fire \in Nat /\ worker[w].since \in Nat
      BY <3>1, BusyType DEF LInv, Alive
    <3> QED
      BY <2>2, <3>1, <3>2, Timing, Counts
  <2>4. lastSweep' <= occ'[o].fire + Behind'
    BY <1>1, <1>3, <2>1, Counts DEF RInv, Swept
  <2>5. occ'[o].claim <= occ'[o].fire + Behind'
    BY <1>1, <1>3, <2>1, Counts DEF NoClaim
  <2> QED
    BY <2>3, <2>4, <2>5 DEF InReach
<1> QED
  BY <1>6, <1>7

(* While the occurrence is owed, an idle handler finds no claim nor sweep  *)
(* too late, so that the next sweep is in time.                            *)
LEMMA InTime ==
  ASSUME TypeOK, LInv, RInv, Owed, NEW o \in Pending, Ahead(o), \A w \in Workers : ~ Serves(w, o)
  PROVE  /\ o \in Ids /\ occ[o].fire \in Nat /\ occ[o].claim \in Nat
         /\ occ[o].claim <= occ[o].fire + Behind /\ lastSweep <= occ[o].fire + Behind
         /\ now <= occ[o].fire + Behind + SweepPeriod
         /\ now <= occ[o].fire + Grace
<1>1. o \in Ids /\ occ[o].fire \in Nat /\ occ[o].claim \in Nat
  BY DEF Pending, TypeOK, Row
<1>2. occ[o].claim <= occ[o].fire + Behind /\ lastSweep <= occ[o].fire + Behind
  BY DEF RInv, InReach
<1>3. now <= lastSweep + SweepPeriod /\ SweepPeriod + Behind <= Grace
  BY DEF RInv, Swept, Owed
<1>4. now <= occ[o].fire + Behind + SweepPeriod
  BY <1>1, <1>2, <1>3, Counts
<1> QED
  BY <1>1, <1>2, <1>3, <1>4, Counts

(* A fire or the sweep claims the occurrence to come.                      *)
LEMMA ClaimStaysInReach ==
  ASSUME SInv, TypeOK', LInv, RInv, NEW w \in Workers, ~ Busy(w), NEW o \in Ids, NEW task,
         Due(o), Claim(w, o, task), lastSweep' \in {lastSweep, now},
         UNCHANGED <<now, account, happened>>
  PROVE  RInv'
<1>1. /\ TypeOK /\ SeriesRuns /\ o \in Pending /\ occ[o].claim < now
      /\ occ \in [Ids -> Row] /\ now + Lease \in Nat
  <2>1. TypeOK /\ SeriesRuns /\ o \in Pending /\ occ[o].claim < now
    BY DEF SInv, TInv, Due
  <2>2. now \in Nat /\ Lease \in Nat /\ occ \in [Ids -> Row]
    BY <2>1, Counts, BusyType
  <2>3. now + Lease \in Nat
    BY <2>2
  <2> QED
    BY <2>1, <2>2, <2>3
<1>2. Pending = {o}
  BY <1>1 DEF SeriesRuns
<1>3. /\ occ'[o].status = occ[o].status /\ occ'[o].fire = occ[o].fire
      /\ occ'[o].sched = occ[o].sched /\ occ'[o].late = occ[o].late
      /\ \A p \in Ids : occ'[p].status = occ[p].status
  <2>1. occ' = [occ EXCEPT ![o].claim = now + Lease]
    BY DEF Claim
  <2> QED
    BY <1>1, <2>1, ClaimsOnly
<1>4. Behind' = Behind /\ (Owed' => Owed)
  BY DEF Behind, Setbacks, Owed
<1>5. Swept' /\ Stays'
  BY <1>1, Counts DEF RInv, Swept, Stays
<1> SUFFICES ASSUME Owed, NEW p \in Pending', Ahead(p)' PROVE InReach(p)'
  BY <1>4, <1>5 DEF RInv
<1>6. p = o
  BY <1>2, <1>3 DEF Pending
<1>7. Ahead(o)
  BY <1>3, <1>6 DEF Ahead
<1>8. \A v \in Workers : ~ Serves(v, o)
  <2> SUFFICES ASSUME NEW v \in Workers, Serves(v, o) PROVE FALSE
    OBVIOUS
  <2>1. occ[o].claim = worker[v].since + Lease
    BY <1>1 DEF LInv, Leased, Serves, Pending
  <2>2. worker[v].since \in Nat /\ now <= worker[v].since + MaxRun
    BY <1>1, BusyType DEF LInv, Alive, Serves
  <2>3. now \in Nat /\ occ[o].claim < now
    BY <1>1, Counts
  <2> QED
    BY <2>1, <2>2, <2>3, Timing
<1>9. now <= occ[o].fire + Behind + SweepPeriod
  BY <1>1, <1>7, <1>8, InTime
<1> DEFINE new == [pc |-> "sending", occ |-> o, fire |-> occ[o].fire, task |-> task, since |-> now]
<1>10. worker \in [Workers -> Request \union {Idle}] /\ worker' = [worker EXCEPT ![w] = new]
  BY <1>1 DEF Claim, RInv, Stays, Owed, TypeOK
<1>11. new.pc = "sending" /\ new.occ = o /\ new.fire = occ[o].fire /\ new.since = now
  OBVIOUS
<1> HIDE DEF new
<1>12. worker'[w] = new /\ \A v \in Workers : v # w => worker'[v] = worker[v]
  BY <1>10
<1>13. Serves(w, o)'
  BY <1>3, <1>11, <1>12 DEF Serves, Busy
<1>14. \A v \in Workers : Serves(v, o)' => v = w
  BY <1>3, <1>8, <1>12 DEF Serves, Busy
<1> QED
  BY <1>3, <1>4, <1>6, <1>9, <1>11, <1>12, <1>13, <1>14 DEF InReach

(* A sweep that finds nothing to claim finds the occurrence still to come, *)
(* or claimed, since it cannot be over.                                    *)
LEMMA EmptySweepInReach ==
  ASSUME SInv, LInv, RInv, lastSweep' = now, \A o \in Ids : ~ (Due(o) /\ rem.active),
         UNCHANGED <<now, occ, worker, account, happened>>
  PROVE  RInv'
<1>1. TypeOK /\ SeriesRuns
  BY DEF SInv, TInv
<1>2. Behind' = Behind /\ Swept' /\ Stays' /\ (Owed' => Owed)
  BY <1>1, Counts DEF RInv, Swept, Stays, Behind, Setbacks, Owed
<1> SUFFICES ASSUME Owed, NEW o \in Pending, Ahead(o) PROVE InReach(o)'
  BY <1>2 DEF RInv, Pending, Ahead
<1>3. \A w \in Workers : Serves(w, o)' <=> Serves(w, o)
  BY DEF Serves, Busy
<1>4. CASE \E w \in Workers : Serves(w, o)
  BY <1>2, <1>3, <1>4 DEF InReach, RInv
<1>5. CASE \A w \in Workers : ~ Serves(w, o)
  <2>1. /\ o \in Ids /\ occ[o].fire \in Nat /\ occ[o].claim \in Nat
        /\ occ[o].claim <= occ[o].fire + Behind /\ now <= occ[o].fire + Grace
    BY <1>1, <1>5, InTime
  <2>2. ~ Due(o)
    BY <1>1, <2>1 DEF SeriesRuns
  <2>3. now <= occ[o].fire + Behind
    BY <1>1, <2>1, <2>2, Counts DEF Due
  <2> QED
    BY <1>2, <1>3, <1>5, <2>1, <2>3 DEF InReach
<1> QED
  BY <1>4, <1>5

(* A request that fails or dies costs its lease and the wait after it.     *)
LEMMA SetbackStaysInReach ==
  ASSUME TypeOK, LInv, RInv, NEW w \in Workers, Busy(w), worker' = [worker EXCEPT ![w] = Idle],
         UNCHANGED <<now, lastSweep, account>>, Setbacks' = Setbacks + 1,
         happened'["deletion"] = happened["deletion"],
         \A o \in Ids : /\ occ'[o].status = occ[o].status /\ occ'[o].fire = occ[o].fire
                        /\ occ'[o].sched = occ[o].sched /\ occ'[o].late = occ[o].late
                        /\ occ'[o].claim \in {occ[o].claim, NoClaim}
  PROVE  RInv'
<1>1. Behind' = Behind + SweepPeriod + Lease
  BY BehindGrows
<1>2. Swept' /\ Stays' /\ (Owed' => Owed)
  BY <1>1, Counts DEF RInv, Swept, Stays, Owed
<1> SUFFICES ASSUME Owed, NEW o \in Pending', Ahead(o)' PROVE InReach(o)'
  BY <1>2 DEF RInv
<1>3. o \in Pending /\ Ahead(o) /\ o \in Ids /\ occ'[o].fire = occ[o].fire
  BY DEF Pending, Ahead
<1>4. occ[o].fire \in Nat /\ occ[o].claim \in Nat /\ occ'[o].claim <= occ[o].claim
  <2>1. occ[o] \in Row
    BY <1>3 DEF TypeOK
  <2> QED
    BY <1>3, <2>1 DEF Row, NoClaim
<1>5. InReach(o)
  BY <1>3 DEF RInv
<1>6. worker'[w] = Idle /\ \A v \in Workers : v # w => worker'[v] = worker[v]
  BY DEF TypeOK
<1>7. \A v \in Workers : Serves(v, o)' => v # w /\ Serves(v, o) /\ worker'[v] = worker[v]
  BY <1>3, <1>6 DEF Serves, Busy, Idle
<1>8. CASE \E v \in Workers : Serves(v, o)'
  <2> SUFFICES ASSUME NEW v \in Workers, Serves(v, o)'
               PROVE  worker'[v].since <= occ'[o].fire + Behind' + SweepPeriod
    BY <1>8 DEF InReach
  <2>1. worker'[v].since = worker[v].since /\ worker[v].since <= occ[o].fire + Behind + SweepPeriod
    BY <1>5, <1>7 DEF InReach
  <2>2. worker[v].since \in Nat
    BY <1>7, BusyType DEF Serves
  <2> QED
    BY <1>1, <1>3, <1>4, <2>1, <2>2, Counts
<1>9. CASE \A v \in Workers : ~ Serves(v, o)'
  <2>1. CASE \A v \in Workers : ~ Serves(v, o)
    <3>1. occ[o].claim <= occ[o].fire + Behind /\ lastSweep <= occ[o].fire + Behind
      BY <1>5, <2>1 DEF InReach
    <3>2. occ'[o].claim \in Nat
      BY <1>3, <1>4 DEF NoClaim
    <3> QED
      BY <1>1, <1>3, <1>4, <1>9, <3>1, <3>2, Counts DEF InReach
  <2>2. CASE \E v \in Workers : Serves(v, o)
    <3>1. Serves(w, o)
      BY <1>3, <1>6, <1>9, <2>2 DEF Serves, Busy
    <3>2. /\ worker[w].since \in Nat /\ worker[w].since <= occ[o].fire + Behind + SweepPeriod
          /\ now <= worker[w].since + MaxRun
      BY <1>5, <3>1, BusyType DEF InReach, LInv, Alive
    <3>3. occ[o].claim = worker[w].since + Lease
      BY <1>3, <3>1 DEF LInv, Leased, Serves, Pending
    <3>4. lastSweep <= occ'[o].fire + Behind'
      BY <1>1, <1>3, <1>4, <3>2, Timing, Counts DEF RInv, Swept
    <3>5. occ'[o].claim \in Nat
      BY <1>3, <1>4 DEF NoClaim
    <3>6. occ'[o].claim <= occ'[o].fire + Behind'
      BY <1>1, <1>3, <1>4, <3>2, <3>3, <3>5, Timing, Counts
    <3> QED
      BY <1>9, <3>4, <3>6 DEF InReach
  <2> QED
    BY <2>1, <2>2
<1> QED
  BY <1>8, <1>9

(* What Advance does to the rows still to come.                            *)
LEMMA AdvanceOpens ==
  ASSUME SInv, NEW o \in Pending, NEW how \in {"delivered", "skipped"}, NEW kept,
         Advance(o, how, kept)
  PROVE  /\ Setbacks' = Setbacks /\ happened'["deletion"] = happened["deletion"]
         /\ \A p \in Pending' :
              \/ occ'[p] = occ[p]
              \/ /\ occ[p].status = "none" /\ occ'[p].claim = NoClaim
                 /\ Ahead(p)' => occ'[p].fire >= now
<1> DEFINE row == [occ[o] EXCEPT !.status = how, !.claim = NoClaim]
           at == NextAt(rem.rule, row.sched)
           new == NewRow(row.seq + 1, at)
<1>1. /\ o \in Ids /\ lastId \in Nat /\ occ[o] \in Row /\ TypeOK /\ Fresh
      /\ occ \in [Ids -> Row] /\ now \in Nat
  BY TimesAssumption DEF SInv, TInv, TypeOK, Pending
<1>2. row.status = how /\ row.sched = occ[o].sched /\ row.sched \in Nat
  BY <1>1 DEF Row
<1>3. at \in Nat
  BY <1>1, <1>2, NextAtType DEF TypeOK
<1>4. \/ /\ lastId < MaxOcc
         /\ occ' = [occ EXCEPT ![o] = row, ![lastId + 1] = new]
         /\ Enqueued(lastId + 1, at, kept)
      \/ occ' = [occ EXCEPT ![o] = row] /\ UNCHANGED happened
  BY DEF Advance
<1>5. new.claim = NoClaim /\ new.fire = at /\ new.sched = at /\ new.late = (at < now)
  BY DEF NewRow
<1> HIDE DEF row, at, new
<1>6. UNCHANGED happened \/ Happens("unqueued")
  BY <1>4 DEF Enqueued
<1>7. \A p \in Ids : occ'[p] = row \/ occ'[p] = occ[p] \/ (occ'[p] = new /\ p = lastId + 1)
  BY <1>1, <1>4
<1>8. ASSUME NEW p \in Pending', occ'[p] # occ[p]
      PROVE  /\ occ[p].status = "none" /\ occ'[p].claim = NoClaim
             /\ Ahead(p)' => occ'[p].fire >= now
  <2>1. occ'[p] = new /\ p = lastId + 1 /\ p \in Ids
    BY <1>2, <1>7, <1>8 DEF Pending
  <2>2. occ[p].status = "none"
    BY <1>1, <2>1 DEF Fresh
  <2>3. Ahead(p)' => at >= now
    <3>1. CASE at < now
      <4>1. new.late
        BY <1>5, <3>1, Zenon
      <4>2. new.fire = at /\ new.sched = at
        BY <1>5, Zenon
      <4>3. ~ (new.fire > new.sched)
        BY <1>3, <4>2
      <4> QED
        BY <2>1, <4>1, <4>3 DEF Ahead
    <3>2. CASE ~ (at < now)
      BY <1>1, <1>3, <3>2
    <3> QED
      BY <3>1, <3>2
  <2> QED
    BY <1>5, <2>1, <2>2, <2>3
<1> QED
  BY <1>1, <1>6, <1>8, EventCounts

LEMMA RInvInit == Init => RInv
<1> SUFFICES ASSUME Init PROVE RInv
  OBVIOUS
<1>1. Pending = {}
  BY DEF Init, NoRow, Pending
<1>2. Swept /\ Stays
  BY TimesAssumption DEF Init, Swept, Stays
<1> QED
  BY <1>1, <1>2 DEF RInv

LEMMA RInvNext == SInv /\ SInv' /\ LInv /\ RInv /\ [Next]_vars => RInv'
<1> SUFFICES ASSUME SInv, SInv', LInv, RInv, [Next]_vars PROVE RInv'
  OBVIOUS
<1>a. /\ TypeOK /\ TypeOK' /\ Fresh /\ lastId \in Nat /\ now \in Nat
      /\ occ \in [Ids -> Row]
  <2>1. TypeOK /\ TypeOK' /\ Fresh
    BY DEF SInv, TInv
  <2>2. lastId \in Nat /\ now \in Nat /\ occ \in [Ids -> Row]
    BY <2>1, TimesAssumption DEF TypeOK
  <2> QED
    BY <2>1, <2>2
<1>b. ASSUME UNCHANGED <<now, lastSweep, account, worker>>,
             UNCHANGED happened \/ Happens("unqueued"),
             \A o \in Pending' :
               \/ occ'[o] = occ[o]
               \/ /\ occ'[o].claim = NoClaim
                  /\ \/ occ[o].status = "none" /\ (Ahead(o)' => occ'[o].fire >= now)
                     \/ occ[o].status = "pending" /\ occ'[o].fire >= now + SnoozeMin
      PROVE  RInv'
  BY <1>a, <1>b, EventCounts, RowsStayInReach
<1>c. \A seq, at : /\ NewRow(seq, at).claim = NoClaim
                   /\ NewRow(seq, at).fire = at /\ NewRow(seq, at).sched = at
                   /\ NewRow(seq, at).late = (at < now)
  BY DEF NewRow
<1>1. CASE Create
  <2>1. PICK n \in Ids, at \in now .. Horizon :
          /\ n = lastId + 1 /\ occ' = [occ EXCEPT ![n] = NewRow(1, at)]
          /\ Enqueued(n, at, tasks)
    <3>1. lastId + 1 \in Ids
      BY <1>1, <1>a, TimesAssumption DEF Create
    <3> QED
      BY <1>1, <3>1 DEF Create
  <2>2. \A o \in Pending' : \/ occ'[o] = occ[o]
                           \/ /\ occ'[o].claim = NoClaim /\ occ[o].status = "none"
                              /\ occ'[o].fire >= now
    BY <2>1, <1>a, <1>c DEF Fresh, Pending
  <2> QED
    BY <1>1, <1>b, <2>1, <2>2 DEF Create, UserUnchanged, Enqueued
<1>2. CASE Replace
  <2>1. PICK n \in Ids, at \in now .. Horizon :
          /\ n = lastId + 1 /\ Enqueued(n, at, tasks)
          /\ \A o \in Ids : \/ o = n /\ occ'[o] = NewRow(ReplaceSequence, at)
                           \/ occ'[o] = [occ[o] EXCEPT !.status = "cancelled", !.claim = NoClaim]
                           \/ occ'[o] = occ[o]
    <3>1. lastId < MaxOcc
      BY <1>2 DEF Replace
    <3>2. lastId + 1 \in Ids
      BY <3>1, <1>a, TimesAssumption
    <3> QED
      BY <1>2, <3>2 DEF Replace
  <2>2. \A o \in Ids : [occ[o] EXCEPT !.status = "cancelled", !.claim = NoClaim].status = "cancelled"
    BY <1>a DEF Row
  <2>3. \A o \in Pending' : \/ occ'[o] = occ[o]
                           \/ /\ occ'[o].claim = NoClaim /\ occ[o].status = "none"
                              /\ occ'[o].fire >= now
    <3> SUFFICES ASSUME NEW o \in Pending', occ'[o] # occ[o]
                 PROVE  /\ occ'[o].claim = NoClaim /\ occ[o].status = "none"
                        /\ occ'[o].fire >= now
      OBVIOUS
    <3>1. o \in Ids /\ occ'[o].status = "pending"
      BY DEF Pending
    <3>2. o = n /\ occ'[o] = NewRow(ReplaceSequence, at)
      BY <2>1, <2>2, <3>1
    <3>3. o > lastId /\ at >= now
      <4>1. n = lastId + 1 /\ at \in now .. Horizon
        BY <2>1, Zenon
      <4>2. o = lastId + 1
        BY <3>2, <4>1, Zenon
      <4> QED
        BY <4>1, <4>2, <1>a, TimesAssumption
    <3>4. occ[o].status = "none"
      BY <3>1, <3>3, <1>a DEF Fresh
    <3>5. occ'[o].claim = NoClaim /\ occ'[o].fire = at
      <4>1. occ'[o] = NewRow(ReplaceSequence, at)
        BY <3>2
      <4> QED
        BY <4>1 DEF NewRow
    <3> QED
      BY <3>3, <3>4, <3>5, Zenon
  <2> QED
    BY <1>2, <1>b, <2>1, <2>3 DEF Replace, UserUnchanged, Enqueued
<1>3. ASSUME NEW o \in Ids, Snooze(o) PROVE RInv'
  <2>1. PICK at \in now + SnoozeMin .. Horizon :
          /\ occ' = [occ EXCEPT ![o].fire = at, ![o].claim = NoClaim]
          /\ Enqueued(o, at, tasks)
    BY <1>3 DEF Snooze
  <2>2. /\ occ[o].status = "pending" /\ occ'[o].claim = NoClaim /\ occ'[o].fire >= now + SnoozeMin
        /\ \A p \in Ids : p # o => occ'[p] = occ[p]
    <3>1. o \in Pending
      BY <1>3 DEF Snooze
    <3> QED
      BY <2>1, <3>1, <1>a, Timing DEF Pending, Row
  <2>3. \A p \in Pending' : p \in Ids
    BY DEF Pending
  <2> QED
    BY <1>3, <1>b, <2>1, <2>2, <2>3 DEF Snooze, UserUnchanged, Enqueued
<1>4. ASSUME NEW o \in Ids, Skip(o) PROVE RInv'
  <2>1. /\ o \in Pending /\ Advance(o, "skipped", tasks)
        /\ UNCHANGED <<now, lastSweep, account, worker>>
    BY <1>4 DEF Skip, UserUnchanged
  <2> QED
    BY <2>1, <1>a, AdvanceOpens, RowsStayInReach
<1>5. CASE Delete
  <2>1. Pending' = {}
    BY <1>5, <1>a DEF Delete, NoRow, Pending
  <2> QED
    BY <1>5, <1>b, <2>1 DEF Delete, UserUnchanged
<1>6. ASSUME NEW o \in Ids, DeleteOccurrence(o) PROVE RInv'
  <2>1. \A p \in Pending' : occ'[p] = occ[p]
    BY <1>6, <1>a DEF DeleteOccurrence, NoRow, Pending
  <2> QED
    BY <1>6, <1>b, <2>1 DEF DeleteOccurrence, UserUnchanged
<1>7. CASE ToggleAccount
  <2>1. happened'["deletion"] = happened["deletion"] + 1
    BY <1>7, <1>a DEF ToggleAccount, Happens, TypeOK, Events
  <2>2. happened'["deletion"] # 0
    BY <2>1, <1>a, Counts
  <2>3. UNCHANGED <<now, lastSweep>>
    BY <1>7 DEF ToggleAccount
  <2> QED
    BY <2>2, <2>3 DEF RInv, Swept, Stays, Owed
<1>8. ASSUME NEW w \in Workers, Fire(w) PROVE RInv'
  <2>1. PICK t \in tasks :
          IF Due(t.occ) /\ rem.active THEN Claim(w, t.occ, {t})
          ELSE tasks' = tasks \ {t} /\ UNCHANGED <<occ, worker>>
    BY <1>8 DEF Fire
  <2>2. /\ UNCHANGED <<now, lastSweep, account, happened>> /\ ~Busy(w) /\ t.occ \in Ids
    BY <1>8, <1>a DEF Fire, DeliveryUnchanged, Busy, TypeOK, Task
  <2>3. CASE Due(t.occ) /\ rem.active
    BY <2>1, <2>2, <2>3, <1>a, ClaimStaysInReach
  <2>4. CASE ~(Due(t.occ) /\ rem.active)
    BY <2>1, <2>2, <2>4, <1>b
  <2> QED
    BY <2>3, <2>4
<1>9. ASSUME NEW w \in Workers, Sweep(w) PROVE RInv'
  <2>1. UNCHANGED <<now, account, happened>> /\ ~Busy(w) /\ lastSweep' = now
    BY <1>9 DEF Sweep, DeliveryUnchanged, Busy
  <2>2. ASSUME NEW o \in Ids, Due(o), Claim(w, o, {}) PROVE RInv'
    BY <2>1, <2>2, <1>a, ClaimStaysInReach
  <2>3. CASE (\A o \in Ids : ~(Due(o) /\ rem.active)) /\ UNCHANGED <<occ, worker>>
    BY <2>1, <2>3, EmptySweepInReach
  <2> QED
    BY <1>9, <2>2, <2>3 DEF Sweep
<1>10. ASSUME NEW w \in Workers, Attempt(w) PROVE RInv'
  <2>1. /\ UNCHANGED <<now, lastSweep, account>> /\ Busy(w) /\ worker[w] \in Request
        /\ worker[w].occ \in Ids
    BY <1>10, <1>a, BusyType DEF Attempt, DeliveryUnchanged, Busy
  <2>2. \/ worker' = [worker EXCEPT ![w].pc = "sent"] /\ UNCHANGED <<occ, happened>>
        \/ /\ Happens("unsent") /\ worker' = [worker EXCEPT ![w] = Idle]
           /\ occ' = occ \/ occ' = [occ EXCEPT ![worker[w].occ].claim = NoClaim]
    BY <1>10 DEF Attempt
  <2>3. CASE worker' = [worker EXCEPT ![w].pc = "sent"] /\ UNCHANGED <<occ, happened>>
    <3>1. \A v \in Workers : /\ Busy(v)' <=> Busy(v)
                             /\ worker'[v].occ = worker[v].occ /\ worker'[v].fire = worker[v].fire
                             /\ worker'[v].since = worker[v].since
      BY <2>1, <2>3, <1>a DEF Busy, TypeOK, Request
    <3>2. \A o \in Ids, v \in Workers : Serves(v, o)' <=> Serves(v, o)
      BY <3>1, <2>3 DEF Serves
    <3>3. Behind' = Behind /\ Pending' = Pending /\ (Owed' => Owed)
      BY <2>3 DEF Behind, Setbacks, Pending, Owed
    <3>4. \A o \in Ids : (InReach(o)' <=> InReach(o)) /\ (Ahead(o)' <=> Ahead(o))
      BY <2>1, <2>3, <3>1, <3>2, <3>3 DEF InReach, Ahead
    <3>5. Swept' /\ Stays'
      BY <2>1, <2>3 DEF RInv, Swept, Stays
    <3> QED
      BY <3>3, <3>4, <3>5 DEF RInv, Pending
  <2>4. CASE /\ Happens("unsent") /\ worker' = [worker EXCEPT ![w] = Idle]
             /\ occ' = occ \/ occ' = [occ EXCEPT ![worker[w].occ].claim = NoClaim]
    <3>1. \A o \in Ids : /\ occ'[o].status = occ[o].status /\ occ'[o].fire = occ[o].fire
                         /\ occ'[o].sched = occ[o].sched /\ occ'[o].late = occ[o].late
                         /\ occ'[o].claim \in {occ[o].claim, NoClaim}
      <4>1. CASE occ' = [occ EXCEPT ![worker[w].occ].claim = NoClaim]
        <5>1. NoClaim \in Nat
          BY DEF NoClaim
        <5> QED
          BY <2>1, <4>1, <5>1, <1>a, ClaimsOnly
      <4> QED
        BY <2>4, <4>1
    <3> QED
      BY <2>1, <2>4, <3>1, <1>a, SetbackCounts, SetbackStaysInReach
  <2> QED
    BY <2>2, <2>3, <2>4
<1>11. ASSUME NEW w \in Workers, Complete(w) PROVE RInv'
  <2>1. /\ worker' = [worker EXCEPT ![w] = Idle] /\ UNCHANGED <<now, lastSweep, account>>
    BY <1>11 DEF Complete, DeliveryUnchanged
  <2>2. \A v \in Workers : worker'[v] = worker[v] \/ (v = w /\ worker'[v] = Idle)
    BY <2>1, <1>a DEF TypeOK
  <2>3. CASE worker[w].occ \in Pending
    <3>1. Advance(worker[w].occ, "delivered", tasks \ worker[w].task)
      BY <1>11, <2>3 DEF Complete
    <3>2. occ'[worker[w].occ].status = "delivered"
      BY <2>3, <3>1, AdvanceRows
    <3> QED
      BY <2>1, <2>2, <2>3, <3>1, <3>2, <1>a, AdvanceOpens, RowsStayInReach
  <2>4. CASE worker[w].occ \notin Pending
    <3>1. UNCHANGED <<occ, happened>> /\ worker[w].pc = "sent"
      BY <1>11, <2>4 DEF Complete
    <3>2. occ'[worker[w].occ].status # "pending"
      BY <3>1, <2>4, <1>a, BusyType DEF Pending, Busy
    <3> QED
      BY <2>1, <2>2, <3>1, <3>2, <1>a, EventCounts, RowsStayInReach
  <2> QED
    BY <2>3, <2>4
<1>12. ASSUME NEW w \in Workers, Abort(w) PROVE RInv'
  <2>1. /\ Busy(w) /\ Happens("abort") /\ worker' = [worker EXCEPT ![w] = Idle]
        /\ UNCHANGED <<now, lastSweep, account, occ>>
    BY <1>12 DEF Abort, DeliveryUnchanged, Busy
  <2> QED
    BY <2>1, <1>a, SetbackCounts, SetbackStaysInReach
<1>13. CASE Tick
  <2>1. now' = now + 1 /\ now - lastSweep < SweepPeriod /\ UNCHANGED <<occ, worker, lastSweep, account, happened>>
    BY <1>13 DEF Tick
  <2>2. Swept' /\ Stays'
    BY <2>1, <1>a, Counts DEF RInv, Swept, Stays
  <2>3. \A o \in Ids : (InReach(o)' <=> InReach(o)) /\ (Ahead(o)' <=> Ahead(o))
    BY <2>1 DEF InReach, Ahead, Serves, Busy, Behind, Setbacks
  <2> QED
    BY <2>1, <2>2, <2>3 DEF RInv, Pending, Owed, Behind, Setbacks
<1>14. CASE UNCHANGED vars
  BY <1>14, <1>b DEF vars
<1> QED
  BY <1>1, <1>2, <1>3, <1>4, <1>5, <1>6, <1>7, <1>8, <1>9, <1>10, <1>11, <1>12, <1>13, <1>14
     DEF Next, UserStep, WorkerStep

(* However many fires are lost or late, and however many deliveries fail   *)
(* or die: the occurrence to come stays within reach of the sweep while    *)
(* the setbacks leave the sweeps room in the grace.                        *)
THEOREM SeriesStillComes == Spec => []StillComes
<1>1. SInv /\ LInv /\ RInv /\ [Next]_vars => (SInv /\ LInv /\ RInv)'
  BY SInvNext, LInvNext, RInvNext
<1>2. SInv /\ LInv /\ RInv => StillComes
  <2> SUFFICES ASSUME TypeOK, LInv, RInv, Owed, NEW o \in Pending, Ahead(o) PROVE Reachable(o)
    BY DEF StillComes, SInv, TInv, Owed, Behind
  <2>1. CASE \E w \in Workers : Serves(w, o)
    BY <2>1 DEF Reachable, Serves, Busy
  <2>2. CASE \A w \in Workers : ~ Serves(w, o)
    BY <2>2, InTime DEF Reachable
  <2> QED
    BY <2>1, <2>2
<1> QED
  BY <1>1, <1>2, SInvInit, LInvInit, RInvInit, PTL DEF Spec

-----------------------------------------------------------------------------
(* The order and the grid of a series.                                     *)

Visible(o) == occ[o].status \in {"pending", "delivered", "skipped"}
Unused == rem.state = "none" => \A o \in Ids : occ[o].status = "none"
OInv == Unused /\ SeriesInOrder

(* One step further on the grid is on the grid.                            *)
LEMMA StepOnGrid ==
  ASSUME NEW d \in Nat, NEW step \in Nat, step > 0, d % step = 0
  PROVE  (d + step) % step = 0
<1>1. PICK q \in Int : q = d \div step
  OBVIOUS
<1>2. d = step * q
  BY <1>1
<1>3. PICK n \in Int : n = q + 1
  OBVIOUS
<1>4. d + step = step * n
  BY <1>2, <1>3
<1>5. PICK e \in Nat : e = d + step
  OBVIOUS
<1>6. e = step * n + 0
  BY <1>4, <1>5
<1>7. e % step = 0
  BY <1>6
<1> QED
  BY <1>5, <1>7

(* A row that is seen keeps its stage, its number and its time.            *)
LEMMA RowsStayInOrder ==
  ASSUME SeriesInOrder, rem'.startsAt = rem.startsAt, rem'.rule = rem.rule,
         \A o \in Ids : Visible(o)' => /\ occ'[o].status = occ[o].status /\ occ'[o].seq = occ[o].seq
                                       /\ occ'[o].sched = occ[o].sched
  PROVE  SeriesInOrder'
<1>1. \A o \in Pending' : o \in Pending
  BY DEF Pending, Visible
<1>2. SequenceOrder'
  BY <1>1 DEF SeriesInOrder, SequenceOrder, Visible, Pending
<1>3. OnGrid'
  BY <1>1 DEF SeriesInOrder, OnGrid, Visible, Pending
<1> QED
  BY <1>2, <1>3 DEF SeriesInOrder

(* A new occurrence is numbered after all the history.                     *)
LEMMA RowEntersInOrder ==
  ASSUME SeriesInOrder, NEW n \in Ids, NEW seq \in Nat, NEW at \in Nat, Pending' = {n},
         occ'[n] = NewRow(seq, at),
         \A o \in Ids : occ[o].seq \in Nat,
         \A o \in Ids \ {n} : Visible(o)' => /\ Visible(o) /\ occ'[o].seq = occ[o].seq /\ occ[o].seq < seq
                                             /\ \A p \in Ids \ {n, o} : Visible(p)' => occ[p].seq # occ[o].seq,
         \/ at = rem'.startsAt
         \/ rem'.rule.step > 0 /\ at > rem'.startsAt /\ (at - rem'.startsAt) % rem'.rule.step = 0
  PROVE  SeriesInOrder'
<1>1. occ'[n].seq = seq /\ occ'[n].sched = at /\ occ'[n].status = "pending"
  BY DEF NewRow
<1>2. \A q \in Ids : occ'[q].status \in {"delivered", "skipped"} => q # n /\ Visible(q)'
  BY <1>1 DEF Visible
<1>3. SequenceOrder'
  BY <1>1, <1>2 DEF SequenceOrder
<1>4. OnGrid'
  BY <1>1 DEF OnGrid
<1> QED
  BY <1>3, <1>4 DEF SeriesInOrder

(* The replaced series goes on after the highest number used.              *)
LEMMA ReplaceSequenceAfter ==
  ASSUME TInv, SeriesRuns, SequenceOrder, NEW q \in Ids, occ[q].status \in {"delivered", "skipped"}
  PROVE  occ[q].seq < ReplaceSequence
<1> DEFINE rows == {o \in Ids : occ[o].status \notin {"none", "gone"}}
           top == {o \in rows : \A p \in rows : occ[p].seq <= occ[o].seq}
           seqs == {occ[o].seq : o \in rows}
<1>1. lastId \in Nat /\ \A o \in Ids : occ[o].seq \in Nat /\ occ[o].seq <= lastId
  BY TimesAssumption DEF TInv, TypeOK, Row, SeqBound
<1>2. CASE Pending # {}
  <2>1. PICK p \in Ids : p = CHOOSE o \in Pending : TRUE
    BY <1>2 DEF Pending
  <2>2. p \in Pending
    BY <1>2, <2>1
  <2>3. ReplaceSequence = occ[p].seq
    BY <1>2, <2>1 DEF ReplaceSequence
  <2> QED
    BY <2>2, <2>3 DEF SequenceOrder
<1>3. CASE Pending = {}
  <2>1. q \in rows
    OBVIOUS
  <2>2. seqs \in SUBSET Nat /\ seqs # {} /\ \A n \in seqs : n <= lastId
    BY <1>1, <2>1
  <2>3. \E m \in seqs : \A n \in seqs : n <= m
    <3> HIDE DEF seqs
    <3> QED BY <2>2, <1>1, GreatestNatural
  <2>4. top # {}
    BY <2>3
  <2>5. PICK t \in top : t = CHOOSE o \in top : TRUE
    BY <2>4
  <2>6. ReplaceSequence = occ[t].seq + 1
    BY <1>3, <2>1, <2>5 DEF ReplaceSequence
  <2>7. occ[q].seq <= occ[t].seq /\ t \in Ids
    BY <2>1, <2>5
  <2> QED
    BY <1>1, <2>6, <2>7
<1> QED
  BY <1>2, <1>3

LEMMA AdvanceKeepsOrder ==
  ASSUME SInv, SInv', OInv, NEW o \in Pending, NEW how \in {"delivered", "skipped"}, NEW kept, Advance(o, how, kept)
  PROVE  OInv'
<1> DEFINE row == [occ[o] EXCEPT !.status = how, !.claim = NoClaim]
           at == NextAt(rem.rule, row.sched)
<1>1. /\ o \in Ids /\ lastId \in Nat /\ Running /\ Pending = {o}
      /\ \A p \in Ids : occ[p] \in Row /\ occ[p].seq \in Nat /\ occ[p].sched \in Nat
  <2>1. \A p \in Ids : occ[p] \in Row
    BY DEF SInv, TInv, TypeOK
  <2>2. \A p \in Ids : occ[p].seq \in Nat /\ occ[p].sched \in Nat
    BY <2>1 DEF Row
  <2>3. o \in Ids /\ lastId \in Nat
    BY TimesAssumption DEF SInv, TInv, TypeOK, Pending
  <2>4. Running /\ Pending = {o}
    BY DEF SInv, SeriesRuns, Running
  <2> QED
    BY <2>1, <2>2, <2>3, <2>4
<1>2. /\ rem.startsAt \in Nat /\ rem.rule.step \in Nat
  BY DEF SInv, TInv, TypeOK
<1>3. row.status = how /\ row.seq = occ[o].seq /\ row.sched = occ[o].sched
  BY <1>1 DEF Row
<1>4. PICK seq \in Nat, sched \in Nat : seq = occ[o].seq /\ sched = occ[o].sched
  BY <1>1
<1>5. \A q \in Ids \ {o} : Visible(q) => occ[q].seq < seq /\ \A p \in Ids \ {o, q} : Visible(p) => occ[p].seq # occ[q].seq
  BY <1>1, <1>4 DEF OInv, SeriesInOrder, SequenceOrder, Visible, Pending
<1>6. CASE rem.active /\ HasNext(rem.rule, row.sched, row.seq)
  <2> DEFINE new == NewRow(row.seq + 1, at)
  <2>0. PICK n : n = lastId + 1
    OBVIOUS
  <2>1. /\ lastId < MaxOcc /\ occ' = [occ EXCEPT ![o] = row, ![n] = new] /\ UNCHANGED rem
    BY <1>6, <2>0 DEF Advance
  <2>2. n \in Ids /\ occ[n].status = "none" /\ n # o
    BY <1>1, <2>0, <2>1, TimesAssumption DEF SInv, Fresh, Pending
  <2>3. at = sched + rem.rule.step /\ rem.rule.step > 0
    BY <1>3, <1>4, <1>6 DEF NextAt, HasNext
  <2>4. new = NewRow(seq + 1, sched + rem.rule.step)
    BY <1>3, <1>4, <2>3
  <2> HIDE DEF row, new, at
  <2>5. \A p \in Ids : occ'[p] = IF p = n THEN new ELSE IF p = o THEN row ELSE occ[p]
    BY <2>1, <2>2 DEF SInv, TInv, TypeOK
  <2>6. Pending' = {n}
    <3>1. occ'[n].status = "pending"
      BY <2>2, <2>4, <2>5 DEF NewRow
    <3> QED
      BY <2>2, <3>1 DEF SInv, SeriesRuns, Pending
  <2>7. PICK later \in Nat, next \in Nat : later = seq + 1 /\ next = sched + rem.rule.step
    <3>1. seq + 1 \in Nat /\ sched + rem.rule.step \in Nat
      BY <1>2, <1>4
    <3> QED
      BY <3>1
  <2>8. \/ next = rem.startsAt
        \/ rem.rule.step > 0 /\ next > rem.startsAt /\ (next - rem.startsAt) % rem.rule.step = 0
    <3>1. PICK d, step : d = sched - rem.startsAt /\ step = rem.rule.step
      OBVIOUS
    <3>2. step \in Nat /\ d \in Nat /\ (d = 0 \/ d % step = 0)
      BY <1>1, <1>2, <1>4, <3>1 DEF OInv, SeriesInOrder, OnGrid
    <3>3. d % step = 0
      BY <2>3, <3>1, <3>2
    <3>4. (d + step) % step = 0
      BY <2>3, <3>1, <3>2, <3>3, StepOnGrid
    <3>5. next - rem.startsAt = d + step /\ next > rem.startsAt
      BY <1>2, <2>3, <2>7, <3>1, <3>2
    <3> QED
      BY <2>3, <3>1, <3>4, <3>5
  <2>9. \A p \in Ids \ {n} : Visible(p)' =>
          /\ Visible(p) /\ occ'[p].seq = occ[p].seq /\ occ[p].seq < later
          /\ \A q \in Ids \ {n, p} : Visible(q)' => occ[q].seq # occ[p].seq
    <3>1. \A p \in Ids \ {n} : Visible(p)' => /\ Visible(p) /\ occ'[p].seq = occ[p].seq
      BY <1>1, <1>3, <2>5 DEF Visible, Pending
    <3>2. \A p \in Ids : Visible(p) => occ[p].seq <= seq /\ (p # o => occ[p].seq < seq)
      BY <1>1, <1>4, <1>5
    <3>3. \A p \in Ids \ {n} : Visible(p) => occ[p].seq < later
      BY <1>1, <2>7, <3>2
    <3>4. \A p, q \in Ids \ {n} : p # q /\ Visible(p) /\ Visible(q) => occ[q].seq # occ[p].seq
      BY <1>1, <1>4, <1>5
    <3> QED
      BY <3>1, <3>3, <3>4
  <2>10. SeriesInOrder'
    <3>1. occ'[n] = NewRow(later, next) /\ \A p \in Ids : occ[p].seq \in Nat
      BY <1>1, <2>2, <2>4, <2>5, <2>7
    <3>2. \/ next = rem'.startsAt
          \/ rem'.rule.step > 0 /\ next > rem'.startsAt /\ (next - rem'.startsAt) % rem'.rule.step = 0
      BY <2>1, <2>8
    <3> QED
      BY <2>2, <2>6, <2>7, <2>9, <3>1, <3>2, RowEntersInOrder DEF OInv
  <2>11. Unused'
    BY <1>1, <2>1 DEF Running, Unused
  <2> QED
    BY <2>10, <2>11 DEF OInv
<1>7. CASE ~(rem.active /\ HasNext(rem.rule, row.sched, row.seq))
  <2>1. /\ occ' = [occ EXCEPT ![o] = row]
        /\ rem' = [rem EXCEPT !.active = FALSE]
    BY <1>7 DEF Advance
  <2>2. rem'.state = "live" /\ ~ rem'.active
    BY <1>1, <2>1 DEF SInv, TInv, TypeOK, Running
  <2> HIDE DEF row
  <2>3. \A p \in Ids : occ'[p] = IF p = o THEN row ELSE occ[p]
    BY <1>1, <2>1 DEF SInv, TInv, TypeOK
  <2>4. Pending' = {}
    BY <2>2 DEF SInv, SeriesRuns
  <2>5. SequenceOrder'
    <3>1. \A p \in Ids : occ'[p].seq = occ[p].seq /\ (p # o => occ'[p].status = occ[p].status)
      BY <1>3, <2>3
    <3>2. \A p, q \in Ids : p # q /\ Visible(p) /\ Visible(q) => occ[p].seq # occ[q].seq
      BY <1>1, <1>4, <1>5
    <3>3. \A p \in Ids : occ'[p].status \in {"delivered", "skipped"} => Visible(p)
      BY <1>1, <3>1 DEF Visible, Pending
    <3> QED
      BY <2>4, <3>1, <3>2, <3>3 DEF SequenceOrder
  <2>6. OnGrid'
    BY <2>4 DEF OnGrid
  <2> QED
    BY <2>2, <2>5, <2>6 DEF OInv, SeriesInOrder, Unused
<1> QED
  BY <1>6, <1>7

LEMMA OInvNext == SInv /\ SInv' /\ OInv /\ [Next]_vars => OInv'
<1> SUFFICES ASSUME SInv, SInv', OInv, [Next]_vars PROVE OInv'
  OBVIOUS
<1>a. /\ lastId \in Nat /\ occ \in [Ids -> Row] /\ SeriesInOrder /\ now \in Nat
      /\ \A o \in Ids : occ[o] \in Row /\ occ[o].seq \in Nat
  <2>1. lastId \in Nat /\ occ \in [Ids -> Row] /\ SeriesInOrder /\ now \in Nat
    BY TimesAssumption DEF SInv, TInv, TypeOK, OInv
  <2>2. \A o \in Ids : occ[o] \in Row
    BY <2>1
  <2>3. \A o \in Ids : occ[o].seq \in Nat
    BY <2>2 DEF Row
  <2> QED
    BY <2>1, <2>2, <2>3
<1>b. ASSUME rem'.startsAt = rem.startsAt, rem'.rule = rem.rule, rem'.state = "none" => rem.state = "none",
             \A o \in Ids : occ'[o].status = occ[o].status /\ occ'[o].seq = occ[o].seq
                            /\ occ'[o].sched = occ[o].sched
      PROVE  OInv'
  <2>1. SeriesInOrder'
    BY <1>a, <1>b, RowsStayInOrder
  <2> QED
    BY <1>b, <2>1 DEF OInv, Unused
<1>c. ASSUME NEW o \in Ids, NEW c \in Nat, occ' = [occ EXCEPT ![o].claim = c]
      PROVE  \A p \in Ids : occ'[p].status = occ[p].status /\ occ'[p].seq = occ[p].seq
                            /\ occ'[p].sched = occ[p].sched
  BY <1>a, <1>c DEF Row
<1>d. UNCHANGED <<rem, occ>> => OInv'
  BY <1>b
<1>1. CASE Create
  <2>0. PICK n \in Ids : n = lastId + 1
    BY <1>1, <1>a, TimesAssumption DEF Create
  <2>1. PICK rule \in Rules, at \in now .. Horizon : /\ occ' = [occ EXCEPT ![n] = NewRow(1, at)]
                                           /\ rem' = [state |-> "live", active |-> TRUE, startsAt |-> at, rule |-> rule]
    <3>1. PICK rule \in Rules, at \in now .. Horizon :
            /\ rem' = [state |-> "live", active |-> TRUE, startsAt |-> at, rule |-> rule]
            /\ occ' = [occ EXCEPT ![lastId + 1] = NewRow(1, at)]
      BY <1>1 DEF Create
    <3> QED
      BY <2>0, <3>1
  <2>2. \A p \in Ids : occ'[p] = IF p = n THEN NewRow(1, at) ELSE occ[p]
    BY <1>a, <2>1
  <2>3. \A p \in Ids : occ[p].status = "none"
    BY <1>1 DEF Create, OInv, Unused
  <2>4. rem'.state = "live" /\ rem'.startsAt = at
    BY <2>1
  <2>5. occ'[n].status = "pending"
    BY <2>2 DEF NewRow
  <2>6. Pending' = {n}
    BY <2>0, <2>5 DEF SInv, SeriesRuns, Pending
  <2>7. \A p \in Ids \ {n} : ~ Visible(p)'
    BY <2>2, <2>3 DEF Visible
  <2>8. at \in Nat
    BY <1>a, TimesAssumption
  <2>9. SeriesInOrder'
    BY <1>a, <2>2, <2>4, <2>6, <2>7, <2>8, RowEntersInOrder
  <2> QED
    BY <2>4, <2>9 DEF OInv, Unused
<1>2. CASE Replace
  <2>0. PICK n \in Ids : n = lastId + 1
    <3>1. lastId < MaxOcc
      BY <1>2 DEF Replace
    <3> QED
      BY <1>a, <3>1, TimesAssumption
  <2>1. PICK rule \in Rules, at \in now .. Horizon :
          /\ rem' = [rem EXCEPT !.active = TRUE, !.startsAt = at, !.rule = rule]
          /\ occ' = [o \in Ids |-> IF o = n THEN NewRow(ReplaceSequence, at)
                                   ELSE IF o \in Pending THEN [occ[o] EXCEPT !.status = "cancelled", !.claim = NoClaim]
                                   ELSE occ[o]]
    <3>1. PICK rule \in Rules, at \in now .. Horizon :
            /\ rem' = [rem EXCEPT !.active = TRUE, !.startsAt = at, !.rule = rule]
            /\ occ' = [o \in Ids |->
                         IF o = lastId + 1 THEN NewRow(ReplaceSequence, at)
                         ELSE IF o \in Pending
                           THEN [occ[o] EXCEPT !.status = "cancelled", !.claim = NoClaim]
                         ELSE occ[o]]
      BY <1>2 DEF Replace
    <3> QED
      BY <2>0, <3>1
  <2>2. rem'.state = "live" /\ rem'.startsAt = at
    BY <1>2, <2>1 DEF Replace, SInv, TInv, TypeOK
  <2>3. at \in Nat /\ ReplaceSequence \in Nat
    BY <1>a, TimesAssumption, ReplaceSequenceType DEF SInv
  <2>4. occ'[n] = NewRow(ReplaceSequence, at)
    BY <2>1
  <2>5. occ'[n].status = "pending"
    BY <2>4 DEF NewRow
  <2>6. Pending' = {n}
    BY <2>5 DEF SInv, SeriesRuns, Pending
  <2>7. ASSUME NEW o \in Ids \ {n}, Visible(o)'
        PROVE  occ'[o] = occ[o] /\ occ[o].status \in {"delivered", "skipped"} /\ occ[o].seq < ReplaceSequence
    <3>1. o \notin Pending /\ occ'[o] = occ[o]
      BY <1>a, <2>1, <2>7 DEF Visible, Row
    <3>2. occ[o].status \in {"delivered", "skipped"}
      BY <2>7, <3>1 DEF Visible, Pending
    <3> QED
      BY <1>a, <3>1, <3>2, ReplaceSequenceAfter DEF SInv, SeriesInOrder
  <2>8. \A o \in Ids \ {n} : Visible(o)' =>
          /\ Visible(o) /\ occ'[o].seq = occ[o].seq /\ occ[o].seq < ReplaceSequence
          /\ \A p \in Ids \ {n, o} : Visible(p)' => occ[p].seq # occ[o].seq
    BY <1>a, <2>7 DEF Visible, SeriesInOrder, SequenceOrder
  <2>9. SeriesInOrder'
    BY <1>a, <2>2, <2>3, <2>4, <2>6, <2>8, RowEntersInOrder
  <2> QED
    BY <2>2, <2>9 DEF OInv, Unused
<1>3. CASE Delete
  <2>1. \A o \in Ids : occ'[o].status \in {"none", "gone"}
    BY <1>3 DEF Delete, NoRow
  <2>2. rem'.startsAt = rem.startsAt /\ rem'.rule = rem.rule /\ rem'.state = "gone"
    BY <1>3 DEF Delete, SInv, TInv, TypeOK
  <2>3. SeriesInOrder'
    BY <1>a, <2>1, <2>2, RowsStayInOrder DEF Visible
  <2> QED
    BY <2>2, <2>3 DEF OInv, Unused
<1>4. CASE ToggleAccount
  BY <1>4, <1>d DEF ToggleAccount
<1>5. ASSUME NEW o \in Ids, Snooze(o) PROVE OInv'
  <2>1. PICK at \in now + SnoozeMin .. Horizon : occ' = [occ EXCEPT ![o].fire = at, ![o].claim = NoClaim]
    BY <1>5 DEF Snooze
  <2>2. UNCHANGED rem
    BY <1>5 DEF Snooze
  <2>3. \A p \in Ids : occ'[p].status = occ[p].status /\ occ'[p].seq = occ[p].seq /\ occ'[p].sched = occ[p].sched
    BY <1>a, <2>1 DEF Row
  <2> QED
    BY <1>b, <2>2, <2>3
<1>6. ASSUME NEW o \in Ids, Skip(o) PROVE OInv'
  BY <1>6, AdvanceKeepsOrder DEF Skip
<1>7. ASSUME NEW o \in Ids, DeleteOccurrence(o) PROVE OInv'
  <2>1. PICK whole : /\ occ' = [p \in Ids |-> IF p = o \/ (whole /\ occ[p].status # "none")
                                             THEN [NoRow EXCEPT !.status = "gone"] ELSE occ[p]]
                     /\ rem' = IF whole THEN [rem EXCEPT !.state = "gone"] ELSE rem
    BY <1>7 DEF DeleteOccurrence
  <2>2. /\ rem'.startsAt = rem.startsAt /\ rem'.rule = rem.rule /\ rem'.state \in {"gone", "live"}
    BY <1>7, <2>1 DEF DeleteOccurrence, SInv, TInv, TypeOK
  <2>3. [NoRow EXCEPT !.status = "gone"].status = "gone"
    BY DEF NoRow
  <2>4. \A p \in Ids : Visible(p)' => occ'[p] = occ[p]
    BY <2>1, <2>3 DEF Visible
  <2>5. SeriesInOrder'
    BY <1>a, <2>2, <2>4, RowsStayInOrder
  <2> QED
    BY <2>2, <2>5 DEF OInv, Unused
<1>8. CASE Tick
  BY <1>8, <1>d DEF Tick
<1>9. ASSUME NEW w \in Workers, NEW o \in Ids, NEW task, Claim(w, o, task), UNCHANGED rem PROVE OInv'
  <2>1. now + Lease \in Nat /\ occ' = [occ EXCEPT ![o].claim = now + Lease]
    BY <1>9, <1>a, TimesAssumption DEF Claim
  <2> QED
    BY <1>9, <1>b, <1>c, <2>1
<1>10. ASSUME NEW w \in Workers, Fire(w) PROVE OInv'
  <2>1. PICK t \in tasks : IF Due(t.occ) /\ rem.active THEN Claim(w, t.occ, {t}) ELSE UNCHANGED occ
    BY <1>10 DEF Fire
  <2>2. UNCHANGED rem /\ t.occ \in Ids
    BY <1>10 DEF Fire, SInv, TInv, TypeOK, Task
  <2> QED
    BY <1>9, <1>d, <2>1, <2>2
<1>11. ASSUME NEW w \in Workers, Sweep(w) PROVE OInv'
  BY <1>9, <1>11, <1>d DEF Sweep
<1>12. ASSUME NEW w \in Workers, Attempt(w) PROVE OInv'
  <2>1. PICK o : o = worker[w].occ
    OBVIOUS
  <2>2. UNCHANGED rem /\ (UNCHANGED occ \/ (occ' = [occ EXCEPT ![o].claim = NoClaim]))
    BY <1>12, <2>1 DEF Attempt
  <2>3. o \in Ids
    <3>1. worker[w] \in Request \/ worker[w] = Idle
      BY DEF SInv, TInv, TypeOK
    <3>2. worker[w].pc = "sending" /\ Idle.pc = "idle"
      BY <1>12 DEF Attempt, Idle
    <3> QED
      BY <2>1, <3>1, <3>2 DEF Request
  <2> QED
    BY <1>b, <1>c, <1>d, <2>2, <2>3 DEF NoClaim
<1>13. ASSUME NEW w \in Workers, Complete(w) PROVE OInv'
  <2>1. CASE worker[w].occ \in Pending
    BY <1>13, <2>1, AdvanceKeepsOrder DEF Complete
  <2>2. CASE worker[w].occ \notin Pending
    BY <1>13, <1>d, <2>2 DEF Complete
  <2> QED
    BY <2>1, <2>2
<1>14. ASSUME NEW w \in Workers, Abort(w) PROVE OInv'
  BY <1>14, <1>d DEF Abort
<1>15. CASE UNCHANGED vars
  BY <1>15, <1>d DEF vars
<1> QED
  BY <1>1, <1>2, <1>3, <1>4, <1>5, <1>6, <1>7, <1>8, <1>10, <1>11, <1>12, <1>13, <1>14, <1>15
     DEF Next, UserStep, WorkerStep

LEMMA OInvInit == Init => OInv
BY DEF Init, NoRow, OInv, Unused, SeriesInOrder, SequenceOrder, OnGrid, Pending

(* Edits, skips, snoozes and completions in any order neither use a number *)
(* again nor move the series off its grid: what a count rule ends by, and  *)
(* "a one-off delay cannot shift a recurring series" (reminder.Replace,    *)
(* reminder.Snooze and advanceTx).                                         *)
THEOREM SeriesStaysInOrder == Spec => []SeriesInOrder
<1>1. OInv => SeriesInOrder
  BY DEF OInv
<1> QED
  BY <1>1, OInvInit, OInvNext, SInvAlways, PTL DEF Spec

=============================================================================
