---------------------------- MODULE Idempotency ----------------------------
(* Changes the client may send again: withIdempotency (api/idempotency.go)  *)
(* around any handler, for the copies of one keyed change.  The claim, the  *)
(* look at another copy's claim, the handler and the storing of its reply   *)
(* are separate statements; the reply is sent before it is stored.          *)
EXTENDS Naturals, FiniteSets

CONSTANTS
  Copies,       \* copies of the change that may run at the same time
  CopyRun,      \* request timeout of the host, in ticks
  StaleAfter,   \* two minutes: a claim may be taken over
  KeptFor,      \* thirty days: a row is pruned
  LastInstant,  \* bound: the clock
  Cuts          \* bound: copies that die, or answer 5xx after a change

ASSUME IdempotencyAssumption ==
  /\ CopyRun \in Nat /\ StaleAfter \in Nat /\ KeptFor \in Nat
  /\ CopyRun <= StaleAfter /\ StaleAfter < KeptFor

VARIABLES
  instant,  \* the clock
  entry,    \* the idempotency_keys row
  copy,     \* [Copies -> where a copy is, since when, and its reply]
  applied,  \* history: how often the change was made
  told,     \* history: replies the client may have seen, 5xx and 409 aside
  cut,      \* history: runs whose reply was not kept, stored replies pruned
  spare     \* what is left of the bound Cuts

idempotencyVars == <<instant, entry, copy, applied, told, cut, spare>>

NoEntry == [status |-> "none", reply |-> 0, since |-> 0]
Away == [step |-> "away", since |-> 0, reply |-> 0, status |-> "none"]

-----------------------------------------------------------------------------

At(c, step) == copy[c].step = step
GoesTo(c, state) == copy' = [copy EXCEPT ![c] = state]
Claimed(c) == /\ entry' = [status |-> "running", reply |-> 0, since |-> instant]
              /\ GoesTo(c, [Away EXCEPT !.step = "run", !.since = instant])

TakeableAtOnce == entry.status \in {"none", "running"}  \* mutant: no two minutes

\* INSERT ... ON CONFLICT DO UPDATE ... WHERE status = 0 AND created_at < ...
Takeable == \/ entry.status = "none"
            \/ entry.status = "running" /\ entry.since + StaleAfter < instant

ClaimKey(c) ==
  /\ At(c, "away")
  /\ IF Takeable THEN Claimed(c)
     ELSE UNCHANGED entry /\ GoesTo(c, [Away EXCEPT !.step = "look", !.since = instant])
  /\ UNCHANGED <<instant, applied, told, cut, spare>>

\* A stored reply is replayed; a running copy means 409, a row that is gone
\* by now 500: the client comes back.
Look(c) ==
  /\ At(c, "look")
  /\ told' = IF entry.status = "kept" THEN told \cup {entry.reply} ELSE told
  /\ GoesTo(c, Away)
  /\ UNCHANGED <<instant, entry, applied, cut, spare>>

\* The handler: it makes the change, refuses it (4xx), or fails (5xx).  A
\* handler that fails after its change has committed costs a cut.  Replies
\* are told apart by the run that gave them.
ServeChange(c) ==
  /\ At(c, "run")
  /\ \E made \in BOOLEAN, fails \in BOOLEAN :
       LET wasted == IF made /\ fails THEN 1 ELSE 0
           reply == applied + cut + 1
       IN /\ wasted <= spare
          /\ spare' = spare - wasted /\ cut' = cut + wasted
          /\ applied' = IF made THEN applied + 1 ELSE applied
          /\ told' = IF fails THEN told ELSE told \cup {reply}
          /\ GoesTo(c, [copy[c] EXCEPT !.step = "keep", !.reply = reply,
                                       !.status = IF fails THEN "failed" ELSE "kept"])
  /\ UNCHANGED <<instant, entry>>

\* By key, whoever holds the claim by now.
Keep(c) ==
  /\ At(c, "keep")
  /\ entry' = IF copy[c].status = "failed" \/ entry.status = "none" THEN NoEntry
              ELSE [entry EXCEPT !.status = "kept", !.reply = copy[c].reply]
  /\ GoesTo(c, Away)
  /\ UNCHANGED <<instant, applied, told, cut, spare>>

\* The instance stops, or the statement that stores the reply fails.
CutOff(c) ==
  /\ ~At(c, "away") /\ spare > 0
  /\ spare' = spare - 1
  /\ cut' = IF At(c, "keep") THEN cut + 1 ELSE cut
  /\ GoesTo(c, Away)
  /\ UNCHANGED <<instant, entry, applied, told>>

\* Another change of the user is through and clears what is a month old.
Prune ==
  /\ entry.status # "none" /\ entry.since + KeptFor < instant
  /\ entry' = NoEntry
  /\ cut' = IF entry.status = "kept" THEN cut + 1 ELSE cut
  /\ UNCHANGED <<instant, copy, applied, told, spare>>

PassInstant ==
  /\ instant < LastInstant
  /\ \A c \in Copies : At(c, "away") \/ instant - copy[c].since < CopyRun
  /\ instant' = instant + 1
  /\ UNCHANGED <<entry, copy, applied, told, cut, spare>>

IdempotencyInit ==
  /\ instant = 1 /\ entry = NoEntry /\ copy = [c \in Copies |-> Away]
  /\ applied = 0 /\ told = {} /\ cut = 0 /\ spare = Cuts

IdempotencyNext ==
  \/ \E c \in Copies : ClaimKey(c) \/ Look(c) \/ ServeChange(c) \/ Keep(c) \/ CutOff(c)
  \/ Prune \/ PassInstant

IdempotencySpec == IdempotencyInit /\ [][IdempotencyNext]_idempotencyVars

-----------------------------------------------------------------------------

\* "Runs a keyed change once": whatever copies race, retry and take over, the
\* change is made once and every copy is told the same, but once more for
\* each run whose reply was not kept (it died, or failed after its change)
\* and each stored reply that was a month old.
AppliedOnce == applied <= 1 + cut /\ Cardinality(told) <= 1 + cut
=============================================================================
