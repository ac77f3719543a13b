----------------------------- MODULE AccessProofs -----------------------------
(***************************************************************************)
(* Proofs about the writes and the credentials an account meets at its     *)
(* door: a change kept under a key is applied once (Idempotency), mailed   *)
(* codes stay within their limits (EmailCodes), the tokens of a connected  *)
(* assistant live as long as they should (McpGrants), and a sign-in is     *)
(* carried by one thing at a time, whoever else signs in, returns or       *)
(* leaves (Sessions).                                                      *)
(***************************************************************************)
EXTENDS Idempotency, EmailCodes, McpGrants, Sessions, FiniteSetTheorems, SequenceTheorems, SetLemmas

CopyState == [step : {"away", "look", "run", "keep"}, since : Nat, reply : Nat,
              status : {"none", "failed", "kept"}]

(* What the variables hold, as far as the argument needs it.               *)
KeyTypes ==
  /\ instant \in Nat
  /\ entry \in [status : {"none", "running", "kept"}, reply : Nat, since : Nat]
  /\ copy \in [Copies -> CopyState]
  /\ applied \in Nat /\ cut \in Nat
  /\ \A c \in Copies : At(c, "keep") => copy[c].status # "none"
  /\ IsFiniteSet(told)

(* The request timeout of the host ends a run before its claim is stale.   *)
InTime == \A c \in Copies : ~At(c, "away") => instant <= copy[c].since + CopyRun

(* Who runs the change holds the claim, and holds it alone.                *)
Holds(c) == At(c, "run") \/ At(c, "keep")
Alone ==
  \A c \in Copies : Holds(c) =>
    /\ entry.status = "running" /\ entry.since = copy[c].since
    /\ \A d \in Copies : Holds(d) => d = c

(* A reply that is stored, or about to be, may have been seen.             *)
Replied == entry.status = "kept" \/ \E c \in Copies : At(c, "keep") /\ copy[c].status = "kept"
RepliesTold ==
  /\ entry.status = "kept" => entry.reply \in told
  /\ \A c \in Copies : At(c, "keep") /\ copy[c].status = "kept" => copy[c].reply \in told

(* One effect and one reply while a reply stands, none before.             *)
Paid == IF Replied THEN applied <= 1 + cut /\ Cardinality(told) <= 1 + cut
        ELSE applied <= cut /\ Cardinality(told) <= cut

KeyInv == KeyTypes /\ InTime /\ Alone /\ RepliesTold /\ Paid

-----------------------------------------------------------------------------
LEMMA KeyInvInit == IdempotencyInit => KeyInv
<1> SUFFICES ASSUME IdempotencyInit PROVE KeyInv
  OBVIOUS
<1> USE DEF IdempotencyInit, NoEntry, Away, At, CopyState
<1>1. KeyTypes
  BY FS_EmptySet DEF KeyTypes
<1>2. InTime /\ Alone /\ RepliesTold
  BY DEF InTime, Alone, Holds, RepliesTold
<1>3. Paid
  BY FS_EmptySet DEF Paid, Replied
<1> QED
  BY <1>1, <1>2, <1>3 DEF KeyInv

LEMMA AddedOne ==
  ASSUME NEW S, IsFiniteSet(S), NEW x
  PROVE  /\ IsFiniteSet(S \cup {x}) /\ Cardinality(S) \in Nat /\ Cardinality(S \cup {x}) \in Nat
         /\ Cardinality(S \cup {x}) <= Cardinality(S) + 1
         /\ x \in S => S \cup {x} = S
BY FS_AddElement, FS_CardinalityType

LEMMA KeyInvNext == KeyInv /\ [IdempotencyNext]_idempotencyVars => KeyInv'
<1> SUFFICES ASSUME KeyInv, [IdempotencyNext]_idempotencyVars PROVE KeyInv'
  OBVIOUS
<1> USE IdempotencyAssumption DEF KeyInv, CopyState
<1>0. Cardinality(told) \in Nat
  BY FS_CardinalityType DEF KeyTypes
<1>1. ASSUME NEW c \in Copies, ClaimKey(c) PROVE KeyInv'
  <2> USE DEF At
  <2>0. /\ At(c, "away") /\ UNCHANGED <<instant, applied, told, cut>>
        /\ \A d \in Copies : d # c => copy'[d] = copy[d]
        /\ IF Takeable THEN /\ entry' = [status |-> "running", reply |-> 0, since |-> instant]
                             /\ copy'[c] = [step |-> "run", since |-> instant, reply |-> 0, status |-> "none"]
                       ELSE /\ entry' = entry
                            /\ copy'[c] = [step |-> "look", since |-> instant, reply |-> 0, status |-> "none"]
        /\ \E r : copy' = [copy EXCEPT ![c] = r]
    BY <1>1 DEF ClaimKey, GoesTo, Claimed, Away, KeyTypes
  <2>a. copy' \in [Copies -> CopyState]
    <3>1. copy'[c] \in CopyState
      BY <2>0 DEF KeyTypes
    <3> QED
      BY <2>0, <3>1 DEF KeyTypes
  <2>1. KeyTypes'
    BY <2>0, <2>a DEF KeyTypes
  <2>2. InTime'
    BY <2>0 DEF InTime, KeyTypes
  <2>3. CASE Takeable
    <3>1. \A d \in Copies : ~Holds(d)
      BY <2>3 DEF Takeable, KeyTypes, InTime, Alone, Holds
    <3>2. Alone'
      BY <2>0, <2>3, <3>1 DEF Alone, Holds
    <3>3. ~Replied /\ ~Replied'
      BY <2>0, <2>3, <3>1 DEF Replied, Holds, Takeable
    <3>4. RepliesTold' /\ Paid'
      BY <2>0, <3>3 DEF RepliesTold, Paid, Replied
    <3> QED
      BY <2>1, <2>2, <3>2, <3>4
  <2>4. CASE ~Takeable
    <3>1. Alone'
      BY <2>0, <2>4 DEF Alone, Holds
    <3>2. RepliesTold' /\ (Replied <=> Replied')
      BY <2>0, <2>4 DEF RepliesTold, Replied
    <3>3. Paid'
      BY <2>0, <3>2 DEF Paid
    <3> QED
      BY <2>1, <2>2, <3>1, <3>2, <3>3
  <2> QED
    BY <2>3, <2>4
<1>2. ASSUME NEW c \in Copies, Look(c) PROVE KeyInv'
  <2> USE <1>2 DEF Look, At, GoesTo, Away
  <2>0. told' = told
    BY AddedOne DEF RepliesTold, KeyTypes
  <2>1. KeyTypes'
    BY <2>0 DEF KeyTypes
  <2>2. InTime'
    BY DEF InTime, KeyTypes
  <2>3. Alone' /\ RepliesTold' /\ (Replied <=> Replied')
    BY <2>0 DEF Alone, Holds, RepliesTold, Replied, KeyTypes
  <2>4. Paid'
    BY <2>0, <2>3 DEF Paid
  <2> QED
    BY <2>1, <2>2, <2>3, <2>4
<1>3. ASSUME NEW c \in Copies, ServeChange(c) PROVE KeyInv'
  <2> USE DEF At, GoesTo, Away
  <2>0. PICK made \in BOOLEAN, fails \in BOOLEAN :
          LET wasted == IF made /\ fails THEN 1 ELSE 0
              reply == applied + cut + 1
          IN /\ cut' = cut + wasted
             /\ applied' = IF made THEN applied + 1 ELSE applied
             /\ told' = IF fails THEN told ELSE told \cup {reply}
             /\ copy' = [copy EXCEPT ![c] = [copy[c] EXCEPT !.step = "keep", !.reply = reply,
                                    !.status = IF fails THEN "failed" ELSE "kept"]]
    BY <1>3 DEF ServeChange
  <2>1. At(c, "run") /\ UNCHANGED <<instant, entry>>
    BY <1>3 DEF ServeChange
  <2>a. applied' \in Nat /\ cut' \in Nat /\ IsFiniteSet(told')
    BY <2>0, AddedOne DEF KeyTypes
  <2>b. /\ copy' \in [Copies -> CopyState]
        /\ \A d \in Copies : copy'[d].step = "keep" => copy'[d].status # "none"
    <3>1. copy[c] \in CopyState /\ applied + cut + 1 \in Nat
      BY DEF KeyTypes
    <3>2. PICK status \in {"failed", "kept"} :
            copy' = [copy EXCEPT ![c] = [copy[c] EXCEPT !.step = "keep", !.reply = applied + cut + 1,
                                                        !.status = status]]
      BY <2>0
    <3>3. copy'[c] \in CopyState /\ copy'[c].status # "none"
      BY <3>1, <3>2 DEF CopyState, KeyTypes
    <3> QED
      BY <3>2, <3>3 DEF KeyTypes
  <2>2. KeyTypes'
    BY <2>1, <2>a, <2>b DEF KeyTypes
  <2>3. InTime'
    BY <2>0, <2>1 DEF InTime, KeyTypes
  <2>4. Alone'
    BY <2>0, <2>1 DEF Alone, Holds, KeyTypes
  <2>5. ~Replied /\ (Replied' <=> ~fails)
    BY <2>0, <2>1 DEF Alone, Holds, Replied, KeyTypes
  <2>6. RepliesTold'
    BY <2>0, <2>1 DEF Alone, Holds, RepliesTold, KeyTypes
  <2>7. Cardinality(told \cup {applied + cut + 1}) <= Cardinality(told) + 1
        /\ Cardinality(told \cup {applied + cut + 1}) \in Nat
    BY AddedOne DEF KeyTypes
  <2>8. Paid'
    BY <2>0, <2>5, <2>7, <1>0 DEF Paid, KeyTypes
  <2> QED
    BY <2>2, <2>3, <2>4, <2>6, <2>8
<1>4. ASSUME NEW c \in Copies, Keep(c) PROVE KeyInv'
  <2> USE <1>4 DEF Keep, At, GoesTo, Away, NoEntry
  <2>1. KeyTypes'
    BY DEF KeyTypes
  <2>2. InTime'
    BY DEF InTime, KeyTypes
  <2>3. Alone' /\ RepliesTold'
    BY DEF Alone, Holds, RepliesTold, KeyTypes
  <2>4. Replied <=> Replied'
    BY DEF Alone, Holds, Replied, KeyTypes
  <2>5. Paid'
    BY <2>4 DEF Paid
  <2> QED
    BY <2>1, <2>2, <2>3, <2>5
<1>5. ASSUME NEW c \in Copies, CutOff(c) PROVE KeyInv'
  <2> USE <1>5 DEF CutOff, At, GoesTo, Away
  <2>1. KeyTypes'
    BY DEF KeyTypes
  <2>2. InTime'
    BY DEF InTime, KeyTypes
  <2>3. Alone' /\ RepliesTold'
    BY DEF Alone, Holds, RepliesTold, KeyTypes
  <2>4. Replied' => Replied /\ ~At(c, "keep")
    BY DEF Alone, Holds, Replied, KeyTypes
  <2>5. Replied /\ ~Replied' => At(c, "keep")
    BY DEF Alone, Holds, Replied, KeyTypes
  <2>6. Paid'
    BY <2>4, <2>5, <1>0 DEF Paid, KeyTypes
  <2> QED
    BY <2>1, <2>2, <2>3, <2>6
<1>6. ASSUME Prune PROVE KeyInv'
  <2> USE <1>6 DEF Prune, At, NoEntry
  <2>1. KeyTypes'
    BY DEF KeyTypes
  <2>2. \A d \in Copies : ~Holds(d)
    BY DEF KeyTypes, InTime, Alone, Holds
  <2>3. InTime' /\ Alone' /\ RepliesTold'
    BY <2>2 DEF InTime, Alone, Holds, RepliesTold
  <2>4. ~Replied' /\ (Replied <=> entry.status = "kept")
    BY <2>2 DEF Replied, Holds
  <2>5. Paid'
    BY <2>4, <1>0 DEF Paid, KeyTypes
  <2> QED
    BY <2>1, <2>3, <2>5
<1>7. ASSUME PassInstant PROVE KeyInv'
  <2> USE <1>7 DEF PassInstant, At
  <2>1. KeyTypes'
    BY DEF KeyTypes
  <2>2. InTime'
    BY DEF InTime, KeyTypes
  <2>3. Alone' /\ RepliesTold' /\ (Replied <=> Replied')
    BY DEF Alone, Holds, RepliesTold, Replied
  <2>4. Paid'
    BY <2>3 DEF Paid
  <2> QED
    BY <2>1, <2>2, <2>3, <2>4
<1>8. ASSUME UNCHANGED idempotencyVars PROVE KeyInv'
  BY <1>8 DEF idempotencyVars, KeyTypes, InTime, Alone, Holds, RepliesTold, Replied, Paid, At
<1> QED
  BY <1>1, <1>2, <1>3, <1>4, <1>5, <1>6, <1>7, <1>8 DEF IdempotencyNext

(***************************************************************************)
(* A keyed change is made once and told once, whatever copies race, die    *)
(* and take over (withIdempotency), but for the replies that were not kept.*)
(***************************************************************************)
THEOREM ChangeAppliedOnce == IdempotencySpec => []AppliedOnce
<1>1. KeyInv => AppliedOnce
  BY FS_CardinalityType DEF KeyInv, KeyTypes, Paid, AppliedOnce
<1> QED
  BY <1>1, KeyInvInit, KeyInvNext, PTL DEF IdempotencySpec

-----------------------------------------------------------------------------
(* EmailCodes.                                                             *)

Code == [at : Nat, wrong : Nat, used : BOOLEAN]

CodeTypes ==
  /\ minute \in Nat /\ codes \in Seq(Code) /\ sending \in SUBSET Senders
  /\ guessing \in [Guessers -> Nat] /\ opened \in [1 .. MaxSends -> Nat]
  /\ \A g \in Guessers : guessing[g] <= Len(codes)
  /\ uncounted \in Nat

(* A code to be inserted has its place among those ever sent.              *)
RoomForSends == Len(codes) + Cardinality(sending) <= MaxSends

(* Who counted may still insert: a send that is let in sees fewer than the *)
(* limit, and no more than the senders can stand between count and insert; *)
(* a send whose count failed is let in without a look.                     *)
SendsBounded ==
  Cardinality(SentWithin(SendWindow)) + Cardinality(sending)
    <= CodeLimit + Cardinality(Senders) - 1 + uncounted

CodeUses ==
  /\ \A i \in 1 .. Len(codes) :
       opened[i] <= 1 /\ codes[i].wrong <= CodeAttempts /\ (codes[i].used <=> opened[i] = 1)
  /\ \A i \in 1 .. MaxSends : i > Len(codes) => opened[i] = 0

CodesInv == CodeTypes /\ RoomForSends /\ SendsBounded /\ CodeUses

LEMMA SetsOfCodes ==
  ASSUME CodeTypes
  PROVE  /\ IsFiniteSet(sending) /\ Cardinality(sending) \in Nat
         /\ Cardinality(sending) <= Cardinality(Senders) /\ Cardinality(Senders) \in Nat
         /\ IsFiniteSet(SentWithin(SendWindow)) /\ Cardinality(SentWithin(SendWindow)) \in Nat
         /\ DOMAIN codes = 1 .. Len(codes) /\ Len(codes) \in Nat /\ uncounted \in Nat
<1>1. IsFiniteSet(sending) /\ Cardinality(sending) <= Cardinality(Senders)
  BY FS_Subset, EmailCodesAssumption DEF CodeTypes
<1>2. DOMAIN codes = 1 .. Len(codes) /\ Len(codes) \in Nat /\ uncounted \in Nat
  BY DEF CodeTypes
<1>3. SentWithin(SendWindow) \in SUBSET (1 .. Len(codes))
  BY <1>2 DEF SentWithin
<1>4. IsFiniteSet(SentWithin(SendWindow))
  <2>1. IsFiniteSet(1 .. Len(codes))
    BY <1>2, FS_Interval
  <2> QED
    BY <1>3, <2>1, FS_Subset
<1> QED
  BY <1>1, <1>2, <1>4, FS_CardinalityType, EmailCodesAssumption

LEMMA CodesInvInit == EmailCodesInit => CodesInv
<1> SUFFICES ASSUME EmailCodesInit PROVE CodesInv
  OBVIOUS
<1> USE EmailCodesAssumption DEF EmailCodesInit
<1>1. CodeTypes
  BY DEF CodeTypes
<1>2. SentWithin(SendWindow) = {} /\ sending = {}
  BY DEF SentWithin
<1>3. RoomForSends /\ SendsBounded
  BY <1>2, FS_EmptySet, FS_CardinalityType DEF RoomForSends, SendsBounded
<1>4. CodeUses
  BY DEF CodeUses
<1> QED
  BY <1>1, <1>3, <1>4 DEF CodesInv

LEMMA CodesInvNext == CodesInv /\ [EmailCodesNext]_emailCodesVars => CodesInv'
<1> SUFFICES ASSUME CodesInv, [EmailCodesNext]_emailCodesVars PROVE CodesInv'
  OBVIOUS
<1> USE EmailCodesAssumption DEF CodesInv
<1>0. /\ IsFiniteSet(sending) /\ Cardinality(sending) \in Nat
      /\ Cardinality(sending) <= Cardinality(Senders) /\ Cardinality(Senders) \in Nat
      /\ IsFiniteSet(SentWithin(SendWindow)) /\ Cardinality(SentWithin(SendWindow)) \in Nat
      /\ DOMAIN codes = 1 .. Len(codes) /\ Len(codes) \in Nat /\ uncounted \in Nat
  BY SetsOfCodes
<1>1. ASSUME NEW s \in Senders, CountSends(s) PROVE CodesInv'
  <2> USE <1>1 DEF CountSends
  <2>1. CodeTypes'
    BY DEF CodeTypes
  <2>2. Cardinality(sending') = Cardinality(sending) + 1
    BY <1>0, FS_AddElement
  <2>3. Cardinality(sending') <= Cardinality(Senders)
    BY <2>1, FS_Subset DEF CodeTypes
  <2>4. SentWithin(SendWindow)' = SentWithin(SendWindow)
    BY DEF SentWithin
  <2>5. SendsBounded'
    BY <1>0, <2>2, <2>3, <2>4 DEF SendsBounded
  <2>6. RoomForSends'
    BY <1>0, <2>2 DEF RoomForSends
  <2>7. UNCHANGED <<codes, opened>> /\ CodeUses
    OBVIOUS
  <2>8. CodeUses'
    BY ONLY <2>7 DEF CodeUses
  <2> QED
    BY <2>1, <2>5, <2>6, <2>8
<1>f. ASSUME NEW s \in Senders, CountFails(s) PROVE CodesInv'
  <2> USE <1>f DEF CountFails
  <2>1. CodeTypes'
    BY DEF CodeTypes
  <2>2. Cardinality(sending') = Cardinality(sending) + 1
    BY <1>0, FS_AddElement
  <2>3. SentWithin(SendWindow)' = SentWithin(SendWindow)
    BY DEF SentWithin
  <2>4. SendsBounded'
    BY <1>0, <2>2, <2>3 DEF SendsBounded
  <2>5. RoomForSends'
    BY <1>0, <2>2 DEF RoomForSends
  <2>6. UNCHANGED <<codes, opened>> /\ CodeUses
    OBVIOUS
  <2>7. CodeUses'
    BY ONLY <2>6 DEF CodeUses
  <2> QED
    BY <2>1, <2>4, <2>5, <2>7
<1>2. ASSUME NEW s \in Senders, InsertCode(s) PROVE CodesInv'
  <2> DEFINE n == Len(codes) + 1
             code == [at |-> minute, wrong |-> 0, used |-> FALSE]
  <2>0. /\ s \in sending /\ codes' = Append(codes, code) /\ sending' = sending \ {s}
        /\ UNCHANGED <<minute, guessing, opened, uncounted>>
    BY <1>2 DEF InsertCode
  <2>1. /\ codes' \in Seq(Code) /\ Len(codes') = n /\ codes'[n] = code
        /\ \A i \in 1 .. Len(codes) : codes'[i] = codes[i]
    BY <2>0, <1>0 DEF CodeTypes, Code
  <2>2. CodeTypes'
    BY <2>0, <2>1, <1>0 DEF CodeTypes
  <2>3. Cardinality(sending') = Cardinality(sending) - 1
    BY <2>0, <1>0, FS_RemoveElement
  <2>4. SentWithin(SendWindow)' \in SUBSET (SentWithin(SendWindow) \cup {n})
    BY <2>0, <2>1, <2>2, <1>0 DEF SentWithin, CodeTypes
  <2>5. /\ Cardinality(SentWithin(SendWindow)') <= Cardinality(SentWithin(SendWindow)) + 1
        /\ Cardinality(SentWithin(SendWindow)') \in Nat
    <3>1. /\ IsFiniteSet(SentWithin(SendWindow) \cup {n})
          /\ Cardinality(SentWithin(SendWindow) \cup {n}) <= Cardinality(SentWithin(SendWindow)) + 1
          /\ Cardinality(SentWithin(SendWindow) \cup {n}) \in Nat
      BY <1>0, AddedOne
    <3>2. /\ IsFiniteSet(SentWithin(SendWindow)')
          /\ Cardinality(SentWithin(SendWindow)') <= Cardinality(SentWithin(SendWindow) \cup {n})
      BY <2>4, <3>1, FS_Subset
    <3> QED
      BY <1>0, <3>1, <3>2, FS_CardinalityType
  <2>a. Cardinality(sending) \in Nat /\ Cardinality(Senders) \in Nat /\ Cardinality(SentWithin(SendWindow)) \in Nat
    BY <1>0, FS_CardinalityType
  <2>b. Len(codes') + Cardinality(sending') <= MaxSends
    <3>1. Len(codes) + Cardinality(sending) <= MaxSends /\ Len(codes) \in Nat
      BY <1>0 DEF RoomForSends
    <3> QED
      BY <2>1, <2>3, <2>a, <3>1
  <2>c. Cardinality(SentWithin(SendWindow)') + Cardinality(sending') <= CodeLimit + Cardinality(Senders) - 1 + uncounted
    <3>1. Cardinality(SentWithin(SendWindow)) + Cardinality(sending)
            <= CodeLimit + Cardinality(Senders) - 1 + uncounted
      BY <1>0 DEF SendsBounded
    <3> QED
      BY <1>0, <2>3, <2>5, <2>a, <3>1
  <2>6. SendsBounded' /\ RoomForSends'
    BY <2>0, <2>b, <2>c DEF SendsBounded, RoomForSends
  <2>7. CodeUses'
    <3>1. n \in 1 .. MaxSends
      BY <1>0, <2>0, <2>1, <2>3, <2>6, <2>2, FS_CardinalityType, SetsOfCodes, FS_Subset DEF RoomForSends
    <3>2. opened[n] = 0
      BY <3>1, <1>0 DEF CodeUses
    <3>3. \A i \in 1 .. n : opened'[i] <= 1 /\ codes'[i].wrong <= CodeAttempts
                            /\ (codes'[i].used <=> opened'[i] = 1)
      BY <2>0, <2>1, <3>1, <3>2, <1>0 DEF CodeUses
    <3> QED
      BY <2>0, <2>1, <3>3, <1>0 DEF CodeUses
  <2> QED
    BY <2>2, <2>6, <2>7
<1>3. ASSUME NEW g \in Guessers, ChooseCode(g) PROVE CodesInv'
  <2> USE <1>3 DEF ChooseCode
  <2>1. Newest(Unconsumed) \in Nat /\ Newest(Unconsumed) <= Len(codes)
    <3>1. Unconsumed # {} /\ Unconsumed \in SUBSET (1 .. Len(codes))
      BY <1>0 DEF Unconsumed
    <3>2. \E i \in Unconsumed : \A j \in Unconsumed : j <= i
      <4>1. Unconsumed \in SUBSET Nat /\ \A j \in Unconsumed : j <= Len(codes)
        BY <3>1, <1>0
      <4> QED
        BY <3>1, <4>1, <1>0, GreatestNatural
    <3> DEFINE n == Newest(Unconsumed)
    <3>3. n \in Unconsumed
      BY <3>2 DEF Newest
    <3> HIDE DEF n
    <3>4. n \in Nat /\ n <= Len(codes)
      BY <3>1, <3>3, <1>0
    <3> QED
      BY <3>4 DEF n
  <2>2. CodeTypes'
    BY <2>1 DEF CodeTypes
  <2>3. SentWithin(SendWindow)' = SentWithin(SendWindow)
    BY DEF SentWithin
  <2>4. RoomForSends' /\ SendsBounded' /\ CodeUses'
    BY <2>3 DEF RoomForSends, SendsBounded, CodeUses
  <2> QED
    BY <2>2, <2>4
<1>4. ASSUME NEW g \in Guessers, TryCode(g) PROVE CodesInv'
  <2> DEFINE i == guessing[g]
  <2>0. /\ i # 0 /\ guessing' = [guessing EXCEPT ![g] = 0] /\ UNCHANGED <<minute, sending, uncounted>>
    BY <1>4 DEF TryCode
  <2>1. i \in 1 .. Len(codes) /\ i \in 1 .. MaxSends /\ codes[i] \in Code
    BY <2>0, <1>0 DEF CodeTypes, RoomForSends
  <2>2. /\ codes' \in Seq(Code) /\ Len(codes') = Len(codes) /\ opened' \in [1 .. MaxSends -> Nat]
        /\ \A j \in 1 .. Len(codes) : codes'[j].at = codes[j].at
        /\ CodeUses'
    <3>1. CASE UNCHANGED <<codes, opened>>
      BY <3>1 DEF CodeTypes, CodeUses
    <3>2. CASE /\ Opens(codes[i]) /\ codes' = [codes EXCEPT ![i].wrong = @ + 1] /\ UNCHANGED opened
      <4> DEFINE e == [codes[i] EXCEPT !.wrong = @ + 1]
      <4>1. e \in Code /\ e.at = codes[i].at /\ e.used = codes[i].used /\ e.wrong = codes[i].wrong + 1
        <5>1. PICK c \in Code : c = codes[i]
          BY <2>1
        <5>2. PICK w : w = c.wrong + 1
          OBVIOUS
        <5>3. c.at \in Nat /\ c.wrong \in Nat /\ c.used \in BOOLEAN /\ w \in Nat
          BY <5>2 DEF Code
        <5>4. c = [at |-> c.at, wrong |-> c.wrong, used |-> c.used]
          BY DEF Code
        <5>5. e = [at |-> c.at, wrong |-> w, used |-> c.used]
          BY <5>1, <5>2, <5>4
        <5> QED
          BY <5>1, <5>2, <5>3, <5>5 DEF Code
      <4>2. codes' = [codes EXCEPT ![i] = e]
        BY <3>2
      <4> HIDE DEF e
      <4>3. /\ codes' \in Seq(Code) /\ Len(codes') = Len(codes)
            /\ \A j \in 1 .. Len(codes) : codes'[j] = IF j = i THEN e ELSE codes[j]
        BY <4>1, <4>2, <2>1, ExceptSeq DEF CodeTypes
      <4>4. e.wrong <= CodeAttempts
        <5>1. codes[i].wrong < CodeAttempts
          BY <3>2 DEF Opens
        <5>2. codes[i].wrong \in Nat
          BY <2>1 DEF Code
        <5> QED
          BY <1>0, <4>1, <5>1, <5>2
      <4>5. \A j \in 1 .. Len(codes) : opened'[j] <= 1 /\ codes'[j].wrong <= CodeAttempts
                                      /\ (codes'[j].used <=> opened'[j] = 1)
        <5> SUFFICES ASSUME NEW j \in 1 .. Len(codes)
                     PROVE  opened[j] <= 1 /\ codes'[j].wrong <= CodeAttempts /\ (codes'[j].used <=> opened[j] = 1)
          BY <3>2
        <5>1. opened[j] <= 1 /\ codes[j].wrong <= CodeAttempts /\ (codes[j].used <=> opened[j] = 1)
          BY <1>0 DEF CodeUses
        <5>2. CASE j = i
          BY <4>1, <4>3, <4>4, <5>1, <5>2
        <5>3. CASE j # i
          BY <4>3, <5>1, <5>3
        <5> QED
          BY <5>2, <5>3
      <4>6. CodeUses'
        <5>1. \A j \in 1 .. MaxSends : j > Len(codes) => opened'[j] = 0
          BY <3>2, <1>0 DEF CodeUses
        <5> QED
          BY <4>3, <4>5, <5>1 DEF CodeUses
      <4>7. \A j \in 1 .. Len(codes) : codes'[j].at = codes[j].at
        BY <4>1, <4>3
      <4>8. opened' \in [1 .. MaxSends -> Nat]
        BY <1>0, <3>2 DEF CodeTypes
      <4> QED
        BY <4>3, <4>6, <4>7, <4>8
    <3>3. CASE /\ Opens(codes[i]) /\ codes' = [codes EXCEPT ![i].used = TRUE]
               /\ opened' = [opened EXCEPT ![i] = @ + 1]
      <4> DEFINE e == [codes[i] EXCEPT !.used = TRUE]
      <4>1. e \in Code /\ e.at = codes[i].at /\ e.used /\ e.wrong = codes[i].wrong
        BY <2>1 DEF Code
      <4>2. codes' = [codes EXCEPT ![i] = e]
        BY <3>3
      <4> HIDE DEF e
      <4>3. /\ codes' \in Seq(Code) /\ Len(codes') = Len(codes)
            /\ \A j \in 1 .. Len(codes) : codes'[j] = IF j = i THEN e ELSE codes[j]
        BY <4>1, <4>2, <2>1, ExceptSeq DEF CodeTypes
      <4>4. opened[i] = 0
        BY <3>3, <2>1 DEF Opens, CodeUses, CodeTypes
      <4>5. /\ opened' \in [1 .. MaxSends -> Nat] /\ opened'[i] = 1
            /\ \A j \in 1 .. MaxSends : j # i => opened'[j] = opened[j]
        BY <3>3, <4>4, <2>1 DEF CodeTypes
      <4> QED
        <5>1. Len(codes) <= MaxSends
          BY <1>0 DEF RoomForSends
        <5>2. \A j \in 1 .. Len(codes) : opened'[j] <= 1 /\ codes'[j].wrong <= CodeAttempts
                                        /\ (codes'[j].used <=> opened'[j] = 1)
          <6>1. \A j \in 1 .. Len(codes) : j \in 1 .. MaxSends
            BY <5>1, <1>0
          <6>2. e.wrong <= CodeAttempts
            BY <4>1, <2>1 DEF CodeUses
          <6> SUFFICES ASSUME NEW j \in 1 .. Len(codes)
                       PROVE  opened'[j] <= 1 /\ codes'[j].wrong <= CodeAttempts /\ (codes'[j].used <=> opened'[j] = 1)
            OBVIOUS
          <6>3. j \in 1 .. MaxSends
            BY <6>1
          <6>4. CASE j = i
            BY <4>1, <4>3, <4>5, <6>2, <6>4
          <6>5. CASE j # i
            <7>1. opened'[j] = opened[j] /\ codes'[j] = codes[j]
              BY <4>3, <4>5, <6>3, <6>5
            <7>2. opened[j] <= 1 /\ codes[j].wrong <= CodeAttempts /\ (codes[j].used <=> opened[j] = 1)
              BY <1>0 DEF CodeUses
            <7> QED
              BY <7>1, <7>2
          <6> QED
            BY <6>4, <6>5
        <5>3. \A j \in 1 .. MaxSends : j > Len(codes) => opened'[j] = 0
          <6> SUFFICES ASSUME NEW j \in 1 .. MaxSends, j > Len(codes) PROVE opened'[j] = 0
            OBVIOUS
          <6>1. j # i
            BY <2>1, <1>0
          <6>2. opened[j] = 0
            BY <1>0 DEF CodeUses
          <6> QED
            BY <4>5, <6>1, <6>2
        <5>4. \A j \in 1 .. Len(codes) : codes'[j].at = codes[j].at
          BY <4>1, <4>3
        <5> QED
          BY <4>3, <4>5, <5>2, <5>3, <5>4 DEF CodeUses
    <3> QED
      BY <1>4, <3>1, <3>2, <3>3 DEF TryCode
  <2>3. CodeTypes'
    BY <2>0, <2>2, <1>0 DEF CodeTypes
  <2>4. SentWithin(SendWindow)' = SentWithin(SendWindow)
    BY <2>0, <2>2, <2>3, <1>0 DEF SentWithin, CodeTypes
  <2>5. RoomForSends' /\ SendsBounded'
    BY <2>0, <2>2, <2>4 DEF RoomForSends, SendsBounded
  <2> QED
    BY <2>2, <2>3, <2>5
<1>5. ASSUME PassMinute PROVE CodesInv'
  <2> USE <1>5 DEF PassMinute
  <2>1. CodeTypes'
    BY DEF CodeTypes
  <2>2. SentWithin(SendWindow)' \in SUBSET SentWithin(SendWindow)
    <3>1. \A i \in 1 .. Len(codes) : codes[i].at \in Nat
      <4>1. \A i \in 1 .. Len(codes) : codes[i] \in Code
        BY ElementOfSeq DEF CodeTypes
      <4> QED
        BY <4>1 DEF Code
    <3>2. minute \in Nat /\ SendWindow \in Nat
      BY DEF CodeTypes
    <3>3. \A i \in 1 .. Len(codes) : codes[i].at + SendWindow > minute + 1 => codes[i].at + SendWindow > minute
      BY <3>1, <3>2
    <3> QED
      BY <3>3, <1>0 DEF SentWithin
  <2>3. /\ Cardinality(SentWithin(SendWindow)') <= Cardinality(SentWithin(SendWindow))
        /\ Cardinality(SentWithin(SendWindow)') \in Nat
    BY <1>0, <2>2, FS_Subset, FS_CardinalityType
  <2>4. RoomForSends' /\ SendsBounded' /\ CodeUses'
    BY <1>0, <2>3 DEF RoomForSends, SendsBounded, CodeUses
  <2> QED
    BY <2>1, <2>4
<1>6. ASSUME UNCHANGED emailCodesVars PROVE CodesInv'
  BY <1>6 DEF emailCodesVars, CodeTypes, RoomForSends, SendsBounded, CodeUses, SentWithin
<1> QED
  BY <1>1, <1>f, <1>2, <1>3, <1>4, <1>5, <1>6 DEF EmailCodesNext

(***************************************************************************)
(* However sends and guesses overlap, the hour's limit is passed by less   *)
(* than the senders there are and the sends whose count failed, and a code *)
(* opens one sign-in and takes no guess after its last (sendEmailCode,     *)
(* consumeEmailCode).                                                      *)
(***************************************************************************)
THEOREM CodesStayBounded == EmailCodesSpec => []CodesBounded
<1>1. CodesInv => CodesBounded
  <2> SUFFICES ASSUME CodesInv PROVE CodesBounded
    OBVIOUS
  <2>1. /\ Cardinality(sending) \in Nat /\ Cardinality(Senders) \in Nat
        /\ Cardinality(SentWithin(SendWindow)) \in Nat /\ DOMAIN codes = 1 .. Len(codes)
        /\ uncounted \in Nat
    BY SetsOfCodes DEF CodesInv
  <2>2. Cardinality(SentWithin(SendWindow)) <= CodeLimit + Cardinality(Senders) - 1 + uncounted
    BY <2>1, EmailCodesAssumption DEF CodesInv, SendsBounded
  <2> QED
    BY <2>1, <2>2 DEF CodesInv, CodeUses, CodesBounded
<1> QED
  BY <1>1, CodesInvInit, CodesInvNext, PTL DEF EmailCodesSpec

-----------------------------------------------------------------------------
(* McpGrants.                                                              *)

Secret == [no : 1 .. MaxSecrets, grant : Nat, kind : {"code", "refresh", "spent"}, until : Nat]
Issue == [kind : {"none", "code", "refresh"}, grant : Nat, at : Nat, from : Nat]
CallState == [step : {"closed", "grant", "code", "issue"}, grant : Nat, from : Nat]

McpTypes ==
  /\ tick \in Nat \ {0} /\ grant \in Nat /\ grants \in Nat
  /\ secrets \in SUBSET Secret /\ issued \in [1 .. MaxSecrets -> Issue]
  /\ firstUse \in [1 .. MaxSecrets -> Nat] /\ call \in [Calls -> CallState]
  /\ \A no \in 1 .. MaxSecrets : firstUse[no] <= tick

(* Tokens hang on the grant there is, and no grant comes back.             *)
UnderGrant ==
  /\ grant # 0 => grant = grants
  /\ grant = 0 => secrets = {}
  /\ \A no \in 1 .. MaxSecrets : issued[no].kind # "none" => issued[no].grant \in 1 .. grants
  /\ \A k \in Calls : call[k].step \in {"code", "issue"} => call[k].grant \in 1 .. grants

(* A number that was not given out is nowhere.                             *)
Unused ==
  \A no \in 1 .. MaxSecrets : issued[no].kind = "none" =>
    /\ firstUse[no] = 0 /\ no \notin revoked
    /\ \A row \in secrets : row.no # no
    /\ \A other \in 1 .. MaxSecrets : issued[other].from # no
    /\ \A k \in Calls : call[k].from # no

(* When a refresh token ends: after its life, or the grace of its first use.*)
Full(no) == issued[no].at + McpTTL
EndsAt(no) ==
  IF firstUse[no] = 0 \/ Full(no) <= firstUse[no] + RefreshGrace THEN Full(no)
  ELSE firstUse[no] + RefreshGrace

RowsTell ==
  /\ \A row \in secrets :
       /\ row.no \notin revoked /\ row.grant = grant /\ issued[row.no].grant = grant
       /\ IF row.kind = "code" THEN issued[row.no].kind = "code"
          ELSE issued[row.no].kind = "refresh" /\ row.until = EndsAt(row.no)
  /\ \A row, other \in secrets : row.no = other.no => row = other

(* A token that still works by its dates has its row.                      *)
RowsKept ==
  \A no \in 1 .. MaxSecrets :
    issued[no].kind = "refresh" /\ issued[no].grant = grant /\ no \notin revoked /\ tick < EndsAt(no)
      => \E row \in secrets : row.no = no

(* A code is in its row, in a request that redeems it, or in one token.    *)
Redeems(k, code) == call[k].step = "issue" /\ call[k].from = code
OneLine ==
  /\ \A k \in Calls : call[k].step # "issue" => call[k].from = 0
  /\ \A code \in 1 .. MaxSecrets : issued[code].kind = "code" =>
       /\ \A m, n \in 1 .. MaxSecrets : issued[m].from = code /\ issued[n].from = code => m = n
       /\ \A k, l \in Calls : Redeems(k, code) /\ Redeems(l, code) => k = l
       /\ \A m \in 1 .. MaxSecrets, k \in Calls : ~(issued[m].from = code /\ Redeems(k, code))
       /\ (\E row \in secrets : row.no = code) =>
            /\ \A m \in 1 .. MaxSecrets : issued[m].from # code
            /\ \A k \in Calls : ~Redeems(k, code)

GrantInv == McpTypes /\ UnderGrant /\ Unused /\ RowsTell /\ RowsKept /\ OneLine

LEMMA GrantInvInit == McpInit => GrantInv
<1> SUFFICES ASSUME McpInit PROVE GrantInv
  OBVIOUS
<1> USE McpGrantsAssumption DEF McpInit, Unissued, Closed
<1>1. McpTypes
  BY DEF McpTypes, Issue, CallState
<1>2. UnderGrant /\ Unused /\ RowsTell /\ RowsKept
  BY DEF UnderGrant, Unused, RowsTell, RowsKept
<1>3. OneLine
  BY DEF OneLine, Redeems
<1> QED
  BY <1>1, <1>2, <1>3 DEF GrantInv

(* A request moves, and nothing else: what it then knows is all that counts.*)
LEMMA CallMoves ==
  ASSUME GrantInv, NEW k \in Calls, NEW state \in CallState, call' = [call EXCEPT ![k] = state],
         UNCHANGED <<tick, grant, grants, secrets, issued, firstUse, revoked>>,
         state.from = 0, state.step # "issue", state.step = "code" => state.grant \in 1 .. grants
  PROVE  GrantInv'
<1> USE McpGrantsAssumption DEF GrantInv
<1>1. McpTypes'
  BY DEF McpTypes
<1>2. \A l \in Calls : call'[l] = IF l = k THEN state ELSE call[l]
  BY DEF McpTypes
<1>3. UnderGrant' /\ Unused'
  BY <1>2 DEF UnderGrant, Unused
<1>4. RowsTell' /\ RowsKept'
  BY DEF RowsTell, RowsKept, EndsAt, Full
<1>5. OneLine'
  BY <1>2 DEF OneLine, Redeems
<1> QED
  BY <1>1, <1>3, <1>4, <1>5

(* The insert of a code or of a refresh token under the request's grant.   *)
LEMMA InsertKeeps ==
  ASSUME GrantInv, NEW k \in Calls, NEW kind \in {"code", "refresh"}, NEW life \in Nat,
         Numbers # {}, NEW rows \in SUBSET secrets,
         \A row \in secrets : row.until >= tick => row \in rows,
         Inserts(k, kind, life, rows), call' = [call EXCEPT ![k] = Closed],
         IF kind = "code" THEN call[k].step = "code" ELSE call[k].step = "issue" /\ life = McpTTL,
         UNCHANGED <<tick, grant, grants, firstUse, revoked>>
  PROVE  GrantInv'
<1> USE McpGrantsAssumption DEF GrantInv
<1>3. PICK no \in 1 .. MaxSecrets : no = NextNo /\ issued[no].kind = "none"
  <2>1. Numbers \in SUBSET Nat
    BY DEF Numbers
  <2>2. \E n \in Numbers : \A other \in Numbers : n <= other
    BY <2>1, LeastNatural
  <2> QED
    BY <2>2 DEF NextNo, Numbers
<1> DEFINE row0 == [no |-> no, grant |-> grant, kind |-> kind, until |-> tick + life]
           issue0 == [kind |-> kind, grant |-> grant, at |-> tick, from |-> call[k].from]
<1>0. Closed \in CallState /\ Closed.from = 0 /\ Closed.step = "closed" /\ Closed.grant = 0
  BY DEF Closed, CallState
<1>1. CASE call[k].grant # grant
  <2>1. UNCHANGED <<secrets, issued>>
    BY <1>1 DEF Inserts
  <2> QED
    BY <1>0, <2>1, CallMoves
<1>2. CASE call[k].grant = grant
  <2>1. /\ secrets' = rows \cup {row0} /\ issued' = [issued EXCEPT ![no] = issue0]
    BY <1>2, <1>3 DEF Inserts
  <2>2. no \in 1 .. MaxSecrets /\ issued[no].kind = "none"
    BY <1>3
  <2>3. grant \in 1 .. grants /\ call[k].from \in Nat /\ tick \in Nat /\ call[k] \in CallState
    BY <1>2 DEF UnderGrant, McpTypes, CallState
  <2>4. /\ row0 \in Secret /\ row0.no = no /\ row0.grant = grant /\ row0.kind = kind
        /\ row0.until = tick + life
        /\ issue0 \in Issue /\ issue0.kind = kind /\ issue0.grant = grant /\ issue0.at = tick
        /\ issue0.from = call[k].from
    BY <2>2, <2>3 DEF Secret, Issue, McpTypes
  <2> HIDE DEF row0, issue0
  <2>5. /\ \A n \in 1 .. MaxSecrets : issued'[n] = IF n = no THEN issue0 ELSE issued[n]
        /\ \A l \in Calls : call'[l] = IF l = k THEN Closed ELSE call[l]
    BY <2>1, <2>2 DEF McpTypes
  <2>6. McpTypes'
    BY <1>0, <2>1, <2>2, <2>4, <2>5 DEF McpTypes
  <2>7. UnderGrant'
    BY <1>0, <2>1, <2>2, <2>3, <2>4, <2>5 DEF UnderGrant
  <2>8. Unused'
    <3>1. firstUse[no] = 0 /\ no \notin revoked /\ (\A row \in secrets : row.no # no) /\ call[k].from # no
      BY <2>2 DEF Unused
    <3> QED
      BY <1>0, <2>1, <2>2, <2>4, <2>5, <3>1 DEF Unused
  <2>9. \A n \in 1 .. MaxSecrets : n # no => EndsAt(n)' = EndsAt(n)
    BY <2>5 DEF EndsAt, Full
  <2>10. kind = "refresh" => EndsAt(no)' = tick + life
    <3>1. firstUse'[no] = 0
      BY <2>2 DEF Unused
    <3>2. kind = "refresh" => issued'[no].at + McpTTL = tick + life
      BY <2>2, <2>4, <2>5
    <3> QED
      BY <3>1, <3>2 DEF EndsAt, Full
  <2>11. \A row \in secrets : row.no \in 1 .. MaxSecrets /\ row.no # no
    BY <2>2 DEF Unused, McpTypes, Secret
  <2>12. RowsTell'
    <3>1. no \notin revoked
      BY <2>2 DEF Unused
    <3>2. \A row \in rows : /\ issued'[row.no] = issued[row.no] /\ EndsAt(row.no)' = EndsAt(row.no)
                            /\ row \in secrets
      BY <2>5, <2>9, <2>11
    <3> QED
      <4>1. \A row \in secrets' : row \in rows \/ row = row0
        BY <2>1
      <4>2. /\ row0.no \notin revoked /\ row0.grant = grant /\ issued'[row0.no].grant = grant
            /\ IF row0.kind = "code" THEN issued'[row0.no].kind = "code"
               ELSE issued'[row0.no].kind = "refresh" /\ row0.until = EndsAt(no)'
        BY <2>2, <2>4, <2>5, <2>10, <3>1
      <4>3. \A row \in rows :
              /\ row.no \notin revoked /\ row.grant = grant /\ issued'[row.no].grant = grant
              /\ IF row.kind = "code" THEN issued'[row.no].kind = "code"
                 ELSE issued'[row.no].kind = "refresh" /\ row.until = EndsAt(row.no)'
        BY <3>2 DEF RowsTell
      <4>4. \A row, other \in secrets' : row.no = other.no => row = other
        BY <2>4, <2>11, <3>2, <4>1 DEF RowsTell
      <4> QED
        BY <2>4, <4>1, <4>2, <4>3, <4>4 DEF RowsTell
  <2>13. RowsKept'
    <3> SUFFICES ASSUME NEW n \in 1 .. MaxSecrets, issued'[n].kind = "refresh", issued'[n].grant = grant,
                        n \notin revoked, tick < EndsAt(n)'
                 PROVE  \E row \in secrets' : row.no = n
      BY DEF RowsKept
    <3>1. CASE n = no
      BY <2>1, <2>4, <3>1
    <3>2. CASE n # no
      <4>1. PICK row \in secrets : row.no = n
        BY <2>5, <2>9, <3>2 DEF RowsKept
      <4>2. row.until = EndsAt(n) /\ row.until > tick /\ row.until \in Nat
        BY <2>5, <2>9, <3>2, <4>1 DEF RowsTell, McpTypes, Secret
      <4> QED
        BY <2>1, <4>1, <4>2, <2>3
    <3> QED
      BY <3>1, <3>2
  <2>14. OneLine'
    <3>1. \A m \in 1 .. MaxSecrets : issued[m].from # no
      BY <2>2 DEF Unused
    <3>2. \A l \in Calls : call[l].from # no
      BY <2>2 DEF Unused
    <3>3. \A l \in Calls : call'[l].step # "issue" => call'[l].from = 0
      BY <1>0, <2>5 DEF OneLine
    <3>4. ASSUME NEW code \in 1 .. MaxSecrets, issued'[code].kind = "code"
          PROVE  /\ \A m, n \in 1 .. MaxSecrets : issued'[m].from = code /\ issued'[n].from = code => m = n
                 /\ \A l, h \in Calls : Redeems(l, code)' /\ Redeems(h, code)' => l = h
                 /\ \A m \in 1 .. MaxSecrets, l \in Calls : ~(issued'[m].from = code /\ Redeems(l, code)')
                 /\ (\E row \in secrets' : row.no = code) =>
                      /\ \A m \in 1 .. MaxSecrets : issued'[m].from # code
                      /\ \A l \in Calls : ~Redeems(l, code)'
      <4>1. \A l \in Calls : Redeems(l, code)' <=> l # k /\ Redeems(l, code)
        BY <1>0, <2>5 DEF Redeems
      <4>2. CASE code = no
        <5>1. \A m \in 1 .. MaxSecrets : issued'[m].from # code
          BY <2>4, <2>5, <3>1, <3>2, <4>2
        <5>2. \A l \in Calls : ~Redeems(l, code)'
          BY <3>2, <4>1, <4>2 DEF Redeems
        <5> QED
          BY <5>1, <5>2
      <4>3. CASE code # no
        <5>1. issued[code].kind = "code"
          BY <2>5, <4>3, <3>4
        <5>2. issued'[no].from = code => Redeems(k, code)
          BY <2>2, <2>4, <2>5, <3>4 DEF Redeems, OneLine
        <5>3. \A m \in 1 .. MaxSecrets : m # no => issued'[m].from = issued[m].from
          BY <2>5
        <5>4. (\E row \in secrets' : row.no = code) => (\E row \in secrets : row.no = code)
          BY <2>1, <2>4, <4>3
        <5> QED
          BY <4>1, <5>1, <5>2, <5>3, <5>4 DEF OneLine
      <4> QED
        BY <4>2, <4>3
    <3> QED
      BY <3>3, <3>4 DEF OneLine
  <2> QED
    BY <2>6, <2>7, <2>8, <2>12, <2>13, <2>14
<1> QED
  BY <1>1, <1>2

LEMMA EndsAtSome ==
  ASSUME McpTypes
  PROVE  \A no \in 1 .. MaxSecrets : EndsAt(no) \in Nat
<1> SUFFICES ASSUME NEW no \in 1 .. MaxSecrets PROVE EndsAt(no) \in Nat
  OBVIOUS
<1>1. firstUse[no] \in Nat /\ issued[no] \in Issue
  BY DEF McpTypes
<1>2. issued[no].at \in Nat
  BY <1>1 DEF Issue
<1> QED
  BY <1>1, <1>2, McpGrantsAssumption DEF EndsAt, Full

LEMMA GrantInvNext == GrantInv /\ [McpNext]_mcpVars => GrantInv'
<1> SUFFICES ASSUME GrantInv, [McpNext]_mcpVars PROVE GrantInv'
  OBVIOUS
<1> USE McpGrantsAssumption DEF GrantInv
<1>0. /\ tick \in Nat \ {0} /\ grant \in Nat /\ grants \in Nat
      /\ Closed \in CallState /\ Closed.from = 0 /\ Closed.step = "closed"
      /\ \A row \in secrets : row \in Secret /\ row.no \in 1 .. MaxSecrets /\ row.until \in Nat
      /\ secrets # {} => grant \in 1 .. grants
  BY DEF McpTypes, Closed, CallState, Secret, UnderGrant
<1>1. ASSUME UNCHANGED <<tick, grant, grants, secrets, issued, firstUse, revoked, call>> PROVE GrantInv'
  BY <1>1 DEF McpTypes, UnderGrant, Unused, RowsTell, RowsKept, EndsAt, Full, OneLine, Redeems
<1>2. CASE Register \/ UNCHANGED mcpVars
  BY <1>1, <1>2 DEF Register, mcpVars
<1>3. ASSUME NEW k \in Calls, ParseAuthorize(k) \/ Hangup(k) PROVE GrantInv'
  <2>1. [Closed EXCEPT !.step = "grant"] = [step |-> "grant", grant |-> 0, from |-> 0]
    BY DEF Closed
  <2>2. [step |-> "grant", grant |-> 0, from |-> 0] \in CallState
    BY DEF CallState
  <2>3. CASE ParseAuthorize(k)
    BY <2>1, <2>2, <2>3, CallMoves DEF ParseAuthorize, MovesTo
  <2>4. CASE Hangup(k)
    BY <1>0, <2>4, CallMoves DEF Hangup, MovesTo
  <2> QED
    BY <1>3, <2>3, <2>4
<1>4. ASSUME NEW k \in Calls, UpsertGrant(k) PROVE GrantInv'
  <2>1. CASE client = 0
    BY <1>0, <1>4, <2>1, CallMoves DEF UpsertGrant, MovesTo
  <2>2. CASE client # 0
    <3>1. PICK state : state = [step |-> "code", grant |-> grant', from |-> 0]
      OBVIOUS
    <3>2. /\ grants' = (IF grant = 0 THEN grants + 1 ELSE grants)
          /\ grant' = (IF grant = 0 THEN grants + 1 ELSE grant)
          /\ call' = [call EXCEPT ![k] = state]
          /\ UNCHANGED <<tick, client, secrets, issued, firstUse, revoked>>
      BY <1>4, <2>2, <3>1 DEF UpsertGrant, MovesTo, Closed
    <3>3. grant' = grants' /\ grants' \in Nat /\ grant' \in 1 .. grants' /\ 1 .. grants \in SUBSET (1 .. grants')
      BY <1>0, <3>2 DEF UnderGrant
    <3>4. state \in CallState /\ state.step = "code" /\ state.from = 0 /\ state.grant = grant'
      BY <3>1, <3>3 DEF CallState
    <3>5. CASE grant # 0
      BY <3>2, <3>3, <3>4, <3>5, CallMoves
    <3>6. CASE grant = 0
      <4>1. \A l \in Calls : call'[l] = IF l = k THEN state ELSE call[l]
        BY <3>2 DEF McpTypes
      <4>2. McpTypes'
        BY <3>2, <3>3, <3>4 DEF McpTypes
      <4>3. UnderGrant'
        BY <3>2, <3>3, <3>4, <3>6, <4>1 DEF UnderGrant
      <4>4. Unused'
        BY <3>2, <3>4, <4>1 DEF Unused
      <4>5. RowsTell'
        BY <3>2, <3>6 DEF RowsTell, UnderGrant
      <4>6. RowsKept'
        <5>1. \A no \in 1 .. MaxSecrets : issued[no].kind = "refresh" => issued[no].grant # grant'
          BY <1>0, <3>2, <3>6 DEF UnderGrant
        <5> QED
          BY <3>2, <5>1 DEF RowsKept
      <4>7. OneLine'
        BY <3>2, <3>4, <4>1 DEF OneLine, Redeems
      <4> QED
        BY <4>2, <4>3, <4>4, <4>5, <4>6, <4>7
    <3> QED
      BY <3>5, <3>6
  <2> QED
    BY <2>1, <2>2
<1>5. ASSUME NEW k \in Calls, IssueCode(k) PROVE GrantInv'
  BY <1>5, InsertKeeps DEF IssueCode, Standing, MovesTo
<1>6. ASSUME NEW k \in Calls, IssueTokens(k) PROVE GrantInv'
  <2>1. PICK rows \in SUBSET secrets : rows = {row \in secrets : row.until >= tick}
    OBVIOUS
  <2>2. Inserts(k, "refresh", McpTTL, rows)
    BY <1>6, <2>1 DEF IssueTokens
  <2> QED
    BY <1>6, <2>1, <2>2, InsertKeeps DEF IssueTokens, Standing, MovesTo
<1>7. ASSUME NEW k \in Calls, RedeemCode(k) PROVE GrantInv'
  <2>1. PICK row \in secrets :
          /\ row.kind = "code" /\ secrets' = secrets \ {row} /\ firstUse' = Presented(row.no)
          /\ MovesTo(k, IF tick > row.until THEN Closed
                        ELSE [step |-> "issue", grant |-> row.grant, from |-> row.no])
    BY <1>7 DEF RedeemCode
  <2>2. PICK no \in 1 .. MaxSecrets : no = row.no
    BY <1>0
  <2>3. PICK state : /\ state = (IF tick > row.until THEN Closed
                                 ELSE [step |-> "issue", grant |-> row.grant, from |-> row.no])
    OBVIOUS
  <2>4. /\ call[k].step = "closed" /\ call' = [call EXCEPT ![k] = state]
        /\ UNCHANGED <<tick, client, grant, grants, issued, revoked>>
    BY <1>7, <2>1, <2>3 DEF RedeemCode, Standing, MovesTo
  <2>5. /\ issued[no].kind = "code" /\ no \notin revoked /\ row.grant = grant /\ grant \in 1 .. grants
        /\ \A other \in secrets' : other \in secrets /\ other.no # no
        /\ \A m \in 1 .. MaxSecrets : issued[m].from # no
        /\ \A l \in Calls : ~Redeems(l, no)
    BY <1>0, <2>1, <2>2 DEF RowsTell, OneLine
  <2>6. /\ state \in CallState
        /\ \/ state.step = "closed" /\ state.from = 0
           \/ state.step = "issue" /\ state.from = no /\ state.grant = grant
    <3>1. CASE tick > row.until
      BY <1>0, <2>3, <3>1
    <3>2. CASE ~ (tick > row.until)
      BY <1>0, <2>2, <2>3, <2>5, <3>2 DEF CallState
    <3> QED
      BY <3>1, <3>2
  <2>7. /\ firstUse' \in [1 .. MaxSecrets -> Nat] /\ \A m \in 1 .. MaxSecrets : firstUse'[m] <= tick
        /\ \A m \in 1 .. MaxSecrets : m # no => firstUse'[m] = firstUse[m]
    BY <1>0, <2>1, <2>2 DEF Presented, McpTypes
  <2>8. \A l \in Calls : call'[l] = IF l = k THEN state ELSE call[l]
    BY <2>4 DEF McpTypes
  <2>9. McpTypes'
    BY <2>1, <2>4, <2>6, <2>7 DEF McpTypes
  <2>10. UnderGrant'
    BY <2>1, <2>4, <2>5, <2>6, <2>8 DEF UnderGrant
  <2>11. Unused'
    <3> SUFFICES ASSUME NEW m \in 1 .. MaxSecrets, issued[m].kind = "none"
                 PROVE  /\ firstUse'[m] = 0 /\ m \notin revoked
                        /\ \A other \in secrets' : other.no # m
                        /\ \A other \in 1 .. MaxSecrets : issued[other].from # m
                        /\ \A l \in Calls : call'[l].from # m
      BY <2>4 DEF Unused
    <3>1. m # no /\ m # 0
      BY <2>5
    <3> QED
      BY <2>5, <2>6, <2>7, <2>8, <3>1 DEF Unused
  <2>12. \A m \in 1 .. MaxSecrets : issued[m].kind = "refresh" => EndsAt(m)' = EndsAt(m)
    BY <2>4, <2>5, <2>7 DEF EndsAt, Full
  <2>13. RowsTell'
    <3>1. \A other \in secrets' : other \in secrets /\ other.no \in 1 .. MaxSecrets
      BY <1>0, <2>1
    <3> QED
      BY <2>4, <2>12, <3>1 DEF RowsTell
  <2>14. RowsKept'
    BY <2>1, <2>2, <2>4, <2>5, <2>12 DEF RowsKept
  <2>15. OneLine'
    <3>1. \A code \in 1 .. MaxSecrets, l \in Calls :
            Redeems(l, code)' <=> IF l = k THEN state.step = "issue" /\ code = no ELSE Redeems(l, code)
      BY <2>6, <2>8 DEF Redeems
    <3>2. \A code \in 1 .. MaxSecrets : ~Redeems(k, code)
      BY <2>4 DEF Redeems
    <3>3. \A l \in Calls : call'[l].step # "issue" => call'[l].from = 0
      BY <2>6, <2>8 DEF OneLine
    <3> QED
      BY <2>1, <2>4, <2>5, <3>1, <3>2, <3>3 DEF OneLine
  <2> QED
    BY <2>9, <2>10, <2>11, <2>13, <2>14, <2>15
<1>8. ASSUME NEW k \in Calls, SpendRefresh(k) PROVE GrantInv'
  <2>1. PICK row \in secrets :
          /\ row.kind \in {"refresh", "spent"} /\ row.until > tick
          /\ secrets' = (secrets \ {row}) \cup {Spent(row)} /\ firstUse' = Presented(row.no)
          /\ MovesTo(k, [step |-> "issue", grant |-> row.grant, from |-> row.no])
    BY <1>8 DEF SpendRefresh
  <2>2. PICK no \in 1 .. MaxSecrets : no = row.no
    BY <1>0
  <2>3. PICK state : state = [step |-> "issue", grant |-> row.grant, from |-> row.no]
    OBVIOUS
  <2>4. /\ call[k].step = "closed" /\ call' = [call EXCEPT ![k] = state]
        /\ UNCHANGED <<tick, client, grant, grants, issued, revoked>>
    BY <1>8, <2>1, <2>3 DEF SpendRefresh, Standing, MovesTo
  <2>5. /\ issued[no].kind = "refresh" /\ no \notin revoked /\ row.grant = grant /\ grant \in 1 .. grants
        /\ issued[no].grant = grant /\ row.until = EndsAt(no)
        /\ \A other \in secrets : other # row => other.no # no
    BY <1>0, <2>1, <2>2 DEF RowsTell
  <2>6. state \in CallState /\ state.step = "issue" /\ state.from = no /\ state.grant = grant
    BY <1>0, <2>2, <2>3, <2>5 DEF CallState
  <2>7. /\ firstUse' \in [1 .. MaxSecrets -> Nat] /\ \A m \in 1 .. MaxSecrets : firstUse'[m] <= tick
        /\ \A m \in 1 .. MaxSecrets : m # no => firstUse'[m] = firstUse[m]
        /\ firstUse'[no] = IF firstUse[no] = 0 THEN tick ELSE firstUse[no]
    BY <1>0, <2>1, <2>2 DEF Presented, McpTypes
  <2>8. \A l \in Calls : call'[l] = IF l = k THEN state ELSE call[l]
    BY <2>4 DEF McpTypes
  <2>9. PICK spent : spent = Spent(row)
    OBVIOUS
  <2>10. /\ spent \in Secret /\ spent.no = no /\ spent.grant = grant /\ spent.kind = "spent"
         /\ spent.until = IF row.until < tick + RefreshGrace THEN row.until ELSE tick + RefreshGrace
    <3>1. PICK until \in Nat : until = IF row.until < tick + RefreshGrace THEN row.until
                                       ELSE tick + RefreshGrace
      BY <1>0
    <3>2. spent = [row EXCEPT !.kind = "spent", !.until = until]
      BY <2>9, <3>1 DEF Spent
    <3>3. row = [no |-> row.no, grant |-> row.grant, kind |-> row.kind, until |-> row.until]
      BY <1>0 DEF Secret
    <3>4. spent = [no |-> no, grant |-> grant, kind |-> "spent", until |-> until]
      BY <2>2, <2>5, <3>2, <3>3
    <3> QED
      BY <1>0, <3>1, <3>4 DEF Secret
  <2>11. \A other \in secrets' : other = spent \/ (other \in secrets /\ other # row /\ other.no # no)
    BY <2>1, <2>5, <2>9
  <2>12. \A m \in 1 .. MaxSecrets : m # no => EndsAt(m)' = EndsAt(m)
    BY <2>4, <2>7 DEF EndsAt, Full
  <2>13. EndsAt(no)' = spent.until /\ spent.until <= EndsAt(no)
    <3>1. issued[no].at \in Nat /\ firstUse[no] \in Nat /\ firstUse[no] <= tick
      BY DEF McpTypes, Issue
    <3>2. EndsAt(no)' = IF firstUse'[no] = 0 \/ issued[no].at + McpTTL <= firstUse'[no] + RefreshGrace
                        THEN issued[no].at + McpTTL ELSE firstUse'[no] + RefreshGrace
      BY <2>4 DEF EndsAt, Full
    <3>3. row.until = IF firstUse[no] = 0 \/ issued[no].at + McpTTL <= firstUse[no] + RefreshGrace
                      THEN issued[no].at + McpTTL ELSE firstUse[no] + RefreshGrace
      BY <2>5 DEF EndsAt, Full
    <3>4. PICK full \in Nat : full = issued[no].at + McpTTL
      BY <3>1
    <3>5. CASE firstUse[no] = 0
      <4>1. row.until = full /\ firstUse'[no] = tick /\ tick # 0
        BY <1>0, <2>7, <3>3, <3>4, <3>5
      <4>2. EndsAt(no)' = IF full <= tick + RefreshGrace THEN full ELSE tick + RefreshGrace
        BY <3>2, <3>4, <4>1
      <4> QED
        BY <1>0, <2>5, <2>10, <3>4, <4>1, <4>2
    <3>6. CASE firstUse[no] # 0
      <4>1. EndsAt(no)' = row.until
        BY <2>7, <3>2, <3>3, <3>6
      <4>2. row.until <= firstUse[no] + RefreshGrace
        BY <3>1, <3>3, <3>4, <3>6
      <4> QED
        BY <1>0, <2>5, <2>10, <3>1, <4>1, <4>2
    <3> QED
      BY <3>5, <3>6
  <2>14. McpTypes'
    BY <2>1, <2>4, <2>6, <2>7, <2>9, <2>10 DEF McpTypes
  <2>15. UnderGrant'
    BY <1>0, <2>4, <2>5, <2>6, <2>8 DEF UnderGrant
  <2>16. Unused'
    <3> SUFFICES ASSUME NEW m \in 1 .. MaxSecrets, issued[m].kind = "none"
                 PROVE  /\ firstUse'[m] = 0 /\ m \notin revoked
                        /\ \A other \in secrets' : other.no # m
                        /\ \A other \in 1 .. MaxSecrets : issued[other].from # m
                        /\ \A l \in Calls : call'[l].from # m
      BY <2>4 DEF Unused
    <3>1. m # no
      BY <2>5
    <3>2. /\ firstUse[m] = 0 /\ m \notin revoked
          /\ \A other \in secrets : other.no # m
          /\ \A other \in 1 .. MaxSecrets : issued[other].from # m
          /\ \A l \in Calls : call[l].from # m
      BY <1>0 DEF Unused
    <3>3. firstUse'[m] = 0
      BY <2>7, <3>1, <3>2
    <3>4. \A other \in secrets' : other.no # m
      BY <2>10, <2>11, <3>1, <3>2
    <3>5. \A l \in Calls : call'[l].from # m
      BY <2>6, <2>8, <3>1, <3>2
    <3> QED
      BY <3>2, <3>3, <3>4, <3>5
  <2>17. RowsTell'
    <3>1. \A other \in secrets : other.no # no => EndsAt(other.no)' = EndsAt(other.no)
      BY <1>0, <2>12
    <3> SUFFICES /\ \A other \in secrets' :
                      /\ other.no \notin revoked /\ other.grant = grant /\ issued[other.no].grant = grant
                      /\ IF other.kind = "code" THEN issued[other.no].kind = "code"
                         ELSE issued[other.no].kind = "refresh" /\ other.until = EndsAt(other.no)'
                 /\ \A other, another \in secrets' : other.no = another.no => other = another
      BY <2>4 DEF RowsTell
    <3>2. \A other \in secrets' : other = spent =>
                      /\ other.no \notin revoked /\ other.grant = grant /\ issued[other.no].grant = grant
                      /\ IF other.kind = "code" THEN issued[other.no].kind = "code"
                         ELSE issued[other.no].kind = "refresh" /\ other.until = EndsAt(no)'
      BY <2>5, <2>10, <2>13
    <3>3. \A other \in secrets' : other # spent =>
                      /\ other.no \notin revoked /\ other.grant = grant /\ issued[other.no].grant = grant
                      /\ IF other.kind = "code" THEN issued[other.no].kind = "code"
                         ELSE issued[other.no].kind = "refresh" /\ other.until = EndsAt(other.no)'
      BY <2>11, <3>1 DEF RowsTell
    <3>4. \A other, another \in secrets' : other.no = another.no => other = another
      BY <2>10, <2>11 DEF RowsTell
    <3> QED
      BY <2>10, <3>2, <3>3, <3>4
  <2>18. RowsKept'
    <3> SUFFICES ASSUME NEW m \in 1 .. MaxSecrets, issued[m].kind = "refresh", issued[m].grant = grant,
                        m \notin revoked, tick < EndsAt(m)'
                 PROVE  \E other \in secrets' : other.no = m
      BY <2>4 DEF RowsKept
    <3>1. CASE m = no
      BY <2>1, <2>9, <2>10, <3>1
    <3>2. CASE m # no
      BY <2>1, <2>2, <2>12, <3>2 DEF RowsKept
    <3> QED
      BY <3>1, <3>2
  <2>19. OneLine'
    <3>1. \A code \in 1 .. MaxSecrets, l \in Calls :
            issued[code].kind = "code" => (Redeems(l, code)' <=> Redeems(l, code))
      BY <2>4, <2>5, <2>6, <2>8 DEF Redeems
    <3>2. \A l \in Calls : call'[l].step # "issue" => call'[l].from = 0
      BY <2>6, <2>8 DEF OneLine
    <3>3. \A code \in 1 .. MaxSecrets :
            (\E other \in secrets' : other.no = code) => (\E other \in secrets : other.no = code)
      BY <2>2, <2>10, <2>11
    <3>4. ASSUME NEW code \in 1 .. MaxSecrets, issued[code].kind = "code"
          PROVE  /\ \A m, n \in 1 .. MaxSecrets : issued[m].from = code /\ issued[n].from = code => m = n
                 /\ \A i, l \in Calls : Redeems(i, code)' /\ Redeems(l, code)' => i = l
                 /\ \A m \in 1 .. MaxSecrets, l \in Calls : ~(issued[m].from = code /\ Redeems(l, code)')
                 /\ (\E other \in secrets' : other.no = code) =>
                      /\ \A m \in 1 .. MaxSecrets : issued[m].from # code
                      /\ \A l \in Calls : ~Redeems(l, code)'
      BY <1>0, <3>1, <3>3, <3>4 DEF OneLine
    <3> QED
      BY <2>4, <3>2, <3>4 DEF OneLine
  <2> QED
    BY <2>14, <2>15, <2>16, <2>17, <2>18, <2>19
<1>9. ASSUME Revoke PROVE GrantInv'
  <2>1. PICK row \in secrets : /\ row.kind # "code" /\ secrets' = secrets \ {row}
                               /\ revoked' = revoked \cup {row.no}
    BY <1>9 DEF Revoke
  <2>2. UNCHANGED <<tick, client, grant, grants, issued, firstUse, call>>
    BY <1>9 DEF Revoke
  <2>3. /\ issued[row.no].kind = "refresh" /\ \A other \in secrets' : other \in secrets /\ other.no # row.no
    BY <2>1 DEF RowsTell
  <2>4. McpTypes' /\ UnderGrant'
    BY <2>1, <2>2 DEF McpTypes, UnderGrant
  <2>5. Unused'
    BY <2>1, <2>2, <2>3 DEF Unused
  <2>6. RowsTell' /\ RowsKept'
    BY <2>1, <2>2, <2>3 DEF RowsTell, RowsKept, EndsAt, Full
  <2>7. OneLine'
    BY <2>2, <2>3 DEF OneLine, Redeems
  <2> QED
    BY <2>4, <2>5, <2>6, <2>7
<1>10. ASSUME RemoveApp PROVE GrantInv'
  <2> USE <1>10 DEF RemoveApp
  <2>1. McpTypes' /\ UnderGrant' /\ Unused' /\ RowsTell'
    BY DEF McpTypes, UnderGrant, Unused, RowsTell
  <2>2. RowsKept'
    BY DEF RowsKept, UnderGrant
  <2>3. OneLine'
    BY DEF OneLine, Redeems
  <2> QED
    BY <2>1, <2>2, <2>3
<1>11. ASSUME PassTick PROVE GrantInv'
  <2> USE <1>11 DEF PassTick
  <2>1. McpTypes' /\ UnderGrant' /\ Unused'
    BY DEF McpTypes, UnderGrant, Unused
  <2>2. \A no \in 1 .. MaxSecrets : EndsAt(no)' = EndsAt(no) /\ EndsAt(no) \in Nat
    BY EndsAtSome DEF EndsAt, Full
  <2>3. RowsTell'
    BY <1>0, <2>2 DEF RowsTell
  <2>4. RowsKept'
    BY <1>0, <2>2 DEF RowsKept
  <2>5. OneLine'
    BY DEF OneLine, Redeems
  <2> QED
    BY <2>1, <2>3, <2>4, <2>5
<1> QED
  BY <1>2, <1>3, <1>4, <1>5, <1>6, <1>7, <1>8, <1>9, <1>10, <1>11 DEF McpNext

(***************************************************************************)
(* A refresh token works while it is fresh and for the grace of its first  *)
(* use, whatever was retried, revoked, removed or approved in between, and *)
(* a code opens one line of tokens at most (issueTokens, handleToken).     *)
(***************************************************************************)
THEOREM GrantsGraceHolds == McpSpec => []GraceHolds
<1>1. GrantInv => GraceHolds
  <2> SUFFICES ASSUME GrantInv PROVE GraceHolds
    OBVIOUS
  <2> USE McpGrantsAssumption DEF GrantInv
  <2>1. ASSUME NEW no \in 1 .. MaxSecrets, issued[no].kind = "refresh"
        PROVE  Works(no) <=> /\ issued[no].grant = grant /\ no \notin revoked
                             /\ tick < issued[no].at + McpTTL
                             /\ firstUse[no] # 0 => tick < firstUse[no] + RefreshGrace
    <3>1. tick < EndsAt(no) <=> /\ tick < issued[no].at + McpTTL
                                /\ firstUse[no] # 0 => tick < firstUse[no] + RefreshGrace
      BY DEF EndsAt, Full, McpTypes, Issue
    <3>2. \A row \in secrets : row.no = no => /\ row.kind \in {"refresh", "spent"} /\ row.until = EndsAt(no)
                                              /\ issued[no].grant = grant /\ no \notin revoked
      BY <2>1 DEF RowsTell, McpTypes, Secret
    <3>3. \A row \in secrets : row.until \in Nat
      BY DEF McpTypes, Secret
    <3>4. EndsAt(no) \in Nat /\ tick \in Nat
      BY EndsAtSome DEF McpTypes
    <3>5. Works(no) <=> (\E row \in secrets : row.no = no) /\ tick < EndsAt(no)
      BY <3>2, <3>3, <3>4 DEF Works
    <3> QED
      BY <2>1, <3>1, <3>2, <3>5 DEF RowsKept
  <2>2. ASSUME NEW code \in 1 .. MaxSecrets, issued[code].kind = "code"
        PROVE  Cardinality({no \in 1 .. MaxSecrets : issued[no].from = code})
                 + Cardinality({k \in Calls : Standing(k, "issue") /\ call[k].from = code}) <= 1
    <3> DEFINE A == {no \in 1 .. MaxSecrets : issued[no].from = code}
               B == {k \in Calls : Standing(k, "issue") /\ call[k].from = code}
    <3>1. (\A x, y \in A : x = y) /\ (\A x, y \in B : x = y) /\ (A = {} \/ B = {})
      BY <2>2 DEF OneLine, Redeems, Standing
    <3> HIDE DEF A, B
    <3>2. Cardinality(A) \in {0, 1} /\ (A = {} => Cardinality(A) = 0)
      BY <3>1, AtMostOne
    <3>3. Cardinality(B) \in {0, 1} /\ (B = {} => Cardinality(B) = 0)
      BY <3>1, AtMostOne
    <3>4. Cardinality(A) + Cardinality(B) <= 1
      BY <3>1, <3>2, <3>3
    <3> QED
      BY <3>4 DEF A, B
  <2> QED
    BY <2>1, <2>2 DEF GraceHolds
<1> QED
  BY <1>1, GrantInvInit, GrantInvNext, PTL DEF McpSpec

-----------------------------------------------------------------------------

TabState == [step : {"closed", "challenge", "find", "restore", "create", "identify", "attach",
                     "native", "issue", "reply", "refresh", "logout", "clear"},
             signIn : Nat, id : Nat, had : Nat, new : Nat, stays : BOOLEAN]

SessionTypes ==
  /\ account \in [id : Nat, gone : Nat] /\ accounts \in Nat /\ challenge \in Nat
  /\ natives \in SUBSET [signIn : Nat, stays : BOOLEAN]
  /\ tokens \in SUBSET [no : Nat, signIn : Nat, until : Nat]
  /\ date \in Nat \ {0} /\ minted \in Nat /\ signIns \in Nat /\ jar \in 0 .. minted
  /\ tab \in [Tabs -> TabState] /\ over \in SUBSET (0 .. signIns) /\ staying \in Nat
  /\ unrestored \in SUBSET Nat

(* What a request knows.  The account of one that will stay is not deleted *)
(* as long as it is the account there is, and is there once it has a token,*)
(* unless it was not restored.                                             *)
Knows(x) ==
  /\ x.step \in {"restore", "identify", "attach", "native", "issue", "reply"} => x.id # 0
  /\ x.new # 0 <=> x.step = "reply"
  /\ x.had <= minted /\ x.new <= minted
  /\ x.stays => x.step \in {"find", "restore", "create", "identify", "native", "issue", "reply"}
  /\ x.stays /\ x.step \in {"identify", "native", "issue"} /\ account.id = x.id =>
       account.gone = 0 \/ x.id \in unrestored
  /\ x.stays /\ x.step = "reply" => (account.id = x.id /\ account.gone = 0) \/ x.id \in unrestored

Known == \A t \in Tabs : Knows(tab[t])

(* Everything hangs on the account there is.                               *)
Hanging ==
  /\ account.id = 0 => account.gone = 0 /\ tokens = {} /\ natives = {}
  /\ \A code \in natives : code.stays => account.gone = 0 \/ account.id \in unrestored

(* A token on its way to the browser has been nowhere else.                *)
Fresh ==
  \A t \in Tabs : tab[t].new # 0 =>
    /\ jar # tab[t].new
    /\ \A u \in Tabs : tab[u].had # tab[t].new /\ (u # t => tab[u].new # tab[t].new)

(* StaysSignedIn, with the account the successor will be issued to.        *)
Brings(t) == tab[t].had = jar /\ (tab[t].step = "reply" \/ (tab[t].step = "issue" /\ tab[t].id = account.id))
OnItsWay == due => Live(jar) \/ \E t \in Tabs : Brings(t)

(* OneTokenPerSignIn without its sets: no two carriers, none before the    *)
(* sign-in is begun and none after logout.                                 *)
Carries(t, s) == tab[t].signIn = s /\ tab[t].new = 0
OneCarrier ==
  \A s \in Nat \ {0} :
    /\ \A a, b \in tokens : a.signIn = s /\ b.signIn = s => a = b
    /\ \A a, b \in natives : a.signIn = s /\ b.signIn = s => a = b
    /\ \A t, u \in Tabs : Carries(t, s) /\ Carries(u, s) => t = u
    /\ \A a \in tokens, b \in natives : ~ (a.signIn = s /\ b.signIn = s)
    /\ \A a \in tokens, t \in Tabs : ~ (a.signIn = s /\ Carries(t, s))
    /\ \A b \in natives, t \in Tabs : ~ (b.signIn = s /\ Carries(t, s))
    /\ s \in over \/ s > signIns =>
         /\ \A a \in tokens : a.signIn # s
         /\ \A b \in natives : b.signIn # s
         /\ \A t \in Tabs : ~ Carries(t, s)

SessionInv ==
  SessionTypes /\ Known /\ Hanging /\ Fresh /\ OnItsWay /\ OneCarrier /\ ReturnKeepsAccount

LEMMA SessionInvInit == SessionsInit => SessionInv
<1> SUFFICES ASSUME SessionsInit PROVE SessionInv
  OBVIOUS
<1> USE DEF SessionsInit, Closing, NoAccount
<1>1. SessionTypes
  BY DEF SessionTypes, TabState
<1>2. Known /\ Hanging /\ Fresh /\ OnItsWay
  BY DEF Known, Knows, Hanging, Fresh, OnItsWay
<1>3. OneCarrier
  BY DEF OneCarrier, Carries
<1> QED
  BY <1>1, <1>2, <1>3 DEF SessionInv, ReturnKeepsAccount

(* What a step may do to the account while requests are open and nobody    *)
(* deletes: create it where there is none, or end its grace; only then is  *)
(* an account no longer unrestored.                                        *)
Gentle == /\ account' \in [id : Nat, gone : Nat]
          /\ account.id # 0 => account'.id = account.id
          /\ account'.gone = 0 \/ account' = account
          /\ unrestored' \in SUBSET Nat
          /\ \A i \in unrestored : i \in unrestored' \/ (i = account'.id /\ account'.gone = 0)

LEMMA OthersKnow ==
  ASSUME SessionTypes, Known, ReturnKeepsAccount, Gentle, minted' \in Nat, minted <= minted',
         NEW x \in TabState, Knows(x)
  PROVE  Knows(x)'
<1>1. account \in [id : Nat, gone : Nat] /\ minted \in Nat /\ x.had \in Nat /\ x.new \in Nat /\ x.id \in Nat
  BY DEF SessionTypes, TabState
<1>2. x.had <= minted' /\ x.new <= minted'
  BY <1>1 DEF Knows
<1>3. x.stays /\ x.step \in {"identify", "native", "issue"} /\ account'.id = x.id =>
        account'.gone = 0 \/ x.id \in unrestored'
  BY <1>1 DEF Knows, Gentle
<1>4. x.stays /\ x.step = "reply" => (account'.id = x.id /\ account'.gone = 0) \/ x.id \in unrestored'
  BY <1>1 DEF Knows, Gentle
<1> QED
  BY <1>2, <1>3, <1>4 DEF Knows

(* A request moves on, begins or closes without bringing, spending or      *)
(* carrying off a token.                                                   *)
LEMMA TabMoves ==
  ASSUME SessionInv, NEW t \in Tabs, NEW x \in TabState, Becomes(t, x), Knows(x)', Gentle,
         UNCHANGED <<date, natives, tokens, minted, jar, over, staying>>,
         accounts' \in Nat, challenge' \in Nat, signIns' \in Nat,
         due' => due /\ ~ Brings(t), x.new = 0, x.had \in {0, jar, tab[t].had},
         \/ x.signIn = 0 /\ signIns' >= signIns
         \/ x.signIn = tab[t].signIn /\ tab[t].new = 0 /\ signIns' = signIns
         \/ x.signIn = signIns' /\ signIns' = signIns + 1
  PROVE  SessionInv'
<1> USE DEF SessionInv
<1>1. /\ tab' \in [Tabs -> TabState] /\ \A u \in Tabs : tab'[u] = IF u = t THEN x ELSE tab[u]
      /\ \A u \in Tabs : tab[u] \in TabState
  BY DEF SessionTypes, Becomes
<1>2. /\ account \in [id : Nat, gone : Nat] /\ account' \in [id : Nat, gone : Nat] /\ minted \in Nat
      /\ signIns \in Nat /\ over \in SUBSET (0 .. signIns) /\ x.signIn \in Nat
  BY DEF SessionTypes, Gentle, TabState
<1>3. SessionTypes'
  <2>1. over' \in SUBSET (0 .. signIns')
    BY <1>2
  <2> QED
    BY <1>1, <1>2, <2>1 DEF SessionTypes, Gentle
<1>4. Known'
  BY <1>1, <1>2, OthersKnow DEF Known
<1>5. Hanging'
  BY <1>2 DEF Hanging, Gentle
<1>6. Fresh'
  <2>1. \A u \in Tabs : tab'[u].new # 0 => u # t /\ tab[u].new # 0
    BY <1>1
  <2> QED
    BY <1>1, <2>1, SMTT(30) DEF Fresh
<1>7. OnItsWay'
  <2> SUFFICES ASSUME due' PROVE Live(jar)' \/ \E u \in Tabs : Brings(u)'
    BY DEF OnItsWay
  <2>1. CASE Live(jar)
    BY <2>1 DEF Live
  <2>2. CASE ~ Live(jar)
    <3>1. PICK u \in Tabs : Brings(u) /\ u # t
      BY <2>2 DEF OnItsWay
    <3>2. tab[u].step = "issue" => tab[u].id # 0
      BY DEF Known, Knows
    <3>3. Brings(u)'
      BY <1>1, <1>2, <3>1, <3>2 DEF Brings, Gentle
    <3> QED
      BY <3>3
  <2> QED
    BY <2>1, <2>2
<1>8. OneCarrier'
  <2> SUFFICES ASSUME NEW s \in Nat \ {0}
               PROVE  /\ \A a, b \in tokens : a.signIn = s /\ b.signIn = s => a = b
                      /\ \A a, b \in natives : a.signIn = s /\ b.signIn = s => a = b
                      /\ \A u, v \in Tabs : Carries(u, s)' /\ Carries(v, s)' => u = v
                      /\ \A a \in tokens, b \in natives : ~ (a.signIn = s /\ b.signIn = s)
                      /\ \A a \in tokens, u \in Tabs : ~ (a.signIn = s /\ Carries(u, s)')
                      /\ \A b \in natives, u \in Tabs : ~ (b.signIn = s /\ Carries(u, s)')
                      /\ s \in over \/ s > signIns' =>
                           /\ \A a \in tokens : a.signIn # s
                           /\ \A b \in natives : b.signIn # s
                           /\ \A u \in Tabs : ~ Carries(u, s)'
    BY DEF OneCarrier
  <2>1. \A u \in Tabs : Carries(u, s)' => \/ Carries(u, s)
                                          \/ u = t /\ s = signIns' /\ signIns' = signIns + 1
    BY <1>1, <1>2 DEF Carries
  <2>2. \A u \in Tabs : u # t => (Carries(u, s)' <=> Carries(u, s))
    BY <1>1 DEF Carries
  <2>3. CASE s = signIns' /\ signIns' = signIns + 1
    <3>1. s > signIns /\ s \notin over
      BY <1>2, <2>3
    <3> QED
      BY <2>1, <2>2, <2>3, <3>1 DEF OneCarrier
  <2>4. CASE ~ (s = signIns' /\ signIns' = signIns + 1)
    <3>1. s > signIns' => s > signIns
      BY <1>2
    <3> QED
      BY <2>1, <2>4, <3>1 DEF OneCarrier
  <2> QED
    BY <2>3, <2>4
<1>9. ReturnKeepsAccount'
  <2>1. account' = [id |-> account'.id, gone |-> account'.gone]
    BY <1>2
  <2> QED
    BY <1>2, <2>1 DEF ReturnKeepsAccount, Gentle
<1> QED
  BY <1>3, <1>4, <1>5, <1>6, <1>7, <1>8, <1>9

LEMMA ClosingIs ==
  /\ Closing \in TabState /\ Closing.step = "closed" /\ Closing.stays = FALSE /\ Closing.new = 0
  /\ Closing.had = 0 /\ Closing.signIn = 0 /\ Closing.id = 0
BY DEF Closing, TabState

LEMMA Beginnings ==
  ASSUME signIns \in Nat, NEW step \in {"find", "attach", "native", "issue"}, NEW id \in Nat
  PROVE  /\ Begun(step, id) \in TabState /\ Begun(step, id).step = step
         /\ Begun(step, id).signIn = signIns + 1 /\ Begun(step, id).id = id
         /\ Begun(step, id).had = 0 /\ Begun(step, id).new = 0 /\ Begun(step, id).stays = TRUE
<1>1. signIns + 1 \in Nat
  OBVIOUS
<1> QED
  BY <1>1, ClosingIs DEF Begun, TabState

LEMMA FirstStep ==
  ASSUME signIns \in Nat
  PROVE  /\ Begun("find", 0) \in TabState /\ Begun("find", 0).step = "find"
         /\ Begun("find", 0).signIn = signIns + 1
         /\ Begun("find", 0).had = 0 /\ Begun("find", 0).new = 0
<1>1. signIns + 1 \in Nat
  OBVIOUS
<1> QED
  BY <1>1, ClosingIs DEF Begun, TabState

(* The sign-ins: what they do before there is a token.                     *)
LEMMA SigningIn ==
  ASSUME SessionInv, NEW t \in Tabs,
         \/ ResolveOrLink(t) \/ SendChallenge(t) \/ VerifyLogin(t) \/ VerifyLink(t)
         \/ FindByEmail(t) \/ RestoreByEmail(t) \/ CreateByEmail(t) \/ Identify(t)
  PROVE  SessionInv'
<1>0. /\ account \in [id : Nat, gone : Nat] /\ account.id \in Nat /\ accounts \in Nat
      /\ challenge \in Nat /\ signIns \in Nat /\ minted \in Nat /\ unrestored \in SUBSET Nat
      /\ tab[t] \in TabState /\ Knows(tab[t])
      /\ Restored \in [id : Nat, gone : Nat] /\ Restored.id = account.id /\ Restored.gone = 0
      /\ Closing \in TabState /\ Closing.step = "closed" /\ ~ Closing.stays /\ Closing.new = 0
      /\ Closing.had = 0 /\ Closing.signIn = 0
  BY DEF SessionInv, SessionTypes, Restored, Closing, TabState, Known
<1> DEFINE Still == UNCHANGED <<date, natives, tokens, minted, jar, over, staying, due>>
<1> USE DEF browser, ledger
<1>1. /\ Still => Knows(Closing)'
      /\ UNCHANGED <<account, unrestored>> => Gentle
  <2>1. Still => Knows(Closing)'
    BY <1>0 DEF Knows
  <2>2. UNCHANGED <<account, unrestored>> => Gentle
    BY <1>0 DEF Gentle
  <2> QED
    BY <2>1, <2>2
<1>2. CASE ResolveOrLink(t)
  <2>0. Is(t, "closed") /\ signIns' = signIns + 1 /\ Still /\ UNCHANGED challenge /\ ~ Brings(t)
    BY <1>2 DEF ResolveOrLink, Open, BeginSignIn, Brings, Is
  <2>1. PICK next \in {"native", "issue"} :
          \/ /\ account.id = 0 /\ NewAccount
             /\ google' = TRUE /\ Becomes(t, Begun(next, accounts')) /\ UNCHANGED unrestored
          \/ /\ account.id # 0
             /\ Restores /\ google' = TRUE
             /\ Becomes(t, Begun(next, account.id))
             /\ UNCHANGED accounts
          \/ /\ account.id # 0
             /\ Becomes(t, [Closing EXCEPT !.step = "challenge", !.id = account.id])
             /\ UNCHANGED <<account, accounts, google, unrestored>>
    BY <1>2 DEF ResolveOrLink
  <2>2. CASE account.id = 0 /\ NewAccount /\ Becomes(t, Begun(next, accounts')) /\ UNCHANGED unrestored
    <3>1. accounts' = accounts + 1 /\ account' = [id |-> accounts + 1, gone |-> 0] /\ Gentle
      BY <1>0, <2>2 DEF NewAccount, Gentle
    <3>2. PICK x : x = Begun(next, accounts')
      OBVIOUS
    <3>3. /\ x.step = next /\ x.signIn = signIns + 1 /\ x.id = accounts + 1 /\ x.had = 0
          /\ x.new = 0 /\ x.stays = TRUE /\ x \in TabState
      <4>1. next \in {"find", "attach", "native", "issue"} /\ accounts' \in Nat
        BY <1>0, <3>1
      <4>2. /\ Begun(next, accounts') \in TabState /\ Begun(next, accounts').step = next
            /\ Begun(next, accounts').signIn = signIns + 1 /\ Begun(next, accounts').id = accounts'
            /\ Begun(next, accounts').had = 0 /\ Begun(next, accounts').new = 0
        <5>1. CASE next = "native"
          BY <1>0, <4>1, <5>1, Beginnings
        <5>2. CASE next = "issue"
          BY <1>0, <4>1, <5>2, Beginnings
        <5> QED
          BY <5>1, <5>2
      <4>3. Begun(next, accounts').stays = TRUE
        BY <1>0, <4>1, ClosingIs DEF Begun, TabState
      <4> QED
        BY <3>1, <3>2, <4>2, <4>3
    <3>4. Knows(x)'
      BY <1>0, <2>0, <3>1, <3>3 DEF Knows
    <3> QED
      BY <1>0, <2>0, <2>2, <3>1, <3>2, <3>3, <3>4, TabMoves
  <2>3. CASE /\ account.id # 0 /\ Restores /\ Becomes(t, Begun(next, account.id))
             /\ UNCHANGED accounts
    <3>0. account' = Restored /\ unrestored' = unrestored \ {account.id}
      BY <2>3 DEF Restores
    <3>1. Gentle
      BY <1>0, <3>0 DEF Gentle
    <3>2. PICK x : x = Begun(next, account.id)
      OBVIOUS
    <3>3. /\ x.step = next /\ x.signIn = signIns + 1 /\ x.id = account.id /\ x.had = 0
          /\ x.new = 0 /\ x.stays = TRUE /\ x \in TabState
      <4>1. next \in {"find", "attach", "native", "issue"}
        OBVIOUS
      <4>2. /\ Begun(next, account.id) \in TabState /\ Begun(next, account.id).step = next
            /\ Begun(next, account.id).signIn = signIns + 1 /\ Begun(next, account.id).id = account.id
            /\ Begun(next, account.id).had = 0 /\ Begun(next, account.id).new = 0
        <5>1. CASE next = "native"
          BY <1>0, <4>1, <5>1, Beginnings
        <5>2. CASE next = "issue"
          BY <1>0, <4>1, <5>2, Beginnings
        <5> QED
          BY <5>1, <5>2
      <4>3. Begun(next, account.id).stays = TRUE
        BY <1>0, <4>1, ClosingIs DEF Begun, TabState
      <4> QED
        BY <3>2, <4>2, <4>3
    <3>4. Knows(x)'
      <4>1. account'.gone = 0 /\ 0 <= minted' /\ x.id # 0
        BY <1>0, <2>0, <2>3, <3>0, <3>3
      <4>2. next \in {"native", "issue"}
        OBVIOUS
      <4> QED
        BY <3>3, <4>1, <4>2 DEF Knows
    <3> QED
      BY <1>0, <2>0, <2>3, <3>0, <3>1, <3>2, <3>3, <3>4, TabMoves
  <2>4. CASE /\ Becomes(t, [Closing EXCEPT !.step = "challenge", !.id = account.id])
             /\ UNCHANGED <<account, accounts, unrestored>>
    <3>1. PICK x : x = [Closing EXCEPT !.step = "challenge", !.id = account.id]
      OBVIOUS
    <3>2. /\ x \in TabState /\ x.step = "challenge" /\ x.signIn = 0 /\ x.had = 0
          /\ x.new = 0 /\ x.stays = FALSE /\ Becomes(t, x)
          /\ UNCHANGED <<account, accounts, unrestored>>
      BY <1>0, <2>4, <3>1, ClosingIs DEF TabState
    <3>3. Knows(x)'
      BY <1>0, <2>0, <3>2 DEF Knows
    <3> QED
      BY <1>0, <1>1, <2>0, <3>2, <3>3, TabMoves
  <2> QED
    BY <2>1, <2>2, <2>3, <2>4
<1>3. CASE SendChallenge(t)
  <2>1. /\ Becomes(t, Closing) /\ challenge' \in Nat /\ Still /\ UNCHANGED <<account, accounts, signIns, unrestored>>
        /\ ~ Brings(t)
    BY <1>0, <1>3 DEF SendChallenge, Brings, Is
  <2> QED
    BY <1>0, <1>1, <2>1, TabMoves
<1>4. CASE VerifyLogin(t) \/ VerifyLink(t)
  <2>1. PICK x : x = IF VerifyLogin(t) THEN Begun("find", 0)
                     ELSE [Begun("attach", challenge) EXCEPT !.stays = FALSE]
    OBVIOUS
  <2>2. /\ Becomes(t, x) /\ signIns' = signIns + 1 /\ Still /\ UNCHANGED <<account, accounts, unrestored>>
        /\ challenge' \in Nat /\ ~ Brings(t)
    BY <1>0, <1>4, <2>1 DEF VerifyLogin, VerifyLink, people, BeginSignIn, Open, Is, Brings
  <2>3. CASE VerifyLogin(t)
    <3>1. /\ x \in TabState /\ x.step = "find" /\ x.signIn = signIns + 1 /\ x.had = 0 /\ x.new = 0
      <4>1. signIns \in Nat
        BY <1>0 DEF SessionInv, SessionTypes
      <4>2. x = Begun("find", 0)
        BY <2>1, <2>3
      <4> QED
        BY <4>1, <4>2, FirstStep
    <3>2. Knows(x)'
      BY <1>0, <2>2, <3>1 DEF Knows
    <3> QED
      BY <1>0, <1>1, <2>2, <3>1, <3>2, TabMoves
  <2>4. CASE ~ VerifyLogin(t)
    <3>1. challenge # 0
      BY <1>4, <2>4 DEF VerifyLink
    <3>2. PICK y : y = Begun("attach", challenge)
      OBVIOUS
    <3>3. /\ x \in TabState /\ x.step = "attach" /\ x.signIn = signIns + 1 /\ x.had = 0 /\ x.new = 0
          /\ ~ x.stays /\ x.id # 0
      <4>1. /\ y \in TabState /\ y.step = "attach" /\ y.signIn = signIns + 1 /\ y.id = challenge
            /\ y.had = 0 /\ y.new = 0
        <5>1. signIns \in Nat /\ challenge \in Nat /\ "attach" \in {"find", "attach", "native", "issue"}
          BY <1>0 DEF SessionInv, SessionTypes
        <5>2. /\ Begun("attach", challenge) \in TabState /\ Begun("attach", challenge).step = "attach"
              /\ Begun("attach", challenge).signIn = signIns + 1 /\ Begun("attach", challenge).id = challenge
              /\ Begun("attach", challenge).had = 0 /\ Begun("attach", challenge).new = 0
          BY <5>1, Beginnings
        <5> QED
          BY <3>2, <5>2
      <4>2. x = [y EXCEPT !.stays = FALSE]
        BY <2>1, <2>4, <3>2
      <4> QED
        BY <3>1, <4>1, <4>2 DEF TabState
    <3>4. Knows(x)'
      BY <1>0, <2>2, <3>3 DEF Knows
    <3> QED
      BY <1>0, <1>1, <2>2, <3>3, <3>4, TabMoves
  <2> QED
    BY <2>3, <2>4
<1>5. CASE FindByEmail(t)
  <2>1. PICK x : x = [tab[t] EXCEPT !.step = IF account.id = 0 THEN "create" ELSE "restore",
                                    !.id = account.id]
    OBVIOUS
  <2>2. /\ Becomes(t, x) /\ Still /\ UNCHANGED <<account, accounts, challenge, signIns, unrestored>>
        /\ ~ Brings(t) /\ tab[t].new = 0
    BY <1>0, <1>5, <2>1 DEF FindByEmail, people, Is, Brings, Knows
  <2>3. /\ x \in TabState /\ x.step = (IF account.id = 0 THEN "create" ELSE "restore")
        /\ x.signIn = tab[t].signIn /\ x.had = tab[t].had /\ x.new = 0 /\ x.id = account.id
    BY <1>0, <2>1, <2>2 DEF TabState
  <2>4. Knows(x)'
    BY <1>0, <2>2, <2>3 DEF Knows
  <2> QED
    BY <1>0, <1>1, <2>2, <2>3, <2>4, TabMoves
<1>6. CASE RestoreByEmail(t)
  <2>1. PICK x : x = [tab[t] EXCEPT !.step = "identify"]
    OBVIOUS
  <2>2. /\ Becomes(t, x) /\ Still /\ UNCHANGED <<accounts, challenge, signIns>>
        /\ \/ account.id = tab[t].id /\ account' = Restored /\ unrestored' = unrestored \ {account.id}
           \/ account.id # tab[t].id /\ UNCHANGED <<account, unrestored>>
           \/ account.id = tab[t].id /\ UNCHANGED account /\ unrestored' = unrestored \cup {account.id}
        /\ ~ Brings(t) /\ tab[t].new = 0 /\ tab[t].id # 0
    BY <1>0, <1>6, <2>1 DEF RestoreByEmail, Restores, Is, Brings, Knows, Steps
  <2>3. /\ x \in TabState /\ x.step = "identify" /\ x.id = tab[t].id
        /\ x.signIn = tab[t].signIn /\ x.had = tab[t].had /\ x.new = 0
    BY <1>0, <2>1, <2>2 DEF TabState
  <2>4. Knows(x)' /\ Gentle
    BY <1>0, <2>2, <2>3 DEF Knows, Gentle, SessionInv, SessionTypes
  <2> QED
    BY <1>0, <2>2, <2>3, <2>4, TabMoves
<1>7. CASE CreateByEmail(t)
  <2>0. Still /\ UNCHANGED <<challenge, signIns, unrestored>> /\ ~ Brings(t) /\ tab[t].new = 0
    BY <1>0, <1>7 DEF CreateByEmail, Is, Brings, Knows
  <2>1. CASE account.id = 0
    <3>1. PICK x : x = [tab[t] EXCEPT !.step = "identify", !.id = accounts']
      OBVIOUS
    <3>2. /\ Becomes(t, x) /\ accounts' = accounts + 1 /\ account' = [id |-> accounts + 1, gone |-> 0]
      BY <1>7, <2>1, <3>1 DEF CreateByEmail, NewAccount
    <3>3. /\ x \in TabState /\ x.step = "identify" /\ x.id = accounts + 1
          /\ x.signIn = tab[t].signIn /\ x.had = tab[t].had /\ x.new = 0
      <4>1. accounts + 1 \in Nat /\ x = [tab[t] EXCEPT !.step = "identify", !.id = accounts + 1]
        BY <1>0, <3>1, <3>2
      <4> QED
        BY <1>0, <2>0, <4>1 DEF TabState
    <3>4. Knows(x)' /\ Gentle
      BY <1>0, <2>0, <2>1, <3>2, <3>3 DEF Knows, Gentle
    <3> QED
      BY <1>0, <2>0, <3>2, <3>3, <3>4, TabMoves
  <2>2. CASE account.id # 0
    <3>1. Becomes(t, Closing) /\ UNCHANGED <<account, accounts>>
      BY <1>7, <2>2 DEF CreateByEmail
    <3> QED
      BY <1>0, <1>1, <2>0, <3>1, TabMoves
  <2> QED
    BY <2>1, <2>2
<1>8. CASE Identify(t)
  <2>0. /\ Still /\ UNCHANGED <<account, accounts, challenge, signIns, unrestored>> /\ ~ Brings(t)
        /\ tab[t].new = 0 /\ tab[t].id # 0
        /\ tab[t].step = "identify" \/ (tab[t].step = "attach" /\ ~ tab[t].stays)
    BY <1>0, <1>8 DEF Identify, Is, Brings, Knows
  <2>1. Steps(t, "issue") \/ Becomes(t, Closing)
    BY <1>8 DEF Identify
  <2>2. CASE Steps(t, "issue")
    <3>1. PICK x : x = [tab[t] EXCEPT !.step = "issue"]
      OBVIOUS
    <3>2. /\ x \in TabState /\ x.step = "issue" /\ x.id = tab[t].id /\ x.stays = tab[t].stays
          /\ x.signIn = tab[t].signIn /\ x.had = tab[t].had /\ x.new = 0 /\ Becomes(t, x)
      BY <1>0, <2>0, <2>2, <3>1 DEF TabState, Steps
    <3>3. Knows(x)'
      BY <1>0, <2>0, <3>2 DEF Knows
    <3> QED
      BY <1>0, <1>1, <2>0, <3>2, <3>3, TabMoves
  <2>3. CASE Becomes(t, Closing)
    BY <1>0, <1>1, <2>0, <2>3, TabMoves
  <2> QED
    BY <2>1, <2>2, <2>3
<1> QED
  BY <1>2, <1>3, <1>4, <1>5, <1>6, <1>7, <1>8

(* What a token does: it is issued, sent, presented, spent and given up.   *)
LEMMA TokenMoves ==
  ASSUME SessionInv, NEW t \in Tabs,
         \/ IssueNative(t) \/ ExchangeNative(t) \/ IssueSession(t) \/ Reply(t) \/ Present(t)
         \/ Consume(t) \/ Logout(t) \/ ClearCookie(t) \/ Lose(t)
  PROVE  SessionInv'
<1>0. /\ account \in [id : Nat, gone : Nat] /\ account.id \in Nat /\ accounts \in Nat
      /\ challenge \in Nat /\ signIns \in Nat /\ minted \in Nat /\ date \in Nat \ {0}
      /\ jar \in 0 .. minted /\ over \in SUBSET (0 .. signIns) /\ staying \in Nat
      /\ tab \in [Tabs -> TabState] /\ unrestored \in SUBSET Nat
      /\ natives \in SUBSET [signIn : Nat, stays : BOOLEAN]
      /\ tokens \in SUBSET [no : Nat, signIn : Nat, until : Nat]
      /\ \A u \in Tabs : tab[u] \in TabState /\ Knows(tab[u])
      /\ Closing \in TabState /\ Closing.step = "closed" /\ ~ Closing.stays /\ Closing.new = 0
      /\ Closing.had = 0 /\ Closing.signIn = 0
      /\ UNCHANGED <<account, unrestored>> => Gentle
  BY DEF SessionInv, SessionTypes, Closing, TabState, Known, Gentle
<1>t. /\ tab[t].signIn \in Nat /\ tab[t].id \in Nat /\ tab[t].had \in Nat /\ tab[t].new \in Nat
      /\ tab[t].stays \in BOOLEAN
  BY <1>0 DEF TabState
<1> USE DEF browser, ledger, people
<1>1. UNCHANGED minted => Knows(Closing)'
  BY <1>0 DEF Knows
<1>2. ASSUME Becomes(t, Closing), ~ Brings(t), UNCHANGED <<date, people, ledger, signIns, browser>>
      PROVE  SessionInv'
  BY <1>0, <1>1, <1>2, TabMoves
<1>3. CASE IssueNative(t)
  <2>1. /\ Becomes(t, Closing) /\ UNCHANGED <<date, people, tokens, minted, signIns, browser>>
        /\ tab[t].step = "native" /\ tab[t].new = 0 /\ ~ Brings(t) /\ tab[t].id # 0
    BY <1>0, <1>3 DEF IssueNative, Is, Knows, Brings
  <2>2. CASE account.id # tab[t].id
    BY <1>2, <1>3, <2>1, <2>2 DEF IssueNative
  <2>3. CASE account.id = tab[t].id
    <3>1. PICK code : code = [signIn |-> tab[t].signIn, stays |-> tab[t].stays]
      OBVIOUS
    <3>2. natives' = natives \cup {code} /\ code \in [signIn : Nat, stays : BOOLEAN]
          /\ code.signIn = tab[t].signIn /\ code.stays = tab[t].stays
      BY <1>3, <1>t, <2>3, <3>1 DEF IssueNative
    <3>3. \A u \in Tabs : tab'[u] = IF u = t THEN Closing ELSE tab[u]
      BY <1>0, <2>1 DEF Becomes
    <3>4. SessionTypes'
      BY <1>0, <2>1, <3>2, <3>3 DEF SessionTypes, Becomes
    <3>5. Known' /\ Fresh'
      BY <1>0, <2>1, <3>3 DEF Known, Knows, Fresh, SessionInv
    <3>6. Hanging'
      <4>1. code.stays => account.gone = 0 \/ account.id \in unrestored
        BY <1>0, <2>1, <2>3, <3>2 DEF Knows
      <4> QED
        BY <2>1, <2>3, <3>2, <4>1 DEF Hanging, SessionInv
    <3>7. OnItsWay'
      BY <2>1, <3>3 DEF OnItsWay, Brings, Live, SessionInv
    <3>8. OneCarrier'
      <4>1. \A s \in Nat \ {0}, u \in Tabs : Carries(u, s)' <=> Carries(u, s) /\ u # t
        BY <1>0, <3>3 DEF Carries
      <4>2. Carries(t, code.signIn)
        BY <2>1, <3>2 DEF Carries
      <4> QED
        BY <2>1, <3>2, <4>1, <4>2 DEF OneCarrier, SessionInv
    <3> QED
      BY <2>1, <3>4, <3>5, <3>6, <3>7, <3>8 DEF SessionInv, ReturnKeepsAccount
  <2> QED
    BY <2>2, <2>3
<1>4. CASE ExchangeNative(t)
  <2>1. PICK code \in natives :
          /\ natives' = natives \ {code}
          /\ Becomes(t, [Closing EXCEPT !.step = "issue", !.signIn = code.signIn,
                                        !.id = account.id, !.stays = code.stays])
    BY <1>4 DEF ExchangeNative
  <2>2. /\ UNCHANGED <<date, people, tokens, minted, signIns, browser>>
        /\ tab[t].step = "closed" /\ ~ Brings(t)
        /\ code.signIn \in Nat /\ code.stays \in BOOLEAN /\ account.id # 0
        /\ code.stays => account.gone = 0 \/ account.id \in unrestored
    BY <1>0, <1>4 DEF ExchangeNative, Open, Is, Brings, SessionInv, Hanging
  <2>3. PICK x : x = [Closing EXCEPT !.step = "issue", !.signIn = code.signIn,
                                     !.id = account.id, !.stays = code.stays]
    OBVIOUS
  <2>4. /\ Becomes(t, x) /\ x \in TabState /\ x.step = "issue" /\ x.signIn = code.signIn
        /\ x.id = account.id /\ x.had = 0 /\ x.new = 0 /\ x.stays = code.stays
    BY <1>0, <2>1, <2>2, <2>3, ClosingIs DEF TabState
  <2>5. \A u \in Tabs : tab'[u] = IF u = t THEN x ELSE tab[u]
    BY <1>0, <2>4 DEF Becomes
  <2>6. SessionTypes'
    BY <1>0, <2>1, <2>2, <2>4 DEF SessionTypes, Becomes
  <2>7. Known'
    <3>1. Knows(x)'
      BY <1>0, <2>2, <2>4 DEF Knows
    <3> QED
      BY <1>0, <2>2, <2>5, <3>1 DEF Known, Knows
  <2>8. Fresh'
    BY <1>0, <2>2, <2>4, <2>5 DEF Fresh, SessionInv
  <2>9. Hanging'
    BY <2>1, <2>2 DEF Hanging, SessionInv
  <2>10. OnItsWay'
    BY <2>2, <2>5 DEF OnItsWay, Brings, Live, SessionInv
  <2>11. OneCarrier'
    <3>1. \A s \in Nat \ {0}, u \in Tabs : Carries(u, s)' => \/ Carries(u, s) /\ u # t
                                                             \/ u = t /\ s = code.signIn
      BY <2>4, <2>5 DEF Carries
    <3> QED
      BY <2>1, <2>2, <3>1 DEF OneCarrier, SessionInv
  <2> QED
    BY <2>2, <2>6, <2>7, <2>8, <2>9, <2>10, <2>11 DEF SessionInv, ReturnKeepsAccount
<1>5. CASE IssueSession(t)
  <2>1. /\ UNCHANGED <<date, people, natives, signIns, browser>>
        /\ tab[t].step = "issue" /\ tab[t].new = 0 /\ tab[t].id # 0
    BY <1>0, <1>5 DEF IssueSession, Is, Knows
  <2>2. CASE account.id # tab[t].id
    <3>1. ~ Brings(t)
      BY <2>1, <2>2 DEF Brings
    <3> QED
      BY <1>2, <1>5, <2>1, <2>2, <3>1 DEF IssueSession
  <2>3. CASE account.id = tab[t].id
    <3>1. PICK token : token = [no |-> minted + 1, signIn |-> tab[t].signIn, until |-> date + SessionDays]
      OBVIOUS
    <3>2. PICK x : x = [tab[t] EXCEPT !.step = "reply", !.new = minted + 1]
      OBVIOUS
    <3>3. /\ minted' = minted + 1 /\ tokens' = tokens \cup {token} /\ Becomes(t, x)
          /\ token \in [no : Nat, signIn : Nat, until : Nat] /\ token.signIn = tab[t].signIn
          /\ token.no = minted + 1
      BY <1>0, <1>5, <1>t, <2>3, <3>1, <3>2, SessionsAssumption DEF IssueSession
    <3>4. /\ x \in TabState /\ x.step = "reply" /\ x.signIn = tab[t].signIn /\ x.id = tab[t].id
          /\ x.had = tab[t].had /\ x.new = minted + 1 /\ x.stays = tab[t].stays
      <4>1. minted + 1 \in Nat
        BY <1>0
      <4> QED
        BY <1>0, <3>2, <4>1 DEF TabState
    <3>5. \A u \in Tabs : tab'[u] = IF u = t THEN x ELSE tab[u]
      BY <1>0, <3>3 DEF Becomes
    <3>6. SessionTypes'
      BY <1>0, <2>1, <3>3, <3>4 DEF SessionTypes, Becomes
    <3>7. Known'
      <4>1. Knows(x)'
        BY <1>0, <1>t, <2>1, <2>3, <3>3, <3>4 DEF Knows
      <4>2. Gentle
        BY <1>0, <2>1
      <4> QED
        BY <1>0, <3>3, <3>5, <4>1, <4>2, OthersKnow DEF Known, SessionInv
    <3>8. Fresh'
      <4>1. \A u \in Tabs : tab[u].had # minted + 1 /\ tab[u].new # minted + 1
        BY <1>0 DEF Knows, TabState
      <4>2. jar # minted + 1
        BY <1>0
      <4> QED
        BY <1>0, <2>1, <3>4, <3>5, <4>1, <4>2 DEF Fresh, SessionInv
    <3>9. Hanging'
      BY <2>1, <2>3, <3>3 DEF Hanging, SessionInv
    <3>10. OnItsWay'
      BY <2>1, <3>3, <3>4, <3>5 DEF OnItsWay, Brings, Live, SessionInv
    <3>11. OneCarrier'
      <4>1. \A s \in Nat \ {0}, u \in Tabs : Carries(u, s)' <=> Carries(u, s) /\ u # t
        BY <1>0, <3>4, <3>5 DEF Carries
      <4>2. Carries(t, token.signIn)
        BY <2>1, <3>3 DEF Carries
      <4>3. \A a \in tokens' : a \in tokens \/ a = token
        BY <3>3
      <4>4. \A a \in tokens : a.signIn # 0 => a.signIn # token.signIn
        BY <1>0, <4>2 DEF OneCarrier, SessionInv
      <4>5. \A b \in natives : b.signIn # 0 => b.signIn # token.signIn
        BY <1>0, <4>2 DEF OneCarrier, SessionInv
      <4>6. \A u \in Tabs : u # t /\ token.signIn # 0 => ~ Carries(u, token.signIn)
        BY <1>0, <3>3, <4>2, <1>t DEF OneCarrier, SessionInv
      <4>7. token.signIn # 0 => token.signIn \notin over /\ ~ (token.signIn > signIns)
        BY <1>0, <3>3, <4>2, <1>t DEF OneCarrier, SessionInv
      <4>8. UNCHANGED <<natives, over, signIns>>
        BY <2>1
      <4> SUFFICES ASSUME NEW s \in Nat \ {0}
                   PROVE  /\ \A a, b \in tokens' : a.signIn = s /\ b.signIn = s => a = b
                          /\ \A a, b \in natives : a.signIn = s /\ b.signIn = s => a = b
                          /\ \A u, v \in Tabs : Carries(u, s)' /\ Carries(v, s)' => u = v
                          /\ \A a \in tokens', b \in natives : ~ (a.signIn = s /\ b.signIn = s)
                          /\ \A a \in tokens', u \in Tabs : ~ (a.signIn = s /\ Carries(u, s)')
                          /\ \A b \in natives, u \in Tabs : ~ (b.signIn = s /\ Carries(u, s)')
                          /\ s \in over \/ s > signIns =>
                               /\ \A a \in tokens' : a.signIn # s
                               /\ \A b \in natives : b.signIn # s
                               /\ \A u \in Tabs : ~ Carries(u, s)'
        BY <4>8 DEF OneCarrier
      <4>9. \A u \in Tabs : Carries(u, s)' <=> Carries(u, s) /\ u # t
        BY <4>1
      <4>10. CASE s = token.signIn
        BY <4>3, <4>4, <4>5, <4>6, <4>7, <4>9, <4>10 DEF OneCarrier, SessionInv
      <4>11. CASE s # token.signIn
        BY <4>3, <4>9, <4>11 DEF OneCarrier, SessionInv
      <4> QED
        BY <4>10, <4>11
    <3> QED
      BY <2>1, <3>6, <3>7, <3>8, <3>9, <3>10, <3>11 DEF SessionInv, ReturnKeepsAccount
  <2> QED
    BY <2>2, <2>3
<1>6. CASE Reply(t)
  <2>1. /\ UNCHANGED <<date, people, ledger, signIns, over>> /\ Becomes(t, Closing)
        /\ jar' = tab[t].new /\ due' = Live(tab[t].new)
        /\ staying' = (IF tab[t].stays THEN tab[t].id ELSE staying)
        /\ tab[t].step = "reply" /\ tab[t].new # 0 /\ tab[t].new <= minted
        /\ tab[t].stays => (account.id = tab[t].id /\ account.gone = 0) \/ tab[t].id \in unrestored
    BY <1>0, <1>6 DEF Reply, Is, Knows
  <2>2. \A u \in Tabs : tab'[u] = IF u = t THEN Closing ELSE tab[u]
    BY <1>0, <2>1 DEF Becomes
  <2>3. SessionTypes'
    BY <1>0, <1>t, <2>1 DEF SessionTypes, Becomes
  <2>4. Known' /\ Hanging'
    BY <1>0, <2>1, <2>2 DEF Known, Knows, Hanging, SessionInv
  <2>5. Fresh'
    BY <1>0, <2>1, <2>2 DEF Fresh, SessionInv
  <2>6. OnItsWay'
    BY <2>1 DEF OnItsWay, Live
  <2>7. OneCarrier'
    <3>1. \A s \in Nat \ {0}, u \in Tabs : Carries(u, s)' <=> Carries(u, s)
      BY <1>0, <2>1, <2>2 DEF Carries
    <3> QED
      BY <2>1, <3>1 DEF OneCarrier, SessionInv
  <2>8. ReturnKeepsAccount'
    <3>1. account = [id |-> account.id, gone |-> account.gone]
      BY <1>0
    <3> QED
      BY <2>1, <3>1 DEF ReturnKeepsAccount, SessionInv
  <2> QED
    BY <2>3, <2>4, <2>5, <2>6, <2>7, <2>8 DEF SessionInv
<1>7. CASE Present(t)
  <2>1. PICK step \in {"refresh", "logout"} : Becomes(t, [Closing EXCEPT !.step = step, !.had = jar])
    BY <1>7 DEF Present
  <2>2. PICK x : x = [Closing EXCEPT !.step = step, !.had = jar]
    OBVIOUS
  <2>3. /\ Becomes(t, x) /\ x \in TabState /\ x.step = step /\ x.signIn = 0 /\ x.had = jar /\ x.new = 0
        /\ ~ x.stays
    <3>1. jar \in Nat
      BY <1>0
    <3> QED
      BY <2>1, <2>2, <3>1, ClosingIs DEF TabState
  <2>4. UNCHANGED <<date, people, ledger, signIns, browser>> /\ ~ Brings(t)
    BY <1>7 DEF Present, Open, Is, Brings
  <2>5. Knows(x)'
    BY <1>0, <2>3, <2>4 DEF Knows
  <2> QED
    BY <1>0, <2>3, <2>4, <2>5, TabMoves
<1>8. CASE Consume(t)
  <2>1. /\ UNCHANGED <<date, people, natives, minted, signIns, browser>>
        /\ tab[t].step = "refresh" /\ tab[t].new = 0 /\ ~ tab[t].stays
    BY <1>0, <1>8 DEF Consume, Is, Knows
  <2>2. CASE ~ Live(tab[t].had)
    <3>1. ~ Brings(t)
      BY <2>1 DEF Brings
    <3> QED
      BY <1>2, <1>8, <2>1, <2>2, <3>1 DEF Consume
  <2>3. CASE Live(tab[t].had)
    <3>1. PICK token \in tokens :
            /\ token.no = tab[t].had /\ tokens' = tokens \ {token}
            /\ Becomes(t, [tab[t] EXCEPT !.step = "issue", !.signIn = token.signIn, !.id = account.id])
      BY <1>8, <2>3 DEF Consume
    <3>2. PICK x : x = [tab[t] EXCEPT !.step = "issue", !.signIn = token.signIn, !.id = account.id]
      OBVIOUS
    <3>3. token.signIn \in Nat /\ account.id # 0
      BY <1>0 DEF SessionInv, Hanging
    <3>4. /\ Becomes(t, x) /\ x \in TabState /\ x.step = "issue" /\ x.signIn = token.signIn
          /\ x.id = account.id /\ x.had = tab[t].had /\ x.new = 0 /\ ~ x.stays
      BY <1>0, <2>1, <3>1, <3>2, <3>3 DEF TabState
    <3>5. \A u \in Tabs : tab'[u] = IF u = t THEN x ELSE tab[u]
      BY <1>0, <3>4 DEF Becomes
    <3>6. SessionTypes'
      BY <1>0, <2>1, <3>1, <3>4 DEF SessionTypes, Becomes
    <3>7. Known'
      BY <1>0, <2>1, <3>3, <3>4, <3>5 DEF Known, Knows
    <3>8. Fresh'
      BY <1>0, <2>1, <3>4, <3>5 DEF Fresh, SessionInv
    <3>9. Hanging'
      BY <2>1, <3>1 DEF Hanging, SessionInv
    <3>10. OnItsWay'
      <4> SUFFICES ASSUME due PROVE Live(jar)' \/ \E u \in Tabs : Brings(u)'
        BY <2>1 DEF OnItsWay
      <4>1. CASE tab[t].had = jar
        <5>1. Brings(t)'
          BY <2>1, <3>4, <3>5, <4>1 DEF Brings
        <5> QED
          BY <5>1
      <4>2. CASE tab[t].had # jar
        <5>1. Live(jar) => Live(jar)'
          BY <2>1, <3>1, <4>2 DEF Live
        <5>2. \A u \in Tabs : Brings(u) => Brings(u)'
          BY <2>1, <3>5, <4>2 DEF Brings
        <5> QED
          BY <5>1, <5>2 DEF OnItsWay, SessionInv
      <4> QED
        BY <4>1, <4>2
    <3>11. OneCarrier'
      <4>1. \A s \in Nat \ {0}, u \in Tabs : Carries(u, s)' => \/ Carries(u, s) /\ u # t
                                                               \/ u = t /\ s = token.signIn
        BY <3>4, <3>5 DEF Carries
      <4> QED
        BY <2>1, <3>1, <4>1 DEF OneCarrier, SessionInv
    <3> QED
      BY <2>1, <3>6, <3>7, <3>8, <3>9, <3>10, <3>11 DEF SessionInv, ReturnKeepsAccount
  <2> QED
    BY <2>2, <2>3
<1>9. CASE Logout(t)
  <2>1. PICK gone \in SUBSET tokens :
          tokens' = tokens \ gone /\ over' = over \cup {token.signIn : token \in gone}
    <3>1. PICK gone \in {{token \in tokens : token.no = tab[t].had /\ token.until > date}, {}} :
            tokens' = tokens \ gone /\ over' = over \cup {token.signIn : token \in gone}
      BY <1>9 DEF Logout
    <3>2. gone \in SUBSET tokens
      OBVIOUS
    <3> QED
      BY <3>1, <3>2
  <2>2. /\ UNCHANGED <<date, people, natives, minted, signIns, jar, staying>> /\ ~ due'
        /\ tokens' = tokens \ gone /\ over' = over \cup {token.signIn : token \in gone}
        /\ tab[t].step = "logout" /\ tab[t].new = 0 /\ ~ tab[t].stays /\ Steps(t, "clear")
    BY <1>0, <1>9, <2>1 DEF Logout, Is, Knows
  <2>3. PICK x : x = [tab[t] EXCEPT !.step = "clear"]
    OBVIOUS
  <2>4. /\ Becomes(t, x) /\ x \in TabState /\ x.step = "clear" /\ x.signIn = tab[t].signIn
        /\ x.had = tab[t].had /\ x.new = 0 /\ ~ x.stays
    BY <1>0, <2>2, <2>3 DEF TabState, Steps
  <2>5. \A u \in Tabs : tab'[u] = IF u = t THEN x ELSE tab[u]
    BY <1>0, <2>4 DEF Becomes
  <2>6. \A token \in gone : token.signIn \in 0 .. signIns
    BY <1>0 DEF OneCarrier, SessionInv
  <2>7. Known' /\ Hanging'
    BY <1>0, <2>2, <2>4, <2>5 DEF Known, Knows, Hanging, SessionInv
  <2>8. Fresh'
    BY <1>0, <2>2, <2>4, <2>5 DEF Fresh, SessionInv
  <2>9. OnItsWay'
    BY <2>2 DEF OnItsWay
  <2>10. OneCarrier'
    <3>1. \A s \in Nat \ {0}, u \in Tabs : Carries(u, s)' <=> Carries(u, s)
      BY <2>2, <2>4, <2>5 DEF Carries
    <3> QED
      BY <2>2, <3>1 DEF OneCarrier, SessionInv
  <2>11. SessionTypes'
    BY <1>0, <2>2, <2>4, <2>6 DEF SessionTypes, Becomes
  <2> QED
    BY <2>2, <2>7, <2>8, <2>9, <2>10, <2>11 DEF SessionInv, ReturnKeepsAccount
<1>10. CASE ClearCookie(t)
  <2>1. /\ UNCHANGED <<date, people, ledger, signIns, over, staying>> /\ Becomes(t, Closing)
        /\ jar' = 0 /\ ~ due'
    BY <1>10 DEF ClearCookie
  <2>2. \A u \in Tabs : tab'[u] = IF u = t THEN Closing ELSE tab[u]
    BY <1>0, <2>1 DEF Becomes
  <2>3. SessionTypes'
    BY <1>0, <2>1 DEF SessionTypes, Becomes
  <2>4. Known' /\ Hanging'
    BY <1>0, <2>1, <2>2 DEF Known, Knows, Hanging, SessionInv
  <2>5. Fresh'
    BY <1>0, <2>1, <2>2 DEF Fresh, SessionInv
  <2>6. OneCarrier'
    <3>1. \A s \in Nat \ {0}, u \in Tabs : Carries(u, s)' => Carries(u, s)
      BY <1>0, <2>1, <2>2 DEF Carries
    <3> QED
      BY <2>1, <3>1 DEF OneCarrier, SessionInv
  <2> QED
    BY <2>1, <2>3, <2>4, <2>5, <2>6 DEF SessionInv, OnItsWay, ReturnKeepsAccount
<1>11. CASE Lose(t)
  <2>1. /\ Becomes(t, Closing) /\ ~ due'
        /\ UNCHANGED <<date, people, ledger, signIns, jar, over, staying>>
    BY <1>11 DEF Lose
  <2> QED
    BY <1>0, <1>1, <2>1, TabMoves
<1> QED
  BY <1>3, <1>4, <1>5, <1>6, <1>7, <1>8, <1>9, <1>10, <1>11

(* The account is deleted, kept after all or purged; a day goes by.        *)
LEMMA AccountMoves ==
  ASSUME SessionInv, SoftDelete \/ CancelDelete \/ Purge \/ PassDate
  PROVE  SessionInv'
<1>0. /\ account \in [id : Nat, gone : Nat] /\ account.id \in Nat
      /\ signIns \in Nat /\ minted \in Nat /\ date \in Nat \ {0}
      /\ tab \in [Tabs -> TabState]
      /\ natives \in SUBSET [signIn : Nat, stays : BOOLEAN]
      /\ tokens \in SUBSET [no : Nat, signIn : Nat, until : Nat]
      /\ \A u \in Tabs : tab[u] \in TabState /\ Knows(tab[u])
  BY DEF SessionInv, SessionTypes, Known
<1> USE DEF ledger
<1>1. CASE SoftDelete
  <2>1. /\ account' = [account EXCEPT !.gone = date] /\ account.id # 0 /\ account.gone = 0
        /\ tab' = [t \in Tabs |-> [tab[t] EXCEPT !.stays = FALSE]]
        /\ natives' = {[code EXCEPT !.stays = FALSE] : code \in natives}
        /\ staying' = 0
        /\ UNCHANGED <<date, accounts, challenge, tokens, minted, signIns, jar, due, over, unrestored>>
    BY <1>1 DEF SoftDelete
  <2>2. account' \in [id : Nat, gone : Nat] /\ account'.id = account.id /\ account'.gone = date
    BY <1>0, <2>1
  <2>3. \A u \in Tabs : /\ tab'[u] \in TabState /\ tab'[u].step = tab[u].step /\ ~ tab'[u].stays
                        /\ tab'[u].signIn = tab[u].signIn /\ tab'[u].id = tab[u].id
                        /\ tab'[u].had = tab[u].had /\ tab'[u].new = tab[u].new
    BY <1>0, <2>1 DEF TabState
  <2>4. \A b \in natives' : /\ b \in [signIn : Nat, stays : BOOLEAN] /\ ~ b.stays
                            /\ \E a \in natives : a.signIn = b.signIn
    BY <1>0, <2>1
  <2>5. \A a, b \in natives' : a.signIn = b.signIn => a = b
    <3>1. \A b \in natives' : b.stays = FALSE /\ b = [signIn |-> b.signIn, stays |-> b.stays]
      BY <1>0, <2>1
    <3> QED
      BY <3>1
  <2>6. tab' \in [Tabs -> TabState]
    BY <2>1, <2>3
  <2>7. SessionTypes'
    BY <1>0, <2>1, <2>2, <2>4, <2>6 DEF SessionTypes, SessionInv
  <2>8. Known'
    BY <1>0, <2>1, <2>3 DEF Known, Knows
  <2>9. Hanging' /\ Fresh'
    BY <1>0, <2>1, <2>2, <2>3, <2>4 DEF Hanging, Fresh, SessionInv
  <2>10. OnItsWay'
    <3>1. Live(jar)' <=> Live(jar)
      BY <2>1 DEF Live
    <3>2. \A u \in Tabs : Brings(u)' <=> Brings(u)
      BY <2>1, <2>2, <2>3 DEF Brings
    <3> QED
      BY <2>1, <3>1, <3>2 DEF OnItsWay, SessionInv
  <2>11. OneCarrier'
    <3>1. \A s \in Nat \ {0}, u \in Tabs : Carries(u, s)' <=> Carries(u, s)
      BY <2>3 DEF Carries
    <3> QED
      BY <2>1, <2>4, <2>5, <3>1 DEF OneCarrier, SessionInv
  <2> QED
    BY <2>1, <2>7, <2>8, <2>9, <2>10, <2>11 DEF SessionInv, ReturnKeepsAccount
<1>2. CASE CancelDelete
  <2>1. /\ account' = Restored /\ unrestored' = unrestored \ {account.id}
        /\ staying' = account.id /\ account.gone # 0
        /\ UNCHANGED <<date, accounts, challenge, natives, tokens, minted, signIns, jar, tab, due, over>>
    BY <1>2 DEF CancelDelete, Restores
  <2>2. /\ account' = [id |-> account.id, gone |-> 0] /\ account' \in [id : Nat, gone : Nat]
        /\ account'.id = account.id /\ account'.gone = 0
    BY <1>0, <2>1 DEF Restored
  <2>3. SessionTypes'
    BY <1>0, <2>1, <2>2 DEF SessionTypes, SessionInv
  <2>4. Known'
    BY <1>0, <2>1, <2>2 DEF Known, Knows
  <2>5. Hanging' /\ Fresh' /\ ReturnKeepsAccount'
    BY <2>1, <2>2 DEF Hanging, Fresh, ReturnKeepsAccount, SessionInv
  <2>6. OnItsWay'
    BY <2>1, <2>2 DEF OnItsWay, Brings, Live, SessionInv
  <2>7. OneCarrier'
    BY <2>1 DEF OneCarrier, Carries, SessionInv
  <2> QED
    BY <2>3, <2>4, <2>5, <2>6, <2>7 DEF SessionInv
<1>3. CASE Purge
  <2>1. /\ account' = NoAccount /\ challenge' = 0 /\ natives' = {} /\ tokens' = {} /\ ~ due'
        /\ account.gone # 0
        /\ UNCHANGED <<date, accounts, minted, signIns, jar, tab, over, staying, unrestored>>
    BY <1>3 DEF Purge
  <2>2. account' \in [id : Nat, gone : Nat] /\ account'.id = 0 /\ account'.gone = 0
    BY <2>1 DEF NoAccount
  <2>3. SessionTypes'
    BY <2>1, <2>2 DEF SessionTypes, SessionInv
  <2>4. Known'
    BY <1>0, <2>1, <2>2 DEF Known, Knows
  <2>5. Hanging' /\ Fresh' /\ OnItsWay'
    BY <2>1, <2>2 DEF Hanging, Fresh, OnItsWay, SessionInv
  <2>6. ReturnKeepsAccount'
    <3>1. staying = 0 \/ staying \in unrestored
      BY <2>1 DEF ReturnKeepsAccount, SessionInv
    <3> QED
      BY <2>1, <3>1 DEF ReturnKeepsAccount
  <2>7. OneCarrier'
    BY <2>1 DEF OneCarrier, Carries, SessionInv
  <2> QED
    BY <2>3, <2>4, <2>5, <2>6, <2>7 DEF SessionInv
<1>4. CASE PassDate
  <2>1. /\ date' = date + 1 /\ natives' = {} /\ challenge' = 0
        /\ due' => \E token \in tokens : token.no = jar /\ token.until > date'
        /\ UNCHANGED <<account, accounts, tokens, minted, signIns, jar, tab, over, staying, unrestored>>
    BY <1>4 DEF PassDate
  <2>2. SessionTypes'
    BY <2>1 DEF SessionTypes, SessionInv
  <2>3. Known' /\ Hanging' /\ Fresh'
    BY <1>0, <2>1 DEF Known, Knows, Hanging, Fresh, SessionInv
  <2>4. OnItsWay' /\ ReturnKeepsAccount'
    BY <2>1 DEF OnItsWay, Live, ReturnKeepsAccount, SessionInv
  <2>5. OneCarrier'
    BY <2>1 DEF OneCarrier, Carries, SessionInv
  <2> QED
    BY <2>2, <2>3, <2>4, <2>5 DEF SessionInv
<1> QED
  BY <1>1, <1>2, <1>3, <1>4

LEMMA SessionInvNext == SessionInv /\ [SessionsNext]_sessionVars => SessionInv'
<1> SUFFICES ASSUME SessionInv, [SessionsNext]_sessionVars PROVE SessionInv'
  OBVIOUS
<1>1. CASE \E t \in Tabs :
             \/ ResolveOrLink(t) \/ SendChallenge(t) \/ VerifyLogin(t) \/ VerifyLink(t)
             \/ FindByEmail(t) \/ RestoreByEmail(t) \/ CreateByEmail(t) \/ Identify(t)
  BY <1>1, SigningIn
<1>2. CASE \E t \in Tabs :
             \/ IssueNative(t) \/ ExchangeNative(t) \/ IssueSession(t) \/ Reply(t) \/ Present(t)
             \/ Consume(t) \/ Logout(t) \/ ClearCookie(t) \/ Lose(t)
  BY <1>2, TokenMoves
<1>3. CASE SoftDelete \/ CancelDelete \/ Purge \/ PassDate
  BY <1>3, AccountMoves
<1>4. CASE UNCHANGED sessionVars
  BY <1>4 DEF sessionVars, SessionInv, SessionTypes, Known, Knows, Hanging, Fresh, OnItsWay, Live,
              Brings, OneCarrier, Carries, ReturnKeepsAccount
<1> QED
  BY <1>1, <1>2, <1>3, <1>4 DEF SessionsNext

LEMMA SessionsStay == SessionsSpec => []SessionInv
BY SessionInvInit, SessionInvNext, PTL DEF SessionsSpec

(***************************************************************************)
(* A sign-in is carried by one request, app code or token, by none after   *)
(* logout deleted its token, and a browser entitled to be signed in has  *)
(* a live token or the tab that will bring it one (consumeRefreshToken,    *)
(* issueSession and the handlers that answer with the cookie).             *)
(***************************************************************************)
THEOREM SessionsHoldSignIns == SessionsSpec => []SignInsHold
<1>1. SessionInv => SignInsHold
  <2> SUFFICES ASSUME SessionInv PROVE SignInsHold
    OBVIOUS
  <2>1. StaysSignedIn
    BY DEF SessionInv, OnItsWay, Brings, StaysSignedIn
  <2>2. ASSUME NEW s \in 1 .. signIns
        PROVE  LET carriers == Cardinality({token \in tokens : token.signIn = s})
                                 + Cardinality({code \in natives : code.signIn = s})
                                 + Cardinality({t \in Tabs : tab[t].signIn = s /\ tab[t].new = 0})
               IN carriers <= (IF s \in over THEN 0 ELSE 1)
    <3> DEFINE A == {token \in tokens : token.signIn = s}
               B == {code \in natives : code.signIn = s}
               C == {t \in Tabs : tab[t].signIn = s /\ tab[t].new = 0}
    <3>0. s \in Nat \ {0}
      BY DEF SessionInv, SessionTypes
    <3>1. (\A x, y \in A : x = y) /\ (\A x, y \in B : x = y) /\ (\A x, y \in C : x = y)
      BY <3>0 DEF SessionInv, OneCarrier, Carries
    <3>2. (A = {} \/ B = {}) /\ (A = {} \/ C = {}) /\ (B = {} \/ C = {})
      BY <3>0 DEF SessionInv, OneCarrier, Carries
    <3>3. s \in over => A = {} /\ B = {} /\ C = {}
      BY <3>0 DEF SessionInv, OneCarrier, Carries
    <3> HIDE DEF A, B, C
    <3>4. Cardinality(A) \in {0, 1} /\ (A = {} => Cardinality(A) = 0)
      BY <3>1, AtMostOne
    <3>5. Cardinality(B) \in {0, 1} /\ (B = {} => Cardinality(B) = 0)
      BY <3>1, AtMostOne
    <3>6. Cardinality(C) \in {0, 1} /\ (C = {} => Cardinality(C) = 0)
      BY <3>1, AtMostOne
    <3>7. Cardinality(A) + Cardinality(B) + Cardinality(C) <= (IF s \in over THEN 0 ELSE 1)
      BY <3>2, <3>3, <3>4, <3>5, <3>6
    <3> QED
      BY <3>7 DEF A, B, C
  <2> QED
    BY <2>1, <2>2 DEF SignInsHold, OneTokenPerSignIn
<1> QED
  BY <1>1, SessionsStay, PTL

(***************************************************************************)
(* Who signs in during the grace, or cancels the deletion, and does not    *)
(* delete again, keeps that account: no purge comes between the statements *)
(* of a sign-in and its reply; but for a sign-in by mail whose UPDATE of   *)
(* deleted_at failed, which goes on all the same (findOrCreateByEmail,     *)
(* PurgeDeletedUsers).                                                     *)
(***************************************************************************)
THEOREM ReturnersKeepTheirAccount == SessionsSpec => []ReturnKeepsAccount
<1>1. SessionInv => ReturnKeepsAccount
  BY DEF SessionInv
<1> QED
  BY <1>1, SessionsStay, PTL

=============================================================================
