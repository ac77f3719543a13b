------------------------------ MODULE MoneyProofs ------------------------------
(***************************************************************************)
(* Proofs about money: a budget keeps what one request asked for           *)
(* (Budgets), the rows of the ledger keep in step with each other (Ledger),*)
(* no cycle of a biller is passed over or left untold (Billers), and the   *)
(* invested amount is what was paid in (Investments), for any number of    *)
(* requests at once.                                                       *)
(***************************************************************************)
EXTENDS Budgets, Ledger, Billers, Investments, FiniteSetsExt, SequenceTheorems, SetLemmas

-----------------------------------------------------------------------------
(* Budgets.                                                                *)

Edits == [step : {"open", "caps", "named"}, header : BOOLEAN, sends : SUBSET {"caps", "named"}, by : Nat,
          slates : SUBSET Slates, caps : SUBSET Categories,
          cut : SUBSET (SlateRows \cup CapRows), behind : SUBSET Planners]

BudgetTypes ==
  /\ plans \in Nat
  /\ budget # NoBudget => budget \in [named : SUBSET SlateRows, caps : SUBSET CapRows]
  /\ DOMAIN planning = Planners
  /\ \A c \in Planners : planning[c] # Waiting => planning[c] \in Edits
  /\ wanted \in [named : SUBSET Slates, caps : SUBSET Categories, raced : BOOLEAN]

(* The rows of one request, for these things.                              *)
WrittenBy(b, things) == {[by |-> b, of |-> x] : x \in things}

(* What an open edit that no other meets has taken away so far.            *)
Cut(p) == (IF p.step # "open" /\ "caps" \in p.sends THEN budget.caps ELSE {})
          \cup (IF p.step = "named" /\ "named" \in p.sends THEN budget.named ELSE {})

OneEdit ==
  /\ budget = NoBudget => Editing = {}
  /\ ~ wanted.raced => \A c, d \in Editing : c = d
  /\ ~ wanted.raced /\ budget # NoBudget =>
       /\ Things(budget.named) = wanted.named
       /\ \E b \in Nat : budget.caps = WrittenBy(b, wanted.caps)
       /\ \A c \in Editing :
            /\ planning[c].cut = Cut(planning[c])
            /\ "named" \notin planning[c].sends => planning[c].slates = {}
            /\ "caps" \notin planning[c].sends => planning[c].caps = {}

BudgetInv == BudgetTypes /\ OneEdit

LEMMA ThingsWritten ==
  ASSUME NEW b, NEW things
  PROVE  Things(WrittenBy(b, things)) = things
<1>1. \A x : [by |-> b, of |-> x].of = x
  OBVIOUS
<1>2. \A y \in Things(WrittenBy(b, things)) : y \in things
  BY <1>1 DEF WrittenBy, Things
<1>3. \A x \in things : x \in Things(WrittenBy(b, things))
  BY <1>1 DEF WrittenBy, Things
<1> QED
  BY <1>2, <1>3

LEMMA WrittenOnce ==
  ASSUME NEW b \in Nat, NEW things \in SUBSET Categories
  PROVE  /\ WrittenBy(b, things) \in SUBSET CapRows /\ Things(WrittenBy(b, things)) = things
         /\ Cardinality(WrittenBy(b, things)) = Cardinality(things)
<1>1. WrittenBy(b, things) \in SUBSET CapRows /\ Things(WrittenBy(b, things)) = things
  <2>1. \A x \in things : [by |-> b, of |-> x] \in CapRows
    BY DEF CapRows
  <2> QED
    BY <2>1, ThingsWritten DEF WrittenBy
<1>2. Cardinality(WrittenBy(b, things)) = Cardinality(things)
  <2>1. IsFiniteSet(things)
    BY BudgetsAssumption, FS_Subset
  <2> DEFINE row == [x \in things |-> [by |-> b, of |-> x]]
  <2>2. row \in [things -> WrittenBy(b, things)]
    BY DEF WrittenBy
  <2>3. \A x, y \in things : row[x] = row[y] => x = y
    <3>1. \A x \in things : row[x].of = x
      OBVIOUS
    <3> QED
      BY <3>1
  <2>4. \A r \in WrittenBy(b, things) : \E x \in things : row[x] = r
    BY DEF WrittenBy
  <2>5. row \in Bijection(things, WrittenBy(b, things))
    <3> HIDE DEF row
    <3> QED
      BY <2>2, <2>3, <2>4 DEF Bijection, Injection, Surjection, IsInjective
  <2>6. ExistsBijection(things, WrittenBy(b, things))
    BY <2>5 DEF ExistsBijection
  <2> QED
    BY <2>1, <2>6, FS_Bijection
<1> QED
  BY <1>1, <1>2

LEMMA BudgetInvInit == BudgetsInit => BudgetInv
<1> SUFFICES ASSUME NEW made \in BOOLEAN, BudgetsStart(made) PROVE BudgetInv
  BY DEF BudgetsInit
<1>1. /\ plans \in Nat /\ DOMAIN planning = Planners /\ Editing = {}
      /\ \A c \in Planners : planning[c] = Waiting
  BY BudgetsAssumption DEF BudgetsStart, Editing
<1>2. CASE ~ made
  BY <1>1, <1>2 DEF BudgetsStart, BudgetInv, BudgetTypes, OneEdit
<1>3. CASE made
  <2>1. PICK b : b = [named |-> {[by |-> 0, of |-> s] : s \in Outliers}, caps |-> WrittenBy(0, Categories)]
    OBVIOUS
  <2>2. budget = b /\ wanted = [named |-> Outliers, caps |-> Categories, raced |-> FALSE]
    BY <1>3, <2>1 DEF BudgetsStart, WrittenBy
  <2>3. /\ b.named = {[by |-> 0, of |-> s] : s \in Outliers} /\ b.caps = WrittenBy(0, Categories)
        /\ b \in [named : SUBSET SlateRows, caps : SUBSET CapRows]
    <3>1. {[by |-> 0, of |-> s] : s \in Outliers} \in SUBSET SlateRows
      BY DEF SlateRows, Slates
    <3>2. WrittenBy(0, Categories) \in SUBSET CapRows
      BY WrittenOnce
    <3> QED
      BY <2>1, <3>1, <3>2
  <2>4. Things(b.named) = Outliers
    <3>1. b.named = WrittenBy(0, Outliers)
      BY <2>3 DEF WrittenBy
    <3> QED
      BY <3>1, ThingsWritten
  <2>5. wanted \in [named : SUBSET Slates, caps : SUBSET Categories, raced : BOOLEAN]
        /\ wanted.named = Outliers /\ wanted.caps = Categories
    BY <2>2 DEF Slates
  <2> QED
    BY <1>1, <2>2, <2>3, <2>4, <2>5, BudgetsAssumption DEF BudgetInv, BudgetTypes, OneEdit
<1> QED
  BY <1>2, <1>3

LEMMA BudgetInvNext == BudgetInv /\ [BudgetsNext]_budgetVars => BudgetInv'
<1> SUFFICES ASSUME BudgetInv, [BudgetsNext]_budgetVars PROVE BudgetTypes' /\ OneEdit'
  BY DEF BudgetInv
<1>0. BudgetTypes /\ OneEdit
  BY DEF BudgetInv
<1>1. Waiting.step = "idle" /\ \A p \in Edits : p # Waiting /\ p.step \in {"open", "caps", "named"}
  BY DEF Waiting, Edits
<1>2. ASSUME NEW c \in Planners, Arrives(c) PROVE plans \in Nat /\ plans > 0 /\ plans' \in Nat /\ planning[c] = Waiting
  BY <1>0, <1>2 DEF Arrives, BudgetTypes
<1>3. ASSUME NEW c \in Planners, CreateBudget(c) PROVE BudgetTypes' /\ OneEdit'
  <2>1. PICK slates_1 \in SUBSET (Slates \cap kept), caps_1 \in SUBSET (Categories \cap kept) :
          /\ budget = NoBudget /\ budget' = [named |-> RowsOf(slates_1), caps |-> RowsOf(caps_1)]
          /\ wanted' = [named |-> slates_1, caps |-> caps_1, raced |-> FALSE]
          /\ UNCHANGED planning
    BY <1>3 DEF CreateBudget
  <2>2. PICK b : b = plans /\ b \in Nat /\ plans' \in Nat
    BY <1>2, <1>3 DEF CreateBudget
  <2>3. RowsOf(slates_1) = WrittenBy(b, slates_1) /\ RowsOf(caps_1) = WrittenBy(b, caps_1)
    BY <2>2 DEF RowsOf, WrittenBy
  <2>4. /\ budget'.named = WrittenBy(b, slates_1) /\ budget'.caps = WrittenBy(b, caps_1)
        /\ budget' \in [named : SUBSET SlateRows, caps : SUBSET CapRows]
    <3>1. WrittenBy(b, slates_1) \in SUBSET SlateRows
      BY <2>2 DEF SlateRows, WrittenBy
    <3>2. WrittenBy(b, caps_1) \in SUBSET CapRows
      BY <2>2, WrittenOnce
    <3> QED
      BY <2>1, <2>3, <3>1, <3>2
  <2>5. Things(budget'.named) = slates_1
    BY <2>4, ThingsWritten
  <2>6. /\ wanted' \in [named : SUBSET Slates, caps : SUBSET Categories, raced : BOOLEAN]
        /\ wanted'.named = slates_1 /\ wanted'.caps = caps_1 /\ ~ wanted'.raced
    BY <2>1
  <2>7. Editing' = {}
    BY <1>0, <2>1 DEF OneEdit, Editing
  <2>8. BudgetTypes'
    BY <1>0, <2>1, <2>2, <2>4, <2>6 DEF BudgetTypes
  <2>9. OneEdit'
    BY <2>2, <2>4, <2>5, <2>6, <2>7 DEF OneEdit
  <2> QED
    BY <2>8, <2>9
<1>4. ASSUME NEW c \in Planners, OpenEdit(c) PROVE BudgetTypes' /\ OneEdit'
  <2>1. PICK header_1 \in BOOLEAN, sends_1 \in SUBSET {"caps", "named"},
             slates_1 \in SUBSET (Slates \cap kept), caps_1 \in SUBSET (Categories \cap kept) :
          /\ ("named" \notin sends_1 => slates_1 = {}) /\ ("caps" \notin sends_1 => caps_1 = {})
          /\ budget # NoBudget
          /\ planning' = [planning EXCEPT ![c] = [step |-> "open", header |-> header_1, sends |-> sends_1, by |-> plans,
                            slates |-> slates_1, caps |-> caps_1, cut |-> {}, behind |-> {}]]
          /\ wanted' = [wanted EXCEPT !.raced = @ \/ Editing # {}]
          /\ UNCHANGED budget
    <3> DEFINE Opens(h, sent, s, k) ==
                 /\ ("named" \notin sent => s = {}) /\ ("caps" \notin sent => k = {})
                 /\ (h => \A d \in Editing : ~planning[d].header)
                 /\ planning' = [planning EXCEPT ![c] = [step |-> "open", header |-> h, sends |-> sent, by |-> plans,
                                   slates |-> s, caps |-> k, cut |-> {}, behind |-> {}]]
                 /\ wanted' = [wanted EXCEPT !.raced = @ \/ Editing # {}]
    <3>1. \E h \in BOOLEAN, sent \in SUBSET {"caps", "named"} :
            \E s \in SUBSET (Slates \cap kept), k \in SUBSET (Categories \cap kept) : Opens(h, sent, s, k)
      BY <1>4 DEF OpenEdit
    <3>2. budget # NoBudget /\ UNCHANGED budget
      BY <1>4 DEF OpenEdit
    <3>3. PICK h \in BOOLEAN, sent \in SUBSET {"caps", "named"}, s \in SUBSET (Slates \cap kept),
               k \in SUBSET (Categories \cap kept) : Opens(h, sent, s, k)
      <4> HIDE DEF Opens
      <4> QED
        BY <3>1
    <3> QED
      BY <3>2, <3>3
  <2>2. plans \in Nat /\ plans' \in Nat /\ planning[c] = Waiting
    BY <1>2, <1>4 DEF OpenEdit
  <2>3. PICK p : p = [step |-> "open", header |-> header_1, sends |-> sends_1, by |-> plans,
                      slates |-> slates_1, caps |-> caps_1, cut |-> {}, behind |-> {}]
    OBVIOUS
  <2>4. p.step = "open" /\ p.sends = sends_1 /\ p.slates = slates_1 /\ p.caps = caps_1 /\ p.cut = {}
    BY <2>3
  <2>5. p \in Edits
    BY <2>2, <2>3 DEF Edits
  <2>6. DOMAIN planning' = Planners /\ \A d \in Planners : planning'[d] = IF d = c THEN p ELSE planning[d]
    BY <1>0, <2>1, <2>3 DEF BudgetTypes
  <2>7. /\ wanted' \in [named : SUBSET Slates, caps : SUBSET Categories, raced : BOOLEAN]
        /\ wanted'.named = wanted.named /\ wanted'.caps = wanted.caps
        /\ wanted'.raced <=> wanted.raced \/ Editing # {}
    BY <1>0, <2>1 DEF BudgetTypes
  <2>8. BudgetTypes'
    BY <1>0, <2>1, <2>2, <2>5, <2>6, <2>7 DEF BudgetTypes
  <2>9. ~ wanted'.raced => /\ ~ wanted.raced /\ Editing = {}
                           /\ \A d \in Editing' : d = c /\ planning'[d] = p
    BY <2>6, <2>7 DEF Editing
  <2>10. OneEdit'
    BY <1>0, <2>1, <2>4, <2>7, <2>9 DEF OneEdit, Cut
  <2> QED
    BY <2>8, <2>10
<1>5. ASSUME NEW c \in Planners, NEW step \in {"caps", "named"}, NEW rows \in SUBSET (SlateRows \cup CapRows),
             planning[c] # Waiting, Cutting(c, step, rows), UNCHANGED <<budget, plans, wanted>>,
             ~ wanted.raced /\ budget # NoBudget =>
               planning[c].cut \cup rows = Cut([planning[c] EXCEPT !.step = step])
      PROVE  BudgetTypes' /\ OneEdit'
  <2>1. PICK p : p = planning[c]
    OBVIOUS
  <2>2. p \in Edits
    BY <1>0, <1>5, <2>1 DEF BudgetTypes
  <2>3. PICK waits : waits = Overlapping(c, rows) /\ waits \in SUBSET Planners
    BY DEF Overlapping, Editing
  <2>4. PICK q : q = [[[p EXCEPT !.step = step] EXCEPT !.cut = p.cut \cup rows] EXCEPT !.behind = waits]
    OBVIOUS
  <2>5. /\ q \in Edits /\ q.step = step /\ q.cut = p.cut \cup rows
        /\ q.sends = p.sends /\ q.slates = p.slates /\ q.caps = p.caps
    BY <2>2, <2>3, <2>4 DEF Edits
  <2>6. DOMAIN planning' = Planners /\ \A d \in Planners : planning'[d] = IF d = c THEN q ELSE planning[d]
    BY <1>0, <1>5, <2>1, <2>2, <2>3, <2>4 DEF Cutting, BudgetTypes, Edits
  <2>7. BudgetTypes'
    BY <1>0, <1>5, <2>5, <2>6 DEF BudgetTypes
  <2>8. Editing' = Editing /\ c \in Editing
    BY <1>1, <1>5, <2>1, <2>5, <2>6 DEF Editing
  <2>9. ~ wanted.raced /\ budget # NoBudget => q.cut = Cut(q)
    <3>1. PICK r : r = [p EXCEPT !.step = step]
      OBVIOUS
    <3>2. r.step = q.step /\ r.sends = q.sends
      BY <2>2, <2>5, <3>1 DEF Edits
    <3> QED
      BY <1>5, <2>1, <2>5, <3>1, <3>2 DEF Cut
  <2>10. ~ wanted.raced => \A d \in Editing : d = c
    BY <1>0, <2>8 DEF OneEdit
  <2>11. OneEdit'
    <3>1. /\ budget' = NoBudget => Editing' = {}
          /\ ~ wanted'.raced => \A a, d \in Editing' : a = d
      BY <1>0, <1>5, <2>8 DEF OneEdit
    <3>2. ASSUME ~ wanted'.raced, budget' # NoBudget
          PROVE  /\ Things(budget'.named) = wanted'.named
                 /\ \E b \in Nat : budget'.caps = WrittenBy(b, wanted'.caps)
                 /\ \A d \in Editing' : /\ planning'[d].cut = Cut(planning[d])'
                                        /\ "named" \notin planning'[d].sends => planning'[d].slates = {}
                                        /\ "caps" \notin planning'[d].sends => planning'[d].caps = {}
      BY <1>0, <1>5, <2>1, <2>5, <2>6, <2>8, <2>9, <2>10, <3>2 DEF OneEdit, Cut
    <3> QED
      BY <3>1, <3>2 DEF OneEdit
  <2> QED
    BY <2>7, <2>11
<1>6. ASSUME NEW c \in Planners, CutCaps(c) PROVE BudgetTypes' /\ OneEdit'
  <2>1. PICK p : p = planning[c]
    OBVIOUS
  <2>2. /\ p.step = "open" /\ Cutting(c, "caps", Sent(c, "caps", budget.caps)) /\ UNCHANGED <<budget, plans, wanted>>
    BY <1>6, <2>1 DEF CutCaps, Runs
  <2>3. p # Waiting /\ p \in Edits /\ c \in Editing
    BY <1>0, <1>1, <2>1, <2>2 DEF BudgetTypes, Editing
  <2>4. budget # NoBudget /\ budget.caps \in SUBSET CapRows
    BY <1>0, <2>3 DEF OneEdit, BudgetTypes
  <2>5. PICK rows : rows = Sent(c, "caps", budget.caps)
    OBVIOUS
  <2>6. rows = (IF "caps" \in p.sends THEN budget.caps ELSE {}) /\ rows \in SUBSET (SlateRows \cup CapRows)
    BY <2>1, <2>4, <2>5 DEF Sent
  <2>7. ~ wanted.raced => p.cut \cup rows = Cut([p EXCEPT !.step = "caps"])
    <3>1. PICK r : r = [p EXCEPT !.step = "caps"]
      OBVIOUS
    <3>2. r.step = "caps" /\ r.sends = p.sends
      BY <2>3, <3>1 DEF Edits
    <3>3. ~ wanted.raced => p.cut = {}
      BY <1>0, <2>1, <2>2, <2>3, <2>4 DEF OneEdit, Cut
    <3> QED
      BY <2>6, <3>1, <3>2, <3>3 DEF Cut
  <2> QED
    BY <1>5, <2>1, <2>2, <2>3, <2>5, <2>6, <2>7
<1>7. ASSUME NEW c \in Planners, CutNamed(c) PROVE BudgetTypes' /\ OneEdit'
  <2>1. PICK p : p = planning[c]
    OBVIOUS
  <2>2. /\ p.step = "caps" /\ Cutting(c, "named", Sent(c, "named", budget.named)) /\ UNCHANGED <<budget, plans, wanted>>
    BY <1>7, <2>1 DEF CutNamed, Runs
  <2>3. p # Waiting /\ p \in Edits /\ c \in Editing
    BY <1>0, <1>1, <2>1, <2>2 DEF BudgetTypes, Editing
  <2>4. budget # NoBudget /\ budget.named \in SUBSET SlateRows
    BY <1>0, <2>3 DEF OneEdit, BudgetTypes
  <2>5. PICK rows : rows = Sent(c, "named", budget.named)
    OBVIOUS
  <2>6. rows = (IF "named" \in p.sends THEN budget.named ELSE {}) /\ rows \in SUBSET (SlateRows \cup CapRows)
    BY <2>1, <2>4, <2>5 DEF Sent
  <2>7. ~ wanted.raced => p.cut \cup rows = Cut([p EXCEPT !.step = "named"])
    <3>1. PICK r : r = [p EXCEPT !.step = "named"]
      OBVIOUS
    <3>2. r.step = "named" /\ r.sends = p.sends
      BY <2>3, <3>1 DEF Edits
    <3>3. ~ wanted.raced => p.cut = Cut(p)
      BY <1>0, <2>1, <2>3, <2>4 DEF OneEdit
    <3> QED
      BY <2>2, <2>6, <3>1, <3>2, <3>3 DEF Cut
  <2> QED
    BY <1>5, <2>1, <2>2, <2>3, <2>5, <2>6, <2>7
<1>8. ASSUME NEW c \in Planners, planning[c] # Waiting, planning' = Closes(c), plans' = plans
      PROVE  /\ DOMAIN planning' = Planners /\ plans' \in Nat
             /\ \A d \in Planners : planning'[d] # Waiting => planning'[d] \in Edits
             /\ Editing' = Editing \ {c} /\ c \in Editing
             /\ ~ wanted.raced => Editing' = {}
  <2>1. \A d \in Editing \ {c} : planning'[d] \in Edits
    <3> SUFFICES ASSUME NEW d \in Editing \ {c} PROVE planning'[d] \in Edits
      OBVIOUS
    <3>1. planning[d] \in Edits
      BY <1>0 DEF BudgetTypes, Editing
    <3>2. planning'[d] = [planning[d] EXCEPT !.behind = @ \ {c}]
      BY <1>8 DEF Closes, Editing
    <3> QED
      BY <3>1, <3>2 DEF Edits
  <2>2. \A d \in Planners : d \notin Editing \ {c} => planning'[d] = Waiting
    BY <1>8 DEF Closes
  <2>3. DOMAIN planning' = Planners
    BY <1>8 DEF Closes
  <2>4. Editing' = Editing \ {c}
    BY <1>1, <2>1, <2>2 DEF Editing
  <2>5. c \in Editing
    BY <1>8 DEF Editing
  <2> QED
    BY <1>0, <1>8, <2>1, <2>2, <2>3, <2>4, <2>5 DEF BudgetTypes, OneEdit
<1>9. ASSUME NEW c \in Planners, CommitEdit(c) PROVE BudgetTypes' /\ OneEdit'
  <2>1. PICK p : p = planning[c]
    OBVIOUS
  <2>2. PICK named : named = budget.named \ p.cut
    OBVIOUS
  <2>3. /\ p.step = "named" /\ planning' = Closes(c) /\ plans' = plans
        /\ budget' = [named |-> named \cup Added(c, p.slates \ Things(named)),
                      caps |-> (budget.caps \ p.cut) \cup Added(c, p.caps)]
        /\ wanted' = [wanted EXCEPT !.named = IF "named" \in p.sends THEN p.slates ELSE @,
                                    !.caps = IF "caps" \in p.sends THEN p.caps ELSE @]
    BY <1>9, <2>1, <2>2 DEF CommitEdit, Runs
  <2>4. p # Waiting /\ p \in Edits /\ c \in Editing
    BY <1>0, <1>1, <2>1, <2>3 DEF BudgetTypes, Editing
  <2>5. budget # NoBudget /\ budget.named \in SUBSET SlateRows /\ budget.caps \in SUBSET CapRows
    BY <1>0, <2>4 DEF OneEdit, BudgetTypes
  <2>6. PICK b : b = p.by /\ b \in Nat
    BY <2>4 DEF Edits
  <2>7. p.slates \in SUBSET Slates /\ p.caps \in SUBSET Categories /\ p.sends \in SUBSET {"caps", "named"}
    BY <2>4 DEF Edits
  <2>8. \A things : Added(c, things) = WrittenBy(b, things)
    BY <2>1, <2>6 DEF Added, WrittenBy
  <2>9. /\ budget'.named = named \cup WrittenBy(b, p.slates \ Things(named))
        /\ budget'.caps = (budget.caps \ p.cut) \cup WrittenBy(b, p.caps)
    BY <2>3, <2>8
  <2>10. budget' \in [named : SUBSET SlateRows, caps : SUBSET CapRows]
    <3>1. \A x \in p.slates : [by |-> b, of |-> x] \in SlateRows
      BY <2>6, <2>7 DEF SlateRows
    <3>2. named \cup WrittenBy(b, p.slates \ Things(named)) \in SUBSET SlateRows
      BY <2>2, <2>5, <3>1 DEF WrittenBy
    <3>3. (budget.caps \ p.cut) \cup WrittenBy(b, p.caps) \in SUBSET CapRows
      BY <2>5, <2>6, <2>7, WrittenOnce
    <3> QED
      BY <2>3, <2>8, <3>2, <3>3
  <2>11. budget' # NoBudget
    BY <2>10, BudgetsAssumption
  <2>12. /\ wanted' \in [named : SUBSET Slates, caps : SUBSET Categories, raced : BOOLEAN]
         /\ wanted'.named = (IF "named" \in p.sends THEN p.slates ELSE wanted.named)
         /\ wanted'.caps = (IF "caps" \in p.sends THEN p.caps ELSE wanted.caps)
         /\ wanted'.raced = wanted.raced
    <3>1. PICK n, k : /\ n = (IF "named" \in p.sends THEN p.slates ELSE wanted.named)
                      /\ k = (IF "caps" \in p.sends THEN p.caps ELSE wanted.caps)
      OBVIOUS
    <3>2. n \in SUBSET Slates /\ k \in SUBSET Categories
      BY <1>0, <2>7, <3>1 DEF BudgetTypes
    <3>3. wanted' = [[wanted EXCEPT !.named = n] EXCEPT !.caps = k]
      BY <1>0, <2>3, <3>1 DEF BudgetTypes
    <3> QED
      BY <1>0, <3>1, <3>2, <3>3 DEF BudgetTypes
  <2>13. /\ DOMAIN planning' = Planners /\ plans' \in Nat
         /\ \A d \in Planners : planning'[d] # Waiting => planning'[d] \in Edits
         /\ ~ wanted.raced => Editing' = {}
    BY <1>8, <2>1, <2>3, <2>4
  <2>14. BudgetTypes'
    BY <2>10, <2>12, <2>13 DEF BudgetTypes
  <2>15. ASSUME ~ wanted'.raced
         PROVE  Things(budget'.named) = wanted'.named /\ \E d \in Nat : budget'.caps = WrittenBy(d, wanted'.caps)
    <3>1. /\ p.cut = Cut(p) /\ ("named" \notin p.sends => p.slates = {}) /\ ("caps" \notin p.sends => p.caps = {})
          /\ Things(budget.named) = wanted.named /\ \E d \in Nat : budget.caps = WrittenBy(d, wanted.caps)
      BY <1>0, <2>1, <2>4, <2>5, <2>12, <2>15 DEF OneEdit
    <3>2. SlateRows \cap CapRows = {}
      BY BudgetsAssumption DEF SlateRows, CapRows
    <3>3. /\ named = (IF "named" \in p.sends THEN {} ELSE budget.named)
          /\ budget.caps \ p.cut = (IF "caps" \in p.sends THEN {} ELSE budget.caps)
      BY <2>2, <2>3, <2>5, <3>1, <3>2 DEF Cut
    <3>4. Things(budget'.named) = wanted'.named
      <4>1. CASE "named" \in p.sends
        <5>1. budget'.named = WrittenBy(b, p.slates)
          BY <2>9, <3>3, <4>1 DEF Things
        <5> QED
          BY <2>12, <4>1, <5>1, ThingsWritten
      <4>2. CASE "named" \notin p.sends
        <5>1. budget'.named = budget.named
          BY <2>9, <3>1, <3>3, <4>2 DEF WrittenBy
        <5> QED
          BY <2>12, <3>1, <4>2, <5>1
      <4> QED
        BY <4>1, <4>2
    <3>5. \E d \in Nat : budget'.caps = WrittenBy(d, wanted'.caps)
      <4>1. CASE "caps" \in p.sends
        <5>1. budget'.caps = WrittenBy(b, p.caps)
          BY <2>9, <3>3, <4>1
        <5> QED
          BY <2>6, <2>12, <4>1, <5>1
      <4>2. CASE "caps" \notin p.sends
        <5>1. budget'.caps = budget.caps
          BY <2>9, <3>1, <3>3, <4>2 DEF WrittenBy
        <5> QED
          BY <2>12, <3>1, <4>2, <5>1
      <4> QED
        BY <4>1, <4>2
    <3> QED
      BY <3>4, <3>5
  <2>16. OneEdit'
    BY <2>11, <2>12, <2>13, <2>15 DEF OneEdit
  <2> QED
    BY <2>14, <2>16
<1>10. ASSUME NEW c \in Planners, RollBackEdit(c) PROVE BudgetTypes' /\ OneEdit'
  <2>1. planning[c] # Waiting /\ planning' = Closes(c) /\ UNCHANGED <<budget, plans, wanted>>
    BY <1>10 DEF RollBackEdit
  <2>2. /\ DOMAIN planning' = Planners /\ plans' \in Nat
        /\ \A d \in Planners : planning'[d] # Waiting => planning'[d] \in Edits
        /\ Editing' = Editing \ {c} /\ c \in Editing /\ (~ wanted.raced => Editing' = {})
    BY <1>8, <2>1
  <2>3. BudgetTypes'
    BY <1>0, <2>1, <2>2 DEF BudgetTypes
  <2>4. OneEdit'
    BY <1>0, <2>1, <2>2 DEF OneEdit
  <2> QED
    BY <2>3, <2>4
<1>11. ASSUME NEW c \in Planners, DropReference(c) PROVE BudgetTypes' /\ OneEdit'
  <2>1. UNCHANGED <<budget, planning, wanted>> /\ plans' \in Nat
    BY <1>2, <1>11 DEF DropReference
  <2> QED
    BY <1>0, <2>1 DEF BudgetTypes, OneEdit, Editing, Cut
<1>12. ASSUME NEW c \in Planners, DeleteBudget(c) PROVE BudgetTypes' /\ OneEdit'
  <2>1. /\ budget' = NoBudget /\ planning' = [d \in Planners |-> Waiting] /\ plans' \in Nat /\ UNCHANGED wanted
    BY <1>2, <1>12 DEF DeleteBudget
  <2> QED
    BY <1>0, <2>1 DEF BudgetTypes, OneEdit, Editing
<1>13. CASE UNCHANGED budgetVars
  BY <1>0, <1>13 DEF budgetVars, BudgetTypes, OneEdit, Editing, Cut
<1> QED
  BY <1>3, <1>4, <1>6, <1>7, <1>9, <1>10, <1>11, <1>12, <1>13 DEF BudgetsNext

(***************************************************************************)
(* Whatever edits are opened, refused and cut off, a budget holds the      *)
(* slates and the caps of one request, each cap once, unless two edits     *)
(* were open together (updateBudget, update_budget).                       *)
(***************************************************************************)
THEOREM BudgetKeepsOneEdit == BudgetsSpec => []HoldsOneEdit
<1>1. BudgetInv => HoldsOneEdit
  <2> SUFFICES ASSUME BudgetInv, budget # NoBudget, ~ wanted.raced
               PROVE  /\ Named = wanted.named \cap kept
                      /\ Things(budget.caps) = wanted.caps /\ Cardinality(budget.caps) = Cardinality(wanted.caps)
    BY DEF HoldsOneEdit
  <2>1. PICK b \in Nat : budget.caps = WrittenBy(b, wanted.caps)
    BY DEF BudgetInv, OneEdit
  <2>2. wanted.caps \in SUBSET Categories /\ Things(budget.named) = wanted.named
    BY DEF BudgetInv, OneEdit, BudgetTypes
  <2> QED
    BY <2>1, <2>2, WrittenOnce DEF Named
<1> QED
  BY <1>1, BudgetInvInit, BudgetInvNext, PTL DEF BudgetsSpec

-----------------------------------------------------------------------------
(* Ledger.                                                                 *)

IsRow(r) == r = Row(r.account, r.type, r.amount, r.date, r.slate, r.pair) /\ r.type \in Types
Draft(d) == /\ d = [account |-> d.account, type |-> d.type, amount |-> d.amount, date |-> d.date]
            /\ d.type \in {"expense", "income"}
At(c, step) == desk[c].step = step
Shape(h) == h = [bent |-> h.bent, posted |-> h.posted, payments |-> h.payments,
                 reopened |-> h.reopened, quiet |-> h.quiet]

Booked ==
  /\ given \in Nat /\ accounts \subseteq Accounts /\ DOMAIN txns = RowIds
  /\ \A t \in Rows : IsRow(txns[t]) /\ t <= given /\ txns[t].pair \in Nat /\ txns[t].pair <= given

Recalled ==
  /\ Shape(history)
  /\ history.posted \subseteq Rows

(* One draft at a time holds the create lock, and no row that stands as it *)
(* was sent in the last minutes says the same.                             *)
AtDesk ==
  /\ DOMAIN desk = Clerks
  /\ \A c \in Clerks : At(c, "unpaid") =>
       desk[c] = [step |-> "unpaid", statement |-> desk[c].statement, due |-> desk[c].due]
  /\ \A c \in Clerks : At(c, "checked") =>
       /\ Draft(desk[c].draft)
       /\ \A d \in Clerks : At(d, "checked") => d = c
       /\ \A t \in history.posted \cap recent : ~ Matches(t, desk[c].draft)

LedgerInv == Booked /\ Recalled /\ AtDesk /\ LegsMatch /\ NoEcho

LEMMA RowsAreRows ==
  ASSUME NEW account, NEW type \in Types, NEW amount, NEW day, NEW slate, NEW pair,
         NEW r, r = Row(account, type, amount, day, slate, pair)
  PROVE  /\ IsRow(r) /\ r # NoRow
         /\ r.account = account /\ r.type = type /\ r.amount = amount /\ r.date = day
         /\ r.slate = slate /\ r.pair = pair
<1>1. /\ r.account = account /\ r.type = type /\ r.amount = amount /\ r.date = day
      /\ r.slate = slate /\ r.pair = pair
  BY DEF Row
<1>2. r.type # "none" /\ NoRow.type = "none"
  BY <1>1 DEF Types, NoRow
<1> QED
  BY <1>1, <1>2 DEF IsRow

LEMMA RowsStand ==
  ASSUME NEW r, IsRow(r)
  PROVE  r # NoRow
<1>1. r.type # "none" /\ NoRow.type = "none"
  BY DEF IsRow, Types, NoRow
<1> QED
  BY <1>1

LEMMA LedgerInvInit == LedgerInit \/ CardStart => LedgerInv
<1>1. ASSUME NEW openings, NEW trip, NEW closed, NEW before \in Nat, LedgerStart(openings, trip, <<>>, closed, before)
      PROVE  LedgerInv
  <2>1. /\ accounts = Accounts /\ given \in Nat /\ DOMAIN txns = RowIds /\ recent = {}
        /\ \A t \in RowIds : txns[t] = NoRow
        /\ DOMAIN desk = Clerks /\ \A c \in Clerks : desk[c] = Unread
    BY <1>1 DEF LedgerStart
  <2>2. Rows = {}
    BY <2>1 DEF Rows
  <2>3. Recalled
    BY <1>1 DEF LedgerStart, Recalled, Shape, Untold
  <2>4. Unread.step = "idle"
    BY DEF Unread
  <2> QED
    BY <2>1, <2>2, <2>3, <2>4 DEF LedgerInv, Booked, AtDesk, At, LegsMatch, NoEcho
<1>2. ASSUME LedgerStart({-1}, "gone", Paid, NoRow, 2) PROVE LedgerInv
  <2>1. PICK out, in : /\ out = Row(Bank, "transfer_out", 1, 1, PlainLife, 2)
                       /\ in = Row(Card, "transfer_in", 1, 1, PlainLife, 1)
    OBVIOUS
  <2>2. Paid = <<out, in>>
    BY <2>1 DEF Paid
  <2>3. /\ IsRow(out) /\ out # NoRow /\ out.type = "transfer_out" /\ out.amount = 1 /\ out.date = 1
        /\ out.slate = PlainLife /\ out.pair = 2
        /\ IsRow(in) /\ in # NoRow /\ in.type = "transfer_in" /\ in.amount = 1 /\ in.date = 1
        /\ in.slate = PlainLife /\ in.pair = 1
    BY <2>1, RowsAreRows DEF Types
  <2>4. /\ accounts = Accounts /\ given = 2 /\ recent = {}
        /\ DOMAIN desk = Clerks /\ \A c \in Clerks : desk[c] = Unread
    BY <1>2 DEF LedgerStart
  <2>5. DOMAIN txns = RowIds /\ \A t \in RowIds : txns[t] = IF t = 1 THEN out ELSE IF t = 2 THEN in ELSE NoRow
    <3>1. DOMAIN Paid = {1, 2} /\ Paid[1] = out /\ Paid[2] = in
      BY <2>2
    <3>2. txns = [t \in RowIds |-> IF t \in DOMAIN Paid THEN Paid[t] ELSE NoRow]
      BY <1>2 DEF LedgerStart
    <3> QED
      BY <3>1, <3>2
  <2>6. Rows = {1, 2}
    BY <2>3, <2>5, LedgerAssumption DEF Rows, RowIds
  <2>7. Booked
    BY <2>3, <2>4, <2>5, <2>6, LedgerAssumption DEF Booked, RowIds
  <2>8. history = Untold
    BY <1>2 DEF LedgerStart
  <2>9. Recalled /\ history.posted = {}
    BY <2>8 DEF Recalled, Shape, Untold
  <2>10. Unread.step = "idle"
    BY DEF Unread
  <2>11. AtDesk /\ NoEcho
    BY <2>4, <2>9, <2>10 DEF AtDesk, At, NoEcho
  <2>12. LegsMatch
    BY <2>3, <2>5, <2>6, LedgerAssumption DEF LegsMatch, RowIds
  <2> QED
    BY <2>7, <2>9, <2>11, <2>12 DEF LedgerInv
<1> QED
  BY <1>1, <1>2 DEF LedgerInit, CardStart

NoDraftGiven ==
  /\ DOMAIN desk' = Clerks
  /\ \A c \in Clerks : desk'[c] = desk[c] \/ desk'[c].step \notin {"checked", "unpaid"}
                       \/ desk'[c] = [step |-> "unpaid", statement |-> desk'[c].statement, due |-> desk'[c].due]

(* The steps that give out no draft and change no row that stands as sent  *)
(* in what a draft is compared with.                                       *)
LEMMA TwinsStay ==
  ASSUME LedgerInv, NoDraftGiven,
         history'.posted \cap recent' \subseteq history.posted \cap recent,
         \A t \in history'.posted \cap recent' :
           /\ txns'[t].account = txns[t].account /\ txns'[t].type = txns[t].type
           /\ txns'[t].amount = txns[t].amount /\ txns'[t].date = txns[t].date
  PROVE  AtDesk' /\ NoEcho'
<1> USE DEF NoDraftGiven
<1>1. \A t \in history'.posted \cap recent' : t \in history.posted \cap recent /\ \A d : Matches(t, d)' <=> Matches(t, d)
  BY DEF Matches
<1>2. NoEcho'
  BY <1>1 DEF LedgerInv, NoEcho
<1>3. \A c \in Clerks : desk'[c].step = "checked" => desk'[c] = desk[c]
  <2>1. ASSUME NEW c \in Clerks, desk'[c] = [step |-> "unpaid", statement |-> desk'[c].statement, due |-> desk'[c].due]
        PROVE  desk'[c].step = "unpaid"
    BY <2>1
  <2> QED
    BY <2>1
<1>4. \A c \in Clerks : desk'[c].step = "unpaid" =>
        desk'[c] = [step |-> "unpaid", statement |-> desk'[c].statement, due |-> desk'[c].due]
  BY DEF LedgerInv, AtDesk, At
<1>5. ASSUME NEW c \in Clerks, desk'[c].step = "checked"
      PROVE  /\ Draft(desk'[c].draft)
             /\ \A d \in Clerks : desk'[d].step = "checked" => d = c
             /\ \A t \in history'.posted \cap recent' : ~ Matches(t, desk[c].draft)'
  <2>1. PICK d : d = desk[c].draft
    OBVIOUS
  <2>2. desk'[c] = desk[c]
    BY <1>3, <1>5
  <2>3. /\ Draft(d) /\ \A b \in Clerks : desk[b].step = "checked" => b = c
        /\ \A t \in history.posted \cap recent : ~ Matches(t, d)
    BY <1>5, <2>1, <2>2 DEF LedgerInv, AtDesk, At
  <2>4. \A t \in history'.posted \cap recent' : ~ Matches(t, d)'
    BY <1>1, <2>3
  <2> QED
    BY <1>3, <2>1, <2>2, <2>3, <2>4 DEF Matches
<1> QED
  BY <1>2, <1>4, <1>5 DEF AtDesk, At, Draft

(* The steps that leave the rows alone.                                    *)
LEMMA RowsAlone ==
  ASSUME LedgerInv, UNCHANGED <<txns, given, accounts>>, recent' \subseteq recent,
         Recalled', history'.posted = history.posted, history'.bent = history.bent,
         NoDraftGiven
  PROVE  LedgerInv'
<1>1. Booked' /\ LegsMatch'
  BY DEF LedgerInv, Booked, LegsMatch, Rows
<1>2. AtDesk' /\ NoEcho'
  BY TwinsStay
<1> QED
  BY <1>1, <1>2 DEF LedgerInv

(* A transfer enters as two rows that name each other.                     *)
LEMMA LegsEnter ==
  ASSUME LedgerInv, NEW sender, NEW to, NEW amount, NEW day, NEW slate,
         Inserted(Legs(sender, to, amount, day, slate)), UNCHANGED accounts, history'.bent = history.bent
  PROVE  /\ Booked' /\ LegsMatch' /\ Rows \subseteq Rows' /\ \A t \in Rows : txns'[t] = txns[t]
         /\ given + 1 \notin Rows /\ given + 2 \notin Rows
<1>1. PICK g \in Nat : g = given
  BY DEF LedgerInv, Booked
<1>2. PICK out, in : /\ out = Row(sender, "transfer_out", amount, day, slate, g + 2)
                     /\ in = Row(to, "transfer_in", amount, day, slate, g + 1)
  OBVIOUS
<1>3. PICK legs : legs = Legs(sender, to, amount, day, slate)
  OBVIOUS
<1>4. legs = <<out, in>> /\ Len(legs) = 2 /\ legs[1] = out /\ legs[2] = in
  BY <1>1, <1>2, <1>3 DEF Legs
<1>5. /\ IsRow(out) /\ out # NoRow /\ out.type = "transfer_out" /\ out.amount = amount /\ out.date = day
      /\ out.slate = slate /\ out.pair = g + 2
      /\ IsRow(in) /\ in # NoRow /\ in.type = "transfer_in" /\ in.amount = amount /\ in.date = day
      /\ in.slate = slate /\ in.pair = g + 1
  BY <1>2, RowsAreRows DEF Types
<1>6. /\ g + 2 <= MaxRows /\ given' = g + 2
      /\ txns' = [t \in RowIds |-> IF t \in g + 1..g + 2 THEN legs[t - g] ELSE txns[t]]
  BY <1>1, <1>3, <1>4 DEF Inserted
<1>7. /\ g + 1 \in RowIds /\ g + 2 \in RowIds
      /\ \A t \in RowIds : t \in Nat /\ (t \in g + 1..g + 2 <=> t = g + 1 \/ t = g + 2)
  BY <1>6, LedgerAssumption DEF RowIds
<1>8. /\ DOMAIN txns' = RowIds
      /\ \A t \in RowIds : txns'[t] = IF t = g + 1 THEN out ELSE IF t = g + 2 THEN in ELSE txns[t]
  <2>1. (g + 1) - g = 1 /\ (g + 2) - g = 2
    OBVIOUS
  <2> QED
    BY <1>4, <1>6, <1>7, <2>1
<1>9. \A t \in Rows : t \in Nat /\ t <= g /\ t # g + 1 /\ t # g + 2
  BY <1>1, <1>7 DEF LedgerInv, Booked, Rows
<1>10. Rows' = Rows \cup {g + 1, g + 2} /\ \A t \in Rows : txns'[t] = txns[t]
  <2>1. \A t \in RowIds : txns'[t] # NoRow <=> txns[t] # NoRow \/ t = g + 1 \/ t = g + 2
    BY <1>5, <1>8
  <2>2. Rows' = {t \in RowIds : txns'[t] # NoRow} /\ Rows = {t \in RowIds : txns[t] # NoRow}
    BY DEF Rows
  <2>3. Rows' = Rows \cup {g + 1, g + 2}
    BY <1>7, <2>1, <2>2
  <2>4. \A t \in Rows : t \in RowIds
    BY <2>2
  <2> QED
    BY <1>8, <1>9, <2>3, <2>4
<1>11. Booked'
  <2>1. \A t \in Rows : IsRow(txns[t]) /\ t <= g + 2 /\ txns[t].pair \in Nat /\ txns[t].pair <= g + 2
    <3>1. \A t \in Rows : IsRow(txns[t]) /\ t \in Nat /\ t <= g /\ txns[t].pair \in Nat /\ txns[t].pair <= g
      BY <1>1, <1>9 DEF LedgerInv, Booked
    <3> QED
      BY <1>1, <3>1
  <2>2. \A t \in Rows' : IsRow(txns'[t]) /\ t <= g + 2 /\ txns'[t].pair \in Nat /\ txns'[t].pair <= g + 2
    BY <1>5, <1>7, <1>8, <1>10, <2>1
  <2> QED
    BY <1>1, <1>6, <1>8, <2>2 DEF LedgerInv, Booked
<1>12. LegsMatch'
  <2>1. \A t \in Rows : txns[t].pair # g + 1 /\ txns[t].pair # g + 2
    BY <1>1 DEF LedgerInv, Booked
  <2>2. ASSUME NEW t \in Rows, txns[t].pair # 0
        PROVE  IF txns[t].pair \in Rows'
               THEN /\ txns'[txns[t].pair].pair = t
                    /\ {txns[t].type, txns'[txns[t].pair].type} = {"transfer_out", "transfer_in"}
                    /\ {t, txns[t].pair} \cap history'.bent = {} =>
                         /\ txns'[txns[t].pair].amount = txns[t].amount /\ txns'[txns[t].pair].date = txns[t].date
                         /\ txns'[txns[t].pair].slate = txns[t].slate
               ELSE accounts' # Accounts
    BY <1>10, <2>1, <2>2 DEF LedgerInv, LegsMatch
  <2>3. /\ txns'[g + 1] = out /\ txns'[g + 2] = in /\ g + 1 \in Rows' /\ g + 2 \in Rows'
    BY <1>7, <1>8, <1>10
  <2> QED
    BY <1>5, <1>10, <2>2, <2>3 DEF LegsMatch
<1> QED
  BY <1>1, <1>9, <1>10, <1>11, <1>12

(* What a write of rows leaves of what is remembered.                      *)
LEMMA Remembered ==
  ASSUME NEW changed, NEW after, NEW others, Shape(others), Remembers(changed, after, others)
  PROVE  Shape(history') /\ history'.posted = others.posted \ changed /\ history'.bent = others.bent
BY DEF Remembers, Shape

(* Rows changed in place, or taken away.                                   *)
LEMMA RowsChange ==
  ASSUME LedgerInv, DOMAIN txns' = RowIds, UNCHANGED given, accounts' \subseteq accounts,
         \A t \in RowIds : txns'[t] = NoRow \/ (t \in Rows /\ IsRow(txns'[t]) /\ txns'[t].pair = txns[t].pair)
  PROVE  Booked' /\ Rows' \subseteq Rows /\ \A t \in Rows' : txns'[t].pair = txns[t].pair
<1>1. \A t \in Rows' : t \in Rows /\ IsRow(txns'[t]) /\ txns'[t].pair = txns[t].pair
  BY DEF Rows
<1> QED
  BY <1>1 DEF LedgerInv, Booked

(* The two legs of a transfer that has both are two rows, each the other's.*)
LEMMA LegsTogether ==
  ASSUME LedgerInv, NEW t \in Rows, txns[t].pair \in Rows
  PROVE  txns[txns[t].pair].pair = t /\ txns[t].pair # t /\ txns[t].pair # 0
<1>1. \A u \in Rows : u \in Nat /\ u # 0
  BY LedgerAssumption DEF Rows, RowIds
<1>2. /\ txns[txns[t].pair].pair = t
      /\ {txns[t].type, txns[txns[t].pair].type} = {"transfer_out", "transfer_in"}
  BY <1>1 DEF LedgerInv, LegsMatch
<1>3. "transfer_out" # "transfer_in"
  OBVIOUS
<1> QED
  BY <1>1, <1>2, <1>3

LEMMA RowChanged ==
  ASSUME NEW r, IsRow(r), NEW new, NEW x,
         \/ new = [r EXCEPT !.account = x] \/ new = [r EXCEPT !.amount = x]
         \/ new = [r EXCEPT !.date = x] \/ new = [r EXCEPT !.slate = x]
  PROVE  IsRow(new) /\ new.type = r.type /\ new.pair = r.pair
<1> USE DEF IsRow, Row
<1>1. CASE new = [r EXCEPT !.account = x]
  BY <1>1
<1>2. CASE new = [r EXCEPT !.amount = x]
  BY <1>2
<1>3. CASE new = [r EXCEPT !.date = x]
  BY <1>3
<1>4. CASE new = [r EXCEPT !.slate = x]
  BY <1>4
<1> QED
  BY <1>1, <1>2, <1>3, <1>4

LEMMA ChangesAreRows ==
  ASSUME LedgerInv, NEW t \in Rows, NEW slate, NEW new \in Changes(t, slate)
  PROVE  IsRow(new) /\ new.type = txns[t].type /\ new.pair = txns[t].pair /\ new # NoRow
<1>1. IsRow(txns[t])
  BY DEF LedgerInv, Booked
<1>2. \E x : \/ new = [txns[t] EXCEPT !.account = x] \/ new = [txns[t] EXCEPT !.amount = x]
             \/ new = [txns[t] EXCEPT !.date = x] \/ new = [txns[t] EXCEPT !.slate = x]
  BY DEF Changes
<1> QED
  BY <1>1, <1>2, RowChanged, RowsStand

LEMMA LedgerInvNext == LedgerInv /\ [LedgerNext]_ledgerVars => LedgerInv'
<1> SUFFICES ASSUME LedgerInv, [LedgerNext]_ledgerVars PROVE LedgerInv'
  OBVIOUS
<1>0. Booked /\ Recalled /\ AtDesk /\ LegsMatch /\ NoEcho /\ Shape(history)
  BY DEF LedgerInv, Recalled
<1>1. ASSUME NEW c \in Clerks, NEW job, desk' = [desk EXCEPT ![c] = job]
      PROVE  DOMAIN desk' = Clerks /\ \A d \in Clerks : desk'[d] = IF d = c THEN job ELSE desk[d]
  BY <1>0, <1>1 DEF AtDesk
<1>2. ASSUME NEW c \in Clerks, NEW job, desk' = [desk EXCEPT ![c] = job], job.step \notin {"checked", "unpaid"}
      PROVE  NoDraftGiven
  BY <1>1, <1>2 DEF NoDraftGiven
<1>3. ASSUME NEW c \in Clerks, Leaves(c) PROVE NoDraftGiven
  <2>1. Unread.step = "idle"
    BY DEF Unread
  <2> QED
    BY <1>2, <1>3, <2>1 DEF Leaves
<1>4. UNCHANGED desk => NoDraftGiven
  BY <1>0 DEF NoDraftGiven, AtDesk
<1>5. UNCHANGED txns => Rows' = Rows
  BY DEF Rows
<1>6. ASSUME UNCHANGED <<accounts, txns, given>>, recent' \subseteq recent, NoDraftGiven,
             Shape(history'), history'.posted = history.posted, history'.bent = history.bent
      PROVE  LedgerInv'
  <2>1. Recalled'
    BY <1>0, <1>5, <1>6 DEF Recalled
  <2> QED
    BY <1>6, <2>1, RowsAlone
<1>7. CASE FiveMinutesPass
  BY <1>0, <1>4, <1>6, <1>7 DEF FiveMinutesPass
<1>8. ASSUME NEW c \in Clerks, ResolveSlate(c) PROVE LedgerInv'
  <2>1. PICK s : desk' = [desk EXCEPT ![c] = [step |-> "resolved", slate |-> s]]
    BY <1>8 DEF ResolveSlate
  <2>2. NoDraftGiven
    BY <1>2, <2>1
  <2> QED
    BY <1>0, <1>6, <1>8, <2>2 DEF ResolveSlate
<1>9. ASSUME NEW c \in Clerks, CheckDuplicate(c) PROVE LedgerInv'
  <2>1. PICK draft \in Drafts :
          desk' = [desk EXCEPT ![c] = IF \E t \in recent \cap Rows : Matches(t, draft) THEN Unread
                                      ELSE [step |-> "checked", slate |-> desk[c].slate, draft |-> draft]]
    BY <1>9 DEF CheckDuplicate
  <2>2. UNCHANGED <<accounts, txns, given, recent, history>> /\ \A d \in Clerks : desk[d].step # "checked"
    BY <1>9 DEF CheckDuplicate
  <2>3. CASE \E t \in recent \cap Rows : Matches(t, draft)
    <3>1. desk' = [desk EXCEPT ![c] = Unread] /\ Unread.step = "idle"
      BY <2>1, <2>3 DEF Unread
    <3>2. NoDraftGiven
      BY <1>2, <3>1
    <3> QED
      BY <1>0, <1>6, <2>2, <3>2
  <2>4. CASE ~ \E t \in recent \cap Rows : Matches(t, draft)
    <3>1. PICK job : job = [step |-> "checked", slate |-> desk[c].slate, draft |-> draft]
      OBVIOUS
    <3>2. job.step = "checked" /\ job.draft = draft
      BY <3>1
    <3>3. DOMAIN desk' = Clerks /\ \A d \in Clerks : desk'[d] = IF d = c THEN job ELSE desk[d]
      BY <1>1, <2>1, <2>4, <3>1
    <3>4. Draft(draft)
      BY DEF Drafts, Draft
    <3>5. \A t \in history.posted \cap recent : ~ Matches(t, draft)
      BY <1>0, <2>4 DEF Recalled
    <3>6. \A t : Matches(t, draft)' <=> Matches(t, draft)
      BY <2>2 DEF Matches
    <3>7. AtDesk'
      <4>1. \A d \in Clerks : desk'[d].step = "checked" => d = c /\ desk'[d] = job
        BY <2>2, <3>3
      <4>2. \A d \in Clerks : desk'[d].step = "unpaid" =>
              desk'[d] = [step |-> "unpaid", statement |-> desk'[d].statement, due |-> desk'[d].due]
        BY <1>0, <3>2, <3>3 DEF AtDesk, At
      <4>3. \A t \in history'.posted \cap recent' : ~ Matches(t, draft)'
        BY <2>2, <3>5, <3>6
      <4>4. \A d \in Clerks : desk'[d].step = "checked" =>
              \A t \in history'.posted \cap recent' : ~ Matches(t, desk[d].draft)'
        BY <3>2, <4>1, <4>3 DEF Matches
      <4> QED
        BY <3>2, <3>3, <3>4, <4>1, <4>2, <4>4 DEF AtDesk, At
    <3>8. Booked' /\ Recalled' /\ LegsMatch' /\ NoEcho'
      BY <1>0, <1>5, <2>2 DEF Booked, Recalled, LegsMatch, NoEcho, Matches
    <3> QED
      BY <3>7, <3>8 DEF LedgerInv
  <2> QED
    BY <2>3, <2>4
<1>10. ASSUME NEW c \in Clerks, Record(c) PROVE LedgerInv'
  <2>1. PICK draft \in IF At(c, "checked") THEN {desk[c].draft} ELSE Drafts :
          LET row == Row(draft.account, draft.type, draft.amount, draft.date, desk[c].slate, 0)
          IN /\ Inserted(<<row>>)
             /\ Remembers({}, {row}, IF At(c, "checked") THEN [history EXCEPT !.posted = @ \cup {given + 1}] ELSE history)
    BY <1>10 DEF Record, At
  <2>2. PICK row : row = Row(draft.account, draft.type, draft.amount, draft.date, desk[c].slate, 0)
    OBVIOUS
  <2>3. PICK g \in Nat : g = given
    BY <1>0 DEF Booked
  <2>4. PICK others : others = IF At(c, "checked") THEN [history EXCEPT !.posted = @ \cup {g + 1}] ELSE history
    OBVIOUS
  <2>5. Inserted(<<row>>) /\ Remembers({}, {row}, others) /\ Leaves(c) /\ recent' = recent \cup {g + 1} /\ UNCHANGED accounts
    BY <1>10, <2>1, <2>2, <2>3, <2>4 DEF Record
  <2>6. Draft(draft)
    BY <1>0, <2>1 DEF AtDesk, Drafts, Draft
  <2>7. /\ IsRow(row) /\ row # NoRow /\ row.pair = 0
        /\ row.account = draft.account /\ row.type = draft.type /\ row.amount = draft.amount /\ row.date = draft.date
    <3>1. draft.type \in Types
      BY <2>6 DEF Draft, Types
    <3> QED
      BY <2>2, <3>1, RowsAreRows
  <2>8. /\ Shape(history') /\ history'.bent = history.bent
        /\ history'.posted = IF At(c, "checked") THEN history.posted \cup {g + 1} ELSE history.posted
    <3>1. /\ Shape(others) /\ others.bent = history.bent
          /\ others.posted = IF At(c, "checked") THEN history.posted \cup {g + 1} ELSE history.posted
      BY <1>0, <2>4 DEF Shape
    <3>2. Shape(history') /\ history'.posted = others.posted \ {} /\ history'.bent = others.bent
      BY <2>5, <3>1, Remembered
    <3> QED
      BY <3>1, <3>2
  <2>9. /\ g + 1 \in RowIds /\ given' = g + 1 /\ DOMAIN txns' = RowIds
        /\ \A t \in RowIds : txns'[t] = IF t = g + 1 THEN row ELSE txns[t]
    <3>1. PICK rows : rows = <<row>>
      OBVIOUS
    <3>2. Len(rows) = 1 /\ rows[1] = row
      BY <3>1
    <3>3. /\ g + 1 <= MaxRows /\ given' = g + 1
          /\ txns' = [t \in RowIds |-> IF t \in g + 1..g + 1 THEN rows[t - g] ELSE txns[t]]
      BY <2>3, <2>5, <3>1, <3>2 DEF Inserted
    <3>4. g + 1 \in RowIds /\ \A t \in RowIds : t \in Nat /\ (t \in g + 1..g + 1 <=> t = g + 1)
      BY <3>3, LedgerAssumption DEF RowIds
    <3>5. (g + 1) - g = 1
      OBVIOUS
    <3> QED
      BY <3>2, <3>3, <3>4, <3>5
  <2>10. \A t \in Rows : t \in RowIds /\ t \in Nat /\ t <= g /\ t # g + 1
    BY <1>0, <2>3 DEF Booked, Rows, RowIds
  <2>11. Rows' = Rows \cup {g + 1} /\ txns'[g + 1] = row /\ \A t \in Rows : txns'[t] = txns[t]
    <3>1. \A t \in RowIds : txns'[t] # NoRow <=> txns[t] # NoRow \/ t = g + 1
      BY <2>7, <2>9
    <3>2. Rows' = {t \in RowIds : txns'[t] # NoRow} /\ Rows = {t \in RowIds : txns[t] # NoRow}
      BY DEF Rows
    <3>3. Rows' = Rows \cup {g + 1}
      BY <2>9, <3>1, <3>2
    <3> QED
      BY <2>9, <2>10, <3>3
  <2>12. Booked'
    <3>1. \A t \in Rows : IsRow(txns[t]) /\ t <= g + 1 /\ txns[t].pair \in Nat /\ txns[t].pair <= g + 1
      <4>1. \A t \in Rows : IsRow(txns[t]) /\ t \in Nat /\ t <= g /\ txns[t].pair \in Nat /\ txns[t].pair <= g
        BY <1>0, <2>3, <2>10 DEF Booked
      <4> QED
        BY <4>1
    <3>2. \A t \in Rows' : IsRow(txns'[t]) /\ t <= g + 1 /\ txns'[t].pair \in Nat /\ txns'[t].pair <= g + 1
      BY <2>7, <2>11, <3>1
    <3> QED
      BY <1>0, <2>5, <2>9, <3>2 DEF Booked
  <2>13. LegsMatch'
    <3>1. \A t \in Rows : txns[t].pair # g + 1
      BY <1>0, <2>3 DEF Booked
    <3> QED
      BY <1>0, <2>5, <2>7, <2>8, <2>11, <3>1 DEF LegsMatch
  <2>14. Recalled'
    BY <1>0, <2>8, <2>11 DEF Recalled
  <2>15. NoDraftGiven
    BY <1>3, <2>5
  <2>16. CASE ~ At(c, "checked")
    <3>1. history'.posted \cap recent' \subseteq history.posted \cap recent
      BY <1>0, <2>5, <2>8, <2>10, <2>16 DEF Recalled
    <3>2. \A t \in history'.posted \cap recent' : txns'[t] = txns[t]
      BY <1>0, <2>8, <2>11, <2>16 DEF Recalled
    <3>3. AtDesk' /\ NoEcho'
      BY <2>15, <3>1, <3>2, TwinsStay
    <3> QED
      BY <2>12, <2>13, <2>14, <3>3 DEF LedgerInv
  <2>17. CASE At(c, "checked")
    <3>1. draft = desk[c].draft
      BY <2>1, <2>17
    <3>2. \A d \in Clerks : desk'[d].step # "checked"
      <4>1. Unread.step = "idle" /\ desk' = [desk EXCEPT ![c] = Unread]
        BY <2>5 DEF Unread, Leaves
      <4> QED
        BY <1>0, <1>1, <2>17, <4>1 DEF AtDesk, At
    <3>3. AtDesk'
      <4>1. \A d \in Clerks : desk'[d].step = "unpaid" =>
              desk'[d] = [step |-> "unpaid", statement |-> desk'[d].statement, due |-> desk'[d].due]
        <5>1. \A d \in Clerks : desk[d].step = "unpaid" =>
                desk[d] = [step |-> "unpaid", statement |-> desk[d].statement, due |-> desk[d].due]
          BY <1>0 DEF AtDesk, At
        <5>2. \A d \in Clerks : desk'[d].step = "unpaid" => desk'[d] = desk[d]
          <6>1. Unread.step = "idle" /\ desk' = [desk EXCEPT ![c] = Unread]
            BY <2>5 DEF Unread, Leaves
          <6> QED
            BY <1>1, <6>1
        <5> QED
          BY <5>1, <5>2
      <4> QED
        BY <2>15, <3>2, <4>1 DEF AtDesk, At, NoDraftGiven
    <3>4. \A t \in history'.posted \cap recent' : t = g + 1 \/ t \in history.posted \cap recent
      BY <2>5, <2>8, <2>17
    <3>5. \A t \in history.posted \cap recent :
            t \in Rows /\ txns'[t] = txns[t] /\ ~ Matches(t, draft)
      BY <1>0, <2>11, <2>17, <3>1 DEF AtDesk, Recalled
    <3>6. draft = [account |-> row.account, type |-> row.type, amount |-> row.amount, date |-> row.date]
      BY <2>6, <2>7 DEF Draft
    <3>7. \A t \in history.posted \cap recent :
            [account |-> txns[t].account, type |-> txns[t].type, amount |-> txns[t].amount, date |-> txns[t].date] # draft
      BY <3>5 DEF Matches
    <3>8. NoEcho'
      <4>1. SUFFICES ASSUME NEW t \in history'.posted \cap recent', NEW u \in history'.posted \cap recent', t # u
                     PROVE  [account |-> txns'[t].account, type |-> txns'[t].type, amount |-> txns'[t].amount, date |-> txns'[t].date]
                            # [account |-> txns'[u].account, type |-> txns'[u].type, amount |-> txns'[u].amount, date |-> txns'[u].date]
        BY DEF NoEcho, Matches
      <4>2. CASE t = g + 1
        <5>1. u \in history.posted \cap recent
          BY <3>4, <4>1, <4>2
        <5> QED
          BY <2>11, <3>5, <3>6, <3>7, <4>2, <5>1
      <4>3. CASE u = g + 1
        <5>1. t \in history.posted \cap recent
          BY <3>4, <4>1, <4>3
        <5> QED
          BY <2>11, <3>5, <3>6, <3>7, <4>3, <5>1
      <4>4. CASE t # g + 1 /\ u # g + 1
        <5>1. t \in history.posted \cap recent /\ u \in history.posted \cap recent
          BY <3>4, <4>4
        <5> QED
          BY <1>0, <3>5, <4>1, <5>1 DEF NoEcho, Matches
      <4> QED
        BY <4>2, <4>3, <4>4
    <3> QED
      BY <2>12, <2>13, <2>14, <3>3, <3>8 DEF LedgerInv
  <2> QED
    BY <2>16, <2>17
<1>11. ASSUME NEW c \in Clerks, NEW sender, NEW to, NEW amount, NEW day, NEW slate, NEW others, NEW rows,
              Leaves(c), Inserted(Legs(sender, to, amount, day, slate)), UNCHANGED accounts,
              recent' = recent \cup {given + 1, given + 2},
              Shape(others), others.posted = history.posted, others.bent = history.bent, Remembers({}, rows, others)
       PROVE  LedgerInv'
  <2>1. /\ Shape(history') /\ history'.posted = history.posted /\ history'.bent = history.bent
    BY <1>11, Remembered
  <2>2. /\ Booked' /\ LegsMatch' /\ Rows \subseteq Rows' /\ \A t \in Rows : txns'[t] = txns[t]
        /\ given + 1 \notin Rows /\ given + 2 \notin Rows
    BY <1>11, <2>1, LegsEnter
  <2>3. Recalled'
    BY <1>0, <2>1, <2>2 DEF Recalled
  <2>4. \A t \in history'.posted \cap recent' : t \in history.posted \cap recent /\ txns'[t] = txns[t]
    BY <1>0, <1>11, <2>1, <2>2 DEF Recalled
  <2>5. AtDesk' /\ NoEcho'
    BY <1>3, <1>11, <2>4, TwinsStay
  <2> QED
    BY <2>2, <2>3, <2>5 DEF LedgerInv
<1>12. ASSUME NEW c \in Clerks, RecordTransfer(c) PROVE LedgerInv'
  <2>1. PICK sender, to, day : LET legs == Legs(sender, to, 1, day, desk[c].slate)
                              IN Inserted(legs) /\ Remembers({}, {legs[1], legs[2]}, history)
    BY <1>12 DEF RecordTransfer
  <2> QED
    BY <1>0, <1>11, <1>12, <2>1 DEF RecordTransfer
<1>13. ASSUME NEW c \in Clerks, PostPayment(c) PROVE LedgerInv'
  <2>1. PICK today : LET legs == Legs(Bank, Card, desk[c].due, today, PlainLife)
                     IN /\ Inserted(legs)
                        /\ Remembers({}, {legs[1], legs[2]}, [history EXCEPT !.payments[desk[c].statement] = @ + 1])
    BY <1>13 DEF PostPayment
  <2>2. PICK others : others = [history EXCEPT !.payments[desk[c].statement] = @ + 1]
    OBVIOUS
  <2>3. Shape(others) /\ others.posted = history.posted /\ others.bent = history.bent
    BY <1>0, <2>2 DEF Shape
  <2> QED
    BY <1>11, <1>13, <2>1, <2>2, <2>3 DEF PostPayment
<1>14. ASSUME NEW c \in Clerks, Edit(c) PROVE LedgerInv'
  <2>1. PICK t \in Rows : \E new \in Changes(t, desk[c].slate) \ {txns[t]} :
          LET sent(old, sends, other) == IF sends # old THEN sends ELSE other
              follow(u) == [txns[u] EXCEPT !.amount = sent(txns[t].amount, new.amount, @),
                                           !.date = sent(txns[t].date, new.date, @),
                                           !.slate = sent(txns[t].slate, new.slate, @)]
          IN /\ txns' = [u \in RowIds |-> IF u = t THEN new
                                          ELSE IF u \in Paired(t) THEN follow(u) ELSE txns[u]]
             /\ Remembers({t} \cup Paired(t), {new} \cup {follow(u) : u \in Paired(t)}, history)
    BY <1>14 DEF Edit
  <2> DEFINE sent(old, sends, other) == IF sends # old THEN sends ELSE other
             follow(new, u) == [txns[u] EXCEPT !.amount = sent(txns[t].amount, new.amount, txns[u].amount),
                                               !.date = sent(txns[t].date, new.date, txns[u].date),
                                               !.slate = sent(txns[t].slate, new.slate, txns[u].slate)]
  <2>0. PICK new \in Changes(t, desk[c].slate) : \E rows :
          /\ txns' = [u \in RowIds |-> IF u = t THEN new
                                       ELSE IF u \in Paired(t) THEN follow(new, u) ELSE txns[u]]
          /\ Remembers({t} \cup Paired(t), rows, history)
    BY <2>1
  <2>2. PICK rows :
          /\ txns' = [u \in RowIds |-> IF u = t THEN new
                                       ELSE IF u \in Paired(t) THEN follow(new, u) ELSE txns[u]]
          /\ Remembers({t} \cup Paired(t), rows, history)
    BY <2>0
  <2>3. IsRow(new) /\ new # NoRow /\ new.type = txns[t].type /\ new.pair = txns[t].pair
    BY <2>2, ChangesAreRows
  <2>4. UNCHANGED <<accounts, given, recent>> /\ NoDraftGiven
    BY <1>3, <1>14 DEF Edit
  <2>5. /\ Shape(history') /\ history'.bent = history.bent /\ history'.posted = history.posted \ ({t} \cup Paired(t))
    BY <1>0, <2>2, Remembered
  <2>6. ASSUME NEW u \in Rows
        PROVE  LET f == follow(new, u)
               IN /\ IsRow(f) /\ f # NoRow /\ f.type = txns[u].type /\ f.pair = txns[u].pair
                  /\ f.amount = sent(txns[t].amount, new.amount, txns[u].amount)
                  /\ f.date = sent(txns[t].date, new.date, txns[u].date)
                  /\ f.slate = sent(txns[t].slate, new.slate, txns[u].slate)
    <3>1. PICK r, amount, day, slate : /\ r = txns[u] /\ amount = sent(txns[t].amount, new.amount, txns[u].amount)
                                        /\ day = sent(txns[t].date, new.date, txns[u].date)
                                        /\ slate = sent(txns[t].slate, new.slate, txns[u].slate)
      OBVIOUS
    <3>2. IsRow(r)
      BY <1>0, <3>1 DEF Booked
    <3>3. PICK f : f = [r EXCEPT !.amount = amount, !.date = day, !.slate = slate]
      OBVIOUS
    <3>4. /\ IsRow(f) /\ f.type = r.type /\ f.pair = r.pair
          /\ f.amount = amount /\ f.date = day /\ f.slate = slate
      BY <3>2, <3>3 DEF IsRow, Row
    <3>5. f # NoRow
      BY <3>4, RowsStand
    <3> QED
      BY <3>1, <3>3, <3>4, <3>5
  <2> HIDE DEF follow, sent
  <2>7. /\ DOMAIN txns' = RowIds
        /\ \A u \in RowIds : txns'[u] = IF u = t THEN new ELSE IF u \in Paired(t) THEN follow(new, u) ELSE txns[u]
    BY <2>2
  <2>8. Paired(t) \subseteq Rows /\ Rows \subseteq RowIds /\ \A u \in RowIds : u \in Rows <=> txns[u] # NoRow
    BY DEF Paired, Rows
  <2>9. \A u \in RowIds : txns'[u] = NoRow \/ (u \in Rows /\ IsRow(txns'[u]) /\ txns'[u].pair = txns[u].pair)
    BY <1>0, <2>3, <2>6, <2>7, <2>8 DEF Booked
  <2>10. Rows' = Rows
    <3>1. \A u \in RowIds : txns'[u] # NoRow <=> txns[u] # NoRow
      BY <2>3, <2>6, <2>7, <2>8
    <3> QED
      BY <3>1 DEF Rows
  <2>11. Booked' /\ \A u \in Rows : txns'[u].pair = txns[u].pair
    <3>1. UNCHANGED given /\ accounts' \subseteq accounts
      BY <2>4
    <3>2. Booked' /\ \A u \in Rows' : txns'[u].pair = txns[u].pair
      BY <2>7, <2>9, <3>1, RowsChange
    <3> QED
      BY <2>10, <3>2
  <2>12. \A u \in Rows : txns'[u].type = txns[u].type
    BY <2>3, <2>6, <2>7, <2>8
  <2>13. ASSUME NEW u \in Rows, NEW p, p = txns[u].pair, p \in Rows, {u, p} \cap history.bent = {}
         PROVE  /\ txns'[p].amount = txns'[u].amount /\ txns'[p].date = txns'[u].date
                /\ txns'[p].slate = txns'[u].slate
    <3>1. txns[p].pair = u /\ p # u /\ p # 0
      BY <2>13, LegsTogether
    <3>2. txns[p].amount = txns[u].amount /\ txns[p].date = txns[u].date /\ txns[p].slate = txns[u].slate
      BY <1>0, <2>13, <3>1 DEF LegsMatch
    <3>3. CASE u = t
      <4>1. p \in Paired(t) /\ p # t
        BY <2>13, <3>1, <3>3 DEF Paired
      <4>2. txns'[u] = new /\ txns'[p] = follow(new, p)
        BY <2>7, <2>8, <2>13, <3>3, <4>1
      <4> QED
        BY <2>6, <2>13, <3>2, <3>3, <4>2 DEF sent
    <3>4. CASE p = t
      <4>1. u \in Paired(t) /\ u # t
        BY <2>13, <3>1, <3>4 DEF Paired
      <4>2. txns'[p] = new /\ txns'[u] = follow(new, u)
        BY <2>7, <2>8, <2>13, <3>4, <4>1
      <4> QED
        BY <2>6, <2>13, <3>2, <3>4, <4>2 DEF sent
    <3>5. CASE u # t /\ p # t
      <4>1. u \notin Paired(t) /\ p \notin Paired(t)
        BY <2>13, <3>1, <3>5 DEF Paired
      <4>2. txns'[u] = txns[u] /\ txns'[p] = txns[p]
        BY <2>7, <2>8, <2>13, <3>5, <4>1
      <4> QED
        BY <3>2, <4>2
    <3> QED
      BY <3>3, <3>4, <3>5
  <2>14. LegsMatch'
    BY <1>0, <2>4, <2>5, <2>10, <2>11, <2>12, <2>13 DEF LegsMatch
  <2>15. Recalled'
    BY <1>0, <2>5, <2>10 DEF Recalled
  <2>16. \A u \in history'.posted \cap recent' : u \in history.posted \cap recent /\ txns'[u] = txns[u]
    BY <1>0, <2>4, <2>5, <2>7, <2>8 DEF Recalled
  <2>17. AtDesk' /\ NoEcho'
    BY <2>4, <2>16, TwinsStay
  <2> QED
    BY <2>11, <2>14, <2>15, <2>17 DEF LedgerInv
<1>15. ASSUME NEW c \in Clerks, EditByAssistant(c) PROVE LedgerInv'
  <2>0. PICK t \in Rows : \E new \in Changes(t, desk[c].slate) :
          /\ txns' = [txns EXCEPT ![t] = new]
          /\ Remembers({t}, {new}, [history EXCEPT !.bent = history.bent \cup {t}])
    BY <1>15 DEF EditByAssistant
  <2>1. PICK new, others :
          /\ new \in Changes(t, desk[c].slate)
          /\ txns' = [txns EXCEPT ![t] = new]
          /\ others = [history EXCEPT !.bent = history.bent \cup {t}]
          /\ Remembers({t}, {new}, others)
    BY <2>0
  <2>2. IsRow(new) /\ new # NoRow /\ new.type = txns[t].type /\ new.pair = txns[t].pair
    BY <2>1, ChangesAreRows
  <2>3. UNCHANGED <<accounts, given, recent>> /\ NoDraftGiven
    BY <1>3, <1>15 DEF EditByAssistant
  <2>4. /\ Shape(history') /\ history'.bent = history.bent \cup {t} /\ history'.posted = history.posted \ {t}
    <3>1. Shape(others) /\ others.bent = history.bent \cup {t} /\ others.posted = history.posted
      BY <1>0, <2>1 DEF Shape
    <3>2. PICK changed, rows : changed = {t} /\ rows = {new}
      OBVIOUS
    <3>3. Remembers(changed, rows, others)
      BY <2>1, <3>2
    <3>4. Shape(history') /\ history'.posted = others.posted \ changed /\ history'.bent = others.bent
      BY <3>1, <3>3, Remembered
    <3> QED
      BY <3>1, <3>2, <3>4
  <2>5. t \in RowIds /\ DOMAIN txns' = RowIds /\ \A u \in RowIds : txns'[u] = IF u = t THEN new ELSE txns[u]
    BY <1>0, <2>1 DEF Booked, Rows
  <2>6. \A u \in RowIds : u \in Rows <=> txns[u] # NoRow
    BY DEF Rows
  <2>7. Rows' = Rows
    <3>1. \A u \in RowIds : txns'[u] # NoRow <=> txns[u] # NoRow
      BY <2>2, <2>5, <2>6
    <3> QED
      BY <3>1 DEF Rows
  <2>8. \A u \in RowIds : txns'[u] = NoRow \/ (u \in Rows /\ IsRow(txns'[u]) /\ txns'[u].pair = txns[u].pair)
    BY <1>0, <2>2, <2>5, <2>6 DEF Booked
  <2>9. Booked' /\ \A u \in Rows : txns'[u].pair = txns[u].pair
    <3>1. UNCHANGED given /\ accounts' \subseteq accounts
      BY <2>3
    <3>2. Booked' /\ \A u \in Rows' : txns'[u].pair = txns[u].pair
      BY <2>5, <2>8, <3>1, RowsChange
    <3> QED
      BY <2>7, <3>2
  <2>10. \A u \in Rows : u \in RowIds /\ txns'[u].type = txns[u].type /\ (u # t => txns'[u] = txns[u])
    BY <2>2, <2>5, <2>6 DEF Rows
  <2>11. LegsMatch'
    BY <1>0, <2>3, <2>4, <2>7, <2>9, <2>10 DEF LegsMatch
  <2>12. Recalled'
    BY <1>0, <2>4, <2>7 DEF Recalled
  <2>13. \A u \in history'.posted \cap recent' : u \in history.posted \cap recent /\ txns'[u] = txns[u]
    BY <1>0, <2>3, <2>4, <2>10 DEF Recalled
  <2>14. AtDesk' /\ NoEcho'
    BY <2>3, <2>13, TwinsStay
  <2> QED
    BY <2>9, <2>11, <2>12, <2>14 DEF LedgerInv
<1>16. ASSUME NEW c \in Clerks, DeleteRow(c) PROVE LedgerInv'
  <2>0. PICK t \in Rows : \E gone :
          /\ gone = {t} \cup ({txns[t].pair} \cap Rows)
          /\ txns' = [u \in RowIds |-> IF u \in gone THEN NoRow ELSE txns[u]]
          /\ recent' = recent \ gone
          /\ Remembers(gone, {}, history)
    BY <1>16 DEF DeleteRow
  <2>1. PICK gone :
          /\ gone = {t} \cup ({txns[t].pair} \cap Rows)
          /\ txns' = [u \in RowIds |-> IF u \in gone THEN NoRow ELSE txns[u]]
          /\ recent' = recent \ gone
          /\ Remembers(gone, {}, history)
    BY <2>0
  <2>2. UNCHANGED <<accounts, given>> /\ NoDraftGiven
    BY <1>4, <1>16 DEF DeleteRow, InOneStep
  <2>3. /\ Shape(history') /\ history'.bent = history.bent /\ history'.posted = history.posted \ gone
    BY <1>0, <2>1, Remembered
  <2>4. DOMAIN txns' = RowIds /\ \A u \in RowIds : txns'[u] = IF u \in gone THEN NoRow ELSE txns[u]
    BY <2>1
  <2>5. \A u \in RowIds : u \in Rows <=> txns[u] # NoRow
    BY DEF Rows
  <2>6. Rows' = Rows \ gone /\ \A u \in Rows \ gone : txns'[u] = txns[u]
    <3>1. \A u \in RowIds : txns'[u] # NoRow <=> txns[u] # NoRow /\ u \notin gone
      BY <2>4
    <3>2. Rows' = {u \in RowIds : txns'[u] # NoRow} /\ Rows = {u \in RowIds : txns[u] # NoRow}
      BY DEF Rows
    <3> QED
      BY <2>4, <3>1, <3>2
  <2>7. Booked'
    <3>1. \A u \in RowIds : txns'[u] = NoRow \/ (u \in Rows /\ IsRow(txns'[u]) /\ txns'[u].pair = txns[u].pair)
      BY <1>0, <2>4, <2>5 DEF Booked
    <3>2. UNCHANGED given /\ accounts' \subseteq accounts
      BY <2>2
    <3> QED
      BY <2>4, <3>1, <3>2, RowsChange
  <2>8. ASSUME NEW u \in Rows \ gone, txns[u].pair \in Rows
        PROVE  txns[u].pair \notin gone
    <3>1. PICK p : p = txns[u].pair
      OBVIOUS
    <3>2. txns[p].pair = u /\ p # u
      BY <2>8, <3>1, LegsTogether
    <3>3. p # t
      BY <2>1, <2>8, <3>2
    <3>4. ASSUME p = txns[t].pair PROVE FALSE
      <4>1. txns[p].pair = t
        BY <2>8, <3>1, <3>4, LegsTogether
      <4> QED
        BY <2>1, <3>2, <4>1
    <3> QED
      BY <2>1, <3>1, <3>3, <3>4
  <2>9. LegsMatch'
    BY <1>0, <2>2, <2>3, <2>6, <2>8 DEF LegsMatch
  <2>10. Recalled'
    BY <1>0, <2>3, <2>6 DEF Recalled
  <2>11. \A u \in history'.posted \cap recent' : u \in history.posted \cap recent /\ txns'[u] = txns[u]
    BY <1>0, <2>1, <2>3, <2>6 DEF Recalled
  <2>12. AtDesk' /\ NoEcho'
    BY <2>2, <2>11, TwinsStay
  <2> QED
    BY <2>7, <2>9, <2>10, <2>12 DEF LedgerInv
<1>17. ASSUME DOMAIN txns' = RowIds, UNCHANGED <<accounts, given, history, recent>>, NoDraftGiven,
              NEW T, NEW slate,
              \A u \in RowIds : txns'[u] = IF u \in T THEN [txns[u] EXCEPT !.slate = slate] ELSE txns[u],
              T \subseteq Rows,
              \A u \in Rows : txns[u].pair \in Rows /\ {u, txns[u].pair} \cap history.bent = {} =>
                (u \in T <=> txns[u].pair \in T)
       PROVE  LedgerInv'
  <2>1. \A u \in Rows : u \in RowIds /\ IsRow(txns[u]) /\ txns[u] # NoRow
    BY <1>0 DEF Booked, Rows
  <2>2. ASSUME NEW u \in Rows
        PROVE  /\ IsRow(txns'[u]) /\ txns'[u] # NoRow
               /\ txns'[u].account = txns[u].account /\ txns'[u].type = txns[u].type
               /\ txns'[u].amount = txns[u].amount /\ txns'[u].date = txns[u].date
               /\ txns'[u].slate = (IF u \in T THEN slate ELSE txns[u].slate) /\ txns'[u].pair = txns[u].pair
    <3>1. PICK r, new : r = txns[u] /\ new = [r EXCEPT !.slate = slate]
      OBVIOUS
    <3>2. IsRow(r) /\ r # NoRow
      BY <2>1, <3>1
    <3>3. /\ IsRow(new) /\ new.account = r.account /\ new.type = r.type /\ new.amount = r.amount
          /\ new.date = r.date /\ new.slate = slate /\ new.pair = r.pair
      BY <3>1, <3>2 DEF IsRow, Row
    <3>4. new # NoRow
      BY <3>3, RowsStand
    <3>5. txns'[u] = IF u \in T THEN new ELSE r
      BY <1>17, <2>1, <3>1
    <3> QED
      BY <3>1, <3>2, <3>3, <3>4, <3>5
  <2>3. Rows' = Rows
    <3>1. \A u \in RowIds : txns'[u] # NoRow <=> txns[u] # NoRow
      <4>1. \A u \in RowIds : u \in Rows <=> txns[u] # NoRow
        BY DEF Rows
      <4> QED
        BY <1>17, <2>2, <4>1
    <3> QED
      BY <3>1 DEF Rows
  <2>4. Booked' /\ Recalled'
    BY <1>0, <1>17, <2>2, <2>3 DEF Booked, Recalled
  <2>5. LegsMatch'
    BY <1>0, <1>17, <2>2, <2>3 DEF LegsMatch
  <2>6. history.posted \subseteq Rows /\ UNCHANGED <<history, recent>>
    BY <1>0, <1>17 DEF Recalled
  <2>7. AtDesk' /\ NoEcho'
    BY <1>17, <2>2, <2>6, TwinsStay
  <2> QED
    BY <2>4, <2>5, <2>7 DEF LedgerInv
<1>18. ASSUME NEW c \in Clerks, MoveToSlate(c) PROVE LedgerInv'
  <2>1. PICK T \in SUBSET Rows :
          txns' = [u \in RowIds |-> IF u \in T \/ (u \in Rows /\ txns[u].pair \in T)
                                    THEN [txns[u] EXCEPT !.slate = desk[c].slate] ELSE txns[u]]
    BY <1>18 DEF MoveToSlate
  <2>2. PICK S, slate : S = T \cup {u \in Rows : txns[u].pair \in T} /\ slate = desk[c].slate
    OBVIOUS
  <2>3. DOMAIN txns' = RowIds /\ \A u \in RowIds : txns'[u] = IF u \in S THEN [txns[u] EXCEPT !.slate = slate] ELSE txns[u]
    BY <2>1, <2>2
  <2>4. \A u \in Rows : txns[u].pair \in Rows => (u \in S <=> txns[u].pair \in S)
    BY <2>2, LegsTogether
  <2>5. S \subseteq Rows
    BY <2>2
  <2>6. UNCHANGED <<accounts, given, history, recent>> /\ NoDraftGiven
    BY <1>3, <1>18 DEF MoveToSlate
  <2> QED
    BY <1>17, <2>3, <2>4, <2>5, <2>6
<1>19. ASSUME NEW c \in Clerks, DeleteSlate(c) PROVE LedgerInv'
  <2>1. PICK S, slate : S = Held /\ slate = PlainLife
    OBVIOUS
  <2>2. DOMAIN txns' = RowIds /\ \A u \in RowIds : txns'[u] = IF u \in S THEN [txns[u] EXCEPT !.slate = slate] ELSE txns[u]
    BY <1>19, <2>1 DEF DeleteSlate
  <2>3. S \subseteq Rows /\ \A u \in Rows : u \in S <=> txns[u].slate = Trip
    BY <2>1 DEF Held
  <2>4. ASSUME NEW u \in Rows, txns[u].pair \in Rows, {u, txns[u].pair} \cap history.bent = {}
        PROVE  u \in S <=> txns[u].pair \in S
    <3>1. txns[txns[u].pair].slate = txns[u].slate
      BY <1>0, <2>4, LegsTogether DEF LegsMatch
    <3> QED
      BY <2>3, <2>4, <3>1
  <2>5. UNCHANGED <<accounts, given, history, recent>> /\ NoDraftGiven
    BY <1>3, <1>19 DEF DeleteSlate
  <2>6. \A u \in Rows : txns[u].pair \in Rows /\ {u, txns[u].pair} \cap history.bent = {} =>
          (u \in S <=> txns[u].pair \in S)
    BY <2>4
  <2>7. \A u \in RowIds : txns'[u] = IF u \in S THEN [txns[u] EXCEPT !.slate = slate] ELSE txns[u]
    BY <2>2
  <2>8. DOMAIN txns' = RowIds /\ S \subseteq Rows
    BY <2>2, <2>3
  <2> HIDE DEF LedgerInv, Rows, RowIds
  <2> QED
    BY <1>17, <2>5, <2>6, <2>7, <2>8
<1>20. ASSUME NEW c \in Clerks, DeleteLedgerAccount(c) PROVE LedgerInv'
  <2>1. PICK a \in accounts :
          /\ accounts' = accounts \ {a}
          /\ txns' = [t \in RowIds |-> IF t \in Rows /\ txns[t].account = a THEN NoRow ELSE txns[t]]
          /\ recent' = {t \in recent : txns[t].account # a}
          /\ history' = [history EXCEPT !.posted = {t \in @ : txns[t].account # a}]
    BY <1>20 DEF DeleteLedgerAccount
  <2>2. UNCHANGED given /\ NoDraftGiven
    BY <1>4, <1>20 DEF DeleteLedgerAccount, InOneStep
  <2>3. accounts' \subseteq accounts /\ accounts' # Accounts
    BY <1>0, <2>1 DEF Booked
  <2>4. Shape(history') /\ history'.bent = history.bent /\ history'.posted = {t \in history.posted : txns[t].account # a}
    BY <1>0, <2>1 DEF Shape
  <2>5. DOMAIN txns' = RowIds /\ \A t \in RowIds : txns'[t] = IF t \in Rows /\ txns[t].account = a THEN NoRow ELSE txns[t]
    BY <2>1
  <2>6. Rows' = {t \in Rows : txns[t].account # a} /\ \A t \in Rows' : txns'[t] = txns[t]
    <3>1. \A t \in RowIds : t \in Rows <=> txns[t] # NoRow
      BY DEF Rows
    <3>2. \A t \in RowIds : txns'[t] # NoRow <=> t \in Rows /\ txns[t].account # a
      BY <2>5, <3>1
    <3>3. Rows' = {t \in RowIds : txns'[t] # NoRow} /\ Rows = {t \in RowIds : txns[t] # NoRow}
      BY DEF Rows
    <3> QED
      BY <2>5, <3>2, <3>3
  <2>7. Booked'
    <3>1. \A t \in RowIds : txns'[t] = NoRow \/ (t \in Rows /\ IsRow(txns'[t]) /\ txns'[t].pair = txns[t].pair)
      <4>1. \A t \in RowIds : t \in Rows <=> txns[t] # NoRow
        BY DEF Rows
      <4> QED
        BY <1>0, <2>5, <4>1 DEF Booked
    <3> QED
      BY <2>2, <2>3, <2>5, <3>1, RowsChange
  <2>8. LegsMatch'
    BY <1>0, <2>3, <2>4, <2>6 DEF LegsMatch
  <2>9. Recalled'
    BY <1>0, <2>4, <2>6 DEF Recalled
  <2>10. \A t \in history'.posted \cap recent' : t \in history.posted \cap recent /\ txns'[t] = txns[t]
    BY <1>0, <2>1, <2>4, <2>6 DEF Recalled
  <2>11. AtDesk' /\ NoEcho'
    BY <2>2, <2>10, TwinsStay
  <2> QED
    BY <2>7, <2>8, <2>9, <2>11 DEF LedgerInv
<1>21. ASSUME NEW c \in Clerks, NEW job, UNCHANGED <<accounts, txns, given, recent, history>>,
              desk' = [desk EXCEPT ![c] = job], job.step \notin {"checked", "unpaid"}
       PROVE  LedgerInv'
  BY <1>0, <1>2, <1>6, <1>21
<1>22. ASSUME NEW c \in Clerks, ReadCharges(c) PROVE LedgerInv'
  <2>1. PICK day, start, charges :
          desk' = [desk EXCEPT ![c] = [step |-> "charges", date |-> day, from |-> start, charges |-> charges]]
    BY <1>22 DEF ReadCharges
  <2> QED
    BY <1>21, <1>22, <2>1 DEF ReadCharges
<1>23. ASSUME NEW c \in Clerks, ReadBalance(c) PROVE LedgerInv'
  <2>1. PICK day, due : desk' = [desk EXCEPT ![c] = [step |-> "totals", date |-> day, due |-> due]]
    BY <1>23 DEF ReadBalance
  <2> QED
    BY <1>21, <1>23, <2>1 DEF ReadBalance
<1>24. ASSUME NEW c \in Clerks, CountSlate(c) PROVE LedgerInv'
  <2>1. PICK job : job = [step |-> "counted", moves |-> Held # {}]
    OBVIOUS
  <2>2. job.step = "counted"
    BY <2>1
  <2> QED
    BY <1>21, <1>24, <2>1, <2>2 DEF CountSlate
<1>25. ASSUME NEW c \in Clerks, Abandon(c) PROVE LedgerInv'
  BY <1>0, <1>3, <1>6, <1>25 DEF Abandon
<1>26. ASSUME NEW c \in Clerks, ArchiveSlate(c) PROVE LedgerInv'
  BY <1>0, <1>4, <1>6, <1>26 DEF ArchiveSlate, InOneStep
<1>27. ASSUME NEW c \in Clerks, CloseCycle(c) PROVE LedgerInv'
  <2>1. PICK s, quiet : history' = [history EXCEPT !.quiet = quiet, !.reopened = @ \ {s}, !.payments[s] = 0]
    BY <1>27 DEF CloseCycle
  <2>2. Shape(history') /\ history'.bent = history.bent /\ history'.posted = history.posted
    BY <1>0, <2>1 DEF Shape
  <2> QED
    BY <1>3, <1>6, <1>27, <2>2 DEF CloseCycle
<1>28. ASSUME UNCHANGED <<accounts, txns, given, recent>>, NoDraftGiven,
              NEW quiet, history' = [history EXCEPT !.quiet = quiet]
       PROVE  LedgerInv'
  <2>1. Shape(history') /\ history'.bent = history.bent /\ history'.posted = history.posted
    BY <1>0, <1>28 DEF Shape
  <2> QED
    BY <1>6, <1>28, <2>1
<1>29. ASSUME NEW c \in Clerks, CorrectStatement(c) PROVE LedgerInv'
  BY <1>4, <1>28, <1>29 DEF CorrectStatement, InOneStep
<1>30. ASSUME NEW c \in Clerks, DeleteStatement(c) PROVE LedgerInv'
  <2>1. PICK quiet : history' = [history EXCEPT !.quiet = quiet]
    BY <1>30 DEF DeleteStatement
  <2> QED
    BY <1>4, <1>28, <1>30, <2>1 DEF DeleteStatement, InOneStep
<1>31. ASSUME NEW c \in Clerks, SetOpening(c) PROVE LedgerInv'
  <2>1. PICK quiet : history' = [history EXCEPT !.quiet = quiet]
    BY <1>31 DEF SetOpening
  <2> QED
    BY <1>4, <1>28, <1>31, <2>1 DEF SetOpening, InOneStep
<1>32. ASSUME NEW s, history' = [history EXCEPT !.reopened = @ \cup {s}] \/ history' = history
       PROVE  Shape(history') /\ history'.bent = history.bent /\ history'.posted = history.posted
  BY <1>0, <1>32 DEF Shape
<1>33. ASSUME NEW c \in Clerks, MarkUnpaid(c) PROVE LedgerInv'
  BY <1>4, <1>6, <1>32, <1>33 DEF MarkUnpaid, InOneStep
<1>34. ASSUME NEW c \in Clerks, ReadUnpaid(c) PROVE LedgerInv'
  <2>1. PICK s, due : /\ desk' = [desk EXCEPT ![c] = [step |-> "unpaid", statement |-> s, due |-> due]]
                      /\ history' = [history EXCEPT !.reopened = @ \cup {s}] \/ history' = history
    BY <1>34 DEF ReadUnpaid
  <2>2. PICK job : job = [step |-> "unpaid", statement |-> s, due |-> due]
    OBVIOUS
  <2>3. job = [step |-> "unpaid", statement |-> job.statement, due |-> job.due]
    BY <2>2
  <2>4. NoDraftGiven
    BY <1>1, <2>1, <2>2, <2>3 DEF NoDraftGiven
  <2> QED
    BY <1>6, <1>32, <1>34, <2>1, <2>4 DEF ReadUnpaid
<1>35. ASSUME NEW c \in Clerks, MarkPaid(c) PROVE LedgerInv'
  <2>1. PICK job, marked : job = desk[c] /\ marked = [job EXCEPT !.step = "marked"]
    OBVIOUS
  <2>2. job = [step |-> "unpaid", statement |-> job.statement, due |-> job.due]
    BY <1>0, <1>35, <2>1 DEF MarkPaid, AtDesk, At
  <2>3. marked.step = "marked"
    BY <2>1, <2>2
  <2>4. desk' = [desk EXCEPT ![c] = marked]
    BY <1>35, <2>1 DEF MarkPaid
  <2> QED
    BY <1>21, <1>35, <2>3, <2>4 DEF MarkPaid
<1>36. CASE UNCHANGED ledgerVars
  BY <1>0, <1>4, <1>6, <1>36 DEF ledgerVars
<1> QED
  BY <1>7, <1>8, <1>9, <1>10, <1>12, <1>13, <1>14, <1>15, <1>16, <1>18, <1>19, <1>20, <1>22, <1>23, <1>24,
     <1>25, <1>26, <1>27, <1>29, <1>30, <1>31, <1>33, <1>34, <1>35, <1>36
     DEF LedgerNext, RowStep, SlateStep, CardStep, AccountStep

(* The two legs of a transfer name each other and agree in amount, date and*)
(* slate, and no request enters what another entered in the last minutes:  *)
(* for any number of clerks, rows, dates and amounts.  updateTransaction,  *)
(* deleteTransaction, createTransaction and the two slate handlers of      *)
(* api/finance.go and api/slates.go.                                       *)
THEOREM RowsStayInStep == LedgerSpec => []RowsHold
<1>1. LedgerInv => RowsHold
  BY DEF LedgerInv, RowsHold
<1> QED
  BY <1>1, LedgerInvInit, LedgerInvNext, PTL DEF LedgerSpec

-----------------------------------------------------------------------------
(* Ledger: the card.                                                       *)

SRows == [date : Nat, due : Int, paid : BOOLEAN]

JobFits(j) ==
  /\ j.step = "checked" => j.draft.amount = 1 /\ j.draft.date \in Nat
  /\ j.step = "charges" => j.date \in Nat /\ j.from \in Nat /\ j.charges \in Int
  /\ j.step = "totals" => j.date \in Nat /\ j.due \in Int
  /\ j.step \in {"unpaid", "marked"} => j.statement \in Statements /\ j.due \in Int

CardTypes ==
  /\ opening \in Int
  /\ statements \in [Statements -> {NoRow} \cup SRows]
  /\ Card \notin accounts => Closed = {}
  /\ \A t \in Rows : txns[t].amount \in Int /\ txns[t].date \in Nat
  /\ \A c \in Clerks : JobFits(desk[c])
  /\ history.payments \in [Statements -> Nat]

(* What the rows say is owed on a day, and what a period was charged.       *)
Said(day) == Max({0, -opening}) + SumRows(OnCard({"expense"}, 0, day))
             - SumRows(OnCard({"income", "transfer_in"}, 0, day))
Charged(start, day) == SumRows(OnCard({"expense"}, start, day)) - SumRows(OnCard({"income"}, start, day))
LastBefore(day) == Max({0} \cup {statements[s].date : s \in {p \in Closed : statements[p].date < day}})

InFigures ==
  history.quiet /\ Card \in accounts =>
    /\ \A s \in Closed : statements[s].due = Said(statements[s].date)
    /\ \A c \in Clerks :
         /\ At(c, "charges") => /\ desk[c].from = LastBefore(desk[c].date)
                                /\ desk[c].charges = Charged(desk[c].from, desk[c].date)
         /\ At(c, "totals") => desk[c].due = Said(desk[c].date)

(* While nothing opens a statement again, one request at a time is paying   *)
(* it, and none that has marked it finds it unpaid.                         *)
Paying(c, s) == desk[c].step \in {"unpaid", "marked"} /\ desk[c].statement = s
PaidInTurn(s) ==
  s \notin history.reopened =>
    /\ \A c, d \in Clerks : Paying(c, s) /\ Paying(d, s) => c = d
    /\ (\E c \in Clerks : Paying(c, s)) => history.payments[s] = 0
    /\ history.payments[s] <= 1
    /\ s \in Closed /\ ~statements[s].paid =>
         history.payments[s] = 0 /\ \A c \in Clerks : ~ (Paying(c, s) /\ At(c, "marked"))

CardInv == CardTypes /\ InFigures /\ \A s \in Statements : PaidInTurn(s)

LEMMA Ids == IsFiniteSet(RowIds) /\ Rows \subseteq RowIds /\ Statements = {1, 2} /\ Dates \subseteq Nat
  BY LedgerAssumption, FS_Interval DEF RowIds, Rows, Statements, Dates

LEMMA CardStarts == LedgerInit \/ CardStart => CardInv
<1>1. ASSUME NEW openings \in SUBSET Int, NEW trip, NEW rows, NEW closed \in {NoRow, Unpaid}, NEW before,
             LedgerStart(openings, trip, rows, closed, before),
             \A t \in Rows : txns[t].amount \in Int /\ txns[t].date \in Nat,
             closed = Unpaid => Said(1) = 1
      PROVE  CardInv
  <2>1. /\ opening \in Int /\ accounts = Accounts
        /\ statements = [s \in Statements |-> IF s = 1 THEN closed ELSE NoRow]
        /\ \A c \in Clerks : desk[c] = Unread
        /\ history = Untold
    BY <1>1 DEF LedgerStart
  <2>2. Unread.step = "idle"
    BY DEF Unread
  <2>3. history.payments \in [Statements -> Nat] /\ \A s \in Statements : history.payments[s] = 0
    BY <2>1 DEF Untold
  <2>4. Card \in accounts
    BY <2>1 DEF Accounts
  <2>5. closed \in {NoRow} \cup SRows /\ (closed = Unpaid => closed.date = 1 /\ closed.due = 1)
    <3>1. Unpaid.date = 1 /\ Unpaid.due = 1 /\ Unpaid \in SRows
      BY DEF SRows, Unpaid
    <3> QED
      BY <1>1, <3>1
  <2>6. CardTypes
    BY <1>1, <2>1, <2>2, <2>3, <2>4, <2>5 DEF CardTypes, JobFits
  <2>7. \A s \in Closed : statements[s] = Unpaid
    BY <1>1, <2>1 DEF Closed
  <2>8. InFigures
    BY <1>1, <2>1, <2>2, <2>5, <2>7, Ids DEF InFigures, At, Closed
  <2>9. \A s \in Statements : PaidInTurn(s)
    BY <2>1, <2>2, <2>3 DEF PaidInTurn, Paying
  <2> QED
    BY <2>6, <2>8, <2>9 DEF CardInv
<1>2. ASSUME NEW openings, NEW trip, NEW closed, NEW before, LedgerStart(openings, trip, <<>>, closed, before)
      PROVE  Rows = {} /\ \A day : SumRows(OnCard({"expense"}, 0, day)) = 0 /\ SumRows(OnCard({"income", "transfer_in"}, 0, day)) = 0
  <2>1. \A t \in RowIds : txns[t] = NoRow
    BY <1>2 DEF LedgerStart
  <2>2. Rows = {}
    BY <2>1 DEF Rows
  <2>3. \A types, start, day : OnCard(types, start, day) = {}
    BY <2>2 DEF OnCard
  <2>4. SumRows({}) = 0
    <3>1. SumAmounts(txns, {}) = 0
      BY AmountsNone
    <3> QED
      BY <3>1 DEF SumRows, SumAmounts
  <2> QED
    BY <2>2, <2>3, <2>4
<1>3. ASSUME LedgerStart({-1}, "gone", <<>>, Unpaid, 0)
      PROVE  CardInv
  <2>1. opening = -1
    BY <1>3 DEF LedgerStart
  <2>2. Max({0, -opening}) = 1
    <3>1. 1 = CHOOSE x \in {0, 1} : \A y \in {0, 1} : x >= y
      OBVIOUS
    <3>2. {0, -opening} = {0, 1}
      BY <2>1
    <3>3. Max({0, 1}) = 1
      BY <3>1, Zenon DEF Max
    <3> QED
      BY <3>2, <3>3
  <2>3. Rows = {} /\ SumRows(OnCard({"expense"}, 0, 1)) = 0 /\ SumRows(OnCard({"income", "transfer_in"}, 0, 1)) = 0
    BY <1>2, <1>3
  <2>4. Said(1) = 1
    BY <2>2, <2>3 DEF Said
  <2> QED
    BY <1>1, <1>3, <2>3, <2>4
<1>4. ASSUME LedgerStart({-1}, "gone", Paid, NoRow, 2)
      PROVE  CardInv
  <2>1. PICK out, in : /\ out = Row(Bank, "transfer_out", 1, 1, PlainLife, 2)
                       /\ in = Row(Card, "transfer_in", 1, 1, PlainLife, 1)
    OBVIOUS
  <2>2. Paid = <<out, in>> /\ DOMAIN Paid = {1, 2} /\ Paid[1] = out /\ Paid[2] = in
    BY <2>1 DEF Paid
  <2>3. out.amount = 1 /\ out.date = 1 /\ in.amount = 1 /\ in.date = 1
    BY <2>1 DEF Row
  <2>4. txns = [t \in RowIds |-> IF t \in DOMAIN Paid THEN Paid[t] ELSE NoRow]
    BY <1>4 DEF LedgerStart
  <2>5. \A t \in Rows : txns[t] \in {out, in}
    BY <2>2, <2>4 DEF Rows
  <2>6. \A t \in Rows : txns[t].amount \in Int /\ txns[t].date \in Nat
    BY <2>3, <2>5
  <2>7. NoRow # Unpaid
    <3>1. "due" \in DOMAIN Unpaid /\ "due" \notin DOMAIN NoRow
      BY DEF Unpaid, NoRow
    <3> QED
      BY <3>1
  <2> QED
    BY <1>1, <1>4, <2>6, <2>7
<1>5. ASSUME LedgerInit
      PROVE  CardInv
  <2>1. LedgerStart({-1, 0}, "open", <<>>, NoRow, 0)
    BY <1>5 DEF LedgerInit
  <2>2. Rows = {}
    BY <1>2, <2>1
  <2>3. NoRow # Unpaid
    <3>1. "due" \in DOMAIN Unpaid /\ "due" \notin DOMAIN NoRow
      BY DEF Unpaid, NoRow
    <3> QED
      BY <3>1
  <2> QED
    BY <1>1, <2>1, <2>2, <2>3
<1> QED
  BY <1>3, <1>4, <1>5 DEF CardStart

-----------------------------------------------------------------------------
(* Up to a day, the card's rows stay as they are.                           *)
OnDay(r, day) == r # NoRow /\ r.account = Card /\ r.date <= day
SameUpTo(day) ==
  \A t \in RowIds :
    /\ OnDay(txns[t], day) <=> OnDay(txns'[t], day)
    /\ OnDay(txns[t], day) => /\ txns'[t].type = txns[t].type
                              /\ txns'[t].amount = txns[t].amount /\ txns'[t].date = txns[t].date

LEMMA FiguresSame ==
  ASSUME NEW day, SameUpTo(day), UNCHANGED opening
  PROVE  Said(day)' = Said(day) /\ \A start : Charged(start, day)' = Charged(start, day)
<1>1. ASSUME NEW types, NEW start
      PROVE  SumRows(OnCard(types, start, day))' = SumRows(OnCard(types, start, day))
  <2>1. OnCard(types, start, day)' = OnCard(types, start, day)
    <3>1. OnCard(types, start, day) = {t \in RowIds : OnDay(txns[t], day) /\ txns[t].type \in types /\ txns[t].date > start}
      BY DEF OnCard, OnDay, Rows
    <3>2. OnCard(types, start, day)' = {t \in RowIds : OnDay(txns'[t], day) /\ txns'[t].type \in types /\ txns'[t].date > start}
      BY DEF OnCard, OnDay, Rows
    <3> QED
      BY <3>1, <3>2 DEF SameUpTo
  <2>2. PICK T : T = OnCard(types, start, day)
    OBVIOUS
  <2>3. \A t \in T : t \in RowIds /\ OnDay(txns[t], day)
    BY <2>2 DEF OnCard, Rows, OnDay
  <2>4. IsFiniteSet(T) /\ \A t \in T : txns[t].amount = txns'[t].amount
    <3>1. T \subseteq RowIds
      BY <2>3
    <3> QED
      BY <2>3, <3>1, Ids, FS_Subset DEF SameUpTo
  <2>5. SumAmounts(txns, T) = SumAmounts(txns', T)
    BY <2>4, AmountsSame
  <2>6. SumRows(OnCard(types, start, day)) = SumAmounts(txns, T)
    BY <2>2 DEF SumRows, SumAmounts
  <2>7. SumRows(OnCard(types, start, day))' = SumAmounts(txns', T)
    <3>1. SumRows(T)' = SumAmounts(txns', T)
      BY DEF SumRows, SumAmounts, MapThenSumSet, MapThenFoldSet
    <3>2. SumRows(OnCard(types, start, day))' = SumRows(T)'
      BY <2>1, <2>2 DEF SumRows, MapThenSumSet, MapThenFoldSet
    <3> QED
      BY <3>1, <3>2
  <2> QED
    BY <2>5, <2>6, <2>7
<1> QED
  BY <1>1, Zenon DEF Said, Charged

LEMMA LastSame ==
  ASSUME NEW day, Closed' = Closed, \A s \in Closed : statements'[s].date = statements[s].date
  PROVE  LastBefore(day)' = LastBefore(day)
<1>1. {p \in Closed' : statements'[p].date < day} = {p \in Closed : statements[p].date < day}
  OBVIOUS
<1>2. {statements'[s].date : s \in {p \in Closed' : statements'[p].date < day}}
        = {statements[s].date : s \in {p \in Closed : statements[p].date < day}}
  BY <1>1
<1> QED
  BY <1>2 DEF LastBefore

(* No figure moves that something was made from.                            *)
LEMMA FiguresStay ==
  ASSUME CardInv, UNCHANGED opening, accounts' \subseteq accounts, history'.quiet => history.quiet,
         \A c \in Clerks : desk'[c] = desk[c] \/ desk'[c].step \notin {"charges", "totals"},
         history'.quiet /\ Card \in accounts' =>
           /\ \A s \in Closed' : /\ s \in Closed /\ SameUpTo(statements[s].date)
                                 /\ statements'[s].date = statements[s].date /\ statements'[s].due = statements[s].due
           /\ \A c \in Clerks : desk'[c].step \in {"charges", "totals"} =>
                Closed' = Closed /\ SameUpTo(desk[c].date)
  PROVE  InFigures'
<1> SUFFICES ASSUME history'.quiet, Card \in accounts'
             PROVE  /\ \A s \in Closed' : statements'[s].due = Said(statements[s].date)'
                    /\ \A c \in Clerks :
                         /\ At(c, "charges")' => /\ desk'[c].from = LastBefore(desk[c].date)'
                                                 /\ desk'[c].charges = Charged(desk[c].from, desk[c].date)'
                         /\ At(c, "totals")' => desk'[c].due = Said(desk[c].date)'
  BY DEF InFigures
<1>1. /\ \A s \in Closed : statements[s].due = Said(statements[s].date)
      /\ \A c \in Clerks :
           /\ At(c, "charges") => /\ desk[c].from = LastBefore(desk[c].date)
                                  /\ desk[c].charges = Charged(desk[c].from, desk[c].date)
           /\ At(c, "totals") => desk[c].due = Said(desk[c].date)
  BY DEF CardInv, InFigures
<1>2. ASSUME NEW s \in Closed'
      PROVE  statements'[s].due = Said(statements[s].date)'
  <2>1. PICK day : day = statements[s].date
    OBVIOUS
  <2>2. Said(day)' = Said(day) /\ statements'[s].date = day /\ statements'[s].due = Said(day)
    BY <1>1, <1>2, <2>1, FiguresSame
  <2> QED
    BY <2>2 DEF Said, SumRows, OnCard, Rows
<1>3. ASSUME NEW c \in Clerks, desk'[c].step \in {"charges", "totals"}
      PROVE  /\ desk'[c].step = "charges" => /\ desk'[c].from = LastBefore(desk[c].date)'
                                             /\ desk'[c].charges = Charged(desk[c].from, desk[c].date)'
             /\ desk'[c].step = "totals" => desk'[c].due = Said(desk[c].date)'
  <2>1. PICK job : job = desk[c]
    OBVIOUS
  <2>2. desk'[c] = job /\ SameUpTo(job.date) /\ Closed' = Closed
    BY <1>3, <2>1
  <2>3. \A s \in Closed : statements'[s].date = statements[s].date
    BY <2>2
  <2>4. PICK day, start : day = job.date /\ start = job.from
    OBVIOUS
  <2>5. LastBefore(day)' = LastBefore(day) /\ Said(day)' = Said(day) /\ Charged(start, day)' = Charged(start, day)
    BY <2>2, <2>3, <2>4, LastSame, FiguresSame
  <2>6. /\ job.step = "charges" => start = LastBefore(day) /\ job.charges = Charged(start, day)
        /\ job.step = "totals" => job.due = Said(day)
    BY <1>1, <2>1, <2>4 DEF At
  <2>7. desk[c].date' = day /\ desk[c].from' = start
    BY <2>2, <2>4
  <2> HIDE DEF CardInv
  <2>8. LastBefore(desk[c].date)' = LastBefore(day)' /\ Said(desk[c].date)' = Said(day)'
        /\ Charged(desk[c].from, desk[c].date)' = Charged(start, day)'
    BY <2>7 DEF LastBefore, Said, Charged, SumRows, OnCard, Rows, Closed
  <2> QED
    BY <2>2, <2>4, <2>5, <2>6, <2>8
<1> QED
  BY <1>2, <1>3 DEF At

LEMMA LastIs ==
  ASSUME CardTypes, NEW day \in Nat
  PROVE  /\ LastBefore(day) \in Nat /\ LastBefore(day) <= day
         /\ LET before == {s \in Closed : statements[s].date < day}
            IN /\ before = {} => LastBefore(day) = 0
               /\ before # {} => \E s \in before : /\ statements[s].date = LastBefore(day)
                                                   /\ \A p \in before : statements[p].date <= statements[s].date
<1> DEFINE before == {s \in Closed : statements[s].date < day}
           T == {0} \cup {statements[s].date : s \in before}
<1>1. \A s \in before : statements[s].date \in Nat /\ statements[s].date < day
  BY DEF CardTypes, SRows, Closed
<1>2. T \in SUBSET Nat /\ 0 \in T /\ \A y \in T : y <= day
  BY <1>1
<1>3. LastBefore(day) = Max(T)
  BY DEF LastBefore
<1>4. \A y \in T : y = 0 \/ \E s \in before : y = statements[s].date
  OBVIOUS
<1>5. \A s \in before : statements[s].date \in T
  OBVIOUS
<1> HIDE DEF T, before
<1>6. PICK m \in T : \A y \in T : y <= m
  BY <1>2, GreatestNatural
<1>7. Max(T) \in T /\ \A y \in T : Max(T) >= y
  <2>1. \E x \in T : \A y \in T : x >= y
    BY <1>2, <1>6
  <2> QED
    BY <2>1, Zenon DEF Max
<1>8. PICK top \in T : top = Max(T) /\ \A y \in T : top >= y
  BY <1>7
<1>9. top \in Nat /\ top <= day /\ LastBefore(day) = top
  BY <1>2, <1>3, <1>8
<1>10. before = {} => top = 0
  BY <1>4, <1>8
<1>11. ASSUME before # {}
       PROVE  \E s \in before : statements[s].date = top /\ \A p \in before : statements[p].date <= statements[s].date
  <2>1. \A p \in before : statements[p].date <= top
    BY <1>1, <1>5, <1>8, <1>9
  <2>2. \E s \in before : statements[s].date = top
    <3>1. CASE top = 0
      <4>1. PICK s \in before : TRUE
        BY <1>11
      <4>2. statements[s].date = 0
        BY <1>1, <2>1, <3>1, <4>1
      <4> QED
        BY <3>1, <4>2
    <3>2. CASE top # 0
      BY <1>4, <1>8, <3>2
    <3> QED
      BY <3>1, <3>2
  <2> QED
    BY <2>1, <2>2
<1> QED
  BY <1>9, <1>10, <1>11 DEF before

(* A period and the days before it.                                         *)
LEMMA PeriodsJoin ==
  ASSUME CardTypes, NEW start \in Nat, NEW day \in Nat, start <= day
  PROVE  \E e1, e2, i1, i2, p2 \in Int :
           /\ SumRows(OnCard({"expense"}, 0, start)) = e1
           /\ SumRows(OnCard({"expense"}, start, day)) = e2
           /\ SumRows(OnCard({"expense"}, 0, day)) = e1 + e2
           /\ SumRows(OnCard({"income", "transfer_in"}, 0, start)) = i1
           /\ SumRows(OnCard({"income"}, start, day)) = i2
           /\ SumRows(OnCard({"transfer_in"}, start, day)) = p2
           /\ SumRows(OnCard({"income", "transfer_in"}, 0, day)) = i1 + (i2 + p2)
<1>1. ASSUME NEW set
      PROVE  SumRows(set) = SumAmounts(txns, set)
  BY DEF SumRows, SumAmounts
<1>2. \A t \in Rows : txns[t].amount \in Int /\ txns[t].date \in Nat /\ t \in RowIds
  BY DEF CardTypes, Rows
<1>3. \A some, a, b : OnCard(some, a, b) \subseteq Rows
  BY DEF OnCard
<1>4. ASSUME NEW S, NEW T, S \subseteq Rows, T \subseteq Rows, S \cap T = {}
      PROVE  SumRows(S) \in Int /\ SumRows(T) \in Int /\ SumRows(S \cup T) = SumRows(S) + SumRows(T)
  <2>1. IsFiniteSet(S \cup T)
    <3>1. S \cup T \subseteq RowIds
      BY <1>2, <1>4
    <3> QED
      BY <3>1, Ids, FS_Subset
  <2>2. \A t \in S \cup T : txns[t].amount \in Int
    BY <1>2, <1>4
  <2> QED
    BY <1>1, <1>4, <2>1, <2>2, AmountsJoin
<1>5. ASSUME NEW types
      PROVE  /\ SumRows(OnCard(types, start, day)) \in Int /\ SumRows(OnCard(types, 0, start)) \in Int
             /\ SumRows(OnCard(types, 0, day)) = SumRows(OnCard(types, 0, start)) + SumRows(OnCard(types, start, day))
  <2>1. PICK S, T, W : S = OnCard(types, 0, start) /\ T = OnCard(types, start, day) /\ W = OnCard(types, 0, day)
    OBVIOUS
  <2>2. S \cap T = {} /\ W = S \cup T
    BY <1>2, <2>1 DEF OnCard
  <2> QED
    BY <1>3, <1>4, <2>1, <2>2
<1>6. SumRows(OnCard({"income", "transfer_in"}, start, day))
        = SumRows(OnCard({"income"}, start, day)) + SumRows(OnCard({"transfer_in"}, start, day))
  <2>1. PICK S, T, W : /\ S = OnCard({"income"}, start, day) /\ T = OnCard({"transfer_in"}, start, day)
                       /\ W = OnCard({"income", "transfer_in"}, start, day)
    OBVIOUS
  <2>2. S \cap T = {} /\ W = S \cup T
    BY <1>2, <2>1 DEF OnCard
  <2> QED
    BY <1>3, <1>4, <2>1, <2>2
<1>7. PICK e1 \in Int, e2 \in Int, i1 \in Int, i2 \in Int, p2 \in Int :
        /\ e1 = SumRows(OnCard({"expense"}, 0, start)) /\ e2 = SumRows(OnCard({"expense"}, start, day))
        /\ i1 = SumRows(OnCard({"income", "transfer_in"}, 0, start))
        /\ i2 = SumRows(OnCard({"income"}, start, day)) /\ p2 = SumRows(OnCard({"transfer_in"}, start, day))
  BY <1>5
<1>8. SumRows(OnCard({"expense"}, 0, day)) = e1 + e2
  BY <1>5, <1>7
<1>9. SumRows(OnCard({"income", "transfer_in"}, 0, day)) = i1 + (i2 + p2)
  BY <1>5, <1>6, <1>7
<1> QED
  BY <1>7, <1>8, <1>9

(* The balance made from the statement before is what the rows say.         *)
LEMMA BalanceIsSaid ==
  ASSUME CardInv, history.quiet, Card \in accounts, NEW c \in Clerks, At(c, "charges"),
         NEW day, day = desk[c].date, NEW start, start = desk[c].from
  PROVE  CarriedOver(day) - SumRows(OnCard({"transfer_in"}, start, day)) + desk[c].charges = Said(day)
<1>1. CardTypes
  BY DEF CardInv
<1>2. day \in Nat /\ start = LastBefore(day) /\ desk[c].charges = Charged(start, day)
  BY DEF CardInv, CardTypes, JobFits, At, InFigures
<1>3. start \in Nat /\ start <= day
  BY <1>1, <1>2, LastIs
<1>4. Max({0, -opening}) \in Int
  <2>1. \E x \in {0, -opening} : \A y \in {0, -opening} : x >= y
    BY <1>1 DEF CardTypes
  <2>2. Max({0, -opening}) \in {0, -opening}
    BY <2>1, Zenon DEF Max
  <2> QED
    BY <1>1, <2>2 DEF CardTypes
<1>5. CarriedOver(day) = Said(start)
  <2> DEFINE before == {s \in Closed : statements[s].date < day}
             latest(s) == \A p \in before : statements[p].date <= statements[s].date
  <2>1. CASE before = {}
    <3>1. start = 0 /\ CarriedOver(day) = Max({0, -opening})
      BY <1>1, <1>2, <2>1, LastIs DEF CarriedOver
    <3>2. \A types : OnCard(types, 0, 0) = {}
      BY <1>1 DEF OnCard, CardTypes
    <3>3. SumRows({}) = 0
      <4>1. SumAmounts(txns, {}) = 0
        BY AmountsNone
      <4> QED
        BY <4>1 DEF SumRows, SumAmounts
    <3>4. PICK a \in Int : a = Max({0, -opening})
      BY <1>4
    <3>5. SumRows(OnCard({"expense"}, 0, start)) = 0 /\ SumRows(OnCard({"income", "transfer_in"}, 0, start)) = 0
      BY <3>1, <3>2, <3>3
    <3>6. Said(start) = Max({0, -opening}) + SumRows(OnCard({"expense"}, 0, start))
                        - SumRows(OnCard({"income", "transfer_in"}, 0, start))
      BY DEF Said
    <3>7. Said(start) = (a + 0) - 0
      BY <3>4, <3>5, <3>6
    <3>8. (a + 0) - 0 = a
      OBVIOUS
    <3> QED
      BY <3>1, <3>4, <3>7, <3>8, Zenon
  <2>2. CASE before # {}
    <3> DEFINE s == CHOOSE s \in before : latest(s)
    <3>1. PICK p \in before : statements[p].date = start /\ latest(p)
      BY <1>1, <1>2, <2>2, LastIs
    <3>2. s \in before /\ latest(s)
      <4> HIDE DEF before, latest
      <4>1. \E x \in before : latest(x)
        BY <3>1
      <4> QED
        BY <4>1, Zenon
    <3>3. CarriedOver(day) = statements[s].due
      BY <2>2 DEF CarriedOver
    <3> HIDE DEF s
    <3>4. \A x \in before : statements[x].date \in Nat
      BY <1>1 DEF CardTypes, SRows, Closed
    <3>5. statements[s].date = start
      BY <1>3, <3>1, <3>2, <3>4
    <3>6. statements[s].due = Said(statements[s].date)
      BY <3>2 DEF CardInv, InFigures
    <3> QED
      BY <3>3, <3>5, <3>6
  <2> QED
    BY <2>1, <2>2
<1>6. PICK m \in Int : m = Max({0, -opening})
  BY <1>4
<1>7. PICK e1 \in Int, e2 \in Int, i1 \in Int, i2 \in Int, p2 \in Int :
           /\ SumRows(OnCard({"expense"}, 0, start)) = e1
           /\ SumRows(OnCard({"expense"}, start, day)) = e2
           /\ SumRows(OnCard({"expense"}, 0, day)) = e1 + e2
           /\ SumRows(OnCard({"income", "transfer_in"}, 0, start)) = i1
           /\ SumRows(OnCard({"income"}, start, day)) = i2
           /\ SumRows(OnCard({"transfer_in"}, start, day)) = p2
           /\ SumRows(OnCard({"income", "transfer_in"}, 0, day)) = i1 + (i2 + p2)
  BY <1>1, <1>2, <1>3, PeriodsJoin
<1>10. CarriedOver(day) = (m + e1) - i1 /\ desk[c].charges = e2 - i2
  <2>1. /\ Said(start) = Max({0, -opening}) + SumRows(OnCard({"expense"}, 0, start))
                          - SumRows(OnCard({"income", "transfer_in"}, 0, start))
        /\ Charged(start, day) = SumRows(OnCard({"expense"}, start, day)) - SumRows(OnCard({"income"}, start, day))
    BY DEF Said, Charged
  <2> QED
    BY <1>2, <1>5, <1>6, <1>7, <2>1
<1>11. Said(day) = (m + (e1 + e2)) - (i1 + (i2 + p2))
  <2>1. Said(day) = Max({0, -opening}) + SumRows(OnCard({"expense"}, 0, day))
                        - SumRows(OnCard({"income", "transfer_in"}, 0, day))
    BY DEF Said
  <2> QED
    BY <1>6, <1>7, <2>1
<1>12. (((m + e1) - i1) - p2) + (e2 - i2) = (m + (e1 + e2)) - (i1 + (i2 + p2))
  OBVIOUS
<1> QED
  BY <1>7, <1>10, <1>11, <1>12, Zenon

(* The payments stay as they are.                                           *)
LEMMA PaidStays ==
  ASSUME CardInv, NEW s \in Statements, history'.payments[s] = history.payments[s],
         s \in history.reopened => s \in history'.reopened,
         s \in Closed' /\ ~statements'[s].paid => s \in Closed /\ ~statements[s].paid,
         \A c \in Clerks : desk'[c] = desk[c] \/ ~ (desk'[c].step \in {"unpaid", "marked"} /\ desk'[c].statement = s)
  PROVE  PaidInTurn(s)'
<1>1. PaidInTurn(s)
  BY DEF CardInv
<1>2. \A c \in Clerks : Paying(c, s)' => Paying(c, s) /\ (At(c, "marked")' => At(c, "marked"))
  BY DEF Paying, At
<1> QED
  BY <1>1, <1>2 DEF PaidInTurn

(* What a step that writes no statement keeps of the types.                 *)
LEMMA TypesKept ==
  ASSUME CardInv, UNCHANGED <<accounts, opening, statements>>,
         history'.payments \in [Statements -> Nat],
         \A t \in Rows' : txns'[t].amount \in Int /\ txns'[t].date \in Nat,
         \A c \in Clerks : desk'[c] = desk[c] \/ JobFits(desk'[c])
  PROVE  CardTypes'
<1>1. Closed' = Closed
  BY DEF Closed
<1>2. \A c \in Clerks : JobFits(desk'[c])
  BY DEF CardInv, CardTypes
<1>3. \A c \in Clerks : JobFits(desk[c])'
  BY <1>2 DEF JobFits
<1> QED
  BY <1>1, <1>3 DEF CardInv, CardTypes

LEMMA SameRows ==
  ASSUME UNCHANGED txns, NEW day
  PROVE  SameUpTo(day)
BY DEF SameUpTo, OnDay

(* The card's rows, figures and payments stay.                              *)
LEMMA CardAlone ==
  ASSUME CardInv, UNCHANGED <<accounts, opening, statements>>, history'.quiet => history.quiet,
         history'.payments = history.payments, history.reopened \subseteq history'.reopened,
         \A day : SameUpTo(day),
         \A t \in Rows' : txns'[t].amount \in Int /\ txns'[t].date \in Nat,
         \A c \in Clerks : \/ desk'[c] = desk[c]
                           \/ JobFits(desk'[c]) /\ desk'[c].step \notin {"charges", "totals", "unpaid", "marked"}
  PROVE  CardInv'
<1>1. Closed' = Closed /\ \A s \in Statements : statements'[s] = statements[s]
  BY DEF Closed
<1>2. CardTypes'
  BY TypesKept DEF CardInv, CardTypes
<1>3. InFigures'
  BY <1>1, FiguresStay DEF Closed
<1>4. ASSUME NEW s \in Statements
      PROVE  PaidInTurn(s)'
  BY <1>1, PaidStays
<1> QED
  BY <1>2, <1>3, <1>4 DEF CardInv

(* Rows are written, none of them late.                                     *)
LEMMA FiguresUnwritten ==
  ASSUME CardInv, UNCHANGED <<accounts, opening, statements>>, NEW changed, NEW after,
         history'.quiet => history.quiet /\ ~Late({txns[t] : t \in changed} \cup after),
         \A t \in RowIds : \/ txns'[t] = txns[t]
                           \/ (t \in Rows => t \in changed) /\ (t \in Rows' => txns'[t] \in after),
         \A c \in Clerks : desk'[c] = desk[c] \/ desk'[c].step \notin {"charges", "totals"}
  PROVE  InFigures'
<1>1. Closed' = Closed /\ \A s \in Statements : statements'[s] = statements[s]
  BY DEF Closed
<1>2. ASSUME history'.quiet, NEW day,
             \A row \in {txns[t] : t \in changed} \cup after : row.account = Card => ~ (row.date <= day)
      PROVE  SameUpTo(day)
  <2>1. ASSUME NEW t \in RowIds, txns'[t] # txns[t]
        PROVE  ~ OnDay(txns[t], day) /\ ~ OnDay(txns'[t], day)
    <3>1. (t \in Rows => txns[t] \in {txns[u] : u \in changed}) /\ (t \in Rows' => txns'[t] \in after)
      BY <2>1
    <3> QED
      BY <1>2, <3>1 DEF OnDay, Rows
  <2> QED
    BY <2>1 DEF SameUpTo
<1>3. ASSUME history'.quiet
      PROVE  /\ \A s \in Closed : SameUpTo(statements[s].date)
             /\ \A c \in Clerks : desk'[c].step \in {"charges", "totals"} => SameUpTo(desk[c].date)
  <2>1. \A row \in {txns[t] : t \in changed} \cup after : row.account = Card =>
          /\ \A s \in Closed : ~ (row.date <= statements[s].date)
          /\ \A c \in Computing : ~ (row.date <= desk[c].date)
    BY <1>3 DEF Late
  <2>2. \A c \in Clerks : desk'[c].step \in {"charges", "totals"} => c \in Computing
    BY DEF Computing
  <2>3. ASSUME NEW s \in Closed PROVE SameUpTo(statements[s].date)
    BY <1>2, <1>3, <2>1
  <2>4. ASSUME NEW c \in Computing PROVE SameUpTo(desk[c].date)
    BY <1>2, <1>3, <2>1
  <2> QED
    BY <2>2, <2>3, <2>4
<1> QED
  BY <1>1, <1>3, FiguresStay DEF Closed

LEMMA RememberedQuiet ==
  ASSUME NEW changed, NEW after, NEW others, Shape(others), Remembers(changed, after, others)
  PROVE  /\ history'.quiet => others.quiet /\ ~Late({txns[t] : t \in changed} \cup after)
         /\ history'.payments = others.payments /\ history'.reopened = others.reopened
BY DEF Remembers, Shape

(* A request is over: it writes rows, no statement and no payment of one.   *)
LEMMA RowsWritten ==
  ASSUME CardInv, UNCHANGED <<accounts, opening, statements>>, NEW changed, NEW after, NEW others,
         Shape(others), others.quiet = history.quiet, others.payments = history.payments, others.reopened = history.reopened,
         Remembers(changed, after, others),
         \A t \in RowIds : \/ txns'[t] = txns[t]
                           \/ (t \in Rows => t \in changed) /\ (t \in Rows' => txns'[t] \in after),
         \A t \in Rows' : txns'[t].amount \in Int /\ txns'[t].date \in Nat,
         \A c \in Clerks : desk'[c] = desk[c] \/ desk'[c] = Unread
  PROVE  CardInv'
<1>0. Unread.step = "idle"
  BY DEF Unread
<1>1. /\ history'.quiet => history.quiet /\ ~Late({txns[t] : t \in changed} \cup after)
      /\ history'.payments = history.payments /\ history'.reopened = history.reopened
  BY RememberedQuiet
<1>2. \A c \in Clerks : desk'[c] = desk[c] \/ desk'[c].step \notin {"charges", "totals", "unpaid", "marked", "checked"}
  BY <1>0
<1>3. \A c \in Clerks : desk'[c] = desk[c] \/ JobFits(desk'[c])
  BY <1>2 DEF JobFits
<1>4. CardTypes'
  BY <1>1, <1>3, TypesKept DEF CardInv, CardTypes
<1>5. InFigures'
  BY <1>1, <1>2, FiguresUnwritten
<1>6. Closed' = Closed /\ \A s \in Statements : statements'[s] = statements[s]
  BY DEF Closed
<1>7. ASSUME NEW s \in Statements
      PROVE  PaidInTurn(s)'
  BY <1>1, <1>2, <1>6, PaidStays
<1> QED
  BY <1>4, <1>5, <1>7 DEF CardInv

(* What one request leaves of the desk.                                     *)
LEMMA DeskMoves ==
  ASSUME AtDesk, NEW c \in Clerks, NEW job, desk' = [desk EXCEPT ![c] = job]
  PROVE  \A d \in Clerks : desk'[d] = IF d = c THEN job ELSE desk[d]
BY DEF AtDesk

(* A transfer is written as two rows that are new.                          *)
LEMMA LegsAreNew ==
  ASSUME Booked, NEW sender, NEW to, NEW amount \in Int, NEW day \in Nat, NEW slate,
         NEW legs, legs = Legs(sender, to, amount, day, slate), Inserted(legs)
  PROVE  /\ \A t \in RowIds : txns'[t] = txns[t] \/ (t \notin Rows /\ txns'[t] \in {legs[1], legs[2]})
         /\ legs[1].amount = amount /\ legs[1].date = day /\ legs[2].amount = amount /\ legs[2].date = day
<1>1. PICK g \in Nat : g = given
  BY DEF Booked
<1>2. PICK out, in : /\ out = Row(sender, "transfer_out", amount, day, slate, g + 2)
                     /\ in = Row(to, "transfer_in", amount, day, slate, g + 1)
  OBVIOUS
<1>3. legs = <<out, in>> /\ Len(legs) = 2 /\ legs[1] = out /\ legs[2] = in
  BY <1>1, <1>2 DEF Legs
<1>4. out.amount = amount /\ out.date = day /\ in.amount = amount /\ in.date = day
  BY <1>2 DEF Row
<1>5. txns' = [t \in RowIds |-> IF t \in g + 1..g + 2 THEN legs[t - g] ELSE txns[t]]
  BY <1>1, <1>3 DEF Inserted
<1>6. \A t \in RowIds : t \in Nat /\ (t \in g + 1..g + 2 <=> t = g + 1 \/ t = g + 2)
  BY <1>1, LedgerAssumption DEF RowIds
<1>7. (g + 1) - g = 1 /\ (g + 2) - g = 2
  OBVIOUS
<1>8. \A t \in RowIds : txns'[t] = IF t = g + 1 THEN legs[1] ELSE IF t = g + 2 THEN legs[2] ELSE txns[t]
  BY <1>5, <1>6, <1>7
<1>9. \A t \in Rows : t # g + 1 /\ t # g + 2
  BY <1>1, <1>6 DEF Booked, Rows
<1>10. legs[1].amount = amount /\ legs[1].date = day /\ legs[2].amount = amount /\ legs[2].date = day
  BY <1>3, <1>4
<1> QED
  BY <1>8, <1>9, <1>10

(* The fields a row is changed in are of their kind.                        *)
LEMMA ChangeFits ==
  ASSUME Booked, CardTypes, NEW t \in Rows, NEW slate, NEW new \in Changes(t, slate)
  PROVE  new.amount \in Int /\ new.date \in Nat
<1>1. PICK r : r = txns[t] /\ IsRow(r) /\ r.amount \in Int /\ r.date \in Nat
  BY DEF Booked, CardTypes
<1>2. r = [account |-> r.account, type |-> r.type, amount |-> r.amount, date |-> r.date, slate |-> r.slate, pair |-> r.pair]
  BY <1>1 DEF IsRow, Row
<1>3. \A m \in Amounts : m \in Int
  BY LedgerAssumption DEF Amounts
<1>4. CASE \E a \in accounts : new = [r EXCEPT !.account = a]
  BY <1>1, <1>2, <1>4
<1>5. CASE \E m \in Amounts : new = [r EXCEPT !.amount = m]
  BY <1>1, <1>2, <1>3, <1>5
<1>6. CASE \E d \in Dates : new = [r EXCEPT !.date = d]
  BY <1>1, <1>2, <1>6, Ids
<1>7. CASE new = [r EXCEPT !.slate = slate]
  BY <1>1, <1>2, <1>7
<1> QED
  BY <1>1, <1>4, <1>5, <1>6, <1>7 DEF Changes

LEMMA RowStepKeeps ==
  ASSUME LedgerInv, CardInv, NEW c \in Clerks, RowStep(c)
  PROVE  CardInv'
<1>0. Booked /\ Recalled /\ AtDesk /\ Shape(history) /\ CardTypes
  BY DEF LedgerInv, Recalled, CardInv
<1>1. /\ \A t \in Rows : txns[t].amount \in Int /\ txns[t].date \in Nat /\ t \in RowIds /\ t <= given
      /\ \A t \in RowIds : t \in Rows <=> txns[t] # NoRow
      /\ given \in Nat /\ DOMAIN txns = RowIds
  BY <1>0 DEF CardTypes, Rows, Booked
<1>2. Leaves(c) => \A d \in Clerks : desk'[d] = desk[d] \/ desk'[d] = Unread
  BY <1>0, DeskMoves DEF Leaves
<1>3. ASSUME NEW job, desk' = [desk EXCEPT ![c] = job], JobFits(job), job.step \notin {"charges", "totals", "unpaid", "marked"},
             UNCHANGED <<accounts, opening, txns, statements, history>>
      PROVE  CardInv'
  <2>1. \A d \in Clerks : \/ desk'[d] = desk[d]
                          \/ JobFits(desk'[d]) /\ desk'[d].step \notin {"charges", "totals", "unpaid", "marked"}
    BY <1>0, <1>3, DeskMoves
  <2>2. \A t \in Rows' : txns'[t].amount \in Int /\ txns'[t].date \in Nat
    BY <1>1, <1>3 DEF Rows
  <2> QED
    BY <1>3, <2>1, <2>2, SameRows, CardAlone
<1>4. JobFits(Unread) /\ Unread.step = "idle"
  BY DEF JobFits, Unread
<1>5. CASE ResolveSlate(c)
  <2>1. PICK s : desk' = [desk EXCEPT ![c] = [step |-> "resolved", slate |-> s]]
    BY <1>5 DEF ResolveSlate
  <2>2. JobFits([step |-> "resolved", slate |-> s])
    BY DEF JobFits
  <2> QED
    BY <1>3, <1>5, <2>1, <2>2 DEF ResolveSlate
<1>6. CASE CheckDuplicate(c)
  <2>1. PICK draft \in Drafts :
          desk' = [desk EXCEPT ![c] = IF \E t \in recent \cap Rows : Matches(t, draft) THEN Unread
                                      ELSE [step |-> "checked", slate |-> desk[c].slate, draft |-> draft]]
    BY <1>6 DEF CheckDuplicate
  <2>2. PICK job : job = [step |-> "checked", slate |-> desk[c].slate, draft |-> draft]
    OBVIOUS
  <2>3. job.step = "checked" /\ job.draft = draft /\ draft.amount = 1 /\ draft.date \in Nat
    BY <2>2, Ids DEF Drafts
  <2>4. JobFits(job)
    BY <2>3 DEF JobFits
  <2>5. desk' = [desk EXCEPT ![c] = Unread] \/ desk' = [desk EXCEPT ![c] = job]
    BY <2>1, <2>2
  <2> QED
    BY <1>3, <1>4, <1>6, <2>3, <2>4, <2>5 DEF CheckDuplicate
<1>7. CASE Record(c)
  <2>1. PICK draft \in IF At(c, "checked") THEN {desk[c].draft} ELSE Drafts :
          LET row == Row(draft.account, draft.type, draft.amount, draft.date, desk[c].slate, 0)
          IN /\ Inserted(<<row>>)
             /\ Remembers({}, {row}, IF At(c, "checked") THEN [history EXCEPT !.posted = @ \cup {given + 1}] ELSE history)
    BY <1>7 DEF Record, At
  <2>2. PICK row : row = Row(draft.account, draft.type, draft.amount, draft.date, desk[c].slate, 0)
    OBVIOUS
  <2>3. PICK others : others = IF At(c, "checked") THEN [history EXCEPT !.posted = @ \cup {given + 1}] ELSE history
    OBVIOUS
  <2>4. Inserted(<<row>>) /\ Remembers({}, {row}, others) /\ Leaves(c) /\ UNCHANGED <<accounts, opening, statements>>
    BY <1>7, <2>1, <2>2, <2>3 DEF Record
  <2>5. draft.amount = 1 /\ draft.date \in Nat
    <3>1. CASE At(c, "checked")
      BY <1>0, <2>1, <3>1 DEF CardTypes, JobFits, At
    <3>2. CASE ~At(c, "checked")
      BY <2>1, <3>2, Ids DEF Drafts
    <3> QED
      BY <3>1, <3>2
  <2>6. row.amount = 1 /\ row.date \in Nat
    BY <2>2, <2>5 DEF Row
  <2>7. Shape(others) /\ others.quiet = history.quiet /\ others.payments = history.payments /\ others.reopened = history.reopened
    BY <1>0, <2>3 DEF Shape
  <2>8. \A t \in RowIds : txns'[t] = txns[t] \/ (t \notin Rows /\ txns'[t] = row)
    <3>1. PICK g \in Nat : g = given
      BY <1>1
    <3>2. PICK rows : rows = <<row>>
      OBVIOUS
    <3>3. Len(rows) = 1 /\ rows[1] = row
      BY <3>2
    <3>4. txns' = [t \in RowIds |-> IF t \in g + 1..g + 1 THEN rows[t - g] ELSE txns[t]]
      BY <2>4, <3>1, <3>2, <3>3 DEF Inserted
    <3>5. \A t \in RowIds : t \in Nat /\ (t \in g + 1..g + 1 <=> t = g + 1)
      BY <3>1, LedgerAssumption DEF RowIds
    <3>6. (g + 1) - g = 1 /\ \A t \in Rows : t # g + 1
      BY <1>1, <3>1, <3>5
    <3> QED
      BY <3>3, <3>4, <3>5, <3>6
  <2>9. PICK changed, after : changed = {} /\ after = {row}
    OBVIOUS
  <2>10. Remembers(changed, after, others)
    BY <2>4, <2>9
  <2>11. \A t \in RowIds : \/ txns'[t] = txns[t]
                           \/ (t \in Rows => t \in changed) /\ (t \in Rows' => txns'[t] \in after)
    BY <2>8, <2>9
  <2>12. \A t \in Rows' : txns'[t].amount \in Int /\ txns'[t].date \in Nat
    <3>1. \A t \in Rows' : t \in RowIds /\ (txns'[t] = row \/ (t \in Rows /\ txns'[t] = txns[t]))
      BY <2>8, <1>1 DEF Rows
    <3> QED
      BY <1>1, <2>6, <3>1
  <2> QED
    BY <1>2, <2>4, <2>7, <2>10, <2>11, <2>12, RowsWritten
<1>8. CASE RecordTransfer(c)
  <2>0. PICK sender \in Accounts, day \in Dates : \E to \in Accounts \ {sender} :
          LET legs == Legs(sender, to, 1, day, desk[c].slate)
          IN Inserted(legs) /\ Remembers({}, {legs[1], legs[2]}, history)
    BY <1>8 DEF RecordTransfer
  <2>1. PICK to : LET legs == Legs(sender, to, 1, day, desk[c].slate)
                  IN Inserted(legs) /\ Remembers({}, {legs[1], legs[2]}, history)
    BY <2>0
  <2>2. PICK slate : slate = desk[c].slate
    OBVIOUS
  <2>a. PICK amount \in Int : amount = 1
    OBVIOUS
  <2>b. PICK legs : legs = Legs(sender, to, amount, day, slate)
    OBVIOUS
  <2>3. PICK changed, after : changed = {} /\ after = {legs[1], legs[2]}
    OBVIOUS
  <2>4. Inserted(legs) /\ Remembers(changed, after, history) /\ day \in Nat
    BY <2>1, <2>2, <2>a, <2>b, <2>3, Ids
  <2>5. /\ \A t \in RowIds : txns'[t] = txns[t] \/ (t \notin Rows /\ txns'[t] \in after)
        /\ \A leg \in after : leg.amount \in Int /\ leg.date \in Nat
    <3>1. /\ \A t \in RowIds : txns'[t] = txns[t] \/ (t \notin Rows /\ txns'[t] \in {legs[1], legs[2]})
          /\ legs[1].amount = amount /\ legs[1].date = day /\ legs[2].amount = amount /\ legs[2].date = day
      <4>1. Booked /\ day \in Nat /\ Inserted(legs)
        BY <1>0, <2>4
      <4>2. \A t \in RowIds : txns'[t] = txns[t] \/ (t \notin Rows /\ txns'[t] \in {legs[1], legs[2]})
        BY <4>1, <2>b, LegsAreNew
      <4>3. legs[1].amount = amount /\ legs[1].date = day /\ legs[2].amount = amount /\ legs[2].date = day
        BY <4>1, <2>b, LegsAreNew
      <4> QED
        BY <4>2, <4>3
    <3> QED
      BY <2>3, <2>4, <3>1
  <2>6. \A t \in Rows' : txns'[t].amount \in Int /\ txns'[t].date \in Nat
    <3>1. \A t \in Rows' : t \in RowIds /\ (txns'[t] \in after \/ (t \in Rows /\ txns'[t] = txns[t]))
      BY <1>1, <2>5 DEF Rows
    <3> QED
      BY <1>1, <2>5, <3>1
  <2>7. UNCHANGED <<accounts, opening, statements>> /\ Leaves(c)
    BY <1>8 DEF RecordTransfer
  <2> QED
    BY <1>0, <1>2, <2>4, <2>5, <2>6, <2>7, RowsWritten
<1>9. CASE Edit(c)
  <2> DEFINE sent(old, sends, other) == IF sends # old THEN sends ELSE other
             follow(new, u, t) == [txns[u] EXCEPT !.amount = sent(txns[t].amount, new.amount, txns[u].amount),
                                                  !.date = sent(txns[t].date, new.date, txns[u].date),
                                                  !.slate = sent(txns[t].slate, new.slate, txns[u].slate)]
  <2>1. PICK t \in Rows : \E new \in Changes(t, desk[c].slate) :
          /\ txns' = [u \in RowIds |-> IF u = t THEN new
                                       ELSE IF u \in Paired(t) THEN follow(new, u, t) ELSE txns[u]]
          /\ Remembers({t} \cup Paired(t), {new} \cup {follow(new, u, t) : u \in Paired(t)}, history)
    BY <1>9 DEF Edit
  <2>2. PICK new \in Changes(t, desk[c].slate) :
          /\ txns' = [u \in RowIds |-> IF u = t THEN new
                                       ELSE IF u \in Paired(t) THEN follow(new, u, t) ELSE txns[u]]
          /\ Remembers({t} \cup Paired(t), {new} \cup {follow(new, u, t) : u \in Paired(t)}, history)
    BY <2>1
  <2>3. new.amount \in Int /\ new.date \in Nat
    BY <1>0, ChangeFits
  <2>4. ASSUME NEW u \in Rows
        PROVE  follow(new, u, t).amount \in Int /\ follow(new, u, t).date \in Nat
    <3>1. PICK r, amount, day, slate : /\ r = txns[u] /\ amount = sent(txns[t].amount, new.amount, txns[u].amount)
                                       /\ day = sent(txns[t].date, new.date, txns[u].date)
                                       /\ slate = sent(txns[t].slate, new.slate, txns[u].slate)
      OBVIOUS
    <3>2. amount \in Int /\ day \in Nat
      BY <1>1, <2>3, <3>1
    <3>3. r = [account |-> r.account, type |-> r.type, amount |-> r.amount, date |-> r.date, slate |-> r.slate, pair |-> r.pair]
      BY <1>0, <3>1 DEF Booked, IsRow, Row
    <3>4. PICK f : f = [r EXCEPT !.amount = amount, !.date = day, !.slate = slate]
      OBVIOUS
    <3>5. f.amount = amount /\ f.date = day
      BY <3>3, <3>4
    <3> QED
      BY <3>1, <3>2, <3>4, <3>5
  <2> HIDE DEF follow, sent
  <2>5. PICK changed, after : changed = {t} \cup Paired(t) /\ after = {new} \cup {follow(new, u, t) : u \in Paired(t)}
    OBVIOUS
  <2>6. Remembers(changed, after, history)
    BY <2>2, <2>5
  <2>7. \A u \in RowIds : txns'[u] = IF u = t THEN new ELSE IF u \in Paired(t) THEN follow(new, u, t) ELSE txns[u]
    BY <2>2
  <2>8. \A u \in RowIds : \/ txns'[u] = txns[u]
                          \/ (u \in Rows => u \in changed) /\ (u \in Rows' => txns'[u] \in after)
    BY <2>5, <2>7
  <2>9. \A u \in Rows' : txns'[u].amount \in Int /\ txns'[u].date \in Nat
    <3>1. \A u \in Paired(t) : u \in Rows
      BY DEF Paired
    <3>2. \A u \in Rows' : u \in RowIds /\ txns'[u] # NoRow
      BY DEF Rows
    <3>3. \A u \in Rows' : u = t \/ u \in Paired(t) \/ (txns'[u] = txns[u] /\ u \in Rows)
      BY <1>1, <2>7, <3>2
    <3> QED
      BY <1>1, <2>3, <2>4, <2>7, <3>1, <3>2, <3>3
  <2>10. UNCHANGED <<accounts, opening, statements>> /\ Leaves(c)
    BY <1>9 DEF Edit
  <2> QED
    BY <1>0, <1>2, <2>6, <2>8, <2>9, <2>10, RowsWritten
<1>10. CASE EditByAssistant(c)
  <2>1. PICK t \in Rows : \E new \in Changes(t, desk[c].slate) :
          /\ txns' = [txns EXCEPT ![t] = new]
          /\ Remembers({t}, {new}, [history EXCEPT !.bent = history.bent \cup {t}])
    BY <1>10 DEF EditByAssistant
  <2>2. PICK new \in Changes(t, desk[c].slate) :
          /\ txns' = [txns EXCEPT ![t] = new]
          /\ Remembers({t}, {new}, [history EXCEPT !.bent = history.bent \cup {t}])
    BY <2>1
  <2>3. PICK changed, after, others : changed = {t} /\ after = {new} /\ others = [history EXCEPT !.bent = history.bent \cup {t}]
    OBVIOUS
  <2>4. Remembers(changed, after, others)
    BY <2>2, <2>3
  <2>5. Shape(others) /\ others.quiet = history.quiet /\ others.payments = history.payments /\ others.reopened = history.reopened
    BY <1>0, <2>3 DEF Shape
  <2>6. \A u \in RowIds : txns'[u] = IF u = t THEN new ELSE txns[u]
    BY <1>1, <2>2
  <2>7. \A u \in RowIds : \/ txns'[u] = txns[u]
                          \/ (u \in Rows => u \in changed) /\ (u \in Rows' => txns'[u] \in after)
    BY <2>3, <2>6
  <2>8. \A u \in Rows' : txns'[u].amount \in Int /\ txns'[u].date \in Nat
    <3>1. new.amount \in Int /\ new.date \in Nat
      BY <1>0, ChangeFits
    <3>2. \A u \in Rows' : u \in RowIds /\ txns'[u] # NoRow
      BY DEF Rows
    <3>3. \A u \in Rows' : u = t \/ (txns'[u] = txns[u] /\ u \in Rows)
      BY <1>1, <2>6, <3>2
    <3> QED
      BY <1>1, <2>6, <3>1, <3>2, <3>3
  <2>9. UNCHANGED <<accounts, opening, statements>> /\ Leaves(c)
    BY <1>10 DEF EditByAssistant
  <2> QED
    BY <1>2, <2>4, <2>5, <2>7, <2>8, <2>9, RowsWritten
<1>11. CASE DeleteRow(c)
  <2>1. PICK t \in Rows : LET gone == {t} \cup ({txns[t].pair} \cap Rows)
                          IN /\ txns' = [u \in RowIds |-> IF u \in gone THEN NoRow ELSE txns[u]]
                             /\ Remembers(gone, {}, history)
    BY <1>11 DEF DeleteRow
  <2>2. PICK changed, after : changed = {t} \cup ({txns[t].pair} \cap Rows) /\ after = {}
    OBVIOUS
  <2>3. Remembers(changed, after, history) /\ \A u \in RowIds : txns'[u] = IF u \in changed THEN NoRow ELSE txns[u]
    BY <2>1, <2>2
  <2>4. \A u \in RowIds : \/ txns'[u] = txns[u]
                          \/ (u \in Rows => u \in changed) /\ (u \in Rows' => txns'[u] \in after)
    BY <2>3 DEF Rows
  <2>5. \A u \in Rows' : u \in Rows /\ txns'[u] = txns[u]
    BY <2>3 DEF Rows
  <2>6. UNCHANGED <<accounts, opening, statements>> /\ \A d \in Clerks : desk'[d] = desk[d]
    BY <1>11 DEF DeleteRow, InOneStep
  <2>7. \A u \in Rows' : txns'[u].amount \in Int /\ txns'[u].date \in Nat
    BY <1>1, <2>5
  <2> QED
    BY <1>0, <2>3, <2>4, <2>6, <2>7, RowsWritten
<1>12. CASE Abandon(c)
  <2>1. desk' = [desk EXCEPT ![c] = Unread] /\ UNCHANGED <<accounts, opening, txns, statements, history>>
    BY <1>12 DEF Abandon, Leaves
  <2> QED
    BY <1>3, <1>4, <2>1
<1> QED
  BY <1>5, <1>6, <1>7, <1>8, <1>9, <1>10, <1>11, <1>12 DEF RowStep

(* Rows are filed elsewhere, and nothing else of them changes.              *)
LEMMA RefiledRows ==
  ASSUME Booked, CardTypes,
         \A u \in RowIds : \/ txns'[u] = txns[u]
                           \/ u \in Rows /\ \E slate : txns'[u] = [txns[u] EXCEPT !.slate = slate]
  PROVE  /\ \A day : SameUpTo(day)
         /\ \A t \in Rows' : txns'[t].amount \in Int /\ txns'[t].date \in Nat
<1>1. ASSUME NEW u \in Rows, NEW slate, txns'[u] = [txns[u] EXCEPT !.slate = slate]
      PROVE  /\ txns'[u].account = txns[u].account /\ txns'[u].type = txns[u].type
             /\ txns'[u].amount = txns[u].amount /\ txns'[u].date = txns[u].date
             /\ txns[u] # NoRow /\ txns'[u] # NoRow
  <2>1. PICK r : r = txns[u]
    OBVIOUS
  <2>2. r = [account |-> r.account, type |-> r.type, amount |-> r.amount, date |-> r.date, slate |-> r.slate, pair |-> r.pair]
        /\ r # NoRow /\ r.type \in Types
    BY <2>1 DEF Booked, IsRow, Row, Rows
  <2>3. PICK new : new = [r EXCEPT !.slate = slate]
    OBVIOUS
  <2>4. new.account = r.account /\ new.type = r.type /\ new.amount = r.amount /\ new.date = r.date
    BY <2>2, <2>3
  <2>5. new.type # "none" /\ NoRow.type = "none"
    BY <2>2, <2>4 DEF Types, NoRow
  <2> QED
    BY <1>1, <2>1, <2>2, <2>3, <2>4, <2>5
<1>2. ASSUME NEW u \in RowIds
      PROVE  \/ txns'[u] = txns[u]
             \/ /\ u \in Rows /\ txns'[u].account = txns[u].account /\ txns'[u].type = txns[u].type
                /\ txns'[u].amount = txns[u].amount /\ txns'[u].date = txns[u].date
                /\ txns[u] # NoRow /\ txns'[u] # NoRow
  BY <1>1
<1>3. ASSUME NEW day
      PROVE  SameUpTo(day)
  BY <1>2 DEF SameUpTo, OnDay
<1>4. \A t \in Rows' : txns'[t].amount \in Int /\ txns'[t].date \in Nat
  <2>1. \A t \in Rows' : t \in RowIds /\ txns'[t] # NoRow
    BY DEF Rows
  <2>2. \A t \in RowIds : txns[t] # NoRow => txns[t].amount \in Int /\ txns[t].date \in Nat
    BY DEF CardTypes, Rows
  <2> QED
    BY <1>2, <2>1, <2>2
<1> QED
  BY <1>3, <1>4

LEMMA SlateStepKeeps ==
  ASSUME LedgerInv, CardInv, NEW c \in Clerks, SlateStep(c)
  PROVE  CardInv'
<1>0. Booked /\ AtDesk /\ CardTypes
  BY DEF LedgerInv, CardInv
<1>1. JobFits(Unread) /\ Unread.step = "idle"
  BY DEF JobFits, Unread
<1>2. UNCHANGED <<accounts, opening, statements, history>>
  BY DEF SlateStep, MoveToSlate, ArchiveSlate, CountSlate, DeleteSlate
<1>3. \A d \in Clerks : \/ desk'[d] = desk[d]
                        \/ JobFits(desk'[d]) /\ desk'[d].step \notin {"charges", "totals", "unpaid", "marked"}
  <2>1. ASSUME NEW job, desk' = [desk EXCEPT ![c] = job], JobFits(job), job.step \notin {"charges", "totals", "unpaid", "marked"}
        PROVE  \A d \in Clerks : \/ desk'[d] = desk[d]
                                 \/ JobFits(desk'[d]) /\ desk'[d].step \notin {"charges", "totals", "unpaid", "marked"}
    BY <1>0, <2>1, DeskMoves
  <2>2. Leaves(c) => desk' = [desk EXCEPT ![c] = Unread]
    BY DEF Leaves
  <2>3. CASE MoveToSlate(c) \/ DeleteSlate(c)
    BY <1>1, <2>1, <2>2, <2>3 DEF MoveToSlate, DeleteSlate
  <2>4. CASE ArchiveSlate(c)
    BY <2>4 DEF ArchiveSlate, InOneStep
  <2>5. CASE CountSlate(c)
    <3>1. PICK job : job = [step |-> "counted", moves |-> Held # {}]
      OBVIOUS
    <3>2. job.step = "counted"
      BY <3>1
    <3>3. desk' = [desk EXCEPT ![c] = job]
      BY <2>5, <3>1 DEF CountSlate
    <3> QED
      BY <2>1, <3>2, <3>3 DEF JobFits
  <2> QED
    BY <2>3, <2>4, <2>5 DEF SlateStep
<1>4. \A u \in RowIds : \/ txns'[u] = txns[u]
                        \/ u \in Rows /\ \E slate : txns'[u] = [txns[u] EXCEPT !.slate = slate]
  <2>1. CASE MoveToSlate(c)
    <3>1. PICK T \in SUBSET Rows :
            txns' = [u \in RowIds |-> IF u \in T \/ (u \in Rows /\ txns[u].pair \in T)
                                      THEN [txns[u] EXCEPT !.slate = desk[c].slate] ELSE txns[u]]
      BY <2>1 DEF MoveToSlate
    <3> QED
      BY <3>1
  <2>2. CASE DeleteSlate(c)
    <3>1. txns' = [t \in RowIds |-> IF t \in Held THEN [txns[t] EXCEPT !.slate = PlainLife] ELSE txns[t]]
      BY <2>2 DEF DeleteSlate
    <3>2. Held \subseteq Rows
      BY DEF Held
    <3> QED
      BY <3>1, <3>2
  <2>3. CASE ArchiveSlate(c) \/ CountSlate(c)
    BY <2>3 DEF ArchiveSlate, CountSlate
  <2> QED
    BY <2>1, <2>2, <2>3 DEF SlateStep
<1>5. (\A day : SameUpTo(day)) /\ \A t \in Rows' : txns'[t].amount \in Int /\ txns'[t].date \in Nat
  BY <1>0, <1>4, RefiledRows
<1> QED
  BY <1>2, <1>3, <1>5, CardAlone

-----------------------------------------------------------------------------
(* What an open request has made is what the rows say.                      *)
Figures(job) ==
  /\ job.step = "charges" => job.from = LastBefore(job.date) /\ job.charges = Charged(job.from, job.date)
  /\ job.step = "totals" => job.due = Said(job.date)

LEMMA FiguresRead ==
  ASSUME CardInv, UNCHANGED <<accounts, opening, txns, statements>>, history'.quiet => history.quiet,
         NEW c \in Clerks, NEW job, desk'[c] = job, history.quiet /\ Card \in accounts => Figures(job),
         \A d \in Clerks \ {c} : desk'[d] = desk[d]
  PROVE  InFigures'
<1>1. ASSUME NEW day, NEW start
      PROVE  Said(day)' = Said(day) /\ LastBefore(day)' = LastBefore(day) /\ Charged(start, day)' = Charged(start, day)
  <2>1. SameUpTo(day) /\ Closed' = Closed
    BY SameRows DEF Closed
  <2>2. Said(day)' = Said(day) /\ Charged(start, day)' = Charged(start, day)
    BY <2>1, FiguresSame
  <2>3. LastBefore(day)' = LastBefore(day)
    BY <2>1, LastSame
  <2> QED
    BY <2>2, <2>3
<1>2. ASSUME history'.quiet, Card \in accounts'
      PROVE  /\ \A s \in Closed' : statements'[s].due = Said(statements[s].date)'
             /\ \A d \in Clerks : Figures(desk[d])'
  <2>1. history.quiet /\ Card \in accounts
    BY <1>2
  <2>2. \A s \in Closed' : statements'[s].due = Said(statements[s].date)'
    <3>1. ASSUME NEW s \in Closed'
          PROVE  statements'[s].due = Said(statements[s].date)'
      <4>1. PICK day : day = statements[s].date
        OBVIOUS
      <4>2. statements[s].due = Said(day)
        BY <2>1, <3>1, <4>1 DEF CardInv, InFigures, Closed
      <4>3. Said(statements[s].date)' = Said(day)'
        BY <4>1 DEF Said, SumRows, OnCard, Rows
      <4> QED
        BY <1>1, <4>2, <4>3
    <3> QED
      BY <3>1
  <2>3. ASSUME NEW d \in Clerks
        PROVE  Figures(desk[d])'
    <3>1. PICK j : j = desk'[d]
      OBVIOUS
    <3>2. Figures(j)
      <4>1. CASE d = c
        BY <2>1, <3>1, <4>1
      <4>2. CASE d # c
        BY <2>1, <3>1, <4>2 DEF CardInv, InFigures, Figures, At
      <4> QED
        BY <4>1, <4>2
    <3> HIDE DEF CardInv
    <3>3. Figures(j)'
      BY <1>1, <3>2 DEF Figures
    <3> QED
      BY <3>1, <3>3 DEF Figures, Said, LastBefore, Charged, SumRows, OnCard, Rows, Closed
  <2> QED
    BY <2>2, <2>3
<1> QED
  BY <1>2 DEF InFigures, Figures, At

LEMMA ReadChargesKeeps ==
  ASSUME LedgerInv, CardInv, NEW c \in Clerks, ReadCharges(c)
  PROVE  CardInv'
<1>0. AtDesk /\ CardTypes
  BY DEF LedgerInv, CardInv
<1>1. PICK day \in Dates :
        desk' = [desk EXCEPT ![c] = [step |-> "charges", date |-> day, from |-> LastBefore(day),
                                     charges |-> Charged(LastBefore(day), day)]]
  BY DEF ReadCharges, LastBefore, Charged
<1>2. PICK start, charges : start = LastBefore(day) /\ charges = Charged(start, day)
  OBVIOUS
<1>3. PICK job : job = [step |-> "charges", date |-> day, from |-> start, charges |-> charges]
  OBVIOUS
<1>4. job.step = "charges" /\ job.date = day /\ job.from = start /\ job.charges = charges
  BY <1>3
<1>5. desk' = [desk EXCEPT ![c] = job]
  BY <1>1, <1>2, <1>3
<1>6. desk'[c] = job /\ \A d \in Clerks \ {c} : desk'[d] = desk[d]
  <2>1. \A d \in Clerks : desk'[d] = IF d = c THEN job ELSE desk[d]
    BY <1>0, <1>5, DeskMoves
  <2> QED
    BY <2>1
<1>7. UNCHANGED <<accounts, opening, txns, statements, history>>
  BY DEF ReadCharges
<1>8. day \in Nat /\ start \in Nat /\ start <= day
  BY <1>0, <1>2, Ids, LastIs
<1>9. charges \in Int
  <2>1. PICK e1 \in Int, e2 \in Int, i1 \in Int, i2 \in Int, p2 \in Int :
           /\ SumRows(OnCard({"expense"}, 0, start)) = e1
           /\ SumRows(OnCard({"expense"}, start, day)) = e2
           /\ SumRows(OnCard({"expense"}, 0, day)) = e1 + e2
           /\ SumRows(OnCard({"income", "transfer_in"}, 0, start)) = i1
           /\ SumRows(OnCard({"income"}, start, day)) = i2
           /\ SumRows(OnCard({"transfer_in"}, start, day)) = p2
           /\ SumRows(OnCard({"income", "transfer_in"}, 0, day)) = i1 + (i2 + p2)
    BY <1>0, <1>8, PeriodsJoin
  <2>2. charges = e2 - i2
    BY <1>2, <2>1 DEF Charged
  <2> QED
    BY <2>2
<1>10. JobFits(job)
  BY <1>4, <1>8, <1>9 DEF JobFits
<1>11. CardTypes'
  <2>1. \A t \in Rows' : txns'[t].amount \in Int /\ txns'[t].date \in Nat
    BY <1>0, <1>7 DEF CardTypes, Rows
  <2>2. \A d \in Clerks : desk'[d] = desk[d] \/ JobFits(desk'[d])
    BY <1>6, <1>10
  <2> QED
    BY <1>0, <1>7, <2>1, <2>2, TypesKept DEF CardTypes
<1>12. InFigures'
  <2>1. Figures(job)
    BY <1>2, <1>4 DEF Figures
  <2> QED
    BY <1>6, <1>7, <2>1, FiguresRead
<1>13. ASSUME NEW s \in Statements
       PROVE  PaidInTurn(s)'
  <2>1. Closed' = Closed
    BY <1>7 DEF Closed
  <2>2. \A d \in Clerks : desk'[d] = desk[d] \/ ~ (desk'[d].step \in {"unpaid", "marked"} /\ desk'[d].statement = s)
    BY <1>4, <1>6
  <2> QED
    BY <1>7, <2>1, <2>2, PaidStays
<1> QED
  BY <1>11, <1>12, <1>13 DEF CardInv

LEMMA ReadBalanceKeeps ==
  ASSUME LedgerInv, CardInv, NEW c \in Clerks, ReadBalance(c)
  PROVE  CardInv'
<1>0. AtDesk /\ CardTypes /\ At(c, "charges")
  BY DEF LedgerInv, CardInv, ReadBalance, At
<1>1. PICK day, start, charges : day = desk[c].date /\ start = desk[c].from /\ charges = desk[c].charges
  OBVIOUS
<1>2. PICK due : due = CarriedOver(day) - SumRows(OnCard({"transfer_in"}, start, day)) + charges
  OBVIOUS
<1>3. PICK job : job = [step |-> "totals", date |-> day, due |-> due]
  OBVIOUS
<1>4. job.step = "totals" /\ job.date = day /\ job.due = due
  BY <1>3
<1>5. desk' = [desk EXCEPT ![c] = job] /\ UNCHANGED <<accounts, opening, txns, statements, history>>
  BY <1>1, <1>2, <1>3 DEF ReadBalance
<1>6. desk'[c] = job /\ \A d \in Clerks \ {c} : desk'[d] = desk[d]
  <2>1. \A d \in Clerks : desk'[d] = IF d = c THEN job ELSE desk[d]
    BY <1>0, <1>5, DeskMoves
  <2> QED
    BY <2>1
<1>7. history.quiet /\ Card \in accounts => due = Said(day)
  BY <1>0, <1>1, <1>2, BalanceIsSaid
<1>8. day \in Nat /\ start \in Nat /\ charges \in Int
  BY <1>0, <1>1 DEF CardTypes, JobFits, At
<1>9. due \in Int
  <2>1. CarriedOver(day) \in Int
    <3> DEFINE before == {s \in Closed : statements[s].date < day}
               latest(s) == \A p \in before : statements[p].date <= statements[s].date
    <3>1. CASE before = {}
      <4>1. \E x \in {0, -opening} : \A y \in {0, -opening} : x >= y
        BY <1>0 DEF CardTypes
      <4>2. Max({0, -opening}) \in {0, -opening}
        BY <4>1, Zenon DEF Max
      <4> QED
        BY <1>0, <3>1, <4>2 DEF CarriedOver, CardTypes
    <3>2. CASE before # {}
      <4> DEFINE s == CHOOSE s \in before : latest(s)
      <4>1. PICK p \in before : latest(p)
        BY <1>0, <1>8, <3>2, LastIs
      <4>2. s \in before
        <5> HIDE DEF before, latest
        <5>1. \E x \in before : latest(x)
          BY <4>1
        <5> QED
          BY <5>1, Zenon
      <4>3. CarriedOver(day) = statements[s].due
        BY <3>2 DEF CarriedOver
      <4> HIDE DEF s
      <4>4. \A x \in before : statements[x].due \in Int
        BY <1>0 DEF CardTypes, SRows, Closed
      <4> QED
        BY <4>2, <4>3, <4>4
    <3> QED
      BY <3>1, <3>2
  <2>2. SumRows(OnCard({"transfer_in"}, start, day)) \in Int
    <3>1. PICK T : T = OnCard({"transfer_in"}, start, day)
      OBVIOUS
    <3>2. T \cup {} = T /\ T \cap {} = {} /\ T \subseteq RowIds /\ \A t \in T : txns[t].amount \in Int
      BY <1>0, <3>1, Ids DEF OnCard, CardTypes
    <3>3. IsFiniteSet(T)
      BY <3>2, Ids, FS_Subset
    <3>4. SumAmounts(txns, T) \in Int
      <4>1. PICK U : U = {}
        OBVIOUS
      <4>2. IsFiniteSet(T \cup U) /\ T \cap U = {} /\ \A t \in T \cup U : txns[t].amount \in Int
        BY <3>2, <3>3, <4>1
      <4> QED
        BY <4>2, AmountsJoin
    <3> QED
      BY <3>1, <3>4 DEF SumRows, SumAmounts
  <2> QED
    BY <1>2, <1>8, <2>1, <2>2
<1>10. JobFits(job)
  BY <1>4, <1>8, <1>9 DEF JobFits
<1>11. CardTypes'
  <2>1. \A t \in Rows' : txns'[t].amount \in Int /\ txns'[t].date \in Nat
    BY <1>0, <1>5 DEF CardTypes, Rows
  <2>2. \A d \in Clerks : desk'[d] = desk[d] \/ JobFits(desk'[d])
    BY <1>6, <1>10
  <2> QED
    BY <1>0, <1>5, <2>1, <2>2, TypesKept DEF CardTypes
<1>12. InFigures'
  <2>1. history.quiet /\ Card \in accounts => Figures(job)
    BY <1>4, <1>7 DEF Figures
  <2> QED
    BY <1>5, <1>6, <2>1, FiguresRead
<1>13. ASSUME NEW s \in Statements
       PROVE  PaidInTurn(s)'
  <2>1. Closed' = Closed
    BY <1>5 DEF Closed
  <2>2. \A d \in Clerks : desk'[d] = desk[d] \/ ~ (desk'[d].step \in {"unpaid", "marked"} /\ desk'[d].statement = s)
    BY <1>4, <1>6
  <2> QED
    BY <1>5, <2>1, <2>2, PaidStays
<1> QED
  BY <1>11, <1>12, <1>13 DEF CardInv

(* The statements a step writes, and the rows it leaves.                    *)
LEMMA TypesWritten ==
  ASSUME CardTypes, UNCHANGED <<accounts, opening, txns>>, Card \in accounts \/ Closed' = {},
         statements' \in [Statements -> {NoRow} \cup SRows], history'.payments \in [Statements -> Nat],
         \A d \in Clerks : desk'[d] = desk[d] \/ JobFits(desk'[d])
  PROVE  CardTypes'
<1>1. \A t \in Rows' : txns'[t].amount \in Int /\ txns'[t].date \in Nat
  BY DEF CardTypes, Rows
<1>2. \A d \in Clerks : JobFits(desk'[d])
  BY DEF CardTypes
<1>3. \A d \in Clerks : JobFits(desk[d])'
  BY <1>2 DEF JobFits
<1> QED
  BY <1>1, <1>3 DEF CardTypes

LEMMA CloseCycleKeeps ==
  ASSUME LedgerInv, CardInv, NEW c \in Clerks, CloseCycle(c)
  PROVE  CardInv'
<1>0. AtDesk /\ CardTypes /\ At(c, "totals") /\ Shape(history) /\ Card \in accounts
  BY DEF LedgerInv, CardInv, CloseCycle, At, Recalled
<1>1. PICK s \in Statements \ Closed :
        /\ \A d \in Clerks : desk[d].step \in {"unpaid", "marked"} => desk[d].statement # s
        /\ statements' = [statements EXCEPT ![s] = [date |-> desk[c].date, due |-> desk[c].due, paid |-> FALSE]]
        /\ history' = [history EXCEPT !.quiet = history.quiet /\ Computing = {c},
                                      !.reopened = history.reopened \ {s}, !.payments[s] = 0]
  BY DEF CloseCycle
<1>2. PICK day, due : day = desk[c].date /\ due = desk[c].due
  OBVIOUS
<1>3. day \in Nat /\ due \in Int
  BY <1>0, <1>2 DEF CardTypes, JobFits, At
<1>4. PICK new : new = [date |-> day, due |-> due, paid |-> FALSE]
  OBVIOUS
<1>5. new \in SRows /\ new.date = day /\ new.due = due
  BY <1>3, <1>4 DEF SRows
<1>6. \A p \in Statements : statements'[p] = IF p = s THEN new ELSE statements[p]
  BY <1>0, <1>1, <1>2, <1>4 DEF CardTypes
<1>7. UNCHANGED <<accounts, opening, txns>> /\ desk' = [desk EXCEPT ![c] = Unread]
  BY DEF CloseCycle, Leaves
<1>8. desk'[c] = Unread /\ \A d \in Clerks \ {c} : desk'[d] = desk[d]
  <2>1. \A d \in Clerks : desk'[d] = IF d = c THEN Unread ELSE desk[d]
    BY <1>0, <1>7, DeskMoves
  <2> QED
    BY <2>1
<1>9. Unread.step = "idle" /\ JobFits(Unread)
  BY DEF JobFits, Unread
<1>10. /\ history'.quiet => history.quiet /\ Computing = {c}
       /\ history'.reopened = history.reopened \ {s}
       /\ history'.payments = [history.payments EXCEPT ![s] = 0]
  BY <1>0, <1>1 DEF Shape
<1>11. CardTypes'
  <2>1. statements' \in [Statements -> {NoRow} \cup SRows]
    BY <1>0, <1>1, <1>2, <1>4, <1>5 DEF CardTypes
  <2>2. history'.payments \in [Statements -> Nat]
    BY <1>0, <1>10 DEF CardTypes
  <2>3. \A d \in Clerks : desk'[d] = desk[d] \/ JobFits(desk'[d])
    BY <1>8, <1>9
  <2> QED
    BY <1>0, <1>7, <2>1, <2>2, <2>3, TypesWritten
<1>12. InFigures'
  <2>1. ASSUME NEW p \in Closed', history'.quiet
        PROVE  statements'[p].due = Said(statements[p].date)'
    <3>1. PICK on : on = statements'[p].date
      OBVIOUS
    <3>2. Said(on)' = Said(on)
      BY <1>7, SameRows, FiguresSame
    <3>3. statements'[p].due = Said(on)
      <4>1. CASE p = s
        <5>1. desk[c].due = Said(desk[c].date)
          BY <1>0, <1>10, <2>1 DEF CardInv, InFigures, At
        <5> QED
          BY <1>2, <1>5, <1>6, <3>1, <4>1, <5>1
      <4>2. CASE p # s
        <5>1. p \in Statements /\ statements'[p] = statements[p] /\ p \in Closed
          BY <1>6, <2>1, <4>2 DEF Closed
        <5> QED
          BY <1>0, <1>10, <2>1, <3>1, <5>1 DEF CardInv, InFigures
      <4> QED
        BY <4>1, <4>2
    <3>4. Said(statements[p].date)' = Said(on)'
      BY <3>1 DEF Said, SumRows, OnCard, Rows
    <3> QED
      BY <3>2, <3>3, <3>4
  <2>2. ASSUME NEW d \in Clerks, history'.quiet
        PROVE  ~At(d, "charges")' /\ ~At(d, "totals")'
    <3>1. d # c => desk[d].step \notin {"charges", "totals"}
      BY <1>10, <2>2 DEF Computing
    <3> QED
      BY <1>8, <1>9, <3>1 DEF At
  <2> QED
    BY <2>1, <2>2 DEF InFigures
<1>13. ASSUME NEW p \in Statements
       PROVE  PaidInTurn(p)'
  <2>1. CASE p = s
    <3>1. \A d \in Clerks : ~Paying(d, s)'
      BY <1>1, <1>8, <1>9 DEF Paying
    <3>2. history'.payments[s] = 0
      BY <1>0, <1>10 DEF CardTypes
    <3> QED
      BY <2>1, <3>1, <3>2 DEF PaidInTurn
  <2>2. CASE p # s
    <3>1. history'.payments[p] = history.payments[p] /\ (p \in history.reopened => p \in history'.reopened)
      BY <1>0, <1>10, <2>2 DEF CardTypes
    <3>2. p \in Closed' /\ ~statements'[p].paid => p \in Closed /\ ~statements[p].paid
      BY <1>6, <2>2 DEF Closed
    <3>3. \A d \in Clerks : desk'[d] = desk[d] \/ ~ (desk'[d].step \in {"unpaid", "marked"} /\ desk'[d].statement = p)
      BY <1>8, <1>9
    <3> QED
      BY <3>1, <3>2, <3>3, PaidStays
  <2> QED
    BY <2>1, <2>2
<1> QED
  BY <1>11, <1>12, <1>13 DEF CardInv

LEMMA CorrectStatementKeeps ==
  ASSUME LedgerInv, CardInv, NEW c \in Clerks, CorrectStatement(c)
  PROVE  CardInv'
<1>0. CardTypes /\ Shape(history) /\ UNCHANGED <<accounts, opening, txns, desk>>
  BY DEF LedgerInv, CardInv, CorrectStatement, InOneStep, Recalled
<1>1. PICK s \in Closed :
        \E new \in {[statements[s] EXCEPT !.due = m] : m \in Amounts} \cup {[statements[s] EXCEPT !.date = d] : d \in Dates} :
          statements' = [statements EXCEPT ![s] = new]
  BY DEF CorrectStatement
<1>2. PICK new \in {[statements[s] EXCEPT !.due = m] : m \in Amounts} \cup {[statements[s] EXCEPT !.date = d] : d \in Dates} :
          statements' = [statements EXCEPT ![s] = new]
  BY <1>1
<1>3. s \in Statements /\ statements[s] \in SRows /\ statements[s] # NoRow
  BY <1>0 DEF CardTypes, Closed
<1>4. new \in SRows /\ new.paid = statements[s].paid
  <2>1. PICK old \in SRows : old = statements[s]
    BY <1>3
  <2>2. CASE \E m \in Amounts : new = [old EXCEPT !.due = m]
    <3>1. \A m \in Amounts : m \in Int
      BY LedgerAssumption DEF Amounts
    <3> QED
      BY <2>1, <2>2, <3>1 DEF SRows
  <2>3. CASE \E d \in Dates : new = [old EXCEPT !.date = d]
    BY <2>1, <2>3, Ids DEF SRows
  <2> QED
    BY <1>2, <2>1, <2>2, <2>3
<1>5. ~history'.quiet /\ history'.payments = history.payments /\ history'.reopened = history.reopened
  BY <1>0 DEF CorrectStatement, Shape
<1>6. \A p \in Statements : statements'[p] = IF p = s THEN new ELSE statements[p]
  BY <1>0, <1>2, <1>3 DEF CardTypes
<1>7. CardTypes'
  <2>1. statements' \in [Statements -> {NoRow} \cup SRows]
    BY <1>0, <1>2, <1>3, <1>4 DEF CardTypes
  <2>2. Card \in accounts
    BY <1>0, <1>1 DEF CardTypes
  <2> QED
    BY <1>0, <1>5, <2>1, <2>2, TypesWritten DEF CardTypes
<1>8. InFigures'
  BY <1>5 DEF InFigures
<1>9. ASSUME NEW p \in Statements
      PROVE  PaidInTurn(p)'
  <2>1. p \in Closed' /\ ~statements'[p].paid => p \in Closed /\ ~statements[p].paid
    BY <1>1, <1>4, <1>6 DEF Closed
  <2> QED
    BY <1>0, <1>5, <2>1, PaidStays
<1> QED
  BY <1>7, <1>8, <1>9 DEF CardInv

LEMMA DeleteStatementKeeps ==
  ASSUME LedgerInv, CardInv, NEW c \in Clerks, DeleteStatement(c)
  PROVE  CardInv'
<1>0. CardTypes /\ Shape(history) /\ UNCHANGED <<accounts, opening, txns, desk>>
  BY DEF LedgerInv, CardInv, DeleteStatement, InOneStep, Recalled
<1>1. PICK s \in Closed : /\ statements' = [statements EXCEPT ![s] = NoRow]
                          /\ history' = [history EXCEPT !.quiet = history.quiet /\ Computing = {}]
  BY DEF DeleteStatement
<1>2. (history'.quiet => history.quiet /\ Computing = {}) /\ history'.payments = history.payments
      /\ history'.reopened = history.reopened
  BY <1>0, <1>1 DEF Shape
<1>3. \A p \in Statements : statements'[p] = IF p = s THEN NoRow ELSE statements[p]
  BY <1>0, <1>1 DEF CardTypes
<1>4. \A p \in Closed' : p \in Closed /\ statements'[p] = statements[p]
  BY <1>3 DEF Closed
<1>5. CardTypes'
  <2>1. statements' \in [Statements -> {NoRow} \cup SRows]
    BY <1>0, <1>1 DEF CardTypes
  <2>2. Card \in accounts
    BY <1>0, <1>1 DEF CardTypes
  <2> QED
    BY <1>0, <1>2, <2>1, <2>2, TypesWritten DEF CardTypes
<1>6. InFigures'
  <2>1. \A day : SameUpTo(day)
    BY <1>0, SameRows
  <2>2. \A d \in Clerks : history'.quiet => desk'[d].step \notin {"charges", "totals"}
    BY <1>0, <1>2 DEF Computing
  <2> QED
    BY <1>0, <1>2, <1>4, <2>1, <2>2, FiguresStay
<1>7. ASSUME NEW p \in Statements
      PROVE  PaidInTurn(p)'
  BY <1>0, <1>2, <1>4, PaidStays
<1> QED
  BY <1>5, <1>6, <1>7 DEF CardInv

LEMMA ReadUnpaidKeeps ==
  ASSUME LedgerInv, CardInv, NEW c \in Clerks, ReadUnpaid(c)
  PROVE  CardInv'
<1>0. CardTypes /\ AtDesk /\ Shape(history) /\ UNCHANGED <<accounts, opening, txns, statements>> /\ desk[c] = Unread
  BY DEF LedgerInv, CardInv, ReadUnpaid, Enters, Recalled
<1>1. PICK s \in Closed :
        /\ ~statements[s].paid
        /\ desk' = [desk EXCEPT ![c] = [step |-> "unpaid", statement |-> s, due |-> statements[s].due]]
        /\ history' = IF \E d \in Clerks : desk[d].step = "unpaid" /\ desk[d].statement = s
                      THEN [history EXCEPT !.reopened = history.reopened \cup {s}] ELSE history
  BY DEF ReadUnpaid
<1>2. PICK due : due = statements[s].due
  OBVIOUS
<1>3. PICK job : job = [step |-> "unpaid", statement |-> s, due |-> due]
  OBVIOUS
<1>4. job.step = "unpaid" /\ job.statement = s /\ job.due = due
  BY <1>3
<1>5. desk'[c] = job /\ \A d \in Clerks \ {c} : desk'[d] = desk[d]
  <2>1. desk' = [desk EXCEPT ![c] = job]
    BY <1>1, <1>2, <1>3
  <2>2. \A d \in Clerks : desk'[d] = IF d = c THEN job ELSE desk[d]
    BY <1>0, <2>1, DeskMoves
  <2> QED
    BY <2>2
<1>6. /\ history'.quiet = history.quiet /\ history'.payments = history.payments
      /\ history.reopened \subseteq history'.reopened
      /\ (\E d \in Clerks : desk[d].step = "unpaid" /\ desk[d].statement = s) => s \in history'.reopened
  BY <1>0, <1>1 DEF Shape
<1>7. JobFits(job)
  <2>1. s \in Statements /\ due \in Int
    BY <1>0, <1>2 DEF CardTypes, SRows, Closed
  <2> QED
    BY <1>4, <2>1 DEF JobFits
<1>8. CardTypes'
  <2>1. \A d \in Clerks : desk'[d] = desk[d] \/ JobFits(desk'[d])
    BY <1>5, <1>7
  <2>2. Card \in accounts
    BY <1>0, <1>1 DEF CardTypes
  <2> QED
    BY <1>0, <1>6, <2>1, <2>2, TypesWritten DEF CardTypes
<1>9. InFigures'
  BY <1>0, <1>4, <1>5, <1>6, FiguresRead DEF Figures
<1>10. Closed' = Closed
  BY <1>0 DEF Closed
<1>11. Unread.step = "idle"
  BY DEF Unread
<1>12. ASSUME NEW p \in Statements
       PROVE  PaidInTurn(p)'
  <2>1. CASE p # s
    <3>1. \A d \in Clerks : desk'[d] = desk[d] \/ ~ (desk'[d].step \in {"unpaid", "marked"} /\ desk'[d].statement = p)
      BY <1>4, <1>5, <2>1
    <3> QED
      BY <1>0, <1>6, <1>10, <3>1, PaidStays
  <2>2. CASE p = s
    <3>1. SUFFICES ASSUME s \notin history'.reopened
                   PROVE  PaidInTurn(s)'
      BY <2>2 DEF PaidInTurn
    <3>2. s \notin history.reopened /\ \A d \in Clerks : ~ (desk[d].step = "unpaid" /\ desk[d].statement = s)
      BY <1>6, <3>1
    <3>3. history.payments[s] = 0 /\ \A d \in Clerks : ~ (Paying(d, s) /\ At(d, "marked"))
      BY <1>1, <2>2, <3>2 DEF CardInv, PaidInTurn
    <3>4. \A d \in Clerks : ~ Paying(d, s)
      BY <3>2, <3>3 DEF Paying, At
    <3>5. \A d \in Clerks : Paying(d, s)' => d = c /\ ~At(d, "marked")'
      BY <1>4, <1>5, <3>4 DEF Paying, At
    <3> QED
      BY <1>6, <3>3, <3>5 DEF PaidInTurn
  <2> QED
    BY <2>1, <2>2
<1> QED
  BY <1>8, <1>9, <1>12 DEF CardInv

(* A statement is marked paid or unpaid.                                    *)
LEMMA Marked ==
  ASSUME CardTypes, NEW s \in Closed, NEW mark \in BOOLEAN, NEW new, new = [statements[s] EXCEPT !.paid = mark]
  PROVE  /\ new \in SRows /\ new # NoRow /\ new.paid = mark
         /\ new.date = statements[s].date /\ new.due = statements[s].due
<1>1. PICK old \in SRows : old = statements[s]
  BY DEF CardTypes, Closed
<1>2. new \in SRows /\ new.paid = mark /\ new.date = old.date /\ new.due = old.due
  BY <1>1 DEF SRows
<1>3. "due" \in DOMAIN new /\ "due" \notin DOMAIN NoRow
  BY <1>2 DEF SRows, NoRow
<1> QED
  BY <1>1, <1>2, <1>3

LEMMA MarkPaidKeeps ==
  ASSUME LedgerInv, CardInv, NEW c \in Clerks, MarkPaid(c)
  PROVE  CardInv'
<1>0. CardTypes /\ AtDesk /\ At(c, "unpaid") /\ UNCHANGED <<accounts, opening, txns, history>>
  BY DEF LedgerInv, CardInv, MarkPaid, At
<1>1. PICK s, due : s = desk[c].statement /\ due = desk[c].due
  OBVIOUS
<1>2. s \in Statements /\ due \in Int
  BY <1>0, <1>1 DEF CardTypes, JobFits, At
<1>3. PICK job : job = [step |-> "marked", statement |-> s, due |-> due]
  OBVIOUS
<1>4. job.step = "marked" /\ job.statement = s /\ job.due = due
  BY <1>3
<1>5. desk'[c] = job /\ \A d \in Clerks \ {c} : desk'[d] = desk[d]
  <2>1. PICK old : old = desk[c]
    OBVIOUS
  <2>2. old = [step |-> "unpaid", statement |-> s, due |-> due]
    BY <1>0, <1>1, <2>1 DEF AtDesk
  <2>3. [old EXCEPT !.step = "marked"] = job
    BY <1>3, <2>2
  <2>4. desk' = [desk EXCEPT ![c] = [old EXCEPT !.step = "marked"]]
    BY <2>1 DEF MarkPaid
  <2>5. desk' = [desk EXCEPT ![c] = job]
    BY <2>3, <2>4
  <2>6. \A d \in Clerks : desk'[d] = IF d = c THEN job ELSE desk[d]
    BY <1>0, <2>5, DeskMoves
  <2> QED
    BY <2>6
<1>6. PICK new : new = [statements[s] EXCEPT !.paid = TRUE]
  OBVIOUS
<1>7. statements' = [p \in Statements |-> IF p = s /\ p \in Closed THEN new ELSE statements[p]]
  <2>1. statements' = [p \in Statements |-> IF p = s /\ p \in Closed THEN [statements[p] EXCEPT !.paid = TRUE] ELSE statements[p]]
    BY <1>1 DEF MarkPaid
  <2> QED
    BY <1>6, <2>1
<1>8. s \in Closed => /\ new \in SRows /\ new # NoRow /\ new.paid = TRUE
                      /\ new.date = statements[s].date /\ new.due = statements[s].due
  BY <1>0, <1>6, Marked
<1>9. Closed' = Closed /\ \A p \in Closed : statements'[p].date = statements[p].date /\ statements'[p].due = statements[p].due
  BY <1>7, <1>8 DEF Closed
<1>10. CardTypes'
  <2>1. statements' \in [Statements -> {NoRow} \cup SRows]
    BY <1>0, <1>7, <1>8 DEF CardTypes
  <2>2. JobFits(job)
    BY <1>2, <1>4 DEF JobFits
  <2>3. Card \in accounts \/ Closed' = {}
    BY <1>0, <1>9 DEF CardTypes
  <2>4. \A d \in Clerks : desk'[d] = desk[d] \/ JobFits(desk'[d])
    BY <1>5, <2>2
  <2> QED
    BY <1>0, <2>1, <2>3, <2>4, TypesWritten DEF CardTypes
<1>11. InFigures'
  <2>1. \A day : SameUpTo(day)
    BY <1>0, SameRows
  <2>2. \A d \in Clerks : desk'[d] = desk[d] \/ desk'[d].step \notin {"charges", "totals"}
    BY <1>4, <1>5
  <2> QED
    BY <1>0, <1>9, <2>1, <2>2, FiguresStay
<1>12. ASSUME NEW p \in Statements
       PROVE  PaidInTurn(p)'
  <2>1. CASE p # s
    <3>1. \A d \in Clerks : desk'[d] = desk[d] \/ ~ (desk'[d].step \in {"unpaid", "marked"} /\ desk'[d].statement = p)
      BY <1>4, <1>5, <2>1
    <3>2. statements'[p] = statements[p]
      BY <1>7, <2>1
    <3> QED
      BY <1>0, <1>9, <3>1, <3>2, PaidStays
  <2>2. CASE p = s
    <3>1. PaidInTurn(s)
      BY <2>2 DEF CardInv
    <3>2. \A d \in Clerks : Paying(d, s)' => Paying(d, s)
      BY <1>0, <1>1, <1>4, <1>5 DEF Paying, At
    <3>3. s \in Closed' => statements'[s].paid
      BY <1>2, <1>7, <1>8, <1>9
    <3> QED
      BY <1>0, <2>2, <3>1, <3>2, <3>3 DEF PaidInTurn
  <2> QED
    BY <2>1, <2>2
<1> QED
  BY <1>10, <1>11, <1>12 DEF CardInv

LEMMA MarkUnpaidKeeps ==
  ASSUME LedgerInv, CardInv, NEW c \in Clerks, MarkUnpaid(c)
  PROVE  CardInv'
<1>0. CardTypes /\ Shape(history) /\ UNCHANGED <<accounts, opening, txns, desk>>
  BY DEF LedgerInv, CardInv, MarkUnpaid, InOneStep, Recalled
<1>1. PICK s \in Closed : /\ statements' = [statements EXCEPT ![s].paid = FALSE]
                          /\ history' = [history EXCEPT !.reopened = history.reopened \cup {s}]
  BY DEF MarkUnpaid
<1>2. PICK new : new = [statements[s] EXCEPT !.paid = FALSE]
  OBVIOUS
<1>3. /\ new \in SRows /\ new # NoRow
      /\ new.date = statements[s].date /\ new.due = statements[s].due
  BY <1>0, <1>2, Marked
<1>4. statements' = [statements EXCEPT ![s] = new]
  BY <1>1, <1>2
<1>5. \A p \in Statements : statements'[p] = IF p = s THEN new ELSE statements[p]
  BY <1>0, <1>4 DEF CardTypes
<1>6. Closed' = Closed /\ \A p \in Closed : statements'[p].date = statements[p].date /\ statements'[p].due = statements[p].due
  BY <1>3, <1>5 DEF Closed
<1>7. /\ history'.quiet = history.quiet /\ history'.payments = history.payments
      /\ history'.reopened = history.reopened \cup {s}
  BY <1>0, <1>1 DEF Shape
<1>8. CardTypes'
  <2>1. statements' \in [Statements -> {NoRow} \cup SRows]
    BY <1>0, <1>3, <1>4 DEF CardTypes
  <2>2. Card \in accounts
    BY <1>0, <1>1 DEF CardTypes
  <2> QED
    BY <1>0, <1>7, <2>1, <2>2, TypesWritten DEF CardTypes
<1>9. InFigures'
  <2>1. \A day : SameUpTo(day)
    BY <1>0, SameRows
  <2> QED
    BY <1>0, <1>6, <1>7, <2>1, FiguresStay
<1>10. ASSUME NEW p \in Statements
       PROVE  PaidInTurn(p)'
  <2>1. CASE p = s
    BY <1>7, <2>1 DEF PaidInTurn
  <2>2. CASE p # s
    <3>1. statements'[p] = statements[p]
      BY <1>5, <2>2
    <3> QED
      BY <1>0, <1>6, <1>7, <3>1, PaidStays
  <2> QED
    BY <2>1, <2>2
<1> QED
  BY <1>8, <1>9, <1>10 DEF CardInv

LEMMA PostPaymentKeeps ==
  ASSUME LedgerInv, CardInv, NEW c \in Clerks, PostPayment(c)
  PROVE  CardInv'
<1>0. /\ CardTypes /\ AtDesk /\ Booked /\ Shape(history) /\ At(c, "marked")
      /\ UNCHANGED <<accounts, opening, statements>> /\ desk' = [desk EXCEPT ![c] = Unread]
  BY DEF LedgerInv, CardInv, PostPayment, At, Leaves, Recalled
<1>1. PICK today \in Dates :
        LET legs == Legs(Bank, Card, desk[c].due, today, PlainLife)
        IN /\ Inserted(legs)
           /\ Remembers({}, {legs[1], legs[2]},
                [history EXCEPT !.payments[desk[c].statement] = history.payments[desk[c].statement] + 1])
  BY DEF PostPayment
<1>2. PICK s, due : s = desk[c].statement /\ due = desk[c].due
  OBVIOUS
<1>3. s \in Statements /\ due \in Int /\ today \in Nat
  BY <1>0, <1>2, Ids DEF CardTypes, JobFits, At
<1>4. PICK legs : legs = Legs(Bank, Card, due, today, PlainLife)
  OBVIOUS
<1>5. PICK changed, after, others :
        /\ changed = {} /\ after = {legs[1], legs[2]}
        /\ others = [history EXCEPT !.payments[s] = history.payments[s] + 1]
  OBVIOUS
<1>6. Inserted(legs) /\ Remembers(changed, after, others)
  BY <1>1, <1>2, <1>4, <1>5
<1>7. /\ Shape(others) /\ others.quiet = history.quiet /\ others.reopened = history.reopened
      /\ others.payments = [history.payments EXCEPT ![s] = history.payments[s] + 1]
  BY <1>0, <1>5 DEF Shape
<1>8. /\ history'.quiet => history.quiet /\ ~Late({txns[t] : t \in changed} \cup after)
      /\ history'.reopened = history.reopened
      /\ history'.payments = [history.payments EXCEPT ![s] = history.payments[s] + 1]
  BY <1>6, <1>7, RememberedQuiet
<1>9. \A t \in RowIds : txns'[t] = txns[t] \/ (t \notin Rows /\ txns'[t] \in after)
  <2>1. \A t \in RowIds : txns'[t] = txns[t] \/ (t \notin Rows /\ txns'[t] \in {legs[1], legs[2]})
    BY <1>0, <1>3, <1>4, <1>6, LegsAreNew
  <2> QED
    BY <1>5, <2>1
<1>10. \A leg \in after : leg.amount \in Int /\ leg.date \in Nat
  <2>1. legs[1].amount = due /\ legs[1].date = today /\ legs[2].amount = due /\ legs[2].date = today
    BY <1>0, <1>3, <1>4, <1>6, LegsAreNew
  <2> QED
    BY <1>3, <1>5, <2>1
<1>11. desk'[c] = Unread /\ \A d \in Clerks \ {c} : desk'[d] = desk[d]
  <2>1. \A d \in Clerks : desk'[d] = IF d = c THEN Unread ELSE desk[d]
    BY <1>0, DeskMoves
  <2> QED
    BY <2>1
<1>12. Unread.step = "idle" /\ JobFits(Unread)
  BY DEF JobFits, Unread
<1>13. history.payments \in [Statements -> Nat] /\ history'.payments \in [Statements -> Nat]
       /\ \A p \in Statements : history'.payments[p] = IF p = s THEN history.payments[p] + 1 ELSE history.payments[p]
  BY <1>0, <1>3, <1>8 DEF CardTypes
<1>14. CardTypes'
  <2>1. \A t \in Rows' : t \in RowIds /\ (txns'[t] \in after \/ (t \in Rows /\ txns'[t] = txns[t]))
    BY <1>9 DEF Rows
  <2>2. \A t \in Rows' : txns'[t].amount \in Int /\ txns'[t].date \in Nat
    BY <1>0, <1>10, <2>1 DEF CardTypes
  <2>3. \A d \in Clerks : desk'[d] = desk[d] \/ JobFits(desk'[d])
    BY <1>11, <1>12
  <2> QED
    BY <1>0, <1>13, <2>2, <2>3, TypesKept
<1>15. InFigures'
  <2>1. \A t \in RowIds : \/ txns'[t] = txns[t]
                          \/ (t \in Rows => t \in changed) /\ (t \in Rows' => txns'[t] \in after)
    BY <1>9
  <2>2. \A d \in Clerks : desk'[d] = desk[d] \/ desk'[d].step \notin {"charges", "totals"}
    BY <1>11, <1>12
  <2> QED
    BY <1>0, <1>8, <2>1, <2>2, FiguresUnwritten
<1>16. Closed' = Closed /\ \A p \in Statements : statements'[p] = statements[p]
  BY <1>0 DEF Closed
<1>17. ASSUME NEW p \in Statements
       PROVE  PaidInTurn(p)'
  <2>1. CASE p # s
    <3>1. \A d \in Clerks : desk'[d] = desk[d] \/ ~ (desk'[d].step \in {"unpaid", "marked"} /\ desk'[d].statement = p)
      BY <1>11, <1>12
    <3>2. history'.payments[p] = history.payments[p]
      BY <1>13, <2>1
    <3> QED
      BY <1>8, <1>16, <3>1, <3>2, PaidStays
  <2>2. CASE p = s
    <3>1. SUFFICES ASSUME s \notin history'.reopened
                   PROVE  PaidInTurn(s)'
      BY <2>2 DEF PaidInTurn
    <3>2. Paying(c, s) /\ s \notin history.reopened
      BY <1>0, <1>2, <1>8, <3>1 DEF Paying, At
    <3>3. /\ \A d \in Clerks : Paying(d, s) => d = c
          /\ history.payments[s] = 0
          /\ ~ (s \in Closed /\ ~statements[s].paid)
      <4>1. PaidInTurn(s)
        BY <2>2 DEF CardInv
      <4> QED
        BY <1>0, <3>2, <4>1 DEF PaidInTurn
    <3>4. \A d \in Clerks : ~ Paying(d, s)'
      BY <1>11, <1>12, <3>3 DEF Paying
    <3>5. history'.payments[s] = 1
      BY <1>3, <1>13, <3>3
    <3>6. ~ (s \in Closed' /\ ~statements'[s].paid)
      BY <1>3, <1>16, <3>3
    <3> QED
      BY <3>4, <3>5, <3>6 DEF PaidInTurn
  <2> QED
    BY <2>1, <2>2
<1> QED
  BY <1>14, <1>15, <1>17 DEF CardInv

LEMMA CardStepKeeps ==
  ASSUME LedgerInv, CardInv, NEW c \in Clerks, CardStep(c)
  PROVE  CardInv'
BY ReadChargesKeeps, ReadBalanceKeeps, CloseCycleKeeps, CorrectStatementKeeps, DeleteStatementKeeps,
   ReadUnpaidKeeps, MarkPaidKeeps, PostPaymentKeeps, MarkUnpaidKeeps DEF CardStep

LEMMA AccountStepKeeps ==
  ASSUME LedgerInv, CardInv, NEW c \in Clerks, AccountStep(c)
  PROVE  CardInv'
<1>0. CardTypes /\ Shape(history) /\ Booked
  BY DEF LedgerInv, CardInv, Recalled
<1>1. UNCHANGED desk
  BY DEF AccountStep, SetOpening, DeleteLedgerAccount, InOneStep
<1>2. \A d \in Clerks : JobFits(desk[d])'
  <2>1. \A d \in Clerks : JobFits(desk'[d])
    BY <1>0, <1>1 DEF CardTypes
  <2> QED
    BY <2>1 DEF JobFits
<1>3. CASE SetOpening(c)
  <2>1. /\ opening' \in Int /\ UNCHANGED <<accounts, txns, statements>>
        /\ history' = [history EXCEPT !.quiet = history.quiet /\ Closed = {} /\ Computing = {}]
    BY <1>3 DEF SetOpening
  <2>2. /\ history'.quiet => Closed = {} /\ Computing = {}
        /\ history'.payments = history.payments /\ history'.reopened = history.reopened
    BY <1>0, <2>1 DEF Shape
  <2>3. Closed' = Closed /\ Rows' = Rows
    BY <2>1 DEF Closed, Rows
  <2>4. CardTypes'
    BY <1>0, <1>2, <2>1, <2>2, <2>3 DEF CardTypes
  <2>5. InFigures'
    <3>1. history'.quiet => \A d \in Clerks : desk'[d].step \notin {"charges", "totals"}
      BY <1>1, <2>2 DEF Computing
    <3> QED
      BY <2>2, <2>3, <3>1 DEF InFigures, At
  <2>6. ASSUME NEW p \in Statements
        PROVE  PaidInTurn(p)'
    BY <1>1, <2>1, <2>2, <2>3, PaidStays
  <2> QED
    BY <2>4, <2>5, <2>6 DEF CardInv
<1>4. CASE DeleteLedgerAccount(c)
  <2>1. PICK a \in accounts :
          /\ accounts' = accounts \ {a}
          /\ txns' = [t \in RowIds |-> IF t \in Rows /\ txns[t].account = a THEN NoRow ELSE txns[t]]
          /\ statements' = IF a = Card THEN [s \in Statements |-> NoRow] ELSE statements
          /\ history' = [history EXCEPT !.posted = {t \in history.posted : txns[t].account # a}]
    BY <1>4 DEF DeleteLedgerAccount
  <2>2. UNCHANGED opening
    BY <1>4 DEF DeleteLedgerAccount
  <2>3. /\ history'.quiet = history.quiet
        /\ history'.payments = history.payments /\ history'.reopened = history.reopened
    BY <1>0, <2>1 DEF Shape
  <2>4. \A t \in RowIds : txns'[t] = IF t \in Rows /\ txns[t].account = a THEN NoRow ELSE txns[t]
    BY <2>1
  <2>5. \A t \in Rows' : t \in Rows /\ txns'[t] = txns[t]
    BY <2>4 DEF Rows
  <2>6. \A s \in Closed' : a # Card /\ s \in Closed /\ statements'[s] = statements[s]
    BY <2>1 DEF Closed
  <2>7. a # Card => Closed' = Closed
    BY <2>1 DEF Closed
  <2>8. CardTypes'
    <3>1. statements' \in [Statements -> {NoRow} \cup SRows]
      BY <1>0, <2>1 DEF CardTypes
    <3>2. Card \notin accounts' => Closed' = {}
      BY <1>0, <2>1, <2>6, <2>7 DEF CardTypes
    <3>3. \A t \in Rows' : txns'[t].amount \in Int /\ txns'[t].date \in Nat
      BY <1>0, <2>5 DEF CardTypes
    <3> QED
      BY <1>0, <1>2, <2>2, <2>3, <3>1, <3>2, <3>3 DEF CardTypes
  <2>9. InFigures'
    <3>1. CASE a = Card
      BY <2>1, <3>1 DEF InFigures
    <3>2. CASE a # Card
      <4>1. \A day : SameUpTo(day)
        BY <2>4, <3>2 DEF SameUpTo, OnDay
      <4>2. accounts' \subseteq accounts
        BY <2>1
      <4> QED
        BY <1>1, <2>2, <2>3, <2>6, <2>7, <3>2, <4>1, <4>2, FiguresStay
    <3> QED
      BY <3>1, <3>2
  <2>10. ASSUME NEW p \in Statements
         PROVE  PaidInTurn(p)'
    BY <1>1, <2>3, <2>6, PaidStays
  <2> QED
    BY <2>8, <2>9, <2>10 DEF CardInv
<1> QED
  BY <1>3, <1>4 DEF AccountStep

LEMMA CardInvNext == LedgerInv /\ CardInv /\ [LedgerNext]_ledgerVars => CardInv'
<1> SUFFICES ASSUME LedgerInv, CardInv, [LedgerNext]_ledgerVars PROVE CardInv'
  OBVIOUS
<1>1. CASE FiveMinutesPass \/ UNCHANGED ledgerVars
  <2>1. UNCHANGED <<accounts, opening, txns, statements, desk, history>>
    BY <1>1 DEF FiveMinutesPass, ledgerVars
  <2>2. \A t \in Rows' : txns'[t].amount \in Int /\ txns'[t].date \in Nat
    BY <2>1 DEF CardInv, CardTypes, Rows
  <2> QED
    BY <2>1, <2>2, SameRows, CardAlone
<1>2. ASSUME NEW c \in Clerks, RowStep(c) \/ SlateStep(c) \/ CardStep(c) \/ AccountStep(c)
      PROVE  CardInv'
  BY <1>2, RowStepKeeps, SlateStepKeeps, CardStepKeeps, AccountStepKeeps
<1> QED
  BY <1>1, <1>2 DEF LedgerNext

LEMMA CardInvHolds == CardInv => StatementsHold
<1> SUFFICES ASSUME CardInv PROVE StatementsHold
  OBVIOUS
<1>1. StatementsAddUp
  <2>1. ASSUME NEW s \in Closed, history.quiet
        PROVE  statements[s].due = Said(statements[s].date)
    BY <2>1 DEF CardInv, CardTypes, InFigures
  <2> QED
    BY <2>1 DEF StatementsAddUp, Said
<1>2. PaidOnceUnlessReopened
  <2>1. \A s \in Statements : s \notin history.reopened => history.payments[s] <= 1 /\ history.payments[s] \in Nat
    BY DEF CardInv, CardTypes, PaidInTurn
  <2> QED
    BY <2>1 DEF PaidOnceUnlessReopened
<1> QED
  BY <1>1, <1>2 DEF StatementsHold

(* However the requests of a user interleave, a statement says what the     *)
(* card's rows say, unless a row went into a closed cycle or the owner put  *)
(* his own figure, and is paid once unless it was opened again.             *)
THEOREM StatementsAreTrue == LedgerSpec => []StatementsHold
<1>1. (LedgerInit \/ CardStart) => LedgerInv /\ CardInv
  BY LedgerInvInit, CardStarts
<1>2. LedgerInv /\ CardInv /\ [LedgerNext]_ledgerVars => LedgerInv' /\ CardInv'
  BY LedgerInvNext, CardInvNext
<1>3. CardInv => StatementsHold
  BY CardInvHolds
<1> QED
  BY <1>1, <1>2, <1>3, PTL DEF LedgerSpec

-----------------------------------------------------------------------------
(* Billers.                                                                *)

BillerFields == {"kind", "due", "every", "auto", "task", "live", "account"}

(* A date fits when it is on the grid and every cycle before it is paid.   *)
Fits(d, start, every, p) ==
  /\ d >= start /\ (d - start) % every = 0
  /\ \A c \in start..(d - 1) : (c - start) % every = 0 => p[c] # "no"

JobTypes ==
  /\ DOMAIN asked = Requests
  /\ \A r \in Requests :
       /\ asked[r].kind \in {"none", "pay", "run", "edit"}
       /\ asked[r].kind \in {"pay", "run"} =>
            /\ {"kind", "step", "due", "every"} \subseteq DOMAIN asked[r]
            /\ asked[r].due \in Cycles /\ asked[r].every \in Periods
       /\ asked[r].kind = "pay" => asked[r].step \in {"post", "roll"} /\ asked[r].due <= LastMonth
       /\ asked[r].kind = "run" =>
            /\ asked[r].step \in {"cycle", "told", "alert", "spawn"}
            /\ asked[r].today \in 1..LastMonth
            /\ asked[r].step = "told" => asked[r].due <= asked[r].today
       /\ asked[r].kind = "edit" =>
            asked[r].step = "write" /\ asked[r].patch \in Patches

BillerTypes ==
  /\ month \in 1..LastMonth /\ since \in Cycles /\ redated \in BOOLEAN
  /\ biller # Gone => /\ DOMAIN biller = BillerFields
                      /\ biller.due \in Cycles /\ biller.every \in Periods
  /\ DOMAIN paid = Cycles /\ DOMAIN todo = Cycles
  /\ JobTypes

(* A job that will write the due date is on the grid of the biller, and    *)
(* all before it is paid.                                                  *)
Follows(job, start, every, p) ==
  /\ job.every = every /\ Fits(job.due, start, every, p)
  /\ job.step \in {"roll", "told"} => p[job.due] # "no"

InCycle ==
  biller # Gone /\ ~redated =>
    /\ Fits(biller.due, since, biller.every, paid)
    /\ \A r \in Requests : Moves(asked[r]) => Follows(asked[r], since, biller.every, paid)

OpenAt(r, step, c) == Does(r, "run", step) /\ asked[r].due = c

(* An alert and what it announces are one, but for what is on its way.     *)
IsOpen(step, c) == \E r \in Requests : OpenAt(r, step, c)
OpensOnce(c) == \A r, q \in Requests : OpenAt(r, "spawn", c) /\ OpenAt(q, "spawn", c) => r = q
AlertTells(c) ==
  /\ c \notin dropped /\ paid[c] = "auto" /\ ~IsOpen("told", c) => <<"auto_paid", c>> \in alerts
  /\ <<"reminder_task", c>> \notin alerts => todo[c] = 0 /\ ~IsOpen("spawn", c)
  /\ OpensOnce(c)
  /\ IsOpen("spawn", c) => todo[c] = 0
  /\ c \notin dropped /\ <<"reminder_task", c>> \in alerts /\ ~IsOpen("spawn", c) => todo[c] = 1
AlertsTell == biller # Gone => \A c \in Cycles : AlertTells(c)

BillersInv == BillerTypes /\ InCycle /\ AlertsTell

LEMMA FitsStart ==
  ASSUME NEW start \in Int, NEW every \in 1..3, NEW p
  PROVE  Fits(start, start, every, p)
BY DEF Fits

LEMMA FitsMore ==
  ASSUME NEW d \in Int, NEW start \in Int, NEW every, NEW p, NEW q, Fits(d, start, every, p),
         \A c \in start..(d - 1) : p[c] # "no" => q[c] # "no"
  PROVE  Fits(d, start, every, q)
BY DEF Fits

LEMMA FitsNext ==
  ASSUME NEW d \in Int, NEW start \in Int, NEW every \in 1..3, NEW p, Fits(d, start, every, p), p[d] # "no"
  PROVE  Fits(d + every, start, every, p)
<1>1. d + every >= start /\ (d + every - start) % every = 0
  BY DEF Fits
<1>2. ASSUME NEW c \in start..(d + every - 1), (c - start) % every = 0
      PROVE  p[c] # "no"
  <2>1. c < d \/ c = d
    BY <1>2 DEF Fits
  <2> QED
    BY <1>2, <2>1 DEF Fits
<1> QED
  BY <1>1, <1>2 DEF Fits

LEMMA BillersInvInit == BillersInit => BillersInv
<1> SUFFICES ASSUME BillersInit PROVE BillersInv
  OBVIOUS
<1>1. /\ month = 1 /\ since = 2 /\ redated = FALSE /\ dropped = {} /\ alerts = {}
      /\ biller \in Created
      /\ paid = [c \in Cycles |-> "no"] /\ todo = [c \in Cycles |-> 0]
      /\ asked = [r \in Requests |-> Resting]
  BY DEF BillersInit, BillersStart
<1>2. DOMAIN biller = BillerFields /\ biller.due = 2 /\ biller.every \in Periods
  BY <1>1 DEF Created, BillerFields
<1>3. \A r \in Requests : asked[r].kind = "none"
  BY <1>1 DEF Resting
<1>4. BillerTypes
  <2>1. 2 \in Cycles /\ 1 \in 1..LastMonth
    BY BillersAssumption DEF Cycles
  <2>2. DOMAIN asked = Requests /\ DOMAIN paid = Cycles /\ DOMAIN todo = Cycles
    BY <1>1
  <2>3. JobTypes
    BY <1>3, <2>2 DEF JobTypes
  <2> QED
    BY <1>1, <1>2, <2>1, <2>2, <2>3 DEF BillerTypes
<1>5. InCycle
  <2>1. Fits(2, 2, biller.every, paid)
    <3>1. PICK every, p : every = biller.every /\ p = paid
      OBVIOUS
    <3>2. every \in 1..3
      BY <1>2, <3>1, BillersAssumption
    <3> QED
      BY <3>1, <3>2, FitsStart
  <2> QED
    BY <1>1, <1>2, <1>3, <2>1 DEF InCycle, Moves
<1>6. AlertsTell
  BY <1>1, <1>3 DEF AlertsTell, AlertTells, IsOpen, OpensOnce, OpenAt, Does
<1> QED
  BY <1>4, <1>5, <1>6 DEF BillersInv

(* One request goes on to its next step.                                   *)
LEMMA OneGoes ==
  ASSUME BillersInv, NEW r \in Requests, NEW job, Goes(r, job)
  PROVE  /\ DOMAIN asked' = Requests /\ asked'[r] = job
         /\ \A o \in Requests \ {r} : asked'[o] = asked[o]
BY DEF Goes, BillersInv, BillerTypes, JobTypes

JobType(job) ==
  /\ job.kind \in {"none", "pay", "run", "edit"}
  /\ job.kind \in {"pay", "run"} =>
       /\ {"kind", "step", "due", "every"} \subseteq DOMAIN job
       /\ job.due \in Cycles /\ job.every \in Periods
  /\ job.kind = "pay" => job.step \in {"post", "roll"} /\ job.due <= LastMonth
  /\ job.kind = "run" =>
       /\ job.step \in {"cycle", "told", "alert", "spawn"}
       /\ job.today \in 1..LastMonth
       /\ job.step = "told" => job.due <= job.today
  /\ job.kind = "edit" => job.step = "write" /\ job.patch \in Patches

LEMMA TypesStay ==
  ASSUME BillersInv, NEW r \in Requests, NEW job, Goes(r, job), JobType(job)
  PROVE  JobTypes'
<1>1. DOMAIN asked' = Requests /\ asked'[r] = job /\ \A o \in Requests \ {r} : asked'[o] = asked[o]
  BY OneGoes
<1>2. \A o \in Requests \ {r} : JobType(asked'[o])
  BY <1>1 DEF BillersInv, BillerTypes, JobTypes, JobType
<1> QED
  BY <1>1, <1>2 DEF JobTypes, JobType

Grows(p, q) == \A c \in Cycles : p[c] # "no" => q[c] # "no"

LEMMA StillFits ==
  ASSUME BillersInv, Grows(paid, paid'), NEW d \in Cycles, Fits(d, since, biller.every, paid)
  PROVE  Fits(d, since, biller.every, paid')
<1>1. PICK start, every, p, q : start = since /\ every = biller.every /\ p = paid /\ q = paid'
  OBVIOUS
<1>2. start \in 1..(LastMonth + 3) /\ d \in 1..(LastMonth + 3) /\ LastMonth \in Nat
  BY <1>1, BillersAssumption DEF BillersInv, BillerTypes, Cycles
<1>3. \A c \in start..(d - 1) : p[c] # "no" => q[c] # "no"
  BY <1>1, <1>2 DEF Grows, Cycles
<1> QED
  BY <1>1, <1>2, <1>3, FitsMore

(* A request goes on; the due date stays, or moves past what is paid.      *)
LEMMA CycleStays ==
  ASSUME BillersInv, NEW r \in Requests, NEW job, Goes(r, job), UNCHANGED <<since, redated>>,
         biller' # Gone =>
           /\ biller # Gone /\ biller'.every = biller.every /\ biller'.due \in Cycles /\ Grows(paid, paid')
           /\ biller'.due = biller.due \/ (~redated => Fits(biller'.due, since, biller.every, paid))
           /\ ~redated /\ Moves(job) => Follows(job, since, biller.every, paid')
  PROVE  InCycle'
<1> SUFFICES ASSUME biller' # Gone, ~redated PROVE
      /\ Fits(biller'.due, since, biller.every, paid')
      /\ \A o \in Requests : Moves(asked'[o]) => Follows(asked'[o], since, biller.every, paid')
  BY DEF InCycle
<1>1. asked'[r] = job /\ \A o \in Requests \ {r} : asked'[o] = asked[o]
  BY OneGoes
<1>2. /\ biller # Gone /\ Grows(paid, paid') /\ Fits(biller'.due, since, biller.every, paid)
      /\ \A o \in Requests : Moves(asked[o]) => Follows(asked[o], since, biller.every, paid)
  BY DEF BillersInv, InCycle
<1>4. Fits(biller'.due, since, biller.every, paid')
  BY <1>2, StillFits
<1>5. ASSUME NEW o \in Requests, o # r, Moves(asked[o]) PROVE Follows(asked[o], since, biller.every, paid')
  <2>1. asked[o].due \in Cycles
    BY <1>5 DEF BillersInv, BillerTypes, JobTypes, Moves
  <2>2. Follows(asked[o], since, biller.every, paid)
    BY <1>2, <1>5
  <2> QED
    BY <1>2, <2>1, <2>2, StillFits DEF Follows, Grows
<1>6. Moves(job) => Follows(job, since, biller.every, paid')
  OBVIOUS
<1> QED
  BY <1>1, <1>4, <1>5, <1>6

(* The requests between two writes: charged and not told, told and not     *)
(* created.                                                                *)
Between(job) == job.kind = "run" /\ job.step \in {"told", "spawn"}

LEMMA AlertsStay ==
  ASSUME BillersInv, NEW r \in Requests, NEW job, Goes(r, job), ~Between(asked[r]), ~Between(job),
         UNCHANGED todo, dropped \subseteq dropped', alerts \subseteq alerts',
         biller' # Gone => biller # Gone,
         \A c \in Cycles : /\ paid'[c] = "auto" => paid[c] = "auto"
                           /\ <<"reminder_task", c>> \in alerts' => <<"reminder_task", c>> \in alerts
  PROVE  AlertsTell'
<1>1. asked'[r] = job /\ \A o \in Requests \ {r} : asked'[o] = asked[o]
  BY OneGoes
<1>2. \A o \in Requests, c \in Cycles :
        (OpenAt(o, "told", c)' <=> OpenAt(o, "told", c)) /\ (OpenAt(o, "spawn", c)' <=> OpenAt(o, "spawn", c))
  BY <1>1 DEF OpenAt, Does, Between
<1> QED
  BY <1>2 DEF BillersInv, AlertsTell, AlertTells, IsOpen, OpensOnce

LEMMA Resets == JobType(Resting) /\ ~Moves(Resting) /\ ~Between(Resting)
BY DEF Resting, JobType, Moves, Between

LEMMA StartPayKeeps ==
  ASSUME BillersInv, NEW r \in Requests, StartPay(r)
  PROVE  BillersInv'
<1>1. PICK posts, tool : Asks(r, [kind |-> "pay", step |-> "post", due |-> biller.due, every |-> biller.every,
                                  posts |-> posts, tool |-> tool])
  BY DEF StartPay
<1>2. PICK job : job = [kind |-> "pay", step |-> "post", due |-> biller.due, every |-> biller.every,
                        posts |-> posts, tool |-> tool]
  OBVIOUS
<1>3. /\ biller # Gone /\ biller.due <= LastMonth /\ asked[r] = Resting /\ Goes(r, job)
      /\ UNCHANGED <<biller, paid, alerts, todo, month, since, redated, dropped>>
  BY <1>1, <1>2 DEF StartPay, Asks, Same
<1>4. biller.due \in Cycles /\ biller.every \in Periods
  BY <1>3 DEF BillersInv, BillerTypes
<1>5. /\ job.kind = "pay" /\ job.step = "post" /\ job.due = biller.due /\ job.every = biller.every
      /\ {"kind", "step", "due", "every"} \subseteq DOMAIN job
  BY <1>2
<1>6. JobType(job) /\ ~Between(job)
  BY <1>3, <1>4, <1>5 DEF JobType, Between
<1>7. ~redated => Follows(job, since, biller.every, paid)
  BY <1>3, <1>5 DEF BillersInv, InCycle, Follows
<1>8. JobTypes'
  BY <1>3, <1>6, TypesStay
<1>9. InCycle'
  BY <1>3, <1>4, <1>7, CycleStays DEF Grows
<1>10. AlertsTell'
  BY <1>3, <1>6, AlertsStay, Resets
<1> QED
  BY <1>3, <1>8, <1>9, <1>10 DEF BillersInv, BillerTypes

LEMMA RecordPayKeeps ==
  ASSUME BillersInv, NEW r \in Requests, RecordPay(r)
  PROVE  BillersInv'
<1>1. PICK d : d = asked[r].due
  OBVIOUS
<1>2. /\ asked[r].kind = "pay" /\ asked[r].step = "post" /\ biller # Gone
      /\ paid' = (IF paid[d] = "no" THEN [paid EXCEPT ![d] = "user"] ELSE paid)
      /\ UNCHANGED <<biller, alerts, todo, month, since, redated, dropped>>
      /\ Goes(r, Resting) \/ Goes(r, [asked[r] EXCEPT !.step = "roll"])
  BY <1>1 DEF RecordPay, Posted, Finishes, Same, Does
<1>3. PICK job : Goes(r, job) /\ (job = Resting \/ job = [asked[r] EXCEPT !.step = "roll"])
  BY <1>2
<1>4. /\ {"kind", "step", "due", "every"} \subseteq DOMAIN asked[r] /\ d \in Cycles /\ asked[r].every \in Periods
      /\ d <= LastMonth /\ DOMAIN paid = Cycles
  BY <1>1, <1>2 DEF BillersInv, BillerTypes, JobTypes
<1>5. \/ job = Resting
      \/ /\ job.kind = "pay" /\ job.step = "roll" /\ job.due = d /\ job.every = asked[r].every
         /\ {"kind", "step", "due", "every"} \subseteq DOMAIN job
  BY <1>1, <1>2, <1>3, <1>4
<1>6. JobType(job) /\ ~Between(job) /\ ~Between(asked[r])
  BY <1>2, <1>4, <1>5, Resets DEF JobType, Between
<1>7. /\ DOMAIN paid' = Cycles /\ Grows(paid, paid') /\ paid'[d] # "no"
      /\ \A c \in Cycles : paid'[c] = "auto" => paid[c] = "auto"
  BY <1>2, <1>4 DEF Grows
<1>8. ASSUME ~redated PROVE Moves(job) => Follows(job, since, biller.every, paid')
  <2>1. Follows(asked[r], since, biller.every, paid)
    BY <1>2, <1>8 DEF BillersInv, InCycle, Moves
  <2>2. Fits(d, since, biller.every, paid')
    BY <1>1, <1>4, <1>7, <2>1, StillFits DEF Follows
  <2> QED
    BY <1>1, <1>5, <1>7, <2>1, <2>2, Resets DEF Follows
<1>9. JobTypes'
  BY <1>3, <1>6, TypesStay
<1>10. InCycle'
  BY <1>2, <1>3, <1>7, <1>8, CycleStays DEF BillersInv, BillerTypes
<1>11. AlertsTell'
  BY <1>2, <1>3, <1>6, <1>7, AlertsStay
<1> QED
  BY <1>2, <1>7, <1>9, <1>10, <1>11 DEF BillersInv, BillerTypes

(* The due date a payment rolls on to: a period past one that is paid.     *)
LEMMA NextFits ==
  ASSUME BillersInv, NEW d \in Cycles, biller # Gone, Fits(d, since, biller.every, paid), paid[d] # "no"
  PROVE  Fits(d + biller.every, since, biller.every, paid)
<1>1. PICK start, every, p : start = since /\ every = biller.every /\ p = paid
  OBVIOUS
<1>2. start \in Int /\ d \in Int /\ every \in 1..3
  <2>1. start \in Cycles /\ every \in Periods
    BY <1>1 DEF BillersInv, BillerTypes
  <2> QED
    BY <2>1, BillersAssumption DEF Cycles
<1> QED
  BY <1>1, <1>2, FitsNext

LEMMA RollPayKeeps ==
  ASSUME BillersInv, NEW r \in Requests, RollPay(r)
  PROVE  BillersInv'
<1>1. PICK d, every, step : d = asked[r].due /\ every = asked[r].every /\ step = PeriodOf(asked[r])
  OBVIOUS
<1>2. /\ asked[r].kind = "pay" /\ asked[r].step = "roll" /\ Goes(r, Resting)
      /\ biller' = (IF biller = Gone THEN Gone ELSE [biller EXCEPT !.due = d + step])
      /\ IF biller # Gone /\ step # every
         THEN since' = biller'.due /\ redated' = \E o \in Requests \ {r} : Moves(asked[o])
         ELSE UNCHANGED <<since, redated>>
      /\ UNCHANGED <<paid, alerts, todo, month, dropped>>
  BY <1>1 DEF RollPay, Finishes, Rolled, Does
<1>3. /\ d \in Cycles /\ every \in Periods /\ d <= LastMonth /\ step \in {1, every}
      /\ every \in 1..3 /\ LastMonth \in Nat
  BY <1>1, <1>2, BillersAssumption DEF BillersInv, BillerTypes, JobTypes, PeriodOf
<1>4. d + step \in Cycles
  BY <1>3 DEF Cycles
<1>5. ~Between(asked[r])
  BY <1>2 DEF Between
<1>6. JobTypes'
  BY <1>2, TypesStay, Resets
<1>7. biller' # Gone => /\ biller # Gone /\ DOMAIN biller' = BillerFields /\ biller'.due = d + step
                        /\ biller'.every = biller.every /\ biller.every \in Periods
  BY <1>2 DEF BillersInv, BillerTypes, BillerFields
<1>8. AlertsTell'
  BY <1>2, <1>5, <1>7, AlertsStay, Resets
<1>9. CASE biller = Gone
  BY <1>2, <1>6, <1>8, <1>9 DEF BillersInv, BillerTypes, InCycle
<1>10. CASE biller # Gone /\ step = every
  <2>1. ASSUME ~redated PROVE Fits(d + step, since, biller.every, paid)
    <3>1. Follows(asked[r], since, biller.every, paid)
      BY <1>2, <1>10, <2>1 DEF BillersInv, InCycle, Moves
    <3> QED
      BY <1>1, <1>2, <1>3, <1>10, <3>1, NextFits DEF Follows
  <2>2. UNCHANGED <<since, redated>> /\ Grows(paid, paid')
    BY <1>2, <1>10 DEF Grows
  <2>3. InCycle'
    BY <1>2, <1>4, <1>7, <2>1, <2>2, CycleStays, Resets
  <2> QED
    BY <1>2, <1>4, <1>6, <1>7, <1>8, <2>2, <2>3 DEF BillersInv, BillerTypes
<1>11. CASE biller # Gone /\ step # every
  <2>1. /\ since' = biller'.due
        /\ ~redated' => \A o \in Requests \ {r} : ~Moves(asked[o])
        /\ redated' \in BOOLEAN
    BY <1>2, <1>11
  <2>2. ~redated' => \A o \in Requests : ~Moves(asked'[o])
    BY <1>2, <2>1, OneGoes, Resets
  <2>3. biller' # Gone => Fits(biller'.due, biller'.due, biller'.every, paid')
    <3>1. PICK due, length, p : due = biller'.due /\ length = biller'.every /\ p = paid'
      OBVIOUS
    <3>2. ASSUME biller' # Gone PROVE due \in Int /\ length \in 1..3
      <4>1. due = d + step /\ length \in Periods
        BY <1>7, <3>1, <3>2
      <4> QED
        BY <1>3, <4>1, BillersAssumption DEF Cycles
    <3> QED
      BY <3>1, <3>2, FitsStart
  <2>4. InCycle'
    BY <2>1, <2>2, <2>3 DEF InCycle
  <2>5. since' \in Cycles
    BY <1>2, <1>4, <1>11, <2>1 DEF BillersInv, BillerTypes, BillerFields
  <2> QED
    BY <1>2, <1>4, <1>6, <1>7, <1>8, <2>1, <2>4, <2>5 DEF BillersInv, BillerTypes
<1> QED
  BY <1>9, <1>10, <1>11

LEMMA StartPassKeeps ==
  ASSUME BillersInv, NEW r \in Requests, StartPass(r)
  PROVE  BillersInv'
<1>1. PICK job : job = [kind |-> "run", step |-> IF biller.auto THEN "cycle" ELSE "alert", due |-> biller.due,
                        every |-> biller.every, task |-> biller.task, today |-> month]
  OBVIOUS
<1>2. /\ biller # Gone /\ asked[r] = Resting /\ Goes(r, job)
      /\ UNCHANGED <<biller, paid, alerts, todo, month, since, redated, dropped>>
  BY <1>1 DEF StartPass, Asks, Same
<1>3. biller.due \in Cycles /\ biller.every \in Periods /\ month \in 1..LastMonth
  BY <1>2 DEF BillersInv, BillerTypes
<1>4. /\ job.kind = "run" /\ job.step \in {"cycle", "alert"} /\ job.due = biller.due /\ job.every = biller.every
      /\ job.today = month /\ {"kind", "step", "due", "every"} \subseteq DOMAIN job
  BY <1>1
<1>5. JobType(job) /\ ~Between(job)
  BY <1>3, <1>4 DEF JobType, Between
<1>6. ~redated => Follows(job, since, biller.every, paid)
  BY <1>2, <1>4 DEF BillersInv, InCycle, Follows
<1>7. JobTypes'
  BY <1>2, <1>5, TypesStay
<1>8. InCycle'
  BY <1>2, <1>3, <1>6, CycleStays DEF Grows
<1>9. AlertsTell'
  BY <1>2, <1>5, AlertsStay, Resets
<1> QED
  BY <1>2, <1>7, <1>8, <1>9 DEF BillersInv, BillerTypes

LEMMA RollPassKeeps ==
  ASSUME BillersInv, NEW r \in Requests, RollPass(r)
  PROVE  BillersInv'
<1>1. PICK d : d = asked[r].due
  OBVIOUS
<1>2. /\ asked[r].kind = "run" /\ asked[r].step = "cycle" /\ Goes(r, Resting)
      /\ biller' = (IF biller = Gone THEN Gone ELSE [biller EXCEPT !.due = d])
      /\ UNCHANGED <<paid, alerts, todo, month, since, redated, dropped>>
  BY <1>1 DEF RollPass, Finishes, Rolled, Same, Does
<1>3. d \in Cycles /\ ~Between(asked[r])
  BY <1>1, <1>2 DEF BillersInv, BillerTypes, JobTypes, Between
<1>4. biller' # Gone => /\ biller # Gone /\ DOMAIN biller' = BillerFields /\ biller'.due = d
                        /\ biller'.every = biller.every /\ biller.every \in Periods
  BY <1>2 DEF BillersInv, BillerTypes, BillerFields
<1>5. ASSUME ~redated, biller # Gone PROVE Fits(d, since, biller.every, paid)
  BY <1>1, <1>2, <1>5 DEF BillersInv, InCycle, Moves, Follows
<1>6. JobTypes'
  BY <1>2, TypesStay, Resets
<1>7. InCycle'
  BY <1>2, <1>3, <1>4, <1>5, CycleStays, Resets DEF Grows
<1>8. AlertsTell'
  BY <1>2, <1>3, <1>4, AlertsStay, Resets
<1> QED
  BY <1>2, <1>3, <1>4, <1>6, <1>7, <1>8 DEF BillersInv, BillerTypes

(* What is recorded for a cycle stays recorded, whoever records it.        *)
LEMMA PostCycleKeeps ==
  ASSUME BillersInv, NEW r \in Requests, PostCycle(r)
  PROVE  BillersInv'
<1>1. PICK d, job : /\ d = asked[r].due
                    /\ job = IF paid[d] = "no" THEN [asked[r] EXCEPT !.step = "told"]
                             ELSE [asked[r] EXCEPT !.due = d + asked[r].every]
  OBVIOUS
<1>2. /\ asked[r].kind = "run" /\ asked[r].step = "cycle" /\ d <= asked[r].today /\ biller # Gone
      /\ paid' = (IF paid[d] = "no" THEN [paid EXCEPT ![d] = "auto"] ELSE paid) /\ Goes(r, job)
      /\ UNCHANGED <<biller, alerts, todo, month, since, redated, dropped>>
  BY <1>1 DEF PostCycle, Posted, Same, Does
<1>3. /\ {"kind", "step", "due", "every"} \subseteq DOMAIN asked[r] /\ d \in Cycles /\ asked[r].every \in Periods
      /\ asked[r].today \in 1..LastMonth /\ DOMAIN paid = Cycles
  BY <1>1, <1>2 DEF BillersInv, BillerTypes, JobTypes
<1>4. /\ job.kind = "run" /\ job.every = asked[r].every /\ job.today = asked[r].today
      /\ {"kind", "step", "due", "every"} \subseteq DOMAIN job
      /\ paid[d] = "no" => job.step = "told" /\ job.due = d
      /\ paid[d] # "no" => job.step = "cycle" /\ job.due = d + asked[r].every
  BY <1>1, <1>2, <1>3
<1>5. d + asked[r].every \in Cycles
  <2>1. PICK today, every : today = asked[r].today /\ every = asked[r].every
    OBVIOUS
  <2>2. /\ d \in 1..(LastMonth + 3) /\ today \in 1..LastMonth /\ d <= today /\ every \in 1..3 /\ LastMonth \in Nat
    BY <1>2, <1>3, <2>1, BillersAssumption DEF Cycles
  <2> QED
    BY <2>1, <2>2 DEF Cycles
<1>6. JobType(job) /\ ~Between(asked[r])
  BY <1>2, <1>3, <1>4, <1>5 DEF JobType, Between
<1>7. /\ DOMAIN paid' = Cycles /\ Grows(paid, paid') /\ paid'[d] # "no"
      /\ \A c \in Cycles \ {d} : paid'[c] = paid[c]
      /\ paid[d] # "no" => paid' = paid
  BY <1>2, <1>3 DEF Grows
<1>8. ASSUME ~redated PROVE Follows(job, since, biller.every, paid')
  <2>1. Follows(asked[r], since, biller.every, paid)
    BY <1>2, <1>8 DEF BillersInv, InCycle, Moves
  <2>2. CASE paid[d] = "no"
    <3>1. Fits(d, since, biller.every, paid')
      BY <1>1, <1>3, <1>7, <2>1, StillFits DEF Follows
    <3> QED
      BY <1>4, <1>7, <2>1, <2>2, <3>1 DEF Follows
  <2>3. CASE paid[d] # "no"
    <3>1. Fits(d + biller.every, since, biller.every, paid)
      BY <1>1, <1>2, <1>3, <2>1, <2>3, NextFits DEF Follows
    <3> QED
      BY <1>4, <1>7, <2>1, <2>3, <3>1 DEF Follows
  <2> QED
    BY <2>2, <2>3
<1>9. JobTypes'
  BY <1>2, <1>6, TypesStay
<1>10. InCycle'
  BY <1>2, <1>7, <1>8, CycleStays DEF BillersInv, BillerTypes
<1>11. AlertsTell'
  <2>1. CASE paid[d] # "no"
    <3>1. ~Between(job) /\ paid' = paid
      BY <1>4, <1>7, <2>1 DEF Between
    <3> QED
      BY <1>2, <1>6, <3>1, AlertsStay
  <2>2. CASE paid[d] = "no"
    <3>1. asked'[r] = job /\ \A o \in Requests \ {r} : asked'[o] = asked[o]
      BY <1>2, OneGoes
    <3>2. OpenAt(r, "told", d)' /\ \A c \in Cycles : ~OpenAt(r, "spawn", c)' /\ ~OpenAt(r, "spawn", c) /\ ~OpenAt(r, "told", c)
      BY <1>2, <1>4, <2>2, <3>1 DEF OpenAt, Does
    <3>3. \A o \in Requests \ {r}, c \in Cycles :
            (OpenAt(o, "told", c)' <=> OpenAt(o, "told", c)) /\ (OpenAt(o, "spawn", c)' <=> OpenAt(o, "spawn", c))
      BY <3>1 DEF OpenAt, Does
    <3>4. ASSUME NEW c \in Cycles PROVE AlertTells(c)'
      <4>1. AlertTells(c)
        BY <1>2 DEF BillersInv, AlertsTell
      <4>2. /\ IsOpen("spawn", c)' <=> IsOpen("spawn", c)
            /\ OpensOnce(c) => OpensOnce(c)'
            /\ IsOpen("told", c)' <=> c = d \/ IsOpen("told", c)
        BY <3>2, <3>3, <1>1, <1>4, <2>2, <3>1 DEF IsOpen, OpensOnce, OpenAt
      <4> QED
        BY <1>2, <1>7, <4>1, <4>2 DEF AlertTells
    <3> QED
      BY <3>4 DEF AlertsTell
  <2> QED
    BY <2>1, <2>2
<1> QED
  BY <1>2, <1>7, <1>9, <1>10, <1>11 DEF BillersInv, BillerTypes

LEMMA TellCycleKeeps ==
  ASSUME BillersInv, NEW r \in Requests, TellCycle(r)
  PROVE  BillersInv'
<1>1. PICK d, job : d = asked[r].due /\ job = [asked[r] EXCEPT !.step = "cycle", !.due = d + asked[r].every]
  OBVIOUS
<1>2. /\ asked[r].kind = "run" /\ asked[r].step = "told" /\ biller # Gone
      /\ alerts' = alerts \cup {<<"auto_paid", d>>} /\ Goes(r, job)
      /\ UNCHANGED <<biller, paid, todo, month, since, redated, dropped>>
  BY <1>1 DEF TellCycle, Same, Does
<1>3. /\ {"kind", "step", "due", "every"} \subseteq DOMAIN asked[r] /\ d \in Cycles /\ asked[r].every \in Periods
      /\ asked[r].today \in 1..LastMonth /\ d <= asked[r].today
  BY <1>1, <1>2 DEF BillersInv, BillerTypes, JobTypes
<1>4. /\ job.kind = "run" /\ job.step = "cycle" /\ job.every = asked[r].every /\ job.today = asked[r].today
      /\ job.due = d + asked[r].every /\ {"kind", "step", "due", "every"} \subseteq DOMAIN job
  BY <1>1, <1>2, <1>3
<1>5. d + asked[r].every \in Cycles
  <2>1. PICK today, every : today = asked[r].today /\ every = asked[r].every
    OBVIOUS
  <2>2. /\ d \in 1..(LastMonth + 3) /\ today \in 1..LastMonth /\ d <= today /\ every \in 1..3 /\ LastMonth \in Nat
    BY <1>2, <1>3, <2>1, BillersAssumption DEF Cycles
  <2> QED
    BY <2>1, <2>2 DEF Cycles
<1>6. JobType(job)
  BY <1>3, <1>4, <1>5 DEF JobType
<1>7. ASSUME ~redated PROVE Follows(job, since, biller.every, paid)
  <2>1. Follows(asked[r], since, biller.every, paid) /\ paid[d] # "no"
    BY <1>1, <1>2, <1>7 DEF BillersInv, InCycle, Moves, Follows
  <2>2. Fits(d + biller.every, since, biller.every, paid)
    BY <1>1, <1>2, <1>3, <2>1, NextFits DEF Follows
  <2> QED
    BY <1>4, <2>1, <2>2 DEF Follows
<1>8. JobTypes'
  BY <1>2, <1>6, TypesStay
<1>9. InCycle'
  BY <1>2, <1>7, CycleStays DEF Grows, BillersInv, BillerTypes
<1>10. AlertsTell'
  <2>1. asked'[r] = job /\ \A o \in Requests \ {r} : asked'[o] = asked[o]
    BY <1>2, OneGoes
  <2>2. \A c \in Cycles : /\ ~OpenAt(r, "spawn", c)' /\ ~OpenAt(r, "spawn", c) /\ ~OpenAt(r, "told", c)'
                          /\ OpenAt(r, "told", c) => c = d
    BY <1>1, <1>2, <1>4, <2>1 DEF OpenAt, Does
  <2>3. \A o \in Requests \ {r}, c \in Cycles :
          (OpenAt(o, "told", c)' <=> OpenAt(o, "told", c)) /\ (OpenAt(o, "spawn", c)' <=> OpenAt(o, "spawn", c))
    BY <2>1 DEF OpenAt, Does
  <2>4. \A c \in Cycles : (<<"reminder_task", c>> \in alerts' <=> <<"reminder_task", c>> \in alerts)
                          /\ (<<"auto_paid", c>> \in alerts => <<"auto_paid", c>> \in alerts')
                          /\ <<"auto_paid", d>> \in alerts'
    BY <1>2
  <2>5. ASSUME NEW c \in Cycles PROVE AlertTells(c)'
    <3>1. AlertTells(c)
      BY <1>2 DEF BillersInv, AlertsTell
    <3>2. /\ IsOpen("spawn", c)' <=> IsOpen("spawn", c)
          /\ OpensOnce(c) => OpensOnce(c)'
          /\ IsOpen("told", c) => c = d \/ IsOpen("told", c)'
      BY <2>2, <2>3 DEF IsOpen, OpensOnce
    <3> QED
      BY <1>2, <2>4, <3>1, <3>2 DEF AlertTells
  <2> QED
    BY <2>5 DEF AlertsTell
<1> QED
  BY <1>2, <1>8, <1>9, <1>10 DEF BillersInv, BillerTypes

LEMMA RemindKeeps ==
  ASSUME BillersInv, NEW r \in Requests, Remind(r)
  PROVE  BillersInv'
<1>1. PICK d, job, alert :
        /\ d = asked[r].due /\ alert = <<IF asked[r].task THEN "reminder_task" ELSE "upcoming", d>>
        /\ job = IF asked[r].task /\ alert \notin alerts THEN [asked[r] EXCEPT !.step = "spawn"] ELSE Resting
  OBVIOUS
<1>2. /\ asked[r].kind = "run" /\ asked[r].step = "alert" /\ biller # Gone
      /\ alerts' = alerts \cup {alert} /\ Goes(r, job)
      /\ UNCHANGED <<biller, paid, todo, month, since, redated, dropped>>
  BY <1>1 DEF Remind, Same, Does, Finishes
<1>3. /\ {"kind", "step", "due", "every"} \subseteq DOMAIN asked[r] /\ d \in Cycles /\ asked[r].every \in Periods
      /\ asked[r].today \in 1..LastMonth
  BY <1>1, <1>2 DEF BillersInv, BillerTypes, JobTypes
<1>4. \/ /\ alert = <<"reminder_task", d>> /\ alert \notin alerts
         /\ job.kind = "run" /\ job.step = "spawn" /\ job.due = d
         /\ job.every = asked[r].every /\ job.today = asked[r].today
         /\ {"kind", "step", "due", "every"} \subseteq DOMAIN job
      \/ job = Resting /\ (alert = <<"upcoming", d>> \/ alert \in alerts)
  <2>1. CASE asked[r].task /\ alert \notin alerts
    BY <1>1, <1>2, <1>3, <2>1
  <2>2. CASE ~(asked[r].task /\ alert \notin alerts)
    BY <1>1, <2>2
  <2> QED
    BY <2>1, <2>2
<1>5. JobType(job) /\ ~Moves(job) /\ ~Between(asked[r])
  BY <1>2, <1>3, <1>4, Resets DEF JobType, Moves, Between
<1>6. JobTypes'
  BY <1>2, <1>5, TypesStay
<1>7. InCycle'
  BY <1>2, <1>5, CycleStays DEF Grows, BillersInv, BillerTypes
<1>8. AlertsTell'
  <2>1. CASE job = Resting
    <3>1. alerts \subseteq alerts' /\ \A c \in Cycles : <<"reminder_task", c>> \in alerts' => <<"reminder_task", c>> \in alerts
      <4>1. CASE alert = <<"upcoming", d>>
        BY <1>2, <4>1
      <4>2. CASE alert \in alerts
        BY <1>2, <4>2
      <4>3. job # Resting \/ alert = <<"upcoming", d>> \/ alert \in alerts
        BY <1>4, Resets DEF Between
      <4> QED
        BY <2>1, <4>1, <4>2, <4>3
    <3> QED
      BY <1>2, <1>5, <2>1, <3>1, AlertsStay, Resets
  <2>2. CASE job # Resting
    <3>1. asked'[r] = job /\ \A o \in Requests \ {r} : asked'[o] = asked[o]
      BY <1>2, OneGoes
    <3>2. \A c \in Cycles : /\ ~OpenAt(r, "told", c)' /\ ~OpenAt(r, "told", c) /\ ~OpenAt(r, "spawn", c)
                            /\ OpenAt(r, "spawn", c)' <=> c = d
      BY <1>2, <1>4, <2>2, <3>1 DEF OpenAt, Does
    <3>3. \A o \in Requests \ {r}, c \in Cycles :
            (OpenAt(o, "told", c)' <=> OpenAt(o, "told", c)) /\ (OpenAt(o, "spawn", c)' <=> OpenAt(o, "spawn", c))
      BY <3>1 DEF OpenAt, Does
    <3>4. /\ <<"reminder_task", d>> \notin alerts /\ <<"reminder_task", d>> \in alerts'
          /\ \A c \in Cycles \ {d} : <<"reminder_task", c>> \in alerts' <=> <<"reminder_task", c>> \in alerts
          /\ \A c \in Cycles : <<"auto_paid", c>> \in alerts => <<"auto_paid", c>> \in alerts'
      BY <1>2, <1>4, <2>2
    <3>5. ASSUME NEW c \in Cycles PROVE AlertTells(c)'
      <4>1. AlertTells(c)
        BY <1>2 DEF BillersInv, AlertsTell
      <4>2. IsOpen("told", c)' <=> IsOpen("told", c)
        BY <3>2, <3>3 DEF IsOpen
      <4>3. CASE c # d
        <5>1. (IsOpen("spawn", c)' <=> IsOpen("spawn", c)) /\ (OpensOnce(c) => OpensOnce(c)')
          BY <3>2, <3>3, <4>3 DEF IsOpen, OpensOnce
        <5> QED
          BY <1>2, <3>4, <4>1, <4>2, <4>3, <5>1 DEF AlertTells
      <4>4. CASE c = d
        <5>1. ~IsOpen("spawn", c) /\ todo[c] = 0
          BY <3>4, <4>1, <4>4 DEF AlertTells
        <5>2. \A o \in Requests : OpenAt(o, "spawn", c)' => o = r
          BY <3>3, <5>1 DEF IsOpen
        <5>3. IsOpen("spawn", c)' /\ OpensOnce(c)'
          BY <3>2, <4>4, <5>2 DEF IsOpen, OpensOnce
        <5> QED
          BY <1>2, <3>4, <4>1, <4>2, <4>4, <5>1, <5>3 DEF AlertTells
      <4> QED
        BY <4>3, <4>4
    <3> QED
      BY <3>5 DEF AlertsTell
  <2> QED
    BY <2>1, <2>2
<1> QED
  BY <1>2, <1>6, <1>7, <1>8 DEF BillersInv, BillerTypes

LEMMA SpawnKeeps ==
  ASSUME BillersInv, NEW r \in Requests, SpawnBillerTask(r)
  PROVE  BillersInv'
<1>1. PICK d : d = asked[r].due
  OBVIOUS
<1>2. /\ asked[r].kind = "run" /\ asked[r].step = "spawn" /\ todo' = [todo EXCEPT ![d] = @ + 1] /\ Goes(r, Resting)
      /\ UNCHANGED <<biller, paid, alerts, month, since, redated, dropped>>
  BY <1>1 DEF SpawnBillerTask, Same, Does, Finishes
<1>3. d \in Cycles /\ DOMAIN todo = Cycles
  BY <1>1, <1>2 DEF BillersInv, BillerTypes, JobTypes
<1>4. DOMAIN todo' = Cycles /\ todo'[d] = todo[d] + 1 /\ \A c \in Cycles \ {d} : todo'[c] = todo[c]
  BY <1>2, <1>3
<1>5. JobTypes'
  BY <1>2, TypesStay, Resets
<1>6. InCycle'
  BY <1>2, CycleStays, Resets DEF Grows, BillersInv, BillerTypes
<1>7. ASSUME biller' # Gone, NEW c \in Cycles PROVE AlertTells(c)'
  <2>1. asked'[r] = Resting /\ \A o \in Requests \ {r} : asked'[o] = asked[o]
    BY <1>2, OneGoes
  <2>2. /\ ~OpenAt(r, "told", c)' /\ ~OpenAt(r, "told", c) /\ ~OpenAt(r, "spawn", c)'
        /\ OpenAt(r, "spawn", c) <=> c = d
    BY <1>1, <1>2, <2>1 DEF OpenAt, Does, Resting
  <2>3. \A o \in Requests \ {r} :
          (OpenAt(o, "told", c)' <=> OpenAt(o, "told", c)) /\ (OpenAt(o, "spawn", c)' <=> OpenAt(o, "spawn", c))
    BY <2>1 DEF OpenAt, Does
  <2>4. AlertTells(c)
    BY <1>2, <1>7 DEF BillersInv, AlertsTell
  <2>5. (IsOpen("told", c)' <=> IsOpen("told", c)) /\ (OpensOnce(c) => OpensOnce(c)')
    BY <2>2, <2>3 DEF IsOpen, OpensOnce
  <2>6. CASE c # d
    <3>1. IsOpen("spawn", c)' <=> IsOpen("spawn", c)
      BY <2>2, <2>3, <2>6 DEF IsOpen
    <3> QED
      BY <1>2, <1>4, <2>4, <2>5, <2>6, <3>1 DEF AlertTells
  <2>7. CASE c = d
    <3>1. IsOpen("spawn", c) /\ OpensOnce(c)
      BY <2>2, <2>4, <2>7 DEF IsOpen, AlertTells
    <3>2. \A o \in Requests \ {r} : ~OpenAt(o, "spawn", c)
      BY <2>2, <2>7, <3>1 DEF OpensOnce
    <3>3. ~IsOpen("spawn", c)'
      BY <2>2, <2>3, <3>2 DEF IsOpen
    <3>4. todo'[c] = 1
      BY <1>4, <2>4, <2>7, <3>1 DEF AlertTells
    <3> QED
      BY <1>2, <2>4, <2>5, <3>1, <3>3, <3>4 DEF AlertTells
  <2> QED
    BY <2>6, <2>7
<1> QED
  BY <1>2, <1>4, <1>5, <1>6, <1>7 DEF BillersInv, BillerTypes, AlertsTell

LEMMA DieKeeps ==
  ASSUME BillersInv, NEW r \in Requests, Die(r)
  PROVE  BillersInv'
<1>1. /\ dropped' = (IF asked[r].step \in {"told", "spawn"} THEN dropped \cup {asked[r].due} ELSE dropped)
      /\ Goes(r, Resting) /\ UNCHANGED <<biller, paid, alerts, todo, month, since, redated>>
  BY DEF Die, Finishes
<1>2. JobTypes'
  BY <1>1, TypesStay, Resets
<1>3. InCycle'
  BY <1>1, CycleStays, Resets DEF Grows, BillersInv, BillerTypes
<1>4. ASSUME biller' # Gone, NEW c \in Cycles PROVE AlertTells(c)'
  <2>1. asked'[r] = Resting /\ \A o \in Requests \ {r} : asked'[o] = asked[o]
    BY <1>1, OneGoes
  <2>2. /\ ~OpenAt(r, "told", c)' /\ ~OpenAt(r, "spawn", c)'
        /\ OpenAt(r, "told", c) \/ OpenAt(r, "spawn", c) => c \in dropped'
    BY <1>1, <2>1 DEF OpenAt, Does, Resting
  <2>3. \A o \in Requests \ {r} :
          (OpenAt(o, "told", c)' <=> OpenAt(o, "told", c)) /\ (OpenAt(o, "spawn", c)' <=> OpenAt(o, "spawn", c))
    BY <2>1 DEF OpenAt, Does
  <2>4. AlertTells(c)
    BY <1>1, <1>4 DEF BillersInv, AlertsTell
  <2>5. /\ IsOpen("told", c) => IsOpen("told", c)' \/ c \in dropped'
        /\ IsOpen("spawn", c) => IsOpen("spawn", c)' \/ c \in dropped'
        /\ IsOpen("spawn", c)' => IsOpen("spawn", c)
        /\ OpensOnce(c) => OpensOnce(c)'
    BY <2>2, <2>3 DEF IsOpen, OpensOnce
  <2>6. c \in dropped => c \in dropped'
    BY <1>1
  <2> QED
    BY <1>1, <2>4, <2>5, <2>6 DEF AlertTells
<1> QED
  BY <1>1, <1>2, <1>3, <1>4 DEF BillersInv, BillerTypes, AlertsTell

LEMMA StartEditKeeps ==
  ASSUME BillersInv, NEW r \in Requests, StartEdit(r)
  PROVE  BillersInv'
<1>1. PICK patch \in Patches :
        Asks(r, [kind |-> "edit", step |-> "write", patch |-> patch,
                 bill |-> "bill" = IF patch.field = "kind" THEN patch.value ELSE biller.kind])
  BY DEF StartEdit
<1>2. PICK job : job = [kind |-> "edit", step |-> "write", patch |-> patch,
                        bill |-> "bill" = IF patch.field = "kind" THEN patch.value ELSE biller.kind]
  OBVIOUS
<1>3. /\ asked[r] = Resting /\ Goes(r, job)
      /\ UNCHANGED <<biller, paid, alerts, todo, month, since, redated, dropped>>
  BY <1>1, <1>2 DEF StartEdit, Asks, Same
<1>4. job.kind = "edit" /\ job.step = "write" /\ job.patch \in Patches
  BY <1>2
<1>5. JobType(job) /\ ~Moves(job) /\ ~Between(job)
  BY <1>4 DEF JobType, Moves, Between
<1>6. JobTypes'
  BY <1>3, <1>5, TypesStay
<1>7. InCycle'
  BY <1>3, <1>5, CycleStays DEF Grows, BillersInv, BillerTypes
<1>8. AlertsTell'
  BY <1>3, <1>5, AlertsStay, Resets
<1> QED
  BY <1>3, <1>6, <1>7, <1>8 DEF BillersInv, BillerTypes

(* What an edit writes: a date or a period that fits, or neither.          *)
LEMMA WrittenRow ==
  ASSUME NEW row, NEW edit, DOMAIN row = BillerFields, edit.patch \in Patches,
         row.due \in Cycles, row.every \in Periods
  PROVE  /\ DOMAIN Written(row, edit) = BillerFields
         /\ Written(row, edit).due \in Cycles /\ Written(row, edit).every \in Periods
         /\ edit.patch.field \notin {"due", "every"} =>
              Written(row, edit).due = row.due /\ Written(row, edit).every = row.every
<1>1. PICK field, value : field = edit.patch.field /\ value = edit.patch.value
  OBVIOUS
<1>2. /\ field \in BillerFields
      /\ field = "due" => value \in Cycles
      /\ field = "every" => value \in Periods
  BY <1>1, BillersAssumption DEF Patches, BillerFields, Cycles
<1>3. PICK new : new = [row EXCEPT ![field] = value]
  OBVIOUS
<1>4. /\ DOMAIN new = BillerFields
      /\ new.due = (IF field = "due" THEN value ELSE row.due)
      /\ new.every = (IF field = "every" THEN value ELSE row.every)
  BY <1>2, <1>3 DEF BillerFields
<1>5. Written(row, edit) = new \/ Written(row, edit) = [new EXCEPT !.auto = FALSE]
  BY <1>1, <1>3 DEF Written
<1>6. /\ DOMAIN Written(row, edit) = BillerFields
      /\ Written(row, edit).due = new.due /\ Written(row, edit).every = new.every
  BY <1>4, <1>5 DEF BillerFields
<1> QED
  BY <1>1, <1>2, <1>4, <1>6

(* An edit of the date starts the count anew; a request that is about to   *)
(* write the date over it is what redated tells of.                        *)
LEMMA UpdateBillerKeeps ==
  ASSUME BillersInv, NEW r \in Requests, UpdateBiller(r)
  PROVE  BillersInv'
<1>1. PICK field : field = asked[r].patch.field
  OBVIOUS
<1>2. /\ asked[r].kind = "edit" /\ asked[r].step = "write" /\ biller # Gone
      /\ biller' = Written(biller, asked[r]) /\ Goes(r, Resting)
      /\ since' = (IF field \in {"due", "every"} THEN biller'.due ELSE since)
      /\ redated' = (IF field \in {"due", "every"} THEN \E o \in Requests : Moves(asked[o]) ELSE redated)
      /\ UNCHANGED <<paid, alerts, todo, month, dropped>>
  BY <1>1 DEF UpdateBiller, Does, Finishes
<1>3. asked[r].patch \in Patches
  BY <1>2 DEF BillersInv, BillerTypes, JobTypes
<1>4. /\ DOMAIN biller' = BillerFields /\ biller'.due \in Cycles /\ biller'.every \in Periods
      /\ field \notin {"due", "every"} => biller'.due = biller.due /\ biller'.every = biller.every
  BY <1>1, <1>2, <1>3, WrittenRow DEF BillersInv, BillerTypes
<1>5. JobTypes'
  BY <1>2, TypesStay, Resets
<1>6. AlertsTell'
  BY <1>2, AlertsStay, Resets DEF Between
<1>7. CASE field \notin {"due", "every"}
  <2>1. UNCHANGED <<since, redated>> /\ Grows(paid, paid')
    BY <1>2, <1>7 DEF Grows
  <2>2. InCycle'
    BY <1>2, <1>4, <1>7, <2>1, CycleStays, Resets
  <2> QED
    BY <1>2, <1>4, <1>5, <1>6, <2>1, <2>2 DEF BillersInv, BillerTypes
<1>8. CASE field \in {"due", "every"}
  <2>1. since' = biller'.due /\ redated' \in BOOLEAN /\ (~redated' => \A o \in Requests : ~Moves(asked[o]))
    BY <1>2, <1>8
  <2>2. ~redated' => \A o \in Requests : ~Moves(asked'[o])
    BY <1>2, <2>1, OneGoes, Resets
  <2>3. Fits(biller'.due, biller'.due, biller'.every, paid')
    <3>1. PICK due, length, p : due = biller'.due /\ length = biller'.every /\ p = paid'
      OBVIOUS
    <3>2. due \in Int /\ length \in 1..3
      <4>1. due \in Cycles /\ length \in Periods
        BY <1>4, <3>1
      <4> QED
        BY <4>1, BillersAssumption DEF Cycles
    <3> QED
      BY <3>1, <3>2, FitsStart
  <2>4. InCycle'
    BY <2>1, <2>2, <2>3 DEF InCycle
  <2> QED
    BY <1>2, <1>4, <1>5, <1>6, <2>1, <2>4 DEF BillersInv, BillerTypes
<1> QED
  BY <1>7, <1>8

(* Nothing is asked: the rows stay, or the biller goes, or only its        *)
(* account.                                                                *)
LEMMA ApartKeeps ==
  ASSUME BillersInv, UNCHANGED <<asked, todo, since, redated, dropped>>, month' \in 1..LastMonth, DOMAIN paid' = Cycles,
         biller' # Gone =>
           /\ biller # Gone /\ DOMAIN biller' = BillerFields /\ biller'.due = biller.due /\ biller'.every = biller.every
           /\ UNCHANGED <<paid, alerts>>
  PROVE  BillersInv'
<1>1. JobTypes'
  BY DEF BillersInv, BillerTypes, JobTypes
<1>2. BillerTypes'
  BY <1>1 DEF BillersInv, BillerTypes
<1>3. InCycle'
  BY DEF BillersInv, InCycle, Moves
<1>4. AlertsTell'
  <2>1. ASSUME biller' # Gone, NEW c \in Cycles PROVE AlertTells(c)'
    <3>1. AlertTells(c) /\ UNCHANGED <<paid, alerts>>
      BY <2>1 DEF BillersInv, AlertsTell
    <3>2. \A o \in Requests : (OpenAt(o, "told", c)' <=> OpenAt(o, "told", c))
                              /\ (OpenAt(o, "spawn", c)' <=> OpenAt(o, "spawn", c))
      BY DEF OpenAt, Does
    <3> QED
      BY <3>1, <3>2 DEF AlertTells, IsOpen, OpensOnce
  <2> QED
    BY <2>1 DEF AlertsTell
<1> QED
  BY <1>2, <1>3, <1>4 DEF BillersInv

LEMMA BillersInvNext == BillersInv /\ [BillersNext]_billerVars => BillersInv'
<1> SUFFICES ASSUME BillersInv, [BillersNext]_billerVars PROVE BillersInv'
  OBVIOUS
<1>1. ASSUME NEW r \in Requests, StartPay(r) \/ RecordPay(r) \/ RollPay(r) PROVE BillersInv'
  BY <1>1, StartPayKeeps, RecordPayKeeps, RollPayKeeps
<1>2. ASSUME NEW r \in Requests, StartPass(r) \/ PostCycle(r) \/ TellCycle(r) \/ RollPass(r) PROVE BillersInv'
  BY <1>2, StartPassKeeps, PostCycleKeeps, TellCycleKeeps, RollPassKeeps
<1>3. ASSUME NEW r \in Requests, Remind(r) \/ SpawnBillerTask(r) \/ Die(r) PROVE BillersInv'
  BY <1>3, RemindKeeps, SpawnKeeps, DieKeeps
<1>4. ASSUME NEW r \in Requests, StartEdit(r) \/ UpdateBiller(r) PROVE BillersInv'
  BY <1>4, StartEditKeeps, UpdateBillerKeeps
<1>5. CASE DeleteBiller
  <2>1. /\ UNCHANGED <<asked, todo, since, redated, dropped, month>> /\ DOMAIN paid' = Cycles /\ biller' = Gone
    BY <1>5 DEF DeleteBiller, Same
  <2> QED
    BY <2>1, ApartKeeps DEF BillersInv, BillerTypes
<1>6. CASE DeleteAccount
  <2>1. /\ UNCHANGED <<asked, todo, since, redated, dropped, month, paid, alerts>>
        /\ biller' = (IF biller = Gone THEN Gone ELSE [biller EXCEPT !.account = FALSE])
    BY <1>6 DEF DeleteAccount
  <2>2. biller' # Gone => /\ biller # Gone /\ DOMAIN biller' = BillerFields
                          /\ biller'.due = biller.due /\ biller'.every = biller.every
    BY <2>1 DEF BillersInv, BillerTypes, BillerFields
  <2> QED
    BY <2>1, <2>2, ApartKeeps DEF BillersInv, BillerTypes
<1>7. CASE NextMonth
  <2>1. /\ UNCHANGED <<asked, todo, since, redated, dropped, paid, alerts, biller>> /\ month' \in 1..LastMonth
    BY <1>7, BillersAssumption DEF NextMonth, BillersInv, BillerTypes
  <2> QED
    BY <2>1, ApartKeeps DEF BillersInv, BillerTypes
<1>8. CASE UNCHANGED billerVars
  BY <1>8, ApartKeeps DEF billerVars, BillersInv, BillerTypes
<1> QED
  BY <1>1, <1>2, <1>3, <1>4, <1>5, <1>6, <1>7, <1>8 DEF BillersNext

(* However payments by hand, the assistant's and runs of the job overlap,  *)
(* no cycle is passed over, an automatic charge is told, and a reminder    *)
(* becomes one task, for any number of requests, months and crashes        *)
(* (api/billers.go, ai/tools_billers.go).                                  *)
THEOREM BillersTellCycles == BillersSpec => []CyclesTold
<1>1. ASSUME BillersInv PROVE CyclesTold
  <2>1. CyclesAccounted
    BY <1>1 DEF BillersInv, InCycle, Fits, CyclesAccounted
  <2>2. ASSUME biller # Gone, NEW c \in Cycles \ dropped
        PROVE  LET open(step) == \E r \in Requests : Does(r, "run", step) /\ asked[r].due = c
               IN /\ paid[c] = "auto" /\ ~open("told") => <<"auto_paid", c>> \in alerts
                  /\ <<"reminder_task", c>> \in alerts /\ ~open("spawn") => todo[c] = 1
    <3>1. AlertTells(c)
      BY <1>1, <2>2 DEF BillersInv, AlertsTell
    <3> QED
      BY <2>2, <3>1 DEF AlertTells, IsOpen, OpenAt
  <2> QED
    BY <2>1, <2>2 DEF CyclesTold, Told
<1> QED
  BY <1>1, BillersInvInit, BillersInvNext, PTL DEF BillersSpec

-----------------------------------------------------------------------------
(* Investments.                                                            *)

EditJobs == [kind : {"edit"}, row : Nat, old : Int, to : Int]
DebitJobs == [kind : {"debit"}, due : Int, maturity : Int, today : Int]

FundTypes ==
  /\ date \in Int
  /\ fund \in [auto : BOOLEAN, next : Int \cup {Unset}, maturity : Int, invested : Int]
  /\ payments \in Seq(Int)
  /\ doing \in [Hands -> {Free} \cup EditJobs \cup DebitJobs]
  /\ \A h \in Hands : doing[h].kind = "edit" => doing[h].row \in DOMAIN payments
  /\ stated \in Int
  /\ from \in Int \cup {Unset}

(* What a run has passed is posted, and it goes by the maturity that        *)
(* stands, unless the owner edited the debit meanwhile.                     *)
RunsInOrder ==
  ~overtaken =>
    \A h \in Hands : doing[h].kind = "debit" =>
      /\ doing[h].maturity = fund.maturity
      /\ from # Unset => from..(doing[h].due - 1) \subseteq contributed

InvestInv == FundTypes /\ RunsInOrder /\ InvestedInStep /\ DebitsAccounted

LEMMA PayedIs ==
  ASSUME NEW s \in Seq(Int)
  PROVE  Payed(s) = SumOver(s, 1..Len(s)) /\ Terms(s, 1..Len(s)) /\ Payed(s) \in Int /\ Len(s) \in Nat
<1>1. DOMAIN s = 1..Len(s) /\ Len(s) \in Nat
  OBVIOUS
<1>2. Payed(s) = SumOver(s, DOMAIN s)
  BY DEF Payed, SumOver
<1>3. Terms(s, 1..Len(s))
  BY <1>1, FS_Interval DEF Terms
<1> QED
  BY <1>1, <1>2, <1>3, TotalOf

LEMMA PayedMore ==
  ASSUME NEW s \in Seq(Int), NEW a \in Int
  PROVE  Append(s, a) \in Seq(Int) /\ Payed(Append(s, a)) = Payed(s) + a
<1> DEFINE t == Append(s, a)
           n == Len(s)
<1>1. t \in Seq(Int) /\ Len(t) = n + 1 /\ n \in Nat /\ t[n + 1] = a /\ \A k \in 1..n : t[k] = s[k]
  OBVIOUS
<1>2. 1..(n + 1) = (1..n) \cup {n + 1} /\ n + 1 \notin 1..n
  BY <1>1
<1> HIDE DEF t, n
<1>3. Payed(t) = SumOver(t, 1..(n + 1)) /\ Payed(s) = SumOver(s, 1..n) /\ Terms(s, 1..n) /\ Payed(s) \in Int
  <2>1. Payed(t) = SumOver(t, 1..Len(t)) /\ Payed(s) = SumOver(s, 1..Len(s)) /\ Terms(s, 1..Len(s)) /\ Payed(s) \in Int
    BY <1>1, PayedIs
  <2> QED
    BY <1>1, <2>1 DEF n
<1>4. Terms(t, 1..n)
  BY <1>1, <1>3 DEF Terms
<1>5. SumOver(t, 1..n) = SumOver(s, 1..n)
  BY <1>1, <1>3, TotalSame DEF Terms
<1>6. PICK m \in Nat : m = n + 1
  BY <1>1
<1>7. t[m] = a /\ m \notin 1..n /\ 1..m = (1..n) \cup {m} /\ Payed(t) = SumOver(t, 1..m)
  BY <1>1, <1>2, <1>3, <1>6
<1>8. SumOver(t, (1..n) \cup {m}) = SumOver(t, 1..n) + t[m]
  BY <1>4, <1>7, TotalMore
<1>9. Payed(t) = Payed(s) + a
  BY <1>3, <1>5, <1>7, <1>8, Zenon
<1> QED
  BY <1>1, <1>9 DEF t

LEMMA PayedEdited ==
  ASSUME NEW s \in Seq(Int), NEW k \in DOMAIN s, NEW a \in Int
  PROVE  /\ [s EXCEPT ![k] = a] \in Seq(Int)
         /\ DOMAIN [s EXCEPT ![k] = a] = DOMAIN s
         /\ Payed([s EXCEPT ![k] = a]) = Payed(s) + a - s[k]
<1> DEFINE t == [s EXCEPT ![k] = a]
<1>1. t \in Seq(Int) /\ Len(t) = Len(s) /\ DOMAIN t = DOMAIN s /\ k \in 1..Len(s) /\ t[k] = a /\ \A x \in 1..Len(s) : x # k => t[x] = s[x]
  OBVIOUS
<1> HIDE DEF t
<1>2. Payed(t) = SumOver(t, 1..Len(t)) /\ Payed(s) = SumOver(s, 1..Len(s)) /\ Terms(s, 1..Len(s))
  BY <1>1, PayedIs
<1>3. SumOver(t, 1..Len(s)) = SumOver(s, 1..Len(s)) + t[k] - s[k]
  <2> DEFINE S == 1..Len(s)
  <2>1. k \in S /\ Terms(s, S) /\ t[k] \in Int /\ \A x \in S : x # k => t[x] = s[x]
    BY <1>1, <1>2
  <2> HIDE DEF S
  <2>2. SumOver(t, S) = SumOver(s, S) + t[k] - s[k]
    BY <2>1, TotalChanged
  <2> QED
    BY <2>2 DEF S
<1>4. Payed(t) = Payed(s) + a - s[k]
  BY <1>1, <1>2, <1>3, Zenon
<1> QED
  BY <1>1, <1>4 DEF t

LEMMA InvestInvInit == InvestmentsInit => InvestInv
<1> SUFFICES ASSUME InvestmentsInit PROVE InvestInv
  OBVIOUS
<1>1. /\ date = 1 /\ payments = <<>> /\ contributed = {} /\ doing = [h \in Hands |-> Free]
      /\ stated = 0 /\ from = fund.next /\ ended = FALSE /\ fund \in Funds
  BY DEF InvestmentsInit, InvestmentsStart
<1>2. /\ fund \in [auto : BOOLEAN, next : Int \cup {Unset}, maturity : Int, invested : Int]
      /\ fund.invested = 0 /\ fund.next \in {2, Unset}
  <2>1. \A d \in Due : d \in Int
    BY InvestmentsAssumption DEF Due
  <2>2. fund \in [auto : {TRUE}, next : {2}, maturity : Due, invested : {0}]
        \/ fund \in [auto : {FALSE}, next : {Unset}, maturity : Due, invested : {0}]
    BY <1>1 DEF Funds
  <2>3. CASE fund \in [auto : {TRUE}, next : {2}, maturity : Due, invested : {0}]
    <3>1. PICK m \in Due : fund = [auto |-> TRUE, next |-> 2, maturity |-> m, invested |-> 0]
      BY <2>3
    <3> QED
      BY <2>1, <3>1
  <2>4. CASE fund \in [auto : {FALSE}, next : {Unset}, maturity : Due, invested : {0}]
    <3>1. PICK m \in Due : fund = [auto |-> FALSE, next |-> Unset, maturity |-> m, invested |-> 0]
      BY <2>4
    <3> QED
      BY <2>1, <3>1
  <2> QED
    BY <2>2, <2>3, <2>4
<1>3. \A h \in Hands : doing[h] = Free /\ Free.kind # "edit" /\ Free.kind # "debit"
  BY <1>1 DEF Free
<1>4. Payed(payments) = 0
  <2>1. Payed(payments) = SumOver(payments, 1..0) /\ Terms(payments, 1..0)
    <3>1. payments \in Seq(Int) /\ Len(payments) = 0
      BY <1>1
    <3> QED
      BY <3>1, PayedIs
  <2>2. 1..0 = {}
    OBVIOUS
  <2> QED
    BY <2>1, <2>2, TotalOf
<1>5. payments \in Seq(Int)
  BY <1>1
<1>6. FundTypes
  BY <1>1, <1>2, <1>3, <1>5 DEF FundTypes
<1>7. RunsInOrder
  BY <1>3 DEF RunsInOrder
<1>8. InvestedInStep
  BY <1>1, <1>2, <1>4 DEF InvestedInStep
<1>9. DebitsAccounted
  BY <1>1, <1>2 DEF DebitsAccounted
<1> QED
  BY <1>6, <1>7, <1>8, <1>9 DEF InvestInv

(* A payment enters, and the amount moves by it.                            *)
LEMMA PayKeeps ==
  ASSUME InvestInv, NEW a \in Int, Pay(a)
  PROVE  /\ payments' \in Seq(Int) /\ DOMAIN payments \subseteq DOMAIN payments'
         /\ fund' \in [auto : BOOLEAN, next : Int \cup {Unset}, maturity : Int, invested : Int]
         /\ fund'.next = fund.next /\ fund'.maturity = fund.maturity
         /\ UNCHANGED <<overlapped, stated>> => InvestedInStep'
<1>1. payments \in Seq(Int) /\ fund \in [auto : BOOLEAN, next : Int \cup {Unset}, maturity : Int, invested : Int] /\ stated \in Int
  BY DEF InvestInv, FundTypes
<1>2. payments' = Append(payments, a) /\ fund' = [fund EXCEPT !.invested = @ + a]
  BY DEF Pay
<1>3. payments' \in Seq(Int) /\ Payed(payments)' = Payed(payments) + a /\ Payed(payments) \in Int
  BY <1>1, <1>2, PayedMore, PayedIs
<1>4. DOMAIN payments \subseteq DOMAIN payments'
  BY <1>1, <1>2
<1>5. /\ fund' \in [auto : BOOLEAN, next : Int \cup {Unset}, maturity : Int, invested : Int]
      /\ fund'.next = fund.next /\ fund'.maturity = fund.maturity /\ fund'.invested = fund.invested + a
  <2>1. fund.invested + a \in Int
    BY <1>1
  <2> QED
    BY <1>1, <1>2, <2>1
<1>6. ASSUME UNCHANGED <<overlapped, stated>>
      PROVE  InvestedInStep'
  <2>1. overlapped = {} => fund.invested = stated + Payed(payments)
    BY DEF InvestInv, InvestedInStep
  <2>2. fund.invested \in Int
    BY <1>1
  <2> QED
    BY <1>1, <1>3, <1>5, <1>6, <2>1, <2>2 DEF InvestedInStep
<1> QED
  BY <1>3, <1>4, <1>5, <1>6

(* The owner edits the debit.                                               *)
LEMMA UpdateDebitKeeps ==
  ASSUME InvestInv, UpdateDebit
  PROVE  InvestInv'
<1>1. fund \in [auto : BOOLEAN, next : Int \cup {Unset}, maturity : Int, invested : Int]
  BY DEF InvestInv, FundTypes
<1>2. /\ fund' \in Settings /\ from' = fund'.next /\ ended' = FALSE
      /\ overtaken' = \E h \in Hands : doing[h].kind = "debit"
      /\ UNCHANGED <<date, payments, contributed, doing, stated, overlapped>>
  BY DEF UpdateDebit
<1>3. fund' \in [auto : BOOLEAN, next : Int \cup {Unset}, maturity : Int, invested : Int] /\ fund'.invested = fund.invested
  <2>1. \A d \in Due : d \in Int
    BY InvestmentsAssumption DEF Due
  <2>2. \/ \E d \in Due : fund' = [fund EXCEPT !.auto = TRUE, !.next = d]
        \/ fund' = [fund EXCEPT !.auto = FALSE, !.next = Unset]
        \/ \E d \in Due : fund' = [fund EXCEPT !.next = d]
        \/ \E d \in Due : fund' = [fund EXCEPT !.maturity = d]
    BY <1>2 DEF Settings
  <2>3. CASE \E d \in Due : fund' = [fund EXCEPT !.auto = TRUE, !.next = d]
    BY <1>1, <2>1, <2>3
  <2>4. CASE fund' = [fund EXCEPT !.auto = FALSE, !.next = Unset]
    BY <1>1, <2>4
  <2>5. CASE \E d \in Due : fund' = [fund EXCEPT !.next = d]
    BY <1>1, <2>1, <2>5
  <2>6. CASE \E d \in Due : fund' = [fund EXCEPT !.maturity = d]
    BY <1>1, <2>1, <2>6
  <2> QED
    BY <2>2, <2>3, <2>4, <2>5, <2>6
<1>4. FundTypes'
  BY <1>2, <1>3 DEF InvestInv, FundTypes
<1>5. RunsInOrder'
  BY <1>2 DEF RunsInOrder
<1>6. InvestedInStep'
  BY <1>2, <1>3 DEF InvestInv, InvestedInStep
<1>7. DebitsAccounted'
  <2>1. from' # Unset => from'..(fund'.next - 1) = {}
    BY <1>2, <1>3
  <2> QED
    BY <1>2, <2>1 DEF DebitsAccounted
<1> QED
  BY <1>4, <1>5, <1>6, <1>7 DEF InvestInv

(* One open request goes on; the amounts and the debit stay.                *)
LEMMA HandMoves ==
  ASSUME InvestInv, NEW h \in Hands, NEW job \in {Free} \cup EditJobs \cup DebitJobs,
         doing' = [doing EXCEPT ![h] = job],
         job.kind = "edit" => job.row \in DOMAIN payments,
         job.kind = "debit" /\ ~overtaken =>
           /\ job.maturity = fund.maturity
           /\ from # Unset => from..(job.due - 1) \subseteq contributed,
         UNCHANGED <<date, fund, payments, contributed, stated, overlapped, from, ended, overtaken>>
  PROVE  InvestInv'
<1>1. doing' \in [Hands -> {Free} \cup EditJobs \cup DebitJobs]
  BY DEF InvestInv, FundTypes
<1>2. \A i \in Hands : doing'[i] = IF i = h THEN job ELSE doing[i]
  BY DEF InvestInv, FundTypes
<1>3. FundTypes'
  BY <1>1, <1>2 DEF InvestInv, FundTypes
<1>4. RunsInOrder'
  BY <1>2 DEF InvestInv, RunsInOrder
<1>5. InvestedInStep' /\ DebitsAccounted'
  BY DEF InvestInv, InvestedInStep, DebitsAccounted
<1> QED
  BY <1>3, <1>4, <1>5 DEF InvestInv

LEMMA InvestInvNext == InvestInv /\ [InvestmentsNext]_investmentVars => InvestInv'
<1> SUFFICES ASSUME InvestInv, [InvestmentsNext]_investmentVars PROVE InvestInv'
  OBVIOUS
<1>0. /\ date \in Int /\ stated \in Int /\ from \in Int \cup {Unset} /\ payments \in Seq(Int)
      /\ fund \in [auto : BOOLEAN, next : Int \cup {Unset}, maturity : Int, invested : Int]
      /\ doing \in [Hands -> {Free} \cup EditJobs \cup DebitJobs]
      /\ \A h \in Hands : doing[h].kind = "edit" => doing[h].row \in DOMAIN payments
  BY DEF InvestInv, FundTypes
<1>f. Free.kind = "free"
  BY DEF Free
<1>k. /\ \A job \in EditJobs : job.kind = "edit" /\ job.row \in Nat /\ job.old \in Int /\ job.to \in Int
      /\ \A job \in DebitJobs : job.kind = "debit" /\ job.due \in Int /\ job.maturity \in Int /\ job.today \in Int
  BY DEF EditJobs, DebitJobs
<1>1. CASE PayIn
  <2>1. PICK a \in 1..MaxPayment : Pay(a)
    BY <1>1 DEF PayIn
  <2>2. UNCHANGED <<date, stated, from, contributed, doing, overlapped, ended, overtaken>>
    BY <1>1 DEF PayIn, Untouched
  <2>3. a \in Int
    BY InvestmentsAssumption
  <2>4. /\ payments' \in Seq(Int) /\ DOMAIN payments \subseteq DOMAIN payments'
        /\ fund' \in [auto : BOOLEAN, next : Int \cup {Unset}, maturity : Int, invested : Int]
        /\ fund'.next = fund.next /\ fund'.maturity = fund.maturity /\ InvestedInStep'
    BY <2>1, <2>2, <2>3, PayKeeps
  <2>5. FundTypes'
    BY <1>0, <2>2, <2>4 DEF FundTypes
  <2>6. RunsInOrder'
    BY <2>2, <2>4 DEF InvestInv, RunsInOrder
  <2>7. DebitsAccounted'
    BY <2>2, <2>4 DEF InvestInv, DebitsAccounted
  <2> QED
    BY <2>4, <2>5, <2>6, <2>7 DEF InvestInv
<1>2. CASE UpdateDebit
  BY <1>2, UpdateDebitKeeps
<1>3. CASE SetInvested
  <2>1. PICK amount \in 0..MaxPayment : fund' = [fund EXCEPT !.invested = amount] /\ stated' = amount - Payed(payments)
    BY <1>3 DEF SetInvested
  <2>2. UNCHANGED <<date, payments, contributed, doing, overlapped, from, ended, overtaken>>
    BY <1>3 DEF SetInvested
  <2>3. amount \in Int /\ Payed(payments) \in Int
    BY <1>0, PayedIs, InvestmentsAssumption
  <2>4. /\ fund' \in [auto : BOOLEAN, next : Int \cup {Unset}, maturity : Int, invested : Int]
        /\ fund'.next = fund.next /\ fund'.maturity = fund.maturity /\ fund'.invested = amount
    BY <1>0, <2>1, <2>3
  <2>5. FundTypes'
    BY <1>0, <2>1, <2>2, <2>3, <2>4 DEF FundTypes
  <2>6. RunsInOrder' /\ DebitsAccounted'
    BY <2>2, <2>4 DEF InvestInv, RunsInOrder, DebitsAccounted
  <2>7. InvestedInStep'
    BY <2>1, <2>2, <2>3, <2>4 DEF InvestedInStep
  <2> QED
    BY <2>5, <2>6, <2>7 DEF InvestInv
<1>4. CASE NextCycle
  <2>1. date' \in Int /\ UNCHANGED <<fund, payments, contributed, doing, stated, overlapped, from, ended, overtaken>>
    BY <1>0, <1>4 DEF NextCycle
  <2> QED
    BY <2>1 DEF InvestInv, FundTypes, RunsInOrder, InvestedInStep, DebitsAccounted
<1>5. ASSUME NEW h \in Hands, ReadPayment(h)
      PROVE  InvestInv'
  <2>1. PICK k \in DOMAIN payments, to \in 0..MaxPayment :
          doing' = [doing EXCEPT ![h] = [kind |-> "edit", row |-> k, old |-> payments[k], to |-> to]]
    BY <1>5 DEF ReadPayment, Begins
  <2>2. UNCHANGED <<date, fund, payments, contributed, stated, overlapped, from, ended, overtaken>>
    BY <1>5 DEF ReadPayment, Untouched
  <2> DEFINE job == [kind |-> "edit", row |-> k, old |-> payments[k], to |-> to]
  <2>3. job \in EditJobs /\ job.kind = "edit" /\ job.row = k
    BY <1>0, InvestmentsAssumption DEF EditJobs
  <2>4. doing' = [doing EXCEPT ![h] = job]
    BY <2>1
  <2> HIDE DEF job
  <2> QED
    BY <2>2, <2>3, <2>4, HandMoves
<1>6. ASSUME NEW h \in Hands, FollowEdit(h)
      PROVE  InvestInv'
  <2> DEFINE k == doing[h].row
             new == IF payments[k] = 0 THEN 0 ELSE doing[h].to
  <2>1. doing[h] \in EditJobs /\ k \in DOMAIN payments
    BY <1>0, <1>f, <1>k, <1>6 DEF FollowEdit
  <2>2. /\ payments' = [payments EXCEPT ![k] = new]
        /\ fund' = [fund EXCEPT !.invested = @ + new - doing[h].old]
        /\ overlapped' = IF payments[k] # doing[h].old THEN overlapped \cup {k} ELSE overlapped
        /\ doing' = [doing EXCEPT ![h] = Free]
        /\ UNCHANGED <<date, stated, from, contributed, ended, overtaken>>
    BY <1>6 DEF FollowEdit, Frees, Untouched
  <2>3. PICK old \in Int, to \in Int : old = doing[h].old /\ to = new
    BY <1>k, <2>1
  <2> HIDE DEF k, new
  <2>4. payments' \in Seq(Int) /\ DOMAIN payments' = DOMAIN payments
    BY <1>0, <2>1, <2>2, <2>3, PayedEdited
  <2>5. Payed(payments') = Payed(payments) + to - payments[k] /\ Payed(payments) \in Int
    BY <1>0, <2>1, <2>2, <2>3, PayedEdited, PayedIs
  <2>6. /\ fund' \in [auto : BOOLEAN, next : Int \cup {Unset}, maturity : Int, invested : Int]
        /\ fund'.next = fund.next /\ fund'.maturity = fund.maturity /\ fund'.invested = fund.invested + to - old
        /\ fund.invested \in Int
    <3>1. fund' = [fund EXCEPT !.invested = @ + to - old] /\ fund.invested + to - old \in Int
      BY <1>0, <2>2, <2>3
    <3> QED
      BY <1>0, <3>1
  <2>7. doing' \in [Hands -> {Free} \cup EditJobs \cup DebitJobs] /\ \A i \in Hands : doing'[i] = IF i = h THEN Free ELSE doing[i]
    BY <1>0, <2>2
  <2>8. FundTypes'
    BY <1>0, <1>f, <2>2, <2>4, <2>6, <2>7 DEF FundTypes
  <2>9. RunsInOrder' /\ DebitsAccounted'
    BY <1>f, <2>2, <2>6, <2>7 DEF InvestInv, RunsInOrder, DebitsAccounted
  <2>10. ASSUME overlapped' = {}
         PROVE  fund'.invested = stated' + Payed(payments')
    <3>1. overlapped = {} /\ payments[k] = old
      BY <2>2, <2>3, <2>10
    <3>2. fund.invested = stated + Payed(payments) /\ stated' = stated /\ stated \in Int
      BY <1>0, <2>2, <3>1 DEF InvestInv, InvestedInStep
    <3> QED
      BY <2>3, <2>5, <2>6, <3>1, <3>2
  <2> QED
    BY <2>8, <2>9, <2>10 DEF InvestInv, InvestedInStep
<1>7. ASSUME NEW h \in Hands, StartDebits(h)
      PROVE  InvestInv'
  <2> DEFINE job == [kind |-> "debit", due |-> fund.next, maturity |-> fund.maturity, today |-> date]
  <2>1. doing' = [doing EXCEPT ![h] = job] /\ fund.next # Unset
    BY <1>7 DEF StartDebits, Begins
  <2>2. UNCHANGED <<date, fund, payments, contributed, stated, overlapped, from, ended, overtaken>>
    BY <1>7 DEF StartDebits, Untouched
  <2>3. job \in DebitJobs
    BY <1>0, <2>1 DEF DebitJobs
  <2>4. job.kind = "debit" /\ job.due = fund.next /\ job.maturity = fund.maturity
    OBVIOUS
  <2> HIDE DEF job
  <2>5. ~overtaken /\ from # Unset => from..(job.due - 1) \subseteq contributed
    BY <2>1, <2>4 DEF InvestInv, DebitsAccounted
  <2> QED
    BY <2>1, <2>2, <2>3, <2>4, <2>5, HandMoves
<1>8. ASSUME NEW h \in Hands, PostDebit(h)
      PROVE  InvestInv'
  <2>1. doing[h] \in DebitJobs /\ doing[h].due \in Int
    BY <1>0, <1>f, <1>k, <1>8 DEF PostDebit
  <2> DEFINE job == [doing[h] EXCEPT !.due = @ + 1]
  <2>2. /\ contributed' = contributed \cup {doing[h].due}
        /\ UNCHANGED <<date, stated, from, overlapped, ended, overtaken>>
        /\ \/ UNCHANGED <<fund, payments>>
           \/ Pay(Instalment)
    BY <1>8 DEF PostDebit, Untouched
  <2>3. doing' = [doing EXCEPT ![h] = job]
    BY <1>0, <1>8 DEF PostDebit
  <2>4. job \in DebitJobs /\ job.kind = "debit" /\ job.due = doing[h].due + 1 /\ job.maturity = doing[h].maturity
    BY <2>1 DEF DebitJobs
  <2> HIDE DEF job
  <2>5. /\ payments' \in Seq(Int) /\ DOMAIN payments \subseteq DOMAIN payments'
        /\ fund' \in [auto : BOOLEAN, next : Int \cup {Unset}, maturity : Int, invested : Int]
        /\ fund'.next = fund.next /\ fund'.maturity = fund.maturity /\ InvestedInStep'
    <3>1. CASE UNCHANGED <<fund, payments>>
      BY <1>0, <2>2, <3>1 DEF InvestInv, InvestedInStep
    <3>2. CASE Pay(Instalment)
      <4>1. Instalment \in Int
        BY DEF Instalment
      <4> QED
        BY <2>2, <3>2, <4>1, PayKeeps
    <3> QED
      BY <2>2, <3>1, <3>2
  <2>6. doing' \in [Hands -> {Free} \cup EditJobs \cup DebitJobs] /\ \A i \in Hands : doing'[i] = IF i = h THEN job ELSE doing[i]
    BY <1>0, <2>3, <2>4
  <2>7. FundTypes'
    BY <1>0, <2>2, <2>4, <2>5, <2>6 DEF FundTypes
  <2>8. ASSUME ~overtaken', NEW i \in Hands, doing'[i].kind = "debit"
        PROVE  /\ doing'[i].maturity = fund'.maturity
               /\ from' # Unset => from'..(doing'[i].due - 1) \subseteq contributed'
    <3>1. /\ doing[i].kind = "debit" /\ doing'[i].maturity = doing[i].maturity
          /\ doing[h].kind = "debit"
      BY <1>k, <2>1, <2>4, <2>6, <2>8
    <3>2. /\ doing[i].maturity = fund.maturity
          /\ from # Unset => from..(doing[i].due - 1) \subseteq contributed
          /\ from # Unset => from..(doing[h].due - 1) \subseteq contributed
      BY <2>2, <2>8, <3>1 DEF InvestInv, RunsInOrder
    <3>3. ASSUME from # Unset, NEW d \in from..(doing'[i].due - 1)
          PROVE  d \in contributed'
      <4>1. from \in Int
        BY <1>0, <3>3
      <4>2. CASE i = h
        <5>1. d \in from..(doing[h].due - 1) \/ d = doing[h].due
          BY <2>1, <2>4, <2>6, <3>3, <4>1, <4>2
        <5> QED
          BY <2>2, <3>2, <3>3, <5>1
      <4>3. CASE i # h
        BY <2>2, <2>6, <3>2, <3>3, <4>3
      <4> QED
        BY <4>2, <4>3
    <3> QED
      BY <2>2, <2>5, <3>1, <3>2, <3>3
  <2>9. RunsInOrder'
    BY <2>8 DEF RunsInOrder
  <2>10. DebitsAccounted'
    BY <2>2, <2>5 DEF InvestInv, DebitsAccounted
  <2> QED
    BY <2>5, <2>7, <2>9, <2>10 DEF InvestInv
<1>9. ASSUME NEW h \in Hands, EndDebits(h)
      PROVE  InvestInv'
  <2>1. doing[h] \in DebitJobs /\ doing[h].due \in Int /\ doing[h].maturity \in Int /\ doing[h].kind = "debit"
    BY <1>0, <1>f, <1>k, <1>9 DEF EndDebits
  <2>2. /\ fund' = IF doing[h].due >= doing[h].maturity THEN [fund EXCEPT !.auto = FALSE, !.next = Unset]
                   ELSE [fund EXCEPT !.next = doing[h].due]
        /\ ended' = (doing[h].due >= doing[h].maturity)
        /\ doing' = [doing EXCEPT ![h] = Free]
        /\ UNCHANGED <<date, stated, from, payments, contributed, overlapped, overtaken>>
    BY <1>9 DEF EndDebits, Frees, Untouched
  <2>3. /\ fund' \in [auto : BOOLEAN, next : Int \cup {Unset}, maturity : Int, invested : Int]
        /\ fund'.maturity = fund.maturity /\ fund'.invested = fund.invested
    BY <1>0, <2>1, <2>2
  <2>4. IF doing[h].due >= doing[h].maturity THEN fund'.next = Unset /\ ended' ELSE fund'.next = doing[h].due /\ ~ended'
    BY <1>0, <2>1, <2>2
  <2>5. doing' \in [Hands -> {Free} \cup EditJobs \cup DebitJobs] /\ \A i \in Hands : doing'[i] = IF i = h THEN Free ELSE doing[i]
    BY <1>0, <2>2
  <2>6. FundTypes'
    BY <1>0, <1>f, <2>2, <2>3, <2>5 DEF FundTypes
  <2>7. RunsInOrder'
    BY <1>f, <2>2, <2>3, <2>5 DEF InvestInv, RunsInOrder
  <2>8. InvestedInStep'
    BY <2>2, <2>3 DEF InvestInv, InvestedInStep
  <2>9. ASSUME ~overtaken', from' # Unset
        PROVE  /\ fund'.next # Unset => from'..(fund'.next - 1) \subseteq contributed'
               /\ ended' => from'..(fund'.maturity - 1) \subseteq contributed'
    <3>1. from \in Int /\ from' = from /\ contributed' = contributed /\ from # Unset
      BY <1>0, <2>2, <2>9
    <3>2. doing[h].maturity = fund.maturity /\ from..(doing[h].due - 1) \subseteq contributed
      BY <2>1, <2>2, <2>9, <3>1 DEF InvestInv, RunsInOrder
    <3>3. CASE doing[h].due >= doing[h].maturity
      <4>1. from..(doing[h].maturity - 1) \subseteq from..(doing[h].due - 1)
        BY <2>1, <3>1, <3>3
      <4>2. fund'.next = Unset
        BY <2>4, <3>3
      <4> QED
        BY <2>3, <3>1, <3>2, <4>1, <4>2
    <3>4. CASE ~ (doing[h].due >= doing[h].maturity)
      BY <2>4, <3>1, <3>2, <3>4
    <3> QED
      BY <3>3, <3>4
  <2> QED
    BY <2>6, <2>7, <2>8, <2>9 DEF InvestInv, DebitsAccounted
<1>10. ASSUME NEW h \in Hands, GiveUp(h)
       PROVE  InvestInv'
  <2>1. doing' = [doing EXCEPT ![h] = Free] /\ UNCHANGED <<date, fund, payments, contributed, stated, overlapped, from, ended, overtaken>>
    BY <1>10 DEF GiveUp, Frees, Untouched
  <2>2. Free \in {Free} \cup EditJobs \cup DebitJobs /\ Free.kind # "edit" /\ Free.kind # "debit"
    BY <1>f
  <2> QED
    BY <2>1, <2>2, HandMoves
<1>11. CASE UNCHANGED investmentVars
  BY <1>11 DEF investmentVars, InvestInv, FundTypes, RunsInOrder, InvestedInStep, DebitsAccounted
<1> QED
  BY <1>1, <1>2, <1>3, <1>4, <1>5, <1>6, <1>7, <1>8, <1>9, <1>10, <1>11 DEF InvestmentsNext

(* However payments, edits, corrections and runs of the job overlap, the    *)
(* invested amount is what its owner stated plus the payments since, and no *)
(* instalment is left out, but for what two requests edited at once or the  *)
(* owner changed under a run: InvestedAddsUp.                               *)
THEOREM InvestmentAddsUp == InvestmentsSpec => []InvestedAddsUp
<1>1. InvestInv => InvestedAddsUp
  BY DEF InvestInv, InvestedAddsUp
<1> QED
  BY <1>1, InvestInvInit, InvestInvNext, PTL DEF InvestmentsSpec
=============================================================================
